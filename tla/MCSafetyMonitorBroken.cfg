SPECIFICATION Spec
CONSTANTS
  RepeatTol = 1
  Levels <- RailsAndSensors
  Boards <- Board012
PROPERTIES EnabledChecksRun
