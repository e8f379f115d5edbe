SPECIFICATION Spec
CONSTANTS
  RepeatTol = 2
  Levels <- RailsAndSensors
  Boards <- AllBoards
INVARIANTS TypeOK SoftLowIsBounded DetectedWithinOneSweep
PROPERTIES NoFalseTrip
