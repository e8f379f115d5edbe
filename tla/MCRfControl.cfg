\* Resets from outside at any point.
SPECIFICATION Spec
CONSTANTS
  Msgs <- AllBranches
  ConductCounts <- EdgesAndMiddle
  ExternalReset = TRUE
  Unset = Unset
INVARIANTS
  TypeOK
  PaGateBounded
  LnaProtected
  DriveGoesToAntenna
  DrivenOutputsAreProgrammed
  ModeMatchesHardware
  DacOutputFollowsTx
  CalibrationSound
PROPERTIES
  NoHotSwitching
  ImplementsInterlock
