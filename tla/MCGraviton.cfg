\* No reset from outside, and amplifiers that never conduct: the longest boot.
SPECIFICATION GravitonSpec
CONSTANTS
  Msgs <- ModeCommands
  ConductCounts <- NoCode
  ExternalReset = FALSE
  Unset = Unset
  RepeatTol = 1
  Levels <- Heat
  Boards <- OneItemOff
  Suspects <- TxPreamp
INVARIANTS
  FewCommandsUnderFault
  SafeWhenUnsupervised
PROPERTIES
  FaultMakesRadioSafe
  TripLeadsToReset
  BootEnds
