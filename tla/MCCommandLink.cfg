\* slow overflows after two periods and a part, as 2^31 - 1 does after many:
\* the gap over the overflow is shorter than a period.
SPECIFICATION Spec
CONSTANTS
  Msgs <- Commands
  None = None
  Period = 5
  IntMax = 11
  Reports = 2
INVARIANTS TypeOK AliveInTime
PROPERTIES ImplementsChannel CommandsAreAnswered DacFollowsEcho ChecksNotStarved
