SPECIFICATION Spec
CONSTANTS
  N = 3
  MaxCommands = 3
  MaxLate = 1
INVARIANTS
  ReadyMeansWhole
  FailureLeavesClean
  DownMeansEmpty
CHECK_DEADLOCK FALSE
