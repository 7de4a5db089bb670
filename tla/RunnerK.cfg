CONSTANTS
  p = p
  q = q
  one = one
  Peers = {one}
  Req = {p, q}
  KLo = 1
  KHi = 2
  Shapes <- MCShapes
  Slots = 2
  Remembered = 2
  MaxSteps = 4
  MaxFlips = 1
SPECIFICATION FairSpec
INVARIANTS
  Agreement
  RightConfidence
PROPERTIES
  EveryStepRuns
CHECK_DEADLOCK FALSE
