SPECIFICATION Spec
CONSTANTS
  r1 = r1
  r2 = r2
  r3 = r3
  r4 = r4
  Req <- Four
  MaxActive = 2
  MaxQueued = 1
  MaxBody = 1
  Counted <- Ledger
SYMMETRY FourAlike
INVARIANTS
  TypeOK
  SlotsConserved
  GaugesExact
  NoLostWakeup
  OneResponseStart
  BodyStorageBounded
