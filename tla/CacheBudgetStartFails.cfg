SPECIFICATION Spec
CONSTANTS
  r1 = r1
  r2 = r2
  r3 = r3
  r4 = r4
  a1 = a1
  a2 = a2
  a3 = a3
  l1 = l1
  l2 = l2
  NoRes = NoRes
  NoAddr = NoAddr
  Res <- Tickets
  Peak <- Peaks
  Addr <- Addresses
  Loader <- OneLoader
  MaxBytes = 3
  MinAvailable = 1
  Readings <- MemInfo
  MaxPlans = 3
  StartMayFail = TRUE
INVARIANTS
  SaverSurvives
