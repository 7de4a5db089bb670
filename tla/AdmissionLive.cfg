SPECIFICATION FairSpec
CONSTANTS
  r1 = r1
  r2 = r2
  r3 = r3
  r4 = r4
  Req <- Three
  MaxActive = 1
  MaxQueued = 2
  MaxBody = 1
  Counted <- Ledger
PROPERTIES
  ImplementsSlotQueue
  EveryCallEnds
