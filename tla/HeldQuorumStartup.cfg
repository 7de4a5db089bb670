SPECIFICATION Spec
CONSTANTS
  Rank = {0}
  Digest = {1, 2}
  Batch = 2
  History = 2
  PendingLimit = 1
  RetiredLimit = 1
  Startup = 1
  Settled = TRUE
  MaxSequence <- MCMaxSequence
  MaxCycle <- MCMaxCycle
PROPERTIES
  EntriesReported
CHECK_DEADLOCK FALSE
