SPECIFICATION Spec
CONSTANTS
  Rank = {0, 1}
  Digest = {1, 2}
  Batch = 1
  History = 2
  PendingLimit = 1
  RetiredLimit = 1
  Startup = 2
  Settled = TRUE
  MaxSequence <- MCMaxSequence
  MaxCycle <- MCMaxCycle
INVARIANTS
  BeliefAsReported
  ConfirmationsCurrent
PROPERTIES
  NeverBack
CHECK_DEADLOCK FALSE
