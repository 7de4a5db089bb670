CONSTANTS
  a = a
  b = b
  c = c
  d = d
  Req = {a, b, c, d}
  Prompt <- MCPrompt
  MaxTokens <- MCMaxTokens
  Hit <- MCHit
  Publication <- MCPublication
  Structured = {d}
  Budget = 4
  Configured = 6
  DraftSlots = 1
  MaxRunning = 3
  Interval = 3
  Short = 2
  WhenQueued = TRUE
  EndDrain = TRUE
  Drafts <- MCDrafts
  KLo = 1
  KHi = 2
  Block = 2
  Capacity = 10
  Coalesce = TRUE
  Abortable = {b}
SPECIFICATION Spec
INVARIANTS
  TypeOK
  QueuedOnce
  PlaceholdersBacked
  DeferralNeverEmpty
  NoStepPastLengthFinish
  ResultAwaited
  RingCoversResults
PROPERTIES
  LineKeepsOrder
CHECK_DEADLOCK FALSE
