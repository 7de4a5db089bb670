CONSTANTS
  a = a
  b = b
  c = c
  d = d
  Req = {a, b, d}
  Prompt <- MCPrompt
  MaxTokens <- MCMaxTokens
  Hit <- MCHit
  Publication <- MCPublication
  Structured = {d}
  Budget = 4
  Configured = 6
  DraftSlots = 1
  MaxRunning = 2
  Interval = 3
  Short = 2
  WhenQueued = FALSE
  EndDrain = TRUE
  Drafts <- MCFewDrafts
  KLo = 1
  KHi = 2
  Block = 2
  Capacity = 10
  Coalesce = TRUE
  Abortable = {b}
SPECIFICATION FairSpec
PROPERTIES
  EveryRequestEnds
CHECK_DEADLOCK FALSE
