SPECIFICATION LoopSpec
CONSTANTS
  Jobs = {j1, j2}
  Cancellers = {k1}
  Closers = {c1, c2}
  CancelPending = {c1}
  AbortableClosers = {}
  EarlyCancel = FALSE
  CallersWait = TRUE
  TemplateMayRaise = FALSE
PROPERTIES LifecycleSpec EveryJobEnds EveryCloseReturns
CHECK_DEADLOCK FALSE
