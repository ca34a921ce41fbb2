SPECIFICATION Spec
CONSTANTS
  Jobs = {j1, j2}
  Cancellers = {k1, k2}
  Closers = {c1, c2}
  CancelPending = {c1}
  AbortableClosers = {c2}
  EarlyCancel = TRUE
  CallersWait = TRUE
  TemplateMayRaise = TRUE
SYMMETRY JobSymmetry
INVARIANTS CloseLeavesNothing SucceededWasHeard
PROPERTIES TerminalLostOnlyByEarlyCancel CancelledIsNotAnnounced
CHECK_DEADLOCK FALSE
