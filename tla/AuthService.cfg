SPECIFICATION Spec
CONSTANTS
  Calls = {c1, c2, c3}
  MaxCrashes = 1
  Nothing = Nothing
  Torn = Torn
INVARIANTS
  AcknowledgedIsKept
  RefusalIsEarned
PROPERTIES
  EveryCallEnds
CHECK_DEADLOCK FALSE
