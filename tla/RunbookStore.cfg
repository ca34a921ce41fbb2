SPECIFICATION LiveSpec
CONSTANTS
  a1 = a1
  a2 = a2
  anon = anon
  idA = idA
  none = none
  Procs = {p1, p2}
  Runbooks <- ThreeRunbooks
  Identity <- ThreeIdentities
  NoIdentity = none
  Initial <- Starts
  FreshStarts = TRUE
  PowerFails = TRUE
  MaxOps = 3
INVARIANTS AcknowledgedIsDurable
PROPERTIES SkillsSpec EveryOperationEnds
CHECK_DEADLOCK FALSE
