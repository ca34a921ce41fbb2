SPECIFICATION Spec
CONSTANTS
  city = city
  note = note
  Slots <- TwoSlots
  Runbooks <- GatedRunbooks
  Supplies <- AllSupplies
  HasGate = TRUE
  Upstream = TRUE
INVARIANTS EffectsInOrder IrreversibleWasApproved AuditIsTrue
PROPERTIES ReplaySpec
CHECK_DEADLOCK FALSE
