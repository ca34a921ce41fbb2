SPECIFICATION Spec
CONSTANTS
  city = city
  note = note
  Slots <- TwoSlots
  Runbooks <- GatedRunbooks
  Supplies <- AllSupplies
  HasGate = TRUE
  Upstream = TRUE
INVARIANT UnsuccessfulMeansNothingBooked
CHECK_DEADLOCK FALSE
