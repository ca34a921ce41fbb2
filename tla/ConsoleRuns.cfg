SPECIFICATION FairSpec
CONSTANTS
  table = table
  dinner = dinner
  lunch = lunch
  bundled = bundled
  Requests = {table, dinner, lunch}
  captured = captured
  Bundled = bundled
  Captured = captured
  Nothing = nothing
  Covers <- MCCovers
  Capacity = 2
INVARIANTS
  CapacityKept
  SucceededIsShown
PROPERTIES
  OverLearnsNothing
  EveryRequestEnds
CHECK_DEADLOCK FALSE
