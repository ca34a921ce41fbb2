SPECIFICATION BranchSpec
CONSTANTS
  MaxBudget = 4
INVARIANTS
  RequestsAreWellFormed
  EndIsExplained
PROPERTIES
  EveryBranchReports
CHECK_DEADLOCK FALSE
