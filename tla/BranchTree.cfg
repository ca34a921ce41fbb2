SPECIFICATION LiveSpec
CONSTANTS
  Width = 2
  MaxDepth = 2
  MaxBranches = 6
  MaxCancels = 2
  Faults = TRUE
  AgentsOutlive = TRUE
INVARIANTS
  OnlyExcusedLeaks
  LessonIsCheckpointPath
PROPERTY EverySearchEnds
CHECK_DEADLOCK FALSE
