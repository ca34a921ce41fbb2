SPECIFICATION FairSpec
CONSTANTS
  table = table
  dinner = dinner
  Sessions = {s1, s2}
  Utterances = {table, dinner}
  Nothing = nothing
  Covers <- MCCovers
  Questions = 2
  MaxAttempts = 2
  Jobs = {j1}
INVARIANTS
  AnnouncedIsReplayed
PROPERTIES
  JobsSpec
  EveryJobEnds
  QuitEnds
CHECK_DEADLOCK FALSE
