SPECIFICATION Spec
CONSTANTS
  MaxSteps = 2
  Faults = TRUE
INVARIANTS
  NothingInherited
  DoneMeansWhole
PROPERTIES
  EvidenceSurvives
  EveryLaunchEnds
CHECK_DEADLOCK FALSE
