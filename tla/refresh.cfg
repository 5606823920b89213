SPECIFICATION Spec
CONSTANTS
  Region <- ZoneRegions
  TheProject = "cit"
  ConfigOf <- TheConfigs
  Edits <- SomeEdits
  Filters <- SomeFilters
  MaxSteps = 3
  MaxEdits = 1
  MaxResumes = 2
CHECK_DEADLOCK FALSE
INVARIANTS
  NeverStuck
  TierIsASlice
  StatusAgrees
PROPERTIES
  HistoryKept
