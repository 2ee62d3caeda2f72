SPECIFICATION FairSpec
CONSTANTS
  Routes = 2
  Parts = 2
  Size <- MixedSize
  MaxLogBytes = 2
  KeepBudgetBytes = 1
  KeepSpan = 0
  PreserveCount = 1
  PreservePrior = 1
  MaxIncidents = 2
  MaxRequests = 1
  MaxFaults = 1
INVARIANTS
  IncidentCovered
PROPERTIES
  OldestFirst
  KeptOutlast
  SpaceRecovers
CHECK_DEADLOCK FALSE
