SPECIFICATION FairSpec
CONSTANTS
  c1 = c1
  c2 = c2
  k1 = k1
  k2 = k2
  v1 = v1
  Absent = Absent
  NoThread = NoThread
  Clients <- TwoClients
  Keys <- TwoKeys
  ClearedKeys <- TwoKeys
  Values <- OneValue
  MaxCalls = 3
  MaxFailures = 1
INVARIANTS
  AsyncInOrder
PROPERTIES
  KeepsPromise
  CallsReturn
  NextPushDrains
CHECK_DEADLOCK FALSE
