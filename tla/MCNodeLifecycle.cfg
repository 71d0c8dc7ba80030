SPECIFICATION FairSpec
CONSTANT
  MaxQuits = 2
INVARIANTS
  RunsOnNode
  StopsLiveNode
  EndsClean
PROPERTY
  WaitsEnd
CHECK_DEADLOCK FALSE
