\* Two jobs on up to two nodes, two models.
CONSTANTS
  Jobs = {j1, j2}
  Nodes = {n1, n2}
  Models = {m1, m2}
  NoJob = NoJob
SPECIFICATION FairSpec
INVARIANTS
  TypeOK
  AloneIsTrue
  OtherModelOnlyAfterTheCheckedOne
PROPERTIES
  ServerFollowsJob
  JobsEnd
CHECK_DEADLOCK FALSE
