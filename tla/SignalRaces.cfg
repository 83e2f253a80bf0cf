SPECIFICATION Spec
CONSTANTS
  t1 = t1
  t2 = t2
  NoThread = NoThread
  NoSnapshot = NoSnapshot
  Threads <- MCPair
  OpsOf <- MCPairOps
  CallbackOps <- MCNoOps
  Requests <- MCPairRequests
  Groups <- MCGroups
  Policies <- MCContinue
  MayPanic = FALSE
  MaxId = 2
  MaxEmits = 3
  Direct = 0
  SnapshotMax = 1
  StatsInterval = 2
INVARIANTS
  MissedAtMostOnce
  OnceNeverRunsAgain
  StatsAligned
CHECK_DEADLOCK FALSE
