SPECIFICATION Spec
CONSTANTS
  t1 = t1
  t2 = t2
  NoThread = NoThread
  NoSnapshot = NoSnapshot
  Threads <- MCSoloThreads
  OpsOf <- MCSoloOps
  CallbackOps <- MCAllOps
  Requests <- MCSoloRequests
  Groups <- MCGroups
  Policies <- MCPolicies
  MayPanic = TRUE
  MaxId = 3
  MaxEmits = 2
  Direct = 1
  SnapshotMax = 2
  StatsInterval = 1
INVARIANTS
  EmittingGuard
  RunsInOrder
  OnceNeverRunsAgain
PROPERTIES
  EmitDelivers
CHECK_DEADLOCK FALSE
