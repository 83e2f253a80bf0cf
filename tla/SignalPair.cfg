SPECIFICATION FairSpec
CONSTANTS
  t1 = t1
  t2 = t2
  NoThread = NoThread
  NoSnapshot = NoSnapshot
  Threads <- MCPair
  OpsOf <- MCPairOps
  CallbackOps <- MCNoOps
  Requests <- MCPairRequests
  Groups <- MCGroups
  Policies <- MCContinue
  MayPanic = FALSE
  MaxId = 2
  MaxEmits = 2
  Direct = 1
  SnapshotMax = 2
  StatsInterval = 2
INVARIANTS
  HoldersNeverWait
  FlagsMatchSlots
  OnceRetired
PROPERTIES
  DeadNeverRuns
  DirectDelivers
  ImplementsContract
  OperationsReturn
CHECK_DEADLOCK FALSE
