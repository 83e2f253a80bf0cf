CONSTANT
  Compilations <- MCCompilations
  WarmingThreshold = 3
  MinBatchLength = 5
  MaxTraceLength = 16
  MaxTraces = 2
  SmallCap = 2
  MinCapacity = 4
  LoadNum = 1
  LoadDen = 2
  KeyHash <- MCKeyHash
SPECIFICATION Spec
INVARIANTS ParsedAsWritten CodeKeepsMeaning NoStaleRead
PROPERTY Terminates
