SPECIFICATION Spec
CONSTANTS
  fn1 = fn1
  fn0 = fn0
  big = big
  lib = lib
  main = main
  Main = main
  Closures <- MCClosures
  Modules <- MCModules
  Argc <- MCArgc
  Locals <- MCLocals
  Vals = {0}
  Nil = 0
  Capacity = 5
  LowWatermark = 1
  SpillBatch = 3
  RingSize = 3
  MaxStack = 10
  MaxIp = 2
  RegCap = 3
  LeftCap = 0
INVARIANTS TypeOK HalvesInStep TrampolinesAtBottom TraceBasesRight WindowHeld
