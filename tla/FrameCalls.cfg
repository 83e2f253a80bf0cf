SPECIFICATION Spec
CONSTANTS
  fn1 = fn1
  fn0 = fn0
  big = big
  lib = lib
  main = main
  Main = main
  Closures <- MCClosures
  Modules <- MCModules
  Argc <- MCArgc
  Locals <- MCLocals
  Vals = {0, 1}
  Nil = 0
  Capacity = 3
  LowWatermark = 1
  SpillBatch = 2
  RingSize = 2
  MaxStack = 6
  MaxIp = 1
  RegCap = 3
  LeftCap = 1

PROPERTIES ImplementsCallStack
