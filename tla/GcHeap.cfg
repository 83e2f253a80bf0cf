SPECIFICATION Spec
CONSTANTS
  Regs = {r1, r2}
  Nil = Nil
  Empty = Empty
  K = 2
  S = 2
  FirstActive = 2
  MaxChunks = 2
  HarmCap = 0
  MaxMade = 3
  MaxStored = 1
SYMMETRY Symmetric
INVARIANTS TypeOK FreeListSound KeptUnlessHarmed NoSlotLost
CHECK_DEADLOCK FALSE
