SPECIFICATION Spec
CONSTANTS
  Cpus = {c1, c2}
  Nobody = Nobody
  NoSlab = NoSlab
  PerSlab = 2
  MaxSlabs = 3
  Window = 2
SYMMETRY Buckets
INVARIANTS
  NoPanic
  SlabPlacedOnce
  PlaceMatchesRoom
  WindowAlive
CHECK_DEADLOCK FALSE
