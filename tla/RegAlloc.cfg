SPECIFICATION Spec
CONSTANTS
  Values = {v1, v2, v3}
  Names = {x1}
  Junk = junk
  MaxFunctionLocals = 5
  MaxParams = 1
  MaxOperands = 2
  MaxUses = 2
SYMMETRY Symmetry
INVARIANTS
  OneHolder
  KeptUntilReuse
CHECK_DEADLOCK FALSE
