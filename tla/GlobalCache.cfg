\* Two variables, two chunks besides the script, one waiting activation.
\* Operands count to 1, so the second assignment wears a variable out.
CONSTANTS
  x = x
  y = y
  f = f
  g = g
  main = main
  Names = {x, y}
  Values = {v1, v2}
  Unset = Unset
  Functions = {f, g}
  Main = main
  Slots = {1, 2}
  NameAt <- ConstNameAt
  OperandMax = 1
  MaxVersion = 2
  MaxDepth = 2
SPECIFICATION Spec
INVARIANTS
  EntriesLeadToTheirName
  ReadsLeadToTheirName
  RefusesOnlyWornOut
PROPERTY ImplementsGlobals
