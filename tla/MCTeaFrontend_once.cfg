SPECIFICATION Spec
CONSTANTS
  a = a
  b = b
  c = c
  d = d
  x = x
  Modules = {a, b, c, d}
  Names <- FourNames
  Projects <- DiamondProjects
  Foreign = {}
INVARIANTS
  CompiledOnce
