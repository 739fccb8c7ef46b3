SPECIFICATION Spec
CONSTANTS
  a = a
  b = b
  c = c
  d = d
  x = x
  Modules = {a, b, c}
  Names <- ThreeNames
  Projects <- SmallProjects
  Foreign = {x}
INVARIANTS
  TypeOK
  LinksInv
  SearchInv
  WorkInv
  SyntaxErrorsReported
  CompileOnlyAcyclic
  LoopReported
  DependenciesFirst
  WorkIsQueued
  ChainsCompiledOnce
  OutputComplete
PROPERTIES
  BuildSpec
  Termination
