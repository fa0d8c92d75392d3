SPECIFICATION Spec
CONSTANTS
  m = m
  a = a
  b = b
  c = c
  File <- FourFiles
  Programs <- RootCyclePrograms
  MaxDepth = 5
  Faults = {}
  Extends <- Equal
INVARIANTS
  CallsDeclared
  Accepted
PROPERTIES
  Terminates
