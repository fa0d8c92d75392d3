SPECIFICATION Spec
CONSTANTS
  Elements = {a, b}
  Junk = junk
  Capacities <- Asked
  MayFail = TRUE
  MaxSize = 5
INVARIANTS
  NoWildWrite
PROPERTIES
  ImplementsList
