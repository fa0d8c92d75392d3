SPECIFICATION Spec
CONSTANTS
  BeginningNames <- MCPrefixes
  Aliases <- MCAliases
  Structs <- MCStructs
  Enums <- MCEnums
  Hash <- MCHash
  Buckets = 2
  Threshold = 3
  Programs <- MCPrograms
INVARIANTS
  StoredOnce
  NearestUnlessGrown
  FilledRight
  AssignedDeclaredMutable
  StoredWhole
  CrashForeseen
