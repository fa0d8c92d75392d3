SPECIFICATION Spec
CONSTANTS
  Blocks = 3
  Failing <- AnyCall
INVARIANTS
  LinkerHasObject
  SuccessUnlessDropped
  OldOutputKept
  TempRemoved
PROPERTIES
  Returns
