SPECIFICATION Spec
CONSTANTS
  m = m
  a = a
  b = b
  c = c
  NULL = NULL
  MaxDepth = 17
  Module <- Modules
  Queries <- Asked
INVARIANTS
  FoundIsVisible
  NoneIsNone
  OverflowForeseen
