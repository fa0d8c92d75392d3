SPECIFICATION Spec
CONSTANTS
  m = m
  a = a
  b = b
  c = c
  File <- ThreeFiles
  Programs <- SmallPrograms
  MaxDepth = 6
  Faults = {"parse", "type", "gen", "output"}
  Extends <- Equal
INVARIANTS
  OpenModulesExist
  BackendNests
  FreedOnce
  ImportsMatch
  OverflowOnlyOnCycle
PROPERTIES
  ImportsDeclaredFirst
  ImplementsBuild
