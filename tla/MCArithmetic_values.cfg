SPECIFICATION Spec
CONSTANTS
  Bits <- MCBits
  Numbers <- MCNumbers
  Literals <- MCLiterals
  BeginningNames <- MCPrefixes
  MaxSteps = 2
INVARIANTS
  NumbersKept
PROPERTIES
  ConversionsExist
