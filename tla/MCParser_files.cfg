SPECIFICATION MCSpec
CONSTANTS
  Names <- MCNames
  Numbers <- MCNumbers
  Floats <- MCFloats
  Chars <- MCChars
  Strings <- MCStrings
  Builtins <- MCBuiltins
  Missing <- MCMissing
INVARIANTS
  RoundTrip
  NothingDropped
  OverrunOnlyUnfinished
