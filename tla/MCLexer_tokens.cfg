SPECIFICATION Spec
CONSTANTS
  Sources <- Every
  Letter <- Letters
  Digit <- Digits
  Keywords <- Fn
INVARIANTS
  PositionsRight
  LongestMatch
  NothingSkipped
  OverrunOnlyUnterminated
PROPERTIES
  Ends
