SPECIFICATION Spec
CONSTANTS
  Sources <- EscapedQuote
  Letter <- Letters
  Digit <- Digits
  Keywords <- Fn
INVARIANTS
  DoubleQuoteKept
