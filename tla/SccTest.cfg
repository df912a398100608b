SPECIFICATION MCSpec
CONSTANTS
  Questions = {"test"}
  Names <- TwoNames
  Tokens <- AllTokens
  MaxTokens = 16
  Word = 16
  RegArgs = 8
  MaxWhile = 2
  MaxLocals = 1
  MaxGlobals = 2
PROPERTY
  SomeClaimHolds
