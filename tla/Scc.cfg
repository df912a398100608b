SPECIFICATION MCSpec
CONSTANTS
  Questions = {"control", "expressions", "files"}
  Names <- TwoNames
  Tokens <- AllTokens
  MaxTokens = 16
  Word = 16
  RegArgs = 8
  MaxWhile = 2
  MaxLocals = 1
  MaxGlobals = 2
INVARIANTS
  TypeOK
  InnermostLoop
  JumpsLand
  SingleEntry
  StackBalanced
  OwnNumbers
PROPERTY
  Halts
