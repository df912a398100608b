SPECIFICATION MCSpec
CONSTANTS
  Questions = {"control", "files", "expressions"}
  Names <- TwoNames
  Tokens <- AllTokens
  MaxTokens = 14
  Word = 16
  RegArgs = 1
  MaxArgs = 2
  MaxWhile = 2
  MaxLocals = 2
  MaxGlobals = 2
  MaxFuncs = 2
INVARIANTS
  TypeOK
  InnermostLoop
  JumpsLand
  StackBalanced
  FunctionTable
PROPERTY
  Halts
