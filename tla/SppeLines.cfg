SPECIFICATION Spec
CONSTANTS
  Names <- ANames
  Predefined = "S"
  Lines <- AllLines
  MaxLines = 8
  MaxDefines = 2
  MaxIncludes = 3
  MaxIfStack = 4
INVARIANTS TypeOK SkippingIsExact SplicedOutwards
PROPERTY Conditional
