SPECIFICATION Spec
CONSTANTS
  Lines <- SomeLines
  MaxLines = 4
  MAXSYMS = 2
  MAXRELS = 3
  MAXCODE = 14
INVARIANTS TypeOK PassesAgree ChangedNames RelocSites
