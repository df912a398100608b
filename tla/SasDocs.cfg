SPECIFICATION Spec
CONSTANTS
  Names <- OneName
  SectionNames <- TwoSections
  Text = ".text"
  Lengths <- OneLength
  Alignments <- Aligns
  MaxLines = 7
  OutputSize = 16
  MaxSections = 3
  MaxSymbols = 1
  MaxRelocs = 3
INVARIANT
  SomeClaimHolds
