SPECIFICATION Spec
CONSTANTS
  Names <- TwoNames
  SectionNames <- FourSections
  Text = ".text"
  Lengths <- OneLength
  Alignments <- Aligns
  MaxLines = 6
  OutputSize = 16
  MaxSections = 3
  MaxSymbols = 1
  MaxRelocs = 3
INVARIANTS
  TypeOK
  DamageIsOverlap
  OneVisitIntact
  RelocsApart
  FirstLabelStands
