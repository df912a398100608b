SPECIFICATION Spec
CONSTANTS
  SectNames <- FourSections
  Headers <- TextHeader
  Globals <- TwoGlobals
  MaxFiles = 2
  MaxParts = 2
  MaxEntries = 3
  MAX_SECTIONS = 3
  MAX_SYMBOLS = 2
  MAX_RELOCS = 2
  OUTPUT_SIZE = 10
  PAGE_SIZE = 4
  SECTION_ALIGN = 2
INVARIANT
  SomeClaimHolds
