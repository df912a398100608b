SPECIFICATION MCSpec
CONSTANTS
  SectNames <- FourSections
  Headers <- AllHeaders
  Globals <- TwoGlobals
  MaxFiles = 2
  MaxParts = 4
  MaxEntries = 2
  MAX_SECTIONS = 3
  MAX_SYMBOLS = 1
  MAX_RELOCS = 1
  OUTPUT_SIZE = 10
  PAGE_SIZE = 4
  SECTION_ALIGN = 2
INVARIANTS
  TypeOK
  BytesKept
  Apart
  WrittenAtAddress
