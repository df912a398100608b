SPECIFICATION MCSpec
CONSTANTS
  Names <- TwoNames
  Sizes <- OneSize
  Values <- OneOffset
  MaxFiles = 2
  MaxHeaders = 3
  MaxEntries = 3
  MAX_SYMBOLS = 2
  MAX_RELOCS = 1
  MAX_SECTIONS = 2
  BUF_SIZE = 8
  PAGE_SIZE = 8
  ALIGN = 4
INVARIANTS
  TypeOK
  FileIsMemory
  ReferenceWins
