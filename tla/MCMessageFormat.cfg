SPECIFICATION LazySpec
CONSTANTS
  First = 1
  MaxSection = 2
  CntLimit = 6
  SizeLimit = 11
  MaxFields = 5
  MaxLen = 4
  Before = 1
  LazyFields = 3
INVARIANTS
  ReadBack
  DetectEndsBody
  OffsetsFit
  LazyReadBack
