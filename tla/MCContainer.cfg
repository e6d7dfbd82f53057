SPECIFICATION Spec
CONSTANTS
  MaxElements = 3
  MaxPairs = 2
  MaxLen = 5
  MaxLast = 1
  SizeLimit = 13
INVARIANTS
  SegmentsIntact
  OldContentKept
  ReadBack
  SizeAsPredicted
  DetectIsExact
