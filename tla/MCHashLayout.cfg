SPECIFICATION Spec
CONSTANTS
  W = 32768
  Powers <- MCPowers
  Totals <- MCTotals
  Limit = 75000
  Codes <- MCCodes
INVARIANTS
  ReaderAgreesWithBuilder
  LocateStaysInside
  SlotsAgree
  ScratchSuffices
