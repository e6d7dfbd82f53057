SPECIFICATION Spec
CONSTANTS
  LitCap = 2
  RunCap = 2
  Base = 2
  Word = 10
  MaxLen = 8
INVARIANT PackStaysInside UnpackStaysInside RoundTrip
