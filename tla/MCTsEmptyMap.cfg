SPECIFICATION Spec
CONSTANTS
  Types <- MCTypes
  Inputs <- MCInputs
  MaxDepth = 3
INVARIANT
  SerializedIsReadable
