SPECIFICATION Spec
CONSTANTS
  Val = {0, 1}
  Initial = 1
  Large = 2
  MaxDelta = 2
  MaxSize = 4
PROPERTY ImplementsStack
