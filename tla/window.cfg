SPECIFICATION Spec
CONSTANTS
  Size = 3
  Limit = 2
  Amounts = {1, 2}
  Epoch = 3
  Horizon = 11
  MaxCount = 3
INVARIANT TypeOK
PROPERTY ImplementsWindow
CHECK_DEADLOCK FALSE
