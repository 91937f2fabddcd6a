SPECIFICATION SkewedSpec
CONSTANTS
  Size = 3
  Limit = 1
  Amounts = {1}
  Epoch = 3
  Horizon = 9
  MaxCount = 2
INVARIANT NeverUndercounts
CHECK_DEADLOCK FALSE
