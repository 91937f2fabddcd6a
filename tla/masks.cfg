SPECIFICATION MaskSpec
CONSTANTS
  Literal = {"s1", "s2", "s3"}
  Reference = {"env"}
  Shown = {"m1", "m3"}
  MaskOf <- TwinMasks
  KeyName = {"a", "b", "c"}
  MaxKeys = 3
CHECK_DEADLOCK FALSE
INVARIANTS
  DistinctMasksExact
  NeverAnotherSecret
