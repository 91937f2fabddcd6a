\* Three keys, names of one to three models, every key_selection policy,
\* two concurrent requests of up to two attempts; MCKeySelection names the
\* settings, each with its own number of requests.
SPECIFICATION Spec
CONSTANTS
  k1 = k1
  k2 = k2
  k3 = k3
  Requests = {r1, r2}
  KeyList <- KeysInOrder
  Settings <- SettingsSeen
  MaxModels = 3
  MaxAttempts = 2
  MaxWindow = 3
  Unit = 6
  Estimate = 1
  Costs = {0, 2}
INVARIANTS
  EveryKeyOffered
  RoundRobinEven
  SpreadBounded
SYMMETRY RequestSymmetry
CHECK_DEADLOCK FALSE
