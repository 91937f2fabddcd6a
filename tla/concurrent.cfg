SPECIFICATION Spec
CONSTANTS
  p1 = p1
  p2 = p2
  k1 = k1
  k2 = k2
  m1 = m1
  m2 = m2
  r1 = r1
  r2 = r2
  r3 = r3
  None = None
  Providers = {p1}
  Models = {m1}
  KeyNames = {k1, k2}
  KeysOf <- SharedKeys
  HealthCfg <- SharedHealth
  ProviderLimits <- SharedProviderLimits
  KeyLimits <- SharedKeyLimits
  Requests = {r1, r2, r3}
  StreamRequests = {r3}
  Route <- SharedRoute
  MaxAttempts = 2
  Failures <- SharedFailures
  Resets <- NoResets
INVARIANTS
  InFlightAccounted
  ChargesReconcile
  FirstAttemptsWithinLimit
SYMMETRY PlainRequests
CHECK_DEADLOCK FALSE
