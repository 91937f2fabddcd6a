SPECIFICATION FairSpec
CONSTANTS
  p1 = p1
  p2 = p2
  k1 = k1
  k2 = k2
  m1 = m1
  m2 = m2
  r1 = r1
  r2 = r2
  r3 = r3
  None = None
  Providers = {p1, p2}
  Models = {m1, m2}
  KeyNames = {k1, k2}
  KeysOf <- FailoverKeys
  HealthCfg <- FailoverHealth
  ProviderLimits <- FailoverProviderLimits
  KeyLimits <- FailoverKeyLimits
  Requests = {r1, r2}
  StreamRequests = {}
  Route <- FailoverRoute
  MaxAttempts = 3
  Failures <- FailoverFailures
  Resets <- ExhaustedReset
INVARIANTS
  TypeOK
  NoTargetTwice
  AttemptBudget
  DecisiveOutcomeEnds
PROPERTIES
  EveryRequestAnswered
  ImplementsFailover
CHECK_DEADLOCK FALSE
