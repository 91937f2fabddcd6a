SPECIFICATION FairSpec
CONSTANTS
  r1 = r1
  r2 = r2
  a1 = a1
  m1 = m1
  m2 = m2
  Requests = {r1, r2}
  Admins = {a1}
  Models = {m1, m2}
  FreeModels = {m1, m2}
  Answers <- SomeLists
  Refresh = 2
  StaleAfter = 3
  FailurePause = 1
  MaxWait = 1
  Cap = 5
INVARIANTS
  TypeOK
  OneCallServesAll
  SteadyModelOffered
PROPERTIES
  ListLifetime
  EveryAskAnswered
