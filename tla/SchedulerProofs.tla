-------------------------- MODULE SchedulerProofs --------------------------
(***************************************************************************)
(* Invariants of Scheduler for every configuration: any number of          *)
(* requests, providers, keys and models, any routes, limits and answers.   *)
(***************************************************************************)
EXTENDS Scheduler, FiniteSetTheorems, TLAPS

(* A request that has called an upstream knows which candidate it called.  *)
CurrentOK ==
  \A r \in Requests :
    req[r].pc \in {"calling", "backoff", "streaming", "crashed"} =>
      req[r].current \in Candidate

TypeInv == TypeOK /\ CurrentOK

-----------------------------------------------------------------------------
(* What the operators of the lower modules return.                         *)

LEMMA CategoryType == \A f : Category(f) \in ErrorCategory
  BY SMTT(30) DEF Category, ClassifyException, ClassifyHttpStatus, ErrorCategory,
         AuthErrors, ThrottleErrors, ClientErrors, TransientErrors

LEMMA RecordFailureType ==
  ASSUME NEW h \in HealthState, NEW category \in ErrorCategory,
         NEW seconds \in Nat, NEW threshold
  PROVE  RecordFailure(h, category, seconds, threshold) \in HealthState
  BY DEF RecordFailure, HealthState

LEMMA RecordCooldownType ==
  ASSUME NEW h \in HealthState, NEW seconds \in Nat
  PROVE  RecordCooldown(h, seconds) \in HealthState
  BY DEF RecordCooldown, HealthState

LEMMA RecordSuccessType ==
  ASSUME NEW h \in HealthState
  PROVE  RecordSuccess(h) \in HealthState
  BY DEF RecordSuccess, HealthState

LEMMA ElapseType ==
  ASSUME NEW h \in HealthState
  PROVE  Elapse(h) \in HealthState
  BY DEF Elapse, HealthState

LEMMA ModelCooldownType ==
  ASSUME NEW base, NEW max \in Nat, NEW failures
  PROVE  ModelCooldown(base, max, failures) \in Nat
  BY DEF ModelCooldown

LEMMA RequestStartType ==
  ASSUME NEW S, NEW load \in [S -> LoadState], NEW target \in S
  PROVE  RequestStart(load, target) \in [S -> LoadState]
  BY DEF RequestStart, LoadState

LEMMA RequestEndType ==
  ASSUME NEW S, NEW load \in [S -> LoadState], NEW target \in S
  PROVE  RequestEnd(load, target) \in [S -> LoadState]
  BY DEF RequestEnd, LoadState

LEMMA CandidateFields ==
  ASSUME NEW c \in Candidate
  PROVE  /\ c.provider \in Providers
         /\ c.place \in Nat
         /\ KeyOf(c) \in Key
         /\ PairOf(c) \in Pair
         /\ TargetOf(c) \in Providers \X Models \X KeyNames
  BY DEF Candidate, KeyOf, PairOf, TargetOf, Pair

LEMMA ResolveType ==
  ASSUME NEW r \in Requests
  PROVE  Resolve(Route[r]) \subseteq Candidate
<1> SUFFICES ASSUME NEW c \in Resolve(Route[r])
             PROVE  c \in Candidate
  OBVIOUS
<1>1. PICK i \in DOMAIN Route[r], k \in KeyNames :
        c = [place |-> i, provider |-> Route[r][i].provider,
             model |-> Route[r][i].model, key |-> k,
             dynamic |-> Route[r][i].dynamic]
  BY DEF Resolve, Places
<1>2. Route[r] \in Seq(RouteEntry)
  BY RouteType
<1>3. i \in Nat /\ Route[r][i] \in RouteEntry
  BY <1>2
<1>4. KeyOf(c) \in Key
  BY DEF Resolve
<1>. QED  BY <1>1, <1>3, <1>4 DEF Candidate, RouteEntry

-----------------------------------------------------------------------------
(* Types.                                                                  *)

LEMMA CooldownSecondsType ==
  ASSUME NEW p \in Providers, NEW category, NEW retryAfter \in Nat \cup {NoValue}
  PROVE  CooldownSeconds(p, category, retryAfter) \in Nat
  BY ConfigTypes DEF CooldownSeconds, HealthConfig, NoValue

LEMMA KeyAfterType ==
  ASSUME NEW c \in Candidate, NEW category \in ErrorCategory, NEW seconds \in Nat,
         keyHealth \in [Key -> HealthState]
  PROVE  KeyAfter(c, category, seconds) \in HealthState
<1>1. keyHealth[KeyOf(c)] \in HealthState
  BY CandidateFields
<1>. QED  BY <1>1, RecordFailureType, RecordCooldownType DEF KeyAfter

LEMMA KeyAfterHeadersType ==
  ASSUME NEW c \in Candidate, NEW category \in ErrorCategory, NEW seconds \in Nat,
         NEW reset \in Nat \cup {NoValue}, keyHealth \in [Key -> HealthState]
  PROVE  KeyAfterHeaders(c, category, seconds, reset) \in HealthState
  BY KeyAfterType, RecordCooldownType DEF KeyAfterHeaders

LEMMA ModelAfterType ==
  ASSUME NEW c \in Candidate, NEW category \in ErrorCategory,
         NEW retryAfter \in Nat \cup {NoValue},
         modelHealth \in [Pair -> HealthState]
  PROVE  ModelAfter(c, category, retryAfter) \in HealthState
<1>. DEFINE h == modelHealth[PairOf(c)]
            cfg == HealthCfg[c.provider]
            seconds == IF retryAfter > 0 THEN retryAfter
                       ELSE ModelCooldown(cfg.modelCooldown, cfg.modelMaxCooldown, h.failures)
<1>1. h \in HealthState
  BY CandidateFields
<1>2. cfg.modelMaxCooldown \in Nat
  BY CandidateFields, ConfigTypes DEF HealthConfig
<1>3. ModelCooldown(cfg.modelCooldown, cfg.modelMaxCooldown, h.failures) \in Nat
  BY <1>2, ModelCooldownType
<1>4. seconds \in Nat
  BY <1>3 DEF NoValue
<1>5. RecordFailure(h, category, seconds, 1) \in HealthState
  BY <1>1, <1>4, RecordFailureType
<1>. QED  BY <1>1, <1>5 DEF ModelAfter

LEMMA ProviderAfterType ==
  ASSUME NEW c \in Candidate, NEW category \in ErrorCategory, NEW seconds \in Nat,
         NEW health, providerHealth \in [Providers -> HealthState]
  PROVE  ProviderAfter(c, category, seconds, health) \in HealthState
<1>1. providerHealth[c.provider] \in HealthState
  BY CandidateFields
<1>. QED  BY <1>1, RecordFailureType, RecordCooldownType DEF ProviderAfter

LEMMA UsageAfterType ==
  ASSUME NEW u \in UsageState, NEW category
  PROVE  UsageAfter(u, category) \in UsageState
  BY DEF UsageAfter, UsageState

LEMMA RecordedType ==
  ASSUME NEW q \in RequestState, q.current \in Candidate, NEW outcome \in Outcome
  PROVE  Recorded(q, outcome) \in Seq(TraceEntry)
<1>1. [target |-> TargetOf(q.current), outcome |-> outcome] \in TraceEntry
  BY CandidateFields DEF TraceEntry
<1>2. q.trace \in Seq(TraceEntry)
  BY DEF RequestState
<1>. QED  BY <1>1, <1>2 DEF Recorded

LEMMA AfterFailureType ==
  ASSUME NEW q \in RequestState, q.current \in Candidate,
         NEW failure \in UpstreamFailure, NEW category \in ErrorCategory, NEW scope
  PROVE  /\ AfterFailure(q, failure, category, scope) \in RequestState
         /\ AfterFailure(q, failure, category, scope).pc = q.pc
         /\ AfterFailure(q, failure, category, scope).current = q.current
<1>1. Recorded(q, category) \in Seq(TraceEntry)
  BY RecordedType DEF Outcome
<1>2. failure.status \in Nat
  BY DEF UpstreamFailure
<1>3. PairOf(q.current) \in Pair /\ q.current.provider \in Providers
  BY CandidateFields
<1>. DEFINE status == IF failure.status = 0 THEN 502 ELSE failure.status
            models == q.skippedModels \cup {m \in {PairOf(q.current)} : scope = "model"}
            providers == q.skippedProviders
                           \cup {p \in {q.current.provider} : scope = "provider"}
            trace == Recorded(q, category)
<1>4. status \in Nat /\ models \in SUBSET Pair /\ providers \in SUBSET Providers
  BY <1>2, <1>3 DEF RequestState
<1>5. AfterFailure(q, failure, category, scope) =
        [q EXCEPT !.trace = trace, !.status = status, !.skippedModels = models,
                  !.skippedProviders = providers]
  BY DEF AfterFailure
<1>. HIDE DEF status, models, providers, trace
<1>6. trace \in Seq(TraceEntry)
  BY <1>1 DEF trace
<1>. QED  BY <1>4, <1>5, <1>6 DEF RequestState

(* Leaving the candidate loop, one way or the other.                       *)
LEMMA TryNextType ==
  ASSUME NEW r \in Requests, NEW q \in RequestState,
         NEW pLoad \in [Providers -> LoadState], NEW kLoad \in [Key -> LoadState],
         req \in [Requests -> RequestState], fallbacks \in Nat,
         TryNext(r, q, pLoad, kLoad)
  PROVE  /\ req' \in [Requests -> RequestState]
         /\ \A s \in Requests \ {r} : req'[s] = req[s]
         /\ req'[r].pc \in {"calling", "done"}
         /\ req'[r].pc = "calling" => req'[r].current \in Candidate
         /\ providerLoad' \in [Providers -> LoadState]
         /\ keyLoad' \in [Key -> LoadState]
         /\ fallbacks' \in Nat
<1>1. CASE \E c \in NextCandidates(q) : Launch(r, q, c, pLoad, kLoad)
  <2>1. PICK c \in NextCandidates(q) : Launch(r, q, c, pLoad, kLoad)
    BY <1>1
  <2>2. c \in Candidate
    BY <2>1 DEF NextCandidates, Eligible, RequestState
  <2>. DEFINE attempts == q.attempts + 1
              attempted == q.attempted \cup {TargetOf(c)}
              n == [q EXCEPT !.pc = "calling", !.current = c,
                             !.attempts = attempts, !.attempted = attempted]
  <2>3. attempts \in Nat /\ attempted \in SUBSET (Providers \X Models \X KeyNames)
    BY <2>2, CandidateFields DEF RequestState
  <2>. HIDE DEF attempts, attempted
  <2>4. n \in RequestState /\ n.pc = "calling" /\ n.current = c
    BY <2>2, <2>3 DEF RequestState, Phase
  <2>. USE DEF attempts, attempted
  <2>5. req' = [req EXCEPT ![r] = n]
    BY <2>1 DEF Launch
  <2>6. /\ providerLoad' \in [Providers -> LoadState]
        /\ keyLoad' \in [Key -> LoadState]
        /\ fallbacks' \in Nat
    BY <2>1, <2>2, CandidateFields, RequestStartType DEF Launch
  <2>. HIDE DEF n
  <2>. QED  BY <2>2, <2>4, <2>5, <2>6
<1>2. CASE GiveUp(r, q, pLoad, kLoad)
  <2>. DEFINE n == [q EXCEPT !.pc = "done", !.status = FinalStatus(q)]
  <2>1. FinalStatus(q) \in Nat
    BY DEF FinalStatus, RequestState
  <2>2. n \in RequestState /\ n.pc = "done"
    BY <2>1 DEF RequestState, Phase
  <2>3. req' = [req EXCEPT ![r] = n]
    BY <1>2 DEF GiveUp
  <2>4. providerLoad' = pLoad /\ keyLoad' = kLoad /\ fallbacks' = fallbacks
    BY <1>2 DEF GiveUp
  <2>. HIDE DEF n
  <2>. QED  BY <2>2, <2>3, <2>4
<1>. QED  BY <1>1, <1>2 DEF TryNext

(* One request's record replaced: what the invariant needs of the new one. *)
LEMMA ReplaceRequest ==
  ASSUME TypeInv, NEW r \in Requests, NEW n \in RequestState,
         req' = [req EXCEPT ![r] = n],
         n.pc \in {"calling", "backoff", "streaming", "crashed"} =>
           n.current \in Candidate
  PROVE  req' \in [Requests -> RequestState] /\ CurrentOK'
  BY DEF TypeInv, TypeOK, CurrentOK

LEMMA StartType ==
  ASSUME TypeInv, NEW r \in Requests, Start(r)
  PROVE  TypeInv'
<1>. DEFINE found == Resolve(Route[r])
            q == [req[r] EXCEPT !.candidates = found]
<1>1. req[r] \in RequestState
  BY DEF TypeInv, TypeOK
<1>2. found \subseteq Candidate
  BY ResolveType
<1>3. UNCHANGED <<healthVars, usage>>
  BY DEF Start
<1>4. CASE \E status \in {400, 404, 503} : Reject(r, status)
  <2>1. PICK status \in {400, 404, 503} : Reject(r, status)
    BY <1>4
  <2>. DEFINE pc == "done"
              n == [req[r] EXCEPT !.pc = pc, !.status = status]
  <2>2. pc \in Phase /\ status \in Nat
    BY DEF Phase
  <2>3. req' = [req EXCEPT ![r] = n]
    BY <2>1 DEF Reject
  <2>. HIDE DEF pc
  <2>4. n \in RequestState /\ n.pc = pc
    BY <1>1, <2>2 DEF RequestState
  <2>5. n \in RequestState /\ n.pc = "done"
    BY <2>4 DEF pc
  <2>. HIDE DEF n
  <2>6. req' \in [Requests -> RequestState] /\ CurrentOK'
    BY <2>3, <2>5, ReplaceRequest
  <2>. QED  BY <1>3, <2>1, <2>6 DEF TypeInv, TypeOK, Reject, healthVars, loadVars
<1>5. CASE TryNext(r, q, providerLoad, keyLoad)
  <2>1. q \in RequestState
    BY <1>1, <1>2 DEF RequestState
  <2>. HIDE DEF q
  <2>2. /\ req' \in [Requests -> RequestState]
        /\ \A s \in Requests \ {r} : req'[s] = req[s]
        /\ req'[r].pc \in {"calling", "done"}
        /\ req'[r].pc = "calling" => req'[r].current \in Candidate
        /\ providerLoad' \in [Providers -> LoadState]
        /\ keyLoad' \in [Key -> LoadState]
        /\ fallbacks' \in Nat
    BY <1>5, <2>1, TryNextType DEF TypeInv, TypeOK
  <2>. QED  BY <1>3, <2>2 DEF TypeInv, TypeOK, CurrentOK, healthVars
<1>. QED  BY <1>4, <1>5 DEF Start

LEMMA SucceedType ==
  ASSUME TypeInv, NEW r \in Requests, NEW reset \in Resets, Succeed(r, reset)
  PROVE  TypeInv'
<1>. DEFINE q == req[r]
            c == q.current
<1>1. q \in RequestState /\ c \in Candidate
  BY DEF Succeed, TypeInv, TypeOK, CurrentOK
<1>2. c.provider \in Providers /\ KeyOf(c) \in Key /\ PairOf(c) \in Pair
  BY <1>1, CandidateFields
<1>3. reset \in Nat \cup {NoValue}
  BY SchedulerConstants
<1>4. req' \in [Requests -> RequestState] /\ CurrentOK'
  <2>. DEFINE trace == Recorded(q, "success")
              pc == IF r \in StreamRequests THEN "streaming" ELSE "done"
              status == 200
              n == [q EXCEPT !.pc = pc, !.trace = trace, !.status = status]
  <2>1. trace \in Seq(TraceEntry)
    BY <1>1, RecordedType DEF Outcome
  <2>2. pc \in Phase /\ status \in Nat
    BY DEF Phase
  <2>3. req' = [req EXCEPT ![r] = n]
    BY DEF Succeed
  <2>. HIDE DEF trace, pc, status
  <2>4. n \in RequestState
    BY <1>1, <2>1, <2>2 DEF RequestState
  <2>5. n.current = c
    BY <1>1 DEF RequestState
  <2>. HIDE DEF n
  <2>. QED  BY <1>1, <2>3, <2>4, <2>5, ReplaceRequest
<1>5. /\ providerLoad' \in [Providers -> LoadState]
      /\ keyLoad' \in [Key -> LoadState]
  BY <1>2, RequestEndType DEF Succeed, TypeInv, TypeOK
<1>6. /\ providerHealth' \in [Providers -> HealthState]
      /\ modelHealth' \in [Pair -> HealthState]
  BY <1>2, RecordSuccessType DEF Succeed, TypeInv, TypeOK
<1>7. keyHealth' \in [Key -> HealthState]
  <2>1. RecordSuccess(keyHealth[KeyOf(c)]) \in HealthState
    BY <1>2, RecordSuccessType DEF TypeInv, TypeOK
  <2>. QED  BY <1>3, <2>1, RecordCooldownType DEF Succeed, TypeInv, TypeOK
<1>8. usage' \in [Providers -> UsageState] /\ fallbacks' \in Nat
  <2>1. usage[c.provider] \in UsageState
    BY <1>2 DEF TypeInv, TypeOK
  <2>2. UsageSuccess(usage[c.provider]) \in UsageState
    BY <2>1 DEF UsageSuccess, UsageState
  <2>. QED  BY <2>2 DEF Succeed, TypeInv, TypeOK
<1>. QED  BY <1>4, <1>5, <1>6, <1>7, <1>8 DEF TypeInv, TypeOK

LEMMA FailType ==
  ASSUME TypeInv, NEW r \in Requests, NEW failure \in Failures, Fail(r, failure)
  PROVE  TypeInv'
<1>. DEFINE q == req[r]
            c == q.current
            category == Category(failure)
            seconds == CooldownSeconds(c.provider, category, failure.retryAfter)
            marked == [keyHealth EXCEPT ![KeyOf(c)] = KeyAfter(c, category, seconds)]
            scope == FailureScope(c, category, marked)
            next == AfterFailure(q, failure, category, scope)
            pLoad == RequestEnd(providerLoad, c.provider)
            kLoad == RequestEnd(keyLoad, KeyOf(c))
<1>1. q \in RequestState /\ c \in Candidate /\ q.pc = "calling"
  BY DEF Fail, TypeInv, TypeOK, CurrentOK
<1>2. c.provider \in Providers /\ KeyOf(c) \in Key /\ PairOf(c) \in Pair
  BY <1>1, CandidateFields
<1>3. /\ failure \in UpstreamFailure
      /\ failure.retryAfter \in Nat \cup {NoValue}
      /\ failure.reset \in Nat \cup {NoValue}
  BY SchedulerConstants DEF UpstreamFailure
<1>4. category \in ErrorCategory
  BY CategoryType
<1>5. seconds \in Nat
  BY <1>2, <1>3, CooldownSecondsType
<1>6. next \in RequestState /\ next.current = c
  BY <1>1, <1>3, <1>4, AfterFailureType
<1>7. pLoad \in [Providers -> LoadState] /\ kLoad \in [Key -> LoadState]
  BY <1>2, RequestEndType DEF TypeInv, TypeOK
<1>8. /\ keyHealth' = [keyHealth EXCEPT ![KeyOf(c)] =
           KeyAfterHeaders(c, category, seconds, failure.reset)]
      /\ providerHealth' = [providerHealth EXCEPT ![c.provider] =
           ProviderAfter(c, category, seconds, marked)]
      /\ modelHealth' = [modelHealth EXCEPT ![PairOf(c)] =
           ModelAfter(c, category, failure.retryAfter)]
      /\ usage' = [usage EXCEPT ![c.provider] = UsageAfter(@, category)]
  BY DEF Fail
<1>9. \/ \E pc \in {"done", "backoff"} :
           /\ req' = [req EXCEPT ![r] = [next EXCEPT !.pc = pc]]
           /\ providerLoad' = pLoad /\ keyLoad' = kLoad /\ fallbacks' = fallbacks
      \/ TryNext(r, next, pLoad, kLoad)
  BY DEF Fail
<1>. HIDE DEF next, pLoad, kLoad, marked, seconds, category
<1>10. /\ keyHealth' \in [Key -> HealthState]
       /\ providerHealth' \in [Providers -> HealthState]
       /\ modelHealth' \in [Pair -> HealthState]
  BY <1>1, <1>3, <1>4, <1>5, <1>8, KeyAfterHeadersType, ProviderAfterType,
     ModelAfterType DEF TypeInv, TypeOK
<1>11. usage' \in [Providers -> UsageState]
  BY <1>2, <1>8, UsageAfterType DEF TypeInv, TypeOK
<1>12. /\ req' \in [Requests -> RequestState]
       /\ CurrentOK'
       /\ providerLoad' \in [Providers -> LoadState]
       /\ keyLoad' \in [Key -> LoadState]
       /\ fallbacks' \in Nat
  <2>1. CASE TryNext(r, next, pLoad, kLoad)
    <3>1. /\ req' \in [Requests -> RequestState]
          /\ \A s \in Requests \ {r} : req'[s] = req[s]
          /\ req'[r].pc \in {"calling", "done"}
          /\ req'[r].pc = "calling" => req'[r].current \in Candidate
          /\ providerLoad' \in [Providers -> LoadState]
          /\ keyLoad' \in [Key -> LoadState]
          /\ fallbacks' \in Nat
      BY <2>1, <1>6, <1>7, TryNextType DEF TypeInv, TypeOK
    <3>. QED  BY <3>1 DEF TypeInv, CurrentOK
  <2>2. CASE \E pc \in {"done", "backoff"} :
               /\ req' = [req EXCEPT ![r] = [next EXCEPT !.pc = pc]]
               /\ providerLoad' = pLoad /\ keyLoad' = kLoad /\ fallbacks' = fallbacks
    <3>1. PICK pc \in {"done", "backoff"} :
            /\ req' = [req EXCEPT ![r] = [next EXCEPT !.pc = pc]]
            /\ providerLoad' = pLoad /\ keyLoad' = kLoad /\ fallbacks' = fallbacks
      BY <2>2
    <3>2. [next EXCEPT !.pc = pc] \in RequestState /\ [next EXCEPT !.pc = pc].current = c
      BY <1>6 DEF RequestState, Phase
    <3>3. req' \in [Requests -> RequestState] /\ CurrentOK'
      BY <3>1, <3>2, <1>1, ReplaceRequest
    <3>. QED  BY <3>1, <3>3, <1>7 DEF TypeInv, TypeOK
  <2>. QED  BY <1>9, <2>1, <2>2
<1>. QED  BY <1>10, <1>11, <1>12 DEF TypeInv, TypeOK

(* Every variable keeps its type, and every attempt its candidate.         *)
THEOREM TypeInvariant == Spec => []TypeInv
<1>1. Init => TypeInv
  BY DEF Init, TypeInv, TypeOK, CurrentOK, HealthState, Untouched, LoadState,
         RequestState, Phase, UsageState
<1>2. ASSUME TypeInv, [Next]_vars
      PROVE  TypeInv'
  <2>1. ASSUME NEW r \in Requests, Start(r)
        PROVE  TypeInv'
    BY <1>2, <2>1, StartType
  <2>2. ASSUME NEW r \in Requests, NEW reset \in Resets, Succeed(r, reset)
        PROVE  TypeInv'
    BY <1>2, <2>2, SucceedType
  <2>3. ASSUME NEW r \in Requests, NEW failure \in Failures, Fail(r, failure)
        PROVE  TypeInv'
    BY <1>2, <2>3, FailType
  <2>4. ASSUME NEW r \in Requests, Garble(r)
        PROVE  TypeInv'
    <3>. DEFINE pc == "crashed"
                status == 500
                n == [req[r] EXCEPT !.pc = pc, !.status = status]
    <3>1. req[r] \in RequestState /\ pc \in Phase /\ status \in Nat
      BY <1>2 DEF TypeInv, TypeOK, Phase
    <3>2. req' = [req EXCEPT ![r] = n]
      BY <2>4 DEF Garble
    <3>. HIDE DEF pc, status
    <3>3. n \in RequestState /\ n.current = req[r].current
      BY <3>1 DEF RequestState
    <3>4. req[r].current \in Candidate
      BY <1>2, <2>4 DEF Garble, TypeInv, CurrentOK
    <3>. HIDE DEF n
    <3>5. req' \in [Requests -> RequestState] /\ CurrentOK'
      BY <1>2, <3>3, <3>2, <3>4, ReplaceRequest
    <3>. QED  BY <1>2, <2>4, <3>5 DEF Garble, TypeInv, TypeOK, healthVars, loadVars
  <2>5. ASSUME NEW r \in Requests, BackoffElapsed(r)
        PROVE  TypeInv'
    <3>1. /\ req' \in [Requests -> RequestState]
          /\ \A s \in Requests \ {r} : req'[s] = req[s]
          /\ req'[r].pc \in {"calling", "done"}
          /\ req'[r].pc = "calling" => req'[r].current \in Candidate
          /\ providerLoad' \in [Providers -> LoadState]
          /\ keyLoad' \in [Key -> LoadState]
          /\ fallbacks' \in Nat
      BY <1>2, <2>5, TryNextType DEF BackoffElapsed, TypeInv, TypeOK
    <3>. QED  BY <1>2, <2>5, <3>1 DEF BackoffElapsed, TypeInv, TypeOK, CurrentOK, healthVars
  <2>6. ASSUME NEW r \in Requests, StreamEnd(r)
        PROVE  TypeInv'
    <3>. DEFINE n == [req[r] EXCEPT !.pc = "done"]
    <3>1. n \in RequestState /\ n.current = req[r].current
      BY <1>2 DEF TypeInv, TypeOK, RequestState, Phase
    <3>2. req' = [req EXCEPT ![r] = n]
      BY <1>2, <2>6 DEF StreamEnd, TypeInv, TypeOK
    <3>3. req[r].current \in Candidate
      BY <1>2, <2>6 DEF StreamEnd, TypeInv, CurrentOK
    <3>. HIDE DEF n
    <3>4. req' \in [Requests -> RequestState] /\ CurrentOK'
      BY <1>2, <3>1, <3>2, <3>3, ReplaceRequest
    <3>5. /\ providerLoad' \in [Providers -> LoadState]
          /\ keyLoad' \in [Key -> LoadState]
      BY <1>2, <2>6, <3>3, CandidateFields, RequestEndType DEF StreamEnd, TypeInv, TypeOK
    <3>. QED  BY <1>2, <2>6, <3>4, <3>5 DEF StreamEnd, TypeInv, TypeOK, healthVars
  <2>7. CASE Tick
    BY <1>2, <2>7, ElapseType DEF Tick, TypeInv, TypeOK, CurrentOK, loadVars
  <2>8. CASE UNCHANGED vars
    BY <1>2, <2>8 DEF vars, healthVars, loadVars, TypeInv, TypeOK, CurrentOK
  <2>. QED  BY <1>2, <2>1, <2>2, <2>3, <2>4, <2>5, <2>6, <2>7, <2>8 DEF Next, Answer
<1>. QED  BY <1>1, <1>2, PTL DEF Spec

(* The type invariant of the runs.                                         *)
THEOREM TypeCorrect == Spec => []TypeOK
  BY TypeInvariant, PTL DEF TypeInv

-----------------------------------------------------------------------------
(* A provider's cooldown is earned.  The argument rests on what a key's    *)
(* last failure reason can become: once it is a refusal it stays one,      *)
(* since only refusals are written to a key and a success leaves it.       *)

LEMMA KeyAfterReason ==
  ASSUME NEW c \in Candidate, NEW category \in ErrorCategory, NEW seconds \in Nat,
         NEW reset \in Nat \cup {NoValue}, keyHealth \in [Key -> HealthState]
  PROVE  /\ KeyAfterHeaders(c, category, seconds, reset).reason
              = KeyAfter(c, category, seconds).reason
         /\ KeyAfter(c, category, seconds).reason \in {category, keyHealth[KeyOf(c)].reason}
         /\ keyHealth[KeyOf(c)].reason \in AuthErrors
              => KeyAfter(c, category, seconds).reason \in AuthErrors
<1>. DEFINE h == keyHealth[KeyOf(c)]
<1>1. h \in HealthState
  BY CandidateFields
<1>2. KeyAfter(c, category, seconds) \in HealthState
  BY KeyAfterType
<1>3. \/ /\ category \in AuthErrors
         /\ KeyAfter(c, category, seconds) =
              RecordFailure(h, category, seconds, HealthCfg[c.provider].threshold)
      \/ KeyAfter(c, category, seconds) = RecordCooldown(h, seconds)
      \/ KeyAfter(c, category, seconds) = h
  BY DEF KeyAfter, MarkUnhealthy
<1>4. RecordFailure(h, category, seconds, HealthCfg[c.provider].threshold).reason = category
  BY DEF RecordFailure
<1>5. ASSUME NEW g \in HealthState, NEW s \in Nat
      PROVE  RecordCooldown(g, s).reason = g.reason
  BY DEF RecordCooldown, HealthState
<1>6. KeyAfterHeaders(c, category, seconds, reset).reason
        = KeyAfter(c, category, seconds).reason
  BY <1>2, <1>5 DEF KeyAfterHeaders
<1>. QED  BY <1>1, <1>3, <1>4, <1>5, <1>6

LEMMA ProviderAfterEarned ==
  ASSUME NEW c \in Candidate, NEW category \in ErrorCategory, NEW seconds \in Nat,
         NEW health, providerHealth \in [Providers -> HealthState],
         NEW refused \in BOOLEAN,
         InCooldown(providerHealth[c.provider]) =>
           providerHealth[c.provider].failures >= HealthCfg[c.provider].threshold
             \/ refused,
         AllKeysRefused(c.provider, health) => refused,
         InCooldown(ProviderAfter(c, category, seconds, health))
  PROVE  \/ ProviderAfter(c, category, seconds, health).failures
              >= HealthCfg[c.provider].threshold
         \/ refused
<1>. DEFINE h == providerHealth[c.provider]
            threshold == HealthCfg[c.provider].threshold
<1>1. h \in HealthState /\ threshold \in Nat
  BY CandidateFields, ConfigTypes DEF HealthConfig
<1>2. CASE ProviderAfter(c, category, seconds, health)
             = RecordFailure(h, category, seconds, threshold)
  BY <1>1, <1>2 DEF RecordFailure, InCooldown, HealthState
<1>3. CASE /\ ProviderAfter(c, category, seconds, health) = RecordCooldown(h, seconds)
           /\ AllKeysRefused(c.provider, health)
  BY <1>3
<1>4. CASE ProviderAfter(c, category, seconds, health) = h
  BY <1>4
<1>. QED  BY <1>2, <1>3, <1>4 DEF ProviderAfter

KeysStayRefused ==
  \A k \in Key : keyHealth[k].reason \in AuthErrors => keyHealth'[k].reason \in AuthErrors

LEMMA FailStaysRefused ==
  ASSUME TypeInv, NEW r \in Requests, NEW failure \in Failures, Fail(r, failure)
  PROVE  KeysStayRefused
<1>. DEFINE c == req[r].current
            category == Category(failure)
            seconds == CooldownSeconds(c.provider, category, failure.retryAfter)
<1>1. c \in Candidate /\ category \in ErrorCategory
  BY CategoryType DEF Fail, TypeInv, CurrentOK
<1>2. failure.retryAfter \in Nat \cup {NoValue} /\ failure.reset \in Nat \cup {NoValue}
  BY SchedulerConstants DEF UpstreamFailure
<1>3. c.provider \in Providers /\ KeyOf(c) \in Key
  BY <1>1, CandidateFields
<1>4. seconds \in Nat
  BY <1>2, <1>3, CooldownSecondsType
<1>5. keyHealth' = [keyHealth EXCEPT ![KeyOf(c)] =
        KeyAfterHeaders(c, category, seconds, failure.reset)]
  BY DEF Fail
<1>6. keyHealth \in [Key -> HealthState]
  BY DEF TypeInv, TypeOK
<1>. HIDE DEF c, category, seconds
<1>7. keyHealth[KeyOf(c)].reason \in AuthErrors
        => KeyAfterHeaders(c, category, seconds, failure.reset).reason \in AuthErrors
  BY <1>1, <1>2, <1>4, <1>6, KeyAfterReason
<1>. QED  BY <1>3, <1>5, <1>6, <1>7 DEF KeysStayRefused

LEMMA StepStaysRefused ==
  ASSUME TypeInv, [Next]_vars
  PROVE  KeysStayRefused
<1>1. ASSUME NEW r \in Requests, NEW reset \in Resets, Succeed(r, reset)
      PROVE  KeysStayRefused
  <2>. DEFINE c == req[r].current
              h == keyHealth[KeyOf(c)]
              cleared == RecordSuccess(h)
              n == IF reset = NoValue THEN cleared ELSE RecordCooldown(cleared, reset)
  <2>1. h \in HealthState /\ KeyOf(c) \in Key
    BY <1>1, CandidateFields DEF Succeed, TypeInv, TypeOK, CurrentOK
  <2>2. cleared \in HealthState /\ cleared.reason = h.reason
    BY <2>1, RecordSuccessType DEF RecordSuccess, HealthState
  <2>. HIDE DEF cleared
  <2>3. n.reason = h.reason
    BY <2>2 DEF RecordCooldown, HealthState
  <2>4. keyHealth' = [keyHealth EXCEPT ![KeyOf(c)] = n]
    BY <1>1 DEF Succeed, cleared
  <2>. HIDE DEF n, c
  <2>. QED  BY <2>1, <2>3, <2>4 DEF KeysStayRefused, TypeInv, TypeOK
<1>2. CASE Tick
  <2>1. \A h \in HealthState : Elapse(h).reason = h.reason
    BY DEF Elapse, HealthState
  <2>. QED  BY <1>2, <2>1 DEF Tick, KeysStayRefused, TypeInv, TypeOK
<1>3. ASSUME keyHealth' = keyHealth
      PROVE  KeysStayRefused
  BY <1>3 DEF KeysStayRefused
<1>. QED
  BY <1>1, <1>2, <1>3, FailStaysRefused
  DEF Next, Answer, Start, Garble, BackoffElapsed, StreamEnd, vars, healthVars

(* No failure of a key, and no missing model, takes a provider away while  *)
(* one of its keys has not been refused.                                   *)
THEOREM ProviderCooldownIsEarned == Spec => []ProviderCooldownEarned
<1>1. Init => ProviderCooldownEarned
  BY DEF Init, ProviderCooldownEarned, InCooldown, Untouched
<1>2. ASSUME TypeInv, ProviderCooldownEarned, [Next]_vars
      PROVE  ProviderCooldownEarned'
  <2>1. KeysStayRefused
    BY <1>2, StepStaysRefused
  <2>2. \A p \in Providers :
          AllKeysRefused(p, keyHealth) => AllKeysRefused(p, keyHealth')
    BY <2>1, ConfigTypes DEF KeysStayRefused, AllKeysRefused, Key
  <2>3. ASSUME UNCHANGED providerHealth
        PROVE  ProviderCooldownEarned'
    BY <1>2, <2>2, <2>3 DEF ProviderCooldownEarned
  <2>4. ASSUME NEW r \in Requests, NEW reset \in Resets, Succeed(r, reset)
        PROVE  ProviderCooldownEarned'
    <3>1. \A h \in HealthState : ~InCooldown(RecordSuccess(h))
      BY DEF RecordSuccess, InCooldown, HealthState
    <3>. QED  BY <1>2, <2>2, <2>4, <3>1
              DEF Succeed, ProviderCooldownEarned, TypeInv, TypeOK
  <2>5. ASSUME NEW r \in Requests, NEW failure \in Failures, Fail(r, failure)
        PROVE  ProviderCooldownEarned'
    <3>. DEFINE c == req[r].current
                category == Category(failure)
                seconds == CooldownSeconds(c.provider, category, failure.retryAfter)
                marked == [keyHealth EXCEPT ![KeyOf(c)] = KeyAfter(c, category, seconds)]
                n == ProviderAfter(c, category, seconds, marked)
    <3>1. c \in Candidate /\ category \in ErrorCategory
      BY <1>2, <2>5, CategoryType DEF Fail, TypeInv, CurrentOK
    <3>2. failure.retryAfter \in Nat \cup {NoValue} /\ failure.reset \in Nat \cup {NoValue}
      BY SchedulerConstants DEF UpstreamFailure
    <3>3. c.provider \in Providers /\ KeyOf(c) \in Key /\ c.key \in KeysOf[c.provider]
      BY <3>1, CandidateFields DEF KeyOf, Key
    <3>4. seconds \in Nat
      BY <3>2, <3>3, CooldownSecondsType
    <3>5. /\ keyHealth' = [keyHealth EXCEPT ![KeyOf(c)] =
               KeyAfterHeaders(c, category, seconds, failure.reset)]
          /\ providerHealth' = [providerHealth EXCEPT ![c.provider] = n]
      BY <2>5 DEF Fail
    <3>6. keyHealth \in [Key -> HealthState] /\ providerHealth \in [Providers -> HealthState]
      BY <1>2 DEF TypeInv, TypeOK
    <3>. HIDE DEF c, category, seconds
    <3>7. AllKeysRefused(c.provider, marked) => AllKeysRefused(c.provider, keyHealth')
      <4>1. \A k \in Key : keyHealth'[k].reason = marked[k].reason
        BY <3>1, <3>2, <3>3, <3>4, <3>5, <3>6, KeyAfterReason
      <4>2. \A k \in KeysOf[c.provider] : <<c.provider, k>> \in Key
        BY <3>3, ConfigTypes DEF Key
      <4>. HIDE DEF marked
      <4>. QED  BY <4>1, <4>2 DEF AllKeysRefused
    <3>. HIDE DEF marked
    <3>8. InCooldown(providerHealth[c.provider]) =>
            \/ providerHealth[c.provider].failures >= HealthCfg[c.provider].threshold
            \/ AllKeysRefused(c.provider, keyHealth')
      BY <1>2, <2>2, <3>3 DEF ProviderCooldownEarned
    <3>9. InCooldown(n) =>
            \/ n.failures >= HealthCfg[c.provider].threshold
            \/ AllKeysRefused(c.provider, keyHealth')
      <4>. DEFINE refused == AllKeysRefused(c.provider, keyHealth')
      <4>1. refused \in BOOLEAN
        BY DEF AllKeysRefused
      <4>. HIDE DEF refused
      <4>2. InCooldown(providerHealth[c.provider]) =>
              providerHealth[c.provider].failures >= HealthCfg[c.provider].threshold
                \/ refused
        BY <3>8 DEF refused
      <4>3. AllKeysRefused(c.provider, marked) => refused
        BY <3>7 DEF refused
      <4>4. InCooldown(n) => n.failures >= HealthCfg[c.provider].threshold \/ refused
        BY <3>1, <3>4, <3>6, <4>1, <4>2, <4>3, ProviderAfterEarned
      <4>. QED  BY <4>4 DEF refused
    <3>. HIDE DEF n
    <3>10. ASSUME NEW p \in Providers, InCooldown(providerHealth'[p])
           PROVE  \/ providerHealth'[p].failures >= HealthCfg[p].threshold
                  \/ AllKeysRefused(p, keyHealth')
      <4>1. CASE p = c.provider
        BY <3>3, <3>5, <3>6, <3>9, <3>10, <4>1
      <4>2. CASE p # c.provider
        BY <1>2, <2>2, <3>5, <3>6, <3>10, <4>2 DEF ProviderCooldownEarned
      <4>. QED  BY <4>1, <4>2
    <3>. QED  BY <3>10 DEF ProviderCooldownEarned
  <2>6. CASE Tick
    <3>1. \A h \in HealthState : /\ InCooldown(Elapse(h)) => InCooldown(h)
                                 /\ Elapse(h).failures = h.failures
      BY DEF Elapse, InCooldown, HealthState
    <3>. QED  BY <1>2, <2>2, <2>6, <3>1 DEF Tick, ProviderCooldownEarned, TypeInv, TypeOK
  <2>. QED
    BY <1>2, <2>3, <2>4, <2>5, <2>6
    DEF Next, Answer, Start, Garble, BackoffElapsed, StreamEnd, vars, healthVars
<1>. QED  BY <1>1, <1>2, TypeInvariant, PTL DEF Spec

-----------------------------------------------------------------------------
(* The calls of one request are distinct and within its budget.  Between   *)
(* calls the attempted set holds every target of the trace; during a call  *)
(* it holds the current target too, which the trace does not.              *)

TraceOK(q) ==
  /\ \A i \in DOMAIN q.trace : q.trace[i].target \in q.attempted
  /\ \A i, j \in DOMAIN q.trace : q.trace[i].target = q.trace[j].target => i = j
  /\ q.attempts <= MaxAttempts

Settled(q) == TraceOK(q) /\ q.attempts = Len(q.trace)

InCall(q) ==
  /\ TraceOK(q)
  /\ q.attempts = Len(q.trace) + 1
  /\ TargetOf(q.current) \in q.attempted
  /\ \A i \in DOMAIN q.trace : q.trace[i].target # TargetOf(q.current)

CallsOK ==
  \A r \in Requests :
    IF req[r].pc \in {"calling", "crashed"} THEN InCall(req[r]) ELSE Settled(req[r])

LEMMA AnswerSettles ==
  ASSUME NEW q \in RequestState, InCall(q), q.current \in Candidate,
         NEW outcome \in Outcome, NEW n,
         n.trace = Recorded(q, outcome), n.attempted = q.attempted,
         n.attempts = q.attempts
  PROVE  Settled(n)
<1>. DEFINE e == [target |-> TargetOf(q.current), outcome |-> outcome]
<1>1. q.trace \in Seq(TraceEntry) /\ e \in TraceEntry
  BY CandidateFields DEF RequestState, TraceEntry
<1>2. n.trace = Append(q.trace, e)
  BY DEF Recorded
<1>3. e.target = TargetOf(q.current)
  OBVIOUS
<1>. HIDE DEF e
<1>4. /\ Len(n.trace) = Len(q.trace) + 1
      /\ DOMAIN n.trace = 1..(Len(q.trace) + 1)
      /\ DOMAIN q.trace = 1..Len(q.trace)
      /\ \A i \in 1..Len(q.trace) : n.trace[i] = q.trace[i]
      /\ n.trace[Len(q.trace) + 1] = e
      /\ Len(q.trace) \in Nat
  BY <1>1, <1>2
<1>5. \A i \in DOMAIN n.trace : n.trace[i].target \in n.attempted
  BY <1>3, <1>4 DEF InCall, TraceOK
<1>6. \A i \in DOMAIN n.trace \ DOMAIN q.trace : i = Len(q.trace) + 1
  <2>1. \A m \in Nat : \A i \in (1..(m + 1)) \ (1..m) : i = m + 1
    OBVIOUS
  <2>. QED  BY <1>4, <2>1
<1>7. ASSUME NEW i \in DOMAIN n.trace, NEW j \in DOMAIN n.trace,
             n.trace[i].target = n.trace[j].target
      PROVE  i = j
  <2>1. CASE i \in DOMAIN q.trace /\ j \in DOMAIN q.trace
    <3>1. n.trace[i] = q.trace[i] /\ n.trace[j] = q.trace[j]
      BY <1>4, <2>1
    <3>2. q.trace[i].target = q.trace[j].target
      BY <1>7, <3>1
    <3>. QED  BY <2>1, <3>2 DEF InCall, TraceOK
  <2>2. CASE i \notin DOMAIN q.trace /\ j \in DOMAIN q.trace
    <3>1. n.trace[i] = e /\ n.trace[j] = q.trace[j]
      BY <1>4, <1>6, <2>2
    <3>. QED  BY <1>3, <1>7, <2>2, <3>1 DEF InCall
  <2>3. CASE i \in DOMAIN q.trace /\ j \notin DOMAIN q.trace
    <3>1. n.trace[j] = e /\ n.trace[i] = q.trace[i]
      BY <1>4, <1>6, <2>3
    <3>. QED  BY <1>3, <1>7, <2>3, <3>1 DEF InCall
  <2>4. CASE i \notin DOMAIN q.trace /\ j \notin DOMAIN q.trace
    BY <1>6, <2>4
  <2>. QED  BY <2>1, <2>2, <2>3, <2>4
<1>. QED  BY <1>4, <1>5, <1>7 DEF Settled, TraceOK, InCall

LEMMA LaunchCalls ==
  ASSUME NEW q \in RequestState, Settled(q), BudgetLeft(q),
         NEW c \in NextCandidates(q), NEW n,
         n.trace = q.trace, n.current = c, n.attempts = q.attempts + 1,
         n.attempted = q.attempted \cup {TargetOf(c)}
  PROVE  InCall(n)
<1>1. TargetOf(c) \notin q.attempted
  BY DEF NextCandidates, Eligible
<1>2. q.attempts \in Nat /\ MaxAttempts \in Nat
  BY SchedulerConstants DEF RequestState
<1>. QED  BY <1>1, <1>2 DEF InCall, Settled, TraceOK, BudgetLeft

(* The loop head, from a settled state.                                    *)
LEMMA TryNextCalls ==
  ASSUME TypeInv, CallsOK, NEW r \in Requests, NEW q \in RequestState, Settled(q),
         NEW pLoad, NEW kLoad, TryNext(r, q, pLoad, kLoad)
  PROVE  CallsOK'
<1>1. req \in [Requests -> RequestState]
  BY DEF TypeInv, TypeOK
<1>2. CASE BudgetLeft(q) /\ \E c \in NextCandidates(q) : Launch(r, q, c, pLoad, kLoad)
  <2>1. PICK c \in NextCandidates(q) : Launch(r, q, c, pLoad, kLoad)
    BY <1>2
  <2>. DEFINE attempted == q.attempted \cup {TargetOf(c)}
              attempts == q.attempts + 1
              n == [q EXCEPT !.pc = "calling", !.current = c,
                             !.attempts = attempts, !.attempted = attempted]
  <2>2. req' = [req EXCEPT ![r] = n]
    BY <2>1 DEF Launch
  <2>. HIDE DEF attempts, attempted
  <2>3. /\ n.pc = "calling" /\ n.trace = q.trace /\ n.current = c
        /\ n.attempts = attempts /\ n.attempted = attempted
    BY DEF RequestState
  <2>. HIDE DEF n
  <2>4. InCall(n)
    BY <1>2, <2>3, LaunchCalls DEF attempts, attempted
  <2>. QED  BY <1>1, <2>2, <2>3, <2>4 DEF CallsOK
<1>3. CASE GiveUp(r, q, pLoad, kLoad)
  <2>. DEFINE status == FinalStatus(q)
              n == [q EXCEPT !.pc = "done", !.status = status]
  <2>1. req' = [req EXCEPT ![r] = n]
    BY <1>3 DEF GiveUp
  <2>. HIDE DEF status
  <2>2. /\ n.pc = "done" /\ n.trace = q.trace
        /\ n.attempts = q.attempts /\ n.attempted = q.attempted
    BY DEF RequestState
  <2>. HIDE DEF n
  <2>3. Settled(n)
    BY <2>2 DEF Settled, TraceOK
  <2>. QED  BY <1>1, <2>1, <2>2, <2>3 DEF CallsOK
<1>. QED  BY <1>2, <1>3 DEF TryNext

(* Any other step of one request that leaves it settled.                   *)
LEMMA PauseCalls ==
  ASSUME TypeInv, CallsOK, NEW r \in Requests, NEW n, req' = [req EXCEPT ![r] = n],
         IF n.pc \in {"calling", "crashed"} THEN InCall(n) ELSE Settled(n)
  PROVE  CallsOK'
  BY DEF TypeInv, TypeOK, CallsOK

LEMMA StartCalls ==
  ASSUME TypeInv, CallsOK, NEW r \in Requests, Start(r)
  PROVE  CallsOK'
<1>. DEFINE found == Resolve(Route[r])
            q == [req[r] EXCEPT !.candidates = found]
<1>1. req[r] \in RequestState /\ found \subseteq Candidate
  BY ResolveType DEF TypeInv, TypeOK
<1>2. Settled(req[r])
  BY DEF Start, CallsOK
<1>3. CASE \E status \in {400, 404, 503} : Reject(r, status)
  <2>1. PICK status \in {400, 404, 503} : Reject(r, status)
    BY <1>3
  <2>. DEFINE n == [req[r] EXCEPT !.pc = "done", !.status = status]
  <2>2. req' = [req EXCEPT ![r] = n]
    BY <2>1 DEF Reject
  <2>3. /\ n.pc = "done" /\ n.trace = req[r].trace
        /\ n.attempts = req[r].attempts /\ n.attempted = req[r].attempted
    BY <1>1 DEF RequestState
  <2>. HIDE DEF n
  <2>4. Settled(n)
    BY <1>2, <2>3 DEF Settled, TraceOK
  <2>. QED  BY <2>2, <2>3, <2>4, PauseCalls
<1>4. CASE TryNext(r, q, providerLoad, keyLoad)
  <2>. HIDE DEF found
  <2>1. /\ q \in RequestState /\ q.trace = req[r].trace
        /\ q.attempts = req[r].attempts /\ q.attempted = req[r].attempted
    BY <1>1 DEF RequestState
  <2>. HIDE DEF q
  <2>2. Settled(q)
    BY <1>2, <2>1 DEF Settled, TraceOK
  <2>. QED  BY <1>4, <2>1, <2>2, TryNextCalls
<1>. QED  BY <1>3, <1>4 DEF Start

LEMMA FailCalls ==
  ASSUME TypeInv, CallsOK, NEW r \in Requests, NEW failure \in Failures, Fail(r, failure)
  PROVE  CallsOK'
<1>. DEFINE q == req[r]
            c == q.current
            category == Category(failure)
            seconds == CooldownSeconds(c.provider, category, failure.retryAfter)
            marked == [keyHealth EXCEPT ![KeyOf(c)] = KeyAfter(c, category, seconds)]
            scope == FailureScope(c, category, marked)
            next == AfterFailure(q, failure, category, scope)
            pLoad == RequestEnd(providerLoad, c.provider)
            kLoad == RequestEnd(keyLoad, KeyOf(c))
<1>1. q \in RequestState /\ c \in Candidate /\ q.pc = "calling"
  BY DEF Fail, TypeInv, TypeOK, CurrentOK
<1>2. category \in ErrorCategory /\ category \in Outcome
  BY CategoryType DEF Outcome
<1>3. \/ \E pc \in {"done", "backoff"} : req' = [req EXCEPT ![r] = [next EXCEPT !.pc = pc]]
      \/ TryNext(r, next, pLoad, kLoad)
  BY DEF Fail
<1>. HIDE DEF category, scope, pLoad, kLoad, marked, seconds
<1>4. next \in RequestState
  BY <1>1, <1>2, SchedulerConstants, AfterFailureType
<1>5. /\ next.trace = Recorded(q, category)
      /\ next.attempted = q.attempted
      /\ next.attempts = q.attempts
  BY <1>1 DEF AfterFailure, RequestState
<1>. HIDE DEF next
<1>6. InCall(q)
  BY <1>1 DEF CallsOK
<1>. HIDE DEF q
<1>7. Settled(next)
  BY <1>1, <1>2, <1>5, <1>6, AnswerSettles
<1>8. CASE TryNext(r, next, pLoad, kLoad)
  BY <1>4, <1>7, <1>8, TryNextCalls
<1>9. CASE \E pc \in {"done", "backoff"} : req' = [req EXCEPT ![r] = [next EXCEPT !.pc = pc]]
  <2>1. PICK pc \in {"done", "backoff"} : req' = [req EXCEPT ![r] = [next EXCEPT !.pc = pc]]
    BY <1>9
  <2>. DEFINE n == [next EXCEPT !.pc = pc]
  <2>2. /\ n.pc \in {"done", "backoff"} /\ n.trace = next.trace
        /\ n.attempts = next.attempts /\ n.attempted = next.attempted
    BY <1>4 DEF RequestState
  <2>3. req' = [req EXCEPT ![r] = n]
    BY <2>1
  <2>. HIDE DEF n
  <2>4. Settled(n)
    BY <1>7, <2>2 DEF Settled, TraceOK
  <2>. QED  BY <2>2, <2>3, <2>4, PauseCalls
<1>. QED  BY <1>3, <1>8, <1>9

LEMMA SucceedCalls ==
  ASSUME TypeInv, CallsOK, NEW r \in Requests, NEW reset \in Resets, Succeed(r, reset)
  PROVE  CallsOK'
<1>. DEFINE q == req[r]
            trace == Recorded(q, "success")
            pc == IF r \in StreamRequests THEN "streaming" ELSE "done"
            n == [q EXCEPT !.pc = pc, !.trace = trace, !.status = 200]
<1>1. q \in RequestState /\ q.current \in Candidate /\ q.pc = "calling"
  BY DEF Succeed, TypeInv, TypeOK, CurrentOK
<1>2. req' = [req EXCEPT ![r] = n]
  BY DEF Succeed
<1>3. pc \in {"streaming", "done"}
  OBVIOUS
<1>. HIDE DEF trace, pc
<1>4. /\ n.pc = pc /\ n.trace = trace
      /\ n.attempts = q.attempts /\ n.attempted = q.attempted
  BY <1>1 DEF RequestState
<1>. HIDE DEF n
<1>5. InCall(q)
  BY <1>1 DEF CallsOK
<1>. HIDE DEF q
<1>6. Settled(n)
  BY <1>1, <1>4, <1>5, AnswerSettles DEF trace, Outcome
<1>. QED  BY <1>2, <1>3, <1>4, <1>6, PauseCalls

(* The loop's bookkeeping, whatever the interleaving of requests.          *)
THEOREM CallsInvariant == Spec => []CallsOK
<1>1. Init => CallsOK
  BY SchedulerConstants DEF Init, CallsOK, Settled, TraceOK
<1>2. ASSUME TypeInv, CallsOK, [Next]_vars
      PROVE  CallsOK'
  <2>1. ASSUME NEW r \in Requests, Garble(r)
        PROVE  CallsOK'
    <3>. DEFINE pc == "crashed"
                n == [req[r] EXCEPT !.pc = pc, !.status = 500]
    <3>1. req' = [req EXCEPT ![r] = n]
      BY <2>1 DEF Garble
    <3>. HIDE DEF pc
    <3>2. /\ n.pc = pc /\ n.trace = req[r].trace /\ n.current = req[r].current
          /\ n.attempts = req[r].attempts /\ n.attempted = req[r].attempted
      BY <1>2, <2>1 DEF TypeInv, TypeOK, RequestState
    <3>. HIDE DEF n
    <3>3. InCall(req[r])
      BY <1>2, <2>1 DEF Garble, CallsOK
    <3>4. InCall(n)
      BY <3>2, <3>3 DEF InCall, TraceOK
    <3>. QED  BY <1>2, <3>1, <3>2, <3>4, PauseCalls DEF pc
  <2>2. ASSUME NEW r \in Requests, StreamEnd(r)
        PROVE  CallsOK'
    <3>. DEFINE pc == "done"
                n == [req[r] EXCEPT !.pc = pc]
    <3>1. req' = [req EXCEPT ![r] = n]
      BY <1>2, <2>2 DEF StreamEnd, TypeInv, TypeOK
    <3>. HIDE DEF pc
    <3>2. /\ n.pc = pc /\ n.trace = req[r].trace
          /\ n.attempts = req[r].attempts /\ n.attempted = req[r].attempted
      BY <1>2, <2>2 DEF TypeInv, TypeOK, RequestState
    <3>. HIDE DEF n
    <3>3. Settled(req[r])
      BY <1>2, <2>2 DEF StreamEnd, CallsOK
    <3>4. Settled(n)
      BY <3>2, <3>3 DEF Settled, TraceOK
    <3>. QED  BY <1>2, <3>1, <3>2, <3>4, PauseCalls DEF pc
  <2>3. ASSUME NEW r \in Requests, BackoffElapsed(r)
        PROVE  CallsOK'
    <3>1. Settled(req[r]) /\ req[r] \in RequestState
      BY <1>2, <2>3 DEF BackoffElapsed, CallsOK, TypeInv, TypeOK
    <3>. QED  BY <1>2, <2>3, <3>1, TryNextCalls DEF BackoffElapsed
  <2>4. ASSUME req' = req
        PROVE  CallsOK'
    BY <1>2, <2>4 DEF CallsOK
  <2>. QED
    BY <1>2, <2>1, <2>2, <2>3, <2>4, StartCalls, SucceedCalls, FailCalls
    DEF Next, Answer, Tick, vars
<1>. QED  BY <1>1, <1>2, TypeInvariant, PTL DEF Spec

(* No (provider, model, key) is called twice for one request.              *)
THEOREM TargetsDistinct == Spec => []NoTargetTwice
<1>1. TypeInv /\ CallsOK => NoTargetTwice
  BY DEF CallsOK, InCall, Settled, TraceOK, NoTargetTwice
<1>. QED  BY <1>1, TypeInvariant, CallsInvariant, PTL

(* A request makes at most max_total_attempts calls.                       *)
THEOREM BudgetRespected == Spec => []AttemptBudget
<1>1. ASSUME TypeInv, CallsOK, NEW r \in Requests
      PROVE  Len(Called(req[r])) <= MaxAttempts
  <2>. DEFINE q == req[r]
              s == [i \in DOMAIN q.trace |-> q.trace[i].target]
              Target == Providers \X Models \X KeyNames
  <2>1. q.trace \in Seq(TraceEntry) /\ Len(q.trace) \in Nat /\ MaxAttempts \in Nat
        /\ q.attempts \in Nat
    BY <1>1, SchedulerConstants DEF TypeInv, TypeOK, RequestState
  <2>2. s \in Seq(Target) /\ Len(s) = Len(q.trace)
    <3>1. \A i \in 1..Len(q.trace) : q.trace[i].target \in Target
      <4>1. \A i \in 1..Len(q.trace) : q.trace[i] \in TraceEntry
        BY <2>1
      <4>. QED  BY <4>1 DEF TraceEntry
    <3>2. s = [i \in 1..Len(q.trace) |-> q.trace[i].target]
      BY <2>1
    <3>. HIDE DEF Target, s
    <3>. QED  BY <2>1, <3>1, <3>2
  <2>3. CASE q.pc = "calling"
    <3>1. TargetOf(q.current) \in Target
      BY <1>1, <2>3, CandidateFields DEF TypeInv, CurrentOK
    <3>2. Called(q) = s \o <<TargetOf(q.current)>>
      BY <2>3 DEF Called
    <3>. HIDE DEF s, Target
    <3>3. Len(Called(q)) = Len(q.trace) + 1
      BY <2>2, <3>1, <3>2
    <3>4. InCall(q)
      BY <1>1, <2>3 DEF CallsOK
    <3>. QED  BY <2>1, <3>3, <3>4 DEF InCall, TraceOK
  <2>4. CASE q.pc # "calling"
    <3>1. Called(q) = s \o << >>
      BY <2>4 DEF Called
    <3>. HIDE DEF s, Target
    <3>2. Len(Called(q)) = Len(q.trace)
      BY <2>2, <3>1
    <3>3. TraceOK(q) /\ Len(q.trace) <= q.attempts
      BY <1>1, <2>1 DEF CallsOK, InCall, Settled
    <3>. QED  BY <2>1, <3>2, <3>3 DEF TraceOK
  <2>. QED  BY <2>3, <2>4
<1>2. TypeInv /\ CallsOK => AttemptBudget
  BY <1>1 DEF AttemptBudget
<1>. QED  BY <1>2, TypeInvariant, CallsInvariant, PTL

-----------------------------------------------------------------------------
(* The in-flight counters.  A step changes the record of one request, and  *)
(* every counter changes by what that request newly holds less what it     *)
(* held before.                                                            *)

ProviderShare(r, p) == IF r \in HoldersOfProvider(p) THEN 1 ELSE 0
KeyShare(r, k)      == IF r \in HoldersOfKey(k) THEN 1 ELSE 0

LEMMA Recount ==
  ASSUME NEW r \in Requests, NEW H \in SUBSET Requests, NEW G \in SUBSET Requests,
         H \ {r} = G \ {r}
  PROVE  /\ Cardinality(H) \in Nat
         /\ r \in H => Cardinality(H) > 0
         /\ Cardinality(G) = Cardinality(H) - (IF r \in H THEN 1 ELSE 0)
                                            + (IF r \in G THEN 1 ELSE 0)
<1>. DEFINE B == H \ {r}
<1>1. IsFiniteSet(H) /\ IsFiniteSet(G) /\ IsFiniteSet(B)
  BY FiniteRequests, FS_Subset
<1>2. Cardinality(B) \in Nat
  BY <1>1, FS_CardinalityType
<1>3. Cardinality(B \cup {r}) = Cardinality(B) + 1
  BY <1>1, FS_AddElement
<1>4. /\ r \in H => H = B \cup {r}
      /\ r \notin H => H = B
      /\ r \in G => G = B \cup {r}
      /\ r \notin G => G = B
  OBVIOUS
<1>. HIDE DEF B
<1>5. Cardinality(H) = Cardinality(B) + (IF r \in H THEN 1 ELSE 0)
  <2>1. CASE r \in H
    BY <1>3, <1>4, <2>1
  <2>2. CASE r \notin H
    BY <1>2, <1>4, <2>2
  <2>. QED  BY <2>1, <2>2
<1>6. Cardinality(G) = Cardinality(B) + (IF r \in G THEN 1 ELSE 0)
  <2>1. CASE r \in G
    BY <1>3, <1>4, <2>1
  <2>2. CASE r \notin G
    BY <1>2, <1>4, <2>2
  <2>. QED  BY <2>1, <2>2
<1>. QED  BY <1>2, <1>5, <1>6

LEMMA StartCounts ==
  ASSUME NEW S, NEW load \in [S -> LoadState], NEW t \in S, NEW u \in S
  PROVE  RequestStart(load, t)[u].inFlight
           = load[u].inFlight + (IF u = t THEN 1 ELSE 0)
  BY DEF RequestStart, LoadState

LEMMA EndCounts ==
  ASSUME NEW S, NEW load \in [S -> LoadState], NEW t \in S, NEW u \in S,
         load[t].inFlight > 0
  PROVE  RequestEnd(load, t)[u].inFlight
           = load[u].inFlight - (IF u = t THEN 1 ELSE 0)
  BY DEF RequestEnd, LoadState

LEMMA ReleaseCounts ==
  ASSUME TypeInv, InFlightAccounted, NEW r \in Requests, Holds(r)
  PROVE  /\ \A p \in Providers :
              RequestEnd(providerLoad, req[r].current.provider)[p].inFlight
                = providerLoad[p].inFlight - ProviderShare(r, p)
         /\ \A k \in Key :
              RequestEnd(keyLoad, KeyOf(req[r].current))[k].inFlight
                = keyLoad[k].inFlight - KeyShare(r, k)
<1>. DEFINE c == req[r].current
<1>1. c.provider \in Providers /\ KeyOf(c) \in Key
  BY CandidateFields DEF Holds, TypeInv, CurrentOK
<1>2. /\ \A p \in Providers : r \in HoldersOfProvider(p) <=> p = c.provider
      /\ \A k \in Key : r \in HoldersOfKey(k) <=> k = KeyOf(c)
  BY DEF HoldersOfProvider, HoldersOfKey
<1>3. /\ HoldersOfProvider(c.provider) \in SUBSET Requests
      /\ HoldersOfKey(KeyOf(c)) \in SUBSET Requests
  BY DEF HoldersOfProvider, HoldersOfKey
<1>4. /\ Cardinality(HoldersOfProvider(c.provider)) > 0
      /\ Cardinality(HoldersOfKey(KeyOf(c))) > 0
  BY <1>1, <1>2, <1>3, Recount
<1>5. providerLoad[c.provider].inFlight > 0 /\ keyLoad[KeyOf(c)].inFlight > 0
  BY <1>1, <1>4 DEF InFlightAccounted
<1>6. providerLoad \in [Providers -> LoadState] /\ keyLoad \in [Key -> LoadState]
  BY DEF TypeInv, TypeOK
<1>. HIDE DEF c
<1>7. \A p \in Providers : RequestEnd(providerLoad, c.provider)[p].inFlight
                           = providerLoad[p].inFlight - ProviderShare(r, p)
  BY <1>1, <1>2, <1>5, <1>6, EndCounts DEF ProviderShare
<1>8. \A k \in Key : RequestEnd(keyLoad, KeyOf(c))[k].inFlight
                     = keyLoad[k].inFlight - KeyShare(r, k)
  BY <1>1, <1>2, <1>5, <1>6, EndCounts DEF KeyShare
<1>. QED  BY <1>7, <1>8 DEF c

LEMMA TryNextCounts ==
  ASSUME TypeInv, NEW r \in Requests, NEW q \in RequestState,
         NEW pLoad \in [Providers -> LoadState], NEW kLoad \in [Key -> LoadState],
         TryNext(r, q, pLoad, kLoad)
  PROVE  /\ \A s \in Requests \ {r} : req'[s] = req[s]
         /\ \A p \in Providers :
              providerLoad'[p].inFlight = pLoad[p].inFlight + ProviderShare(r, p)'
         /\ \A k \in Key :
              keyLoad'[k].inFlight = kLoad[k].inFlight + KeyShare(r, k)'
<1>1. req \in [Requests -> RequestState]
  BY DEF TypeInv, TypeOK
<1>2. CASE \E c \in NextCandidates(q) : Launch(r, q, c, pLoad, kLoad)
  <2>1. PICK c \in NextCandidates(q) : Launch(r, q, c, pLoad, kLoad)
    BY <1>2
  <2>2. c.provider \in Providers /\ KeyOf(c) \in Key
    BY <2>1, CandidateFields DEF NextCandidates, Eligible, RequestState
  <2>. DEFINE attempted == q.attempted \cup {TargetOf(c)}
              attempts == q.attempts + 1
              n == [q EXCEPT !.pc = "calling", !.current = c,
                             !.attempts = attempts, !.attempted = attempted]
  <2>3. req' = [req EXCEPT ![r] = n]
    BY <2>1 DEF Launch
  <2>. HIDE DEF attempts, attempted
  <2>4. n.pc = "calling" /\ n.current = c
    BY DEF RequestState
  <2>. HIDE DEF n
  <2>5. req'[r].pc = "calling" /\ req'[r].current = c
    BY <1>1, <2>3, <2>4
  <2>6. /\ \A p \in Providers : ProviderShare(r, p)' = IF p = c.provider THEN 1 ELSE 0
        /\ \A k \in Key : KeyShare(r, k)' = IF k = KeyOf(c) THEN 1 ELSE 0
    BY <2>5 DEF ProviderShare, KeyShare, HoldersOfProvider, HoldersOfKey, Holds
  <2>7. /\ providerLoad' = RequestStart(pLoad, c.provider)
        /\ keyLoad' = RequestStart(kLoad, KeyOf(c))
    BY <2>1 DEF Launch
  <2>. QED  BY <1>1, <2>2, <2>3, <2>6, <2>7, StartCounts
<1>3. CASE GiveUp(r, q, pLoad, kLoad)
  <2>. DEFINE status == FinalStatus(q)
              n == [q EXCEPT !.pc = "done", !.status = status]
  <2>1. req' = [req EXCEPT ![r] = n] /\ providerLoad' = pLoad /\ keyLoad' = kLoad
    BY <1>3 DEF GiveUp
  <2>. HIDE DEF status
  <2>2. n.pc = "done"
    BY DEF RequestState
  <2>. HIDE DEF n
  <2>3. req'[r].pc = "done"
    BY <1>1, <2>1, <2>2
  <2>4. /\ \A p \in Providers : ProviderShare(r, p)' = 0
        /\ \A k \in Key : KeyShare(r, k)' = 0
    BY <2>3 DEF ProviderShare, KeyShare, HoldersOfProvider, HoldersOfKey, Holds
  <2>. QED  BY <1>1, <2>1, <2>4 DEF LoadState
<1>. QED  BY <1>2, <1>3 DEF TryNext

LEMMA Reaccounted ==
  ASSUME TypeInv, InFlightAccounted, NEW r \in Requests,
         \A s \in Requests \ {r} : req'[s] = req[s],
         \A p \in Providers : providerLoad'[p].inFlight =
           providerLoad[p].inFlight - ProviderShare(r, p) + ProviderShare(r, p)',
         \A k \in Key : keyLoad'[k].inFlight =
           keyLoad[k].inFlight - KeyShare(r, k) + KeyShare(r, k)'
  PROVE  InFlightAccounted'
<1>1. ASSUME NEW p \in Providers
      PROVE  providerLoad'[p].inFlight = Cardinality(HoldersOfProvider(p)')
  <2>. DEFINE H == HoldersOfProvider(p)
              G == HoldersOfProvider(p)'
  <2>1. H \in SUBSET Requests /\ G \in SUBSET Requests /\ H \ {r} = G \ {r}
    BY DEF HoldersOfProvider, Holds
  <2>2. /\ ProviderShare(r, p) = IF r \in H THEN 1 ELSE 0
        /\ ProviderShare(r, p)' = IF r \in G THEN 1 ELSE 0
    BY DEF ProviderShare
  <2>3. providerLoad[p].inFlight = Cardinality(H)
    BY DEF InFlightAccounted
  <2>. HIDE DEF H, G
  <2>4. Cardinality(G) = Cardinality(H) - (IF r \in H THEN 1 ELSE 0)
                                        + (IF r \in G THEN 1 ELSE 0)
    BY <2>1, Recount
  <2>. QED  BY <2>2, <2>3, <2>4 DEF G
<1>2. ASSUME NEW k \in Key
      PROVE  keyLoad'[k].inFlight = Cardinality(HoldersOfKey(k)')
  <2>. DEFINE H == HoldersOfKey(k)
              G == HoldersOfKey(k)'
  <2>1. H \in SUBSET Requests /\ G \in SUBSET Requests /\ H \ {r} = G \ {r}
    BY DEF HoldersOfKey, Holds
  <2>2. /\ KeyShare(r, k) = IF r \in H THEN 1 ELSE 0
        /\ KeyShare(r, k)' = IF r \in G THEN 1 ELSE 0
    BY DEF KeyShare
  <2>3. keyLoad[k].inFlight = Cardinality(H)
    BY DEF InFlightAccounted
  <2>. HIDE DEF H, G
  <2>4. Cardinality(G) = Cardinality(H) - (IF r \in H THEN 1 ELSE 0)
                                        + (IF r \in G THEN 1 ELSE 0)
    BY <2>1, Recount
  <2>. QED  BY <2>2, <2>3, <2>4 DEF G
<1>. QED  BY <1>1, <1>2 DEF InFlightAccounted

LEMMA StartAccounts ==
  ASSUME TypeInv, InFlightAccounted, NEW r \in Requests, Start(r)
  PROVE  InFlightAccounted'
<1>. DEFINE found == Resolve(Route[r])
            q == [req[r] EXCEPT !.candidates = found]
<1>1. /\ req[r] \in RequestState /\ found \subseteq Candidate
      /\ providerLoad \in [Providers -> LoadState]
      /\ keyLoad \in [Key -> LoadState]
      /\ req \in [Requests -> RequestState]
  BY ResolveType DEF TypeInv, TypeOK
<1>2. /\ \A p \in Providers : ProviderShare(r, p) = 0
      /\ \A k \in Key : KeyShare(r, k) = 0
  BY DEF Start, ProviderShare, KeyShare, HoldersOfProvider, HoldersOfKey, Holds
<1>3. CASE \E status \in {400, 404, 503} : Reject(r, status)
  <2>1. PICK status \in {400, 404, 503} : Reject(r, status)
    BY <1>3
  <2>. DEFINE n == [req[r] EXCEPT !.pc = "done", !.status = status]
  <2>2. req' = [req EXCEPT ![r] = n] /\ UNCHANGED loadVars
    BY <2>1 DEF Reject
  <2>3. n.pc = "done"
    BY <1>1 DEF RequestState
  <2>. HIDE DEF n
  <2>4. /\ \A p \in Providers : ProviderShare(r, p)' = 0
        /\ \A k \in Key : KeyShare(r, k)' = 0
    BY <1>1, <2>2, <2>3 DEF ProviderShare, KeyShare, HoldersOfProvider, HoldersOfKey, Holds
  <2>. QED  BY <1>1, <1>2, <2>2, <2>4, Reaccounted DEF loadVars, LoadState
<1>4. CASE TryNext(r, q, providerLoad, keyLoad)
  <2>. HIDE DEF found
  <2>1. q \in RequestState
    BY <1>1 DEF RequestState
  <2>. HIDE DEF q
  <2>2. /\ \A s \in Requests \ {r} : req'[s] = req[s]
        /\ \A p \in Providers :
             providerLoad'[p].inFlight = providerLoad[p].inFlight + ProviderShare(r, p)'
        /\ \A k \in Key :
             keyLoad'[k].inFlight = keyLoad[k].inFlight + KeyShare(r, k)'
    BY <1>1, <1>4, <2>1, TryNextCounts
  <2>3. /\ \A p \in Providers : providerLoad[p].inFlight - ProviderShare(r, p)
                                  = providerLoad[p].inFlight
        /\ \A k \in Key : keyLoad[k].inFlight - KeyShare(r, k) = keyLoad[k].inFlight
    BY <1>1, <1>2 DEF LoadState
  <2>. QED  BY <2>2, <2>3, Reaccounted
<1>. QED  BY <1>3, <1>4 DEF Start

(* A step that releases what the request held.                             *)
LEMMA ReleaseAccounts ==
  ASSUME TypeInv, InFlightAccounted, NEW r \in Requests, Holds(r),
         req'[r].pc \in {"done", "backoff"},
         \A s \in Requests \ {r} : req'[s] = req[s],
         providerLoad' = RequestEnd(providerLoad, req[r].current.provider),
         keyLoad' = RequestEnd(keyLoad, KeyOf(req[r].current))
  PROVE  InFlightAccounted'
<1>1. /\ \A p \in Providers : ProviderShare(r, p)' = 0
      /\ \A k \in Key : KeyShare(r, k)' = 0
  BY DEF ProviderShare, KeyShare, HoldersOfProvider, HoldersOfKey, Holds
<1>2. /\ \A p \in Providers : providerLoad'[p].inFlight
                                = providerLoad[p].inFlight - ProviderShare(r, p)
      /\ \A k \in Key : keyLoad'[k].inFlight = keyLoad[k].inFlight - KeyShare(r, k)
  BY ReleaseCounts
<1>3. /\ providerLoad \in [Providers -> LoadState] /\ keyLoad \in [Key -> LoadState]
      /\ \A p \in Providers : ProviderShare(r, p) \in Int
      /\ \A k \in Key : KeyShare(r, k) \in Int
  BY DEF TypeInv, TypeOK, ProviderShare, KeyShare
<1>. QED  BY <1>1, <1>2, <1>3, Reaccounted DEF LoadState

(* A step after which the request holds what it held before.               *)
LEMMA KeepAccounts ==
  ASSUME TypeInv, InFlightAccounted, NEW r \in Requests, Holds(r),
         req'[r].pc \in {"streaming", "crashed"}, req'[r].current = req[r].current,
         \A s \in Requests \ {r} : req'[s] = req[s], UNCHANGED loadVars
  PROVE  InFlightAccounted'
<1>1. \A s \in Requests : Holds(s)' = Holds(s) /\ req'[s].current = req[s].current
  BY DEF Holds
<1>2. /\ \A p \in Providers : HoldersOfProvider(p)' = HoldersOfProvider(p)
      /\ \A k \in Key : HoldersOfKey(k)' = HoldersOfKey(k)
  BY <1>1 DEF HoldersOfProvider, HoldersOfKey
<1>. QED  BY <1>2 DEF InFlightAccounted, loadVars

LEMMA SucceedAccounts ==
  ASSUME TypeInv, InFlightAccounted, NEW r \in Requests, NEW reset \in Resets,
         Succeed(r, reset)
  PROVE  InFlightAccounted'
<1>. DEFINE q == req[r]
            trace == Recorded(q, "success")
            pc == IF r \in StreamRequests THEN "streaming" ELSE "done"
            n == [q EXCEPT !.pc = pc, !.trace = trace, !.status = 200]
<1>1. q \in RequestState /\ Holds(r)
  BY DEF Succeed, TypeInv, TypeOK, Holds
<1>2. req' = [req EXCEPT ![r] = n]
  BY DEF Succeed
<1>. HIDE DEF trace, pc
<1>3. n.pc = pc /\ n.current = q.current
  BY <1>1 DEF RequestState
<1>. HIDE DEF n
<1>4. /\ req'[r].pc = pc /\ req'[r].current = q.current
      /\ \A s \in Requests \ {r} : req'[s] = req[s]
  BY <1>2, <1>3 DEF TypeInv, TypeOK
<1>5. CASE r \in StreamRequests
  <2>1. pc = "streaming" /\ UNCHANGED loadVars
    BY <1>5 DEF Succeed, pc, loadVars
  <2>. QED  BY <1>1, <1>4, <2>1, KeepAccounts
<1>6. CASE r \notin StreamRequests
  <2>1. /\ pc = "done"
        /\ providerLoad' = RequestEnd(providerLoad, q.current.provider)
        /\ keyLoad' = RequestEnd(keyLoad, KeyOf(q.current))
    BY <1>6 DEF Succeed, pc
  <2>. QED  BY <1>1, <1>4, <2>1, ReleaseAccounts
<1>. QED  BY <1>5, <1>6

LEMMA FailAccounts ==
  ASSUME TypeInv, InFlightAccounted, NEW r \in Requests, NEW failure \in Failures,
         Fail(r, failure)
  PROVE  InFlightAccounted'
<1>. DEFINE q == req[r]
            c == q.current
            category == Category(failure)
            seconds == CooldownSeconds(c.provider, category, failure.retryAfter)
            marked == [keyHealth EXCEPT ![KeyOf(c)] = KeyAfter(c, category, seconds)]
            scope == FailureScope(c, category, marked)
            next == AfterFailure(q, failure, category, scope)
            pLoad == RequestEnd(providerLoad, c.provider)
            kLoad == RequestEnd(keyLoad, KeyOf(c))
<1>1. q \in RequestState /\ c \in Candidate /\ Holds(r)
  BY DEF Fail, TypeInv, TypeOK, CurrentOK, Holds
<1>2. category \in ErrorCategory
  BY CategoryType
<1>3. \/ \E pc \in {"done", "backoff"} :
           /\ req' = [req EXCEPT ![r] = [next EXCEPT !.pc = pc]]
           /\ providerLoad' = pLoad /\ keyLoad' = kLoad
      \/ TryNext(r, next, pLoad, kLoad)
  BY DEF Fail
<1>. HIDE DEF category, scope, marked, seconds
<1>4. next \in RequestState
  BY <1>1, <1>2, SchedulerConstants, AfterFailureType
<1>. HIDE DEF next
<1>5. CASE TryNext(r, next, pLoad, kLoad)
  <2>1. pLoad \in [Providers -> LoadState] /\ kLoad \in [Key -> LoadState]
    BY <1>1, CandidateFields, RequestEndType DEF TypeInv, TypeOK
  <2>2. /\ \A p \in Providers :
             pLoad[p].inFlight = providerLoad[p].inFlight - ProviderShare(r, p)
        /\ \A k \in Key : kLoad[k].inFlight = keyLoad[k].inFlight - KeyShare(r, k)
    BY <1>1, ReleaseCounts
  <2>. HIDE DEF pLoad, kLoad
  <2>3. /\ \A s \in Requests \ {r} : req'[s] = req[s]
        /\ \A p \in Providers :
             providerLoad'[p].inFlight = pLoad[p].inFlight + ProviderShare(r, p)'
        /\ \A k \in Key :
             keyLoad'[k].inFlight = kLoad[k].inFlight + KeyShare(r, k)'
    BY <1>4, <1>5, <2>1, TryNextCounts
  <2>. QED  BY <2>2, <2>3, Reaccounted
<1>6. CASE \E pc \in {"done", "backoff"} :
             /\ req' = [req EXCEPT ![r] = [next EXCEPT !.pc = pc]]
             /\ providerLoad' = pLoad /\ keyLoad' = kLoad
  <2>1. PICK pc \in {"done", "backoff"} :
             /\ req' = [req EXCEPT ![r] = [next EXCEPT !.pc = pc]]
             /\ providerLoad' = pLoad /\ keyLoad' = kLoad
    BY <1>6
  <2>. DEFINE n == [next EXCEPT !.pc = pc]
  <2>2. n.pc \in {"done", "backoff"}
    BY <1>4 DEF RequestState
  <2>3. req' = [req EXCEPT ![r] = n]
    BY <2>1
  <2>. HIDE DEF n
  <2>4. /\ req'[r].pc \in {"done", "backoff"}
        /\ \A s \in Requests \ {r} : req'[s] = req[s]
    BY <2>2, <2>3 DEF TypeInv, TypeOK
  <2>5. /\ providerLoad' = RequestEnd(providerLoad, req[r].current.provider)
        /\ keyLoad' = RequestEnd(keyLoad, KeyOf(req[r].current))
    BY <2>1
  <2>. QED  BY <1>1, <2>4, <2>5, ReleaseAccounts
<1>. QED  BY <1>3, <1>5, <1>6

(* Every counter of calls in flight equals the number of requests holding  *)
(* it: no attempt is released twice, none is released by another request.  *)
THEOREM InFlightIsAccounted == Spec => []InFlightAccounted
<1>1. Init => InFlightAccounted
  <2>1. ASSUME Init
        PROVE  /\ \A p \in Providers : HoldersOfProvider(p) = {}
               /\ \A k \in Key : HoldersOfKey(k) = {}
    BY <2>1 DEF Init, HoldersOfProvider, HoldersOfKey, Holds
  <2>2. Cardinality({}) = 0
    BY FS_EmptySet
  <2>3. ASSUME Init
        PROVE  /\ \A p \in Providers : providerLoad[p].inFlight = 0
               /\ \A k \in Key : keyLoad[k].inFlight = 0
    BY <2>3 DEF Init
  <2>. QED  BY <2>1, <2>2, <2>3 DEF InFlightAccounted
<1>2. ASSUME TypeInv, InFlightAccounted, [Next]_vars
      PROVE  InFlightAccounted'
  <2>1. ASSUME NEW r \in Requests, Garble(r)
        PROVE  InFlightAccounted'
    <3>. DEFINE pc == "crashed"
                n == [req[r] EXCEPT !.pc = pc, !.status = 500]
    <3>1. req' = [req EXCEPT ![r] = n] /\ UNCHANGED loadVars
      BY <2>1 DEF Garble
    <3>. HIDE DEF pc
    <3>2. n.pc = pc /\ n.current = req[r].current
      BY <1>2, <2>1 DEF TypeInv, TypeOK, RequestState
    <3>. HIDE DEF n
    <3>3. Holds(r)
      BY <2>1 DEF Garble, Holds
    <3>4. /\ req'[r].pc = pc /\ req'[r].current = req[r].current
          /\ \A s \in Requests \ {r} : req'[s] = req[s]
      BY <1>2, <3>1, <3>2 DEF TypeInv, TypeOK
    <3>. QED  BY <1>2, <3>1, <3>3, <3>4, KeepAccounts DEF pc
  <2>2. ASSUME NEW r \in Requests, StreamEnd(r)
        PROVE  InFlightAccounted'
    <3>. DEFINE pc == "done"
                n == [req[r] EXCEPT !.pc = pc]
    <3>1. /\ req' = [req EXCEPT ![r] = n]
          /\ providerLoad' = RequestEnd(providerLoad, req[r].current.provider)
          /\ keyLoad' = RequestEnd(keyLoad, KeyOf(req[r].current))
      BY <1>2, <2>2 DEF StreamEnd, TypeInv, TypeOK
    <3>. HIDE DEF pc
    <3>2. n.pc = pc
      BY <1>2, <2>2 DEF TypeInv, TypeOK, RequestState
    <3>. HIDE DEF n
    <3>3. Holds(r)
      BY <2>2 DEF StreamEnd, Holds
    <3>4. /\ req'[r].pc = pc
          /\ \A s \in Requests \ {r} : req'[s] = req[s]
      BY <1>2, <3>1, <3>2 DEF TypeInv, TypeOK
    <3>. QED  BY <1>2, <3>1, <3>3, <3>4, ReleaseAccounts DEF pc
  <2>3. ASSUME NEW r \in Requests, BackoffElapsed(r)
        PROVE  InFlightAccounted'
    <3>1. /\ req[r] \in RequestState
          /\ providerLoad \in [Providers -> LoadState]
          /\ keyLoad \in [Key -> LoadState]
      BY <1>2 DEF TypeInv, TypeOK
    <3>2. /\ \A s \in Requests \ {r} : req'[s] = req[s]
          /\ \A p \in Providers :
               providerLoad'[p].inFlight = providerLoad[p].inFlight + ProviderShare(r, p)'
          /\ \A k \in Key :
               keyLoad'[k].inFlight = keyLoad[k].inFlight + KeyShare(r, k)'
      BY <1>2, <2>3, <3>1, TryNextCounts DEF BackoffElapsed
    <3>3. /\ \A p \in Providers : ProviderShare(r, p) = 0
          /\ \A k \in Key : KeyShare(r, k) = 0
      BY <2>3 DEF BackoffElapsed, ProviderShare, KeyShare, HoldersOfProvider,
                  HoldersOfKey, Holds
    <3>4. /\ \A p \in Providers : providerLoad[p].inFlight - ProviderShare(r, p)
                                    = providerLoad[p].inFlight
          /\ \A k \in Key : keyLoad[k].inFlight - KeyShare(r, k) = keyLoad[k].inFlight
      BY <3>1, <3>3 DEF LoadState
    <3>. QED  BY <1>2, <3>2, <3>4, Reaccounted
  <2>4. ASSUME req' = req, UNCHANGED loadVars
        PROVE  InFlightAccounted'
    BY <1>2, <2>4 DEF InFlightAccounted, HoldersOfProvider, HoldersOfKey, Holds, loadVars
  <2>. QED
    BY <1>2, <2>1, <2>2, <2>3, <2>4, StartAccounts, SucceedAccounts, FailAccounts
    DEF Next, Answer, Tick, vars
<1>. QED  BY <1>1, <1>2, TypeInvariant, PTL DEF Spec

-----------------------------------------------------------------------------
(* What a request may conclude: how it ends, when it may give up, what it  *)
(* asks again, and what its attempts are charged.                          *)
(*                                                                         *)
(* RequestMoves summarises what a step of Scheduler may do to the record   *)
(* of one request; the invariants of a request's history are then facts    *)
(* about that relation alone.                                              *)

(* The record but for its phase and its status.                            *)
SameCalls(q, n) ==
  /\ n.candidates = q.candidates
  /\ n.current = q.current
  /\ n.attempts = q.attempts
  /\ n.attempted = q.attempted
  /\ n.skippedModels = q.skippedModels
  /\ n.skippedProviders = q.skippedProviders
  /\ n.trace = q.trace

Launched(q, n, c) ==
  /\ BudgetLeft(q)
  /\ c \in NextCandidates(q)
  /\ n.pc = "calling"
  /\ n.current = c
  /\ n.attempts = q.attempts + 1
  /\ n.attempted = q.attempted \cup {TargetOf(c)}
  /\ n.candidates = q.candidates
  /\ n.skippedModels = q.skippedModels
  /\ n.skippedProviders = q.skippedProviders
  /\ n.trace = q.trace
  /\ n.status = q.status

GivenUp(q, n) ==
  /\ Eligible(q) = {} \/ ~BudgetLeft(q)
  /\ n.pc = "done"
  /\ n.status = FinalStatus(q)
  /\ SameCalls(q, n)

Proceeds(q, n) == GivenUp(q, n) \/ \E c \in Candidate : Launched(q, n, c)

Rejected(q, n) ==
  /\ q.pc = "idle"
  /\ n.pc = "done"
  /\ n.status \in {400, 404, 503}
  /\ SameCalls(q, n)

Opened(q, n, found) ==
  /\ q.pc = "idle"
  /\ found # {}
  /\ \E o \in RequestState :
       /\ o.candidates = found
       /\ o.pc = q.pc
       /\ o.current = q.current
       /\ o.attempts = q.attempts
       /\ o.attempted = q.attempted
       /\ o.skippedModels = q.skippedModels
       /\ o.skippedProviders = q.skippedProviders
       /\ o.trace = q.trace
       /\ o.status = q.status
       /\ Proceeds(o, n)

Succeeded(q, n) ==
  /\ q.pc = "calling"
  /\ n.pc \in {"streaming", "done"}
  /\ n.status = 200
  /\ n.candidates = q.candidates
  /\ n.current = q.current
  /\ n.attempts = q.attempts
  /\ n.attempted = q.attempted
  /\ n.skippedModels = q.skippedModels
  /\ n.skippedProviders = q.skippedProviders
  /\ n.trace = Recorded(q, "success")

Garbled(q, n) ==
  q.pc = "calling" /\ n.pc = "crashed" /\ n.status = 500 /\ SameCalls(q, n)

StreamEnded(q, n) ==
  q.pc = "streaming" /\ n.pc = "done" /\ n.status = q.status /\ SameCalls(q, n)

Resumed(q, n) == q.pc = "backoff" /\ Proceeds(q, n)

(* o is q with the failure recorded; the health is that after the step.    *)
Blamed(q, o, category, health) ==
  /\ o.pc = "calling"
  /\ o.status # 200
  /\ o.candidates = q.candidates
  /\ o.current = q.current
  /\ o.attempts = q.attempts
  /\ o.attempted = q.attempted
  /\ o.trace = Recorded(q, category)
  /\ o.skippedModels =
       q.skippedModels
         \cup {m \in {PairOf(q.current)} : category = "model_not_found"}
  /\ o.skippedProviders =
       q.skippedProviders
         \cup {p \in {q.current.provider} :
                 category \in AuthErrors /\ AllKeysRefused(p, health)}

Failed(q, n, health) ==
  /\ q.pc = "calling"
  /\ \E category \in ErrorCategory, o \in RequestState :
       /\ Blamed(q, o, category, health)
       /\ \/ /\ \/ category \in TransientErrors /\ n.pc = "backoff"
                \/ ~Retryable(category) /\ n.pc = "done"
             /\ n.status = o.status
             /\ SameCalls(o, n)
          \/ Retryable(category) /\ Proceeds(o, n)

RequestMoves(r) ==
  \/ req'[r] = req[r]
  \/ Rejected(req[r], req'[r])
  \/ Opened(req[r], req'[r], Resolve(Route[r]))
  \/ Succeeded(req[r], req'[r])
  \/ Garbled(req[r], req'[r])
  \/ StreamEnded(req[r], req'[r])
  \/ Resumed(req[r], req'[r])
  \/ Failed(req[r], req'[r], keyHealth')

-----------------------------------------------------------------------------
(* The history of a request.                                               *)

Decisive == ClientErrors \cup {"success"}
InFlight(q) == q.pc \in {"calling", "crashed"}
PairAsked(t) == <<t[1], t[2]>>

Fresh(q) ==
  /\ q.pc = "idle" => /\ q.attempts = 0 /\ q.attempted = {} /\ q.trace = <<>>
                      /\ q.skippedModels = {} /\ q.skippedProviders = {}
                      /\ q.status = 0
  /\ q.pc \in {"calling", "backoff", "streaming", "crashed"} => q.attempts > 0

(* Only the last answer decides, and 200 says that it was a success.       *)
Conclusion(q) ==
  /\ \A i \in DOMAIN q.trace :
       q.trace[i].outcome \in Decisive =>
         i = Len(q.trace) /\ q.pc \in {"streaming", "done"}
  /\ q.status = 200 <=> q.trace # <<>> /\ q.trace[Len(q.trace)].outcome = "success"
  /\ q.pc = "streaming" => q.status = 200

(* The models found missing are exactly the skipped ones, and no call      *)
(* follows for any of them.                                                *)
ModelsSkipped(q) ==
  /\ \A i \in DOMAIN q.trace :
       q.trace[i].outcome = "model_not_found" =>
         PairAsked(q.trace[i].target) \in q.skippedModels
  /\ \A m \in q.skippedModels : \E i \in DOMAIN q.trace :
       /\ q.trace[i].outcome = "model_not_found"
       /\ PairAsked(q.trace[i].target) = m
  /\ \A i, j \in DOMAIN q.trace :
       i < j /\ q.trace[i].outcome = "model_not_found" =>
         PairAsked(q.trace[i].target) # PairAsked(q.trace[j].target)

MissingModels(q) ==
  /\ ModelsSkipped(q)
  /\ InFlight(q) => PairOf(q.current) \notin q.skippedModels

(* Every attempt was answered, but for the one still out.                  *)
HasAnswer(q, t) == \E i \in DOMAIN q.trace : q.trace[i].target = t

AttemptsAnswered(q) ==
  \A t \in q.attempted : HasAnswer(q, t) \/ (InFlight(q) /\ t = TargetOf(q.current))

(* A provider is skipped for a refusal this request received itself, and   *)
(* all its keys stay refused.                                              *)
SkipsExplained(q, health) ==
  \A p \in q.skippedProviders :
    /\ AllKeysRefused(p, health)
    /\ \E i \in DOMAIN q.trace :
         q.trace[i].outcome \in AuthErrors /\ q.trace[i].target[1] = p

(* A request that ended on a retryable error had nothing left to try.      *)
Exhausted(q) ==
  /\ q.pc = "done"
  /\ q.trace # <<>>
  /\ q.trace[Len(q.trace)].outcome \notin Decisive
  => q.attempts = MaxAttempts \/ Eligible(q) = {}

History(q, health) ==
  /\ Fresh(q)
  /\ Conclusion(q)
  /\ MissingModels(q)
  /\ AttemptsAnswered(q)
  /\ SkipsExplained(q, health)
  /\ Exhausted(q)

HistoryOK == \A r \in Requests : History(req[r], keyHealth)

-----------------------------------------------------------------------------
(* Every step moves the record of each request as RequestMoves says.       *)

LEMMA TryNextMoves ==
  ASSUME TypeInv, NEW r \in Requests, NEW q \in RequestState,
         NEW pLoad, NEW kLoad, TryNext(r, q, pLoad, kLoad)
  PROVE  /\ Proceeds(q, req'[r])
         /\ \A s \in Requests \ {r} : req'[s] = req[s]
<1>1. req \in [Requests -> RequestState]
  BY DEF TypeInv, TypeOK
<1>2. CASE BudgetLeft(q) /\ \E c \in NextCandidates(q) : Launch(r, q, c, pLoad, kLoad)
  <2>1. PICK c \in NextCandidates(q) : Launch(r, q, c, pLoad, kLoad)
    BY <1>2
  <2>2. c \in Candidate
    BY <2>1 DEF NextCandidates, Eligible, RequestState
  <2>. DEFINE attempted == q.attempted \cup {TargetOf(c)}
              attempts == q.attempts + 1
              n == [q EXCEPT !.pc = "calling", !.current = c,
                             !.attempts = attempts, !.attempted = attempted]
  <2>3. req' = [req EXCEPT ![r] = n]
    BY <2>1 DEF Launch
  <2>. HIDE DEF attempts, attempted
  <2>4. /\ n.pc = "calling" /\ n.current = c
        /\ n.attempts = attempts /\ n.attempted = attempted
        /\ n.candidates = q.candidates /\ n.skippedModels = q.skippedModels
        /\ n.skippedProviders = q.skippedProviders
        /\ n.trace = q.trace /\ n.status = q.status
    BY DEF RequestState
  <2>. HIDE DEF n
  <2>5. Launched(q, n, c)
    BY <1>2, <2>1, <2>4 DEF Launched, attempts, attempted
  <2>. QED  BY <1>1, <2>2, <2>3, <2>5 DEF Proceeds
<1>3. CASE /\ Eligible(q) = {} \/ ~BudgetLeft(q)
           /\ GiveUp(r, q, pLoad, kLoad)
  <2>. DEFINE status == FinalStatus(q)
              n == [q EXCEPT !.pc = "done", !.status = status]
  <2>1. req' = [req EXCEPT ![r] = n]
    BY <1>3 DEF GiveUp
  <2>. HIDE DEF status
  <2>2. n.pc = "done" /\ n.status = status /\ SameCalls(q, n)
    BY DEF RequestState, SameCalls
  <2>. HIDE DEF n
  <2>3. GivenUp(q, n)
    BY <1>3, <2>2 DEF GivenUp, status
  <2>. QED  BY <1>1, <2>1, <2>3 DEF Proceeds
<1>. QED  BY <1>2, <1>3 DEF TryNext

LEMMA StartMoves ==
  ASSUME TypeInv, NEW r \in Requests, Start(r)
  PROVE  /\ \/ Rejected(req[r], req'[r])
            \/ Opened(req[r], req'[r], Resolve(Route[r]))
         /\ \A s \in Requests \ {r} : req'[s] = req[s]
<1>. DEFINE found == Resolve(Route[r])
            o == [req[r] EXCEPT !.candidates = found]
<1>1. req[r] \in RequestState /\ found \subseteq Candidate /\ req[r].pc = "idle"
  BY ResolveType DEF Start, TypeInv, TypeOK
<1>2. CASE \E status \in {400, 404, 503} : Reject(r, status)
  <2>1. PICK status \in {400, 404, 503} : Reject(r, status)
    BY <1>2
  <2>. DEFINE n == [req[r] EXCEPT !.pc = "done", !.status = status]
  <2>2. req' = [req EXCEPT ![r] = n]
    BY <2>1 DEF Reject
  <2>3. n.pc = "done" /\ n.status = status /\ SameCalls(req[r], n)
    BY <1>1 DEF RequestState, SameCalls
  <2>. HIDE DEF n
  <2>. QED  BY <1>1, <2>2, <2>3 DEF Rejected, TypeInv, TypeOK
<1>3. CASE found # {} /\ TryNext(r, o, providerLoad, keyLoad)
  <2>. HIDE DEF found
  <2>1. /\ o \in RequestState /\ o.candidates = found /\ o.pc = req[r].pc
        /\ o.current = req[r].current
        /\ o.attempts = req[r].attempts /\ o.attempted = req[r].attempted
        /\ o.skippedModels = req[r].skippedModels
        /\ o.skippedProviders = req[r].skippedProviders
        /\ o.trace = req[r].trace /\ o.status = req[r].status
    BY <1>1 DEF RequestState
  <2>. HIDE DEF o
  <2>2. Proceeds(o, req'[r]) /\ \A s \in Requests \ {r} : req'[s] = req[s]
    BY <1>3, <2>1, TryNextMoves
  <2>3. Opened(req[r], req'[r], found)
    BY <1>1, <1>3, <2>1, <2>2 DEF Opened
  <2>. QED  BY <2>2, <2>3 DEF found
<1>. QED  BY <1>2, <1>3 DEF Start

LEMMA SucceedMoves ==
  ASSUME TypeInv, NEW r \in Requests, NEW reset \in Resets, Succeed(r, reset)
  PROVE  /\ Succeeded(req[r], req'[r])
         /\ \A s \in Requests \ {r} : req'[s] = req[s]
<1>. DEFINE q == req[r]
            trace == Recorded(q, "success")
            pc == IF r \in StreamRequests THEN "streaming" ELSE "done"
            n == [q EXCEPT !.pc = pc, !.trace = trace, !.status = 200]
<1>1. q \in RequestState /\ q.pc = "calling"
  BY DEF Succeed, TypeInv, TypeOK
<1>2. req' = [req EXCEPT ![r] = n]
  BY DEF Succeed
<1>3. pc \in {"streaming", "done"}
  OBVIOUS
<1>. HIDE DEF trace, pc
<1>4. /\ n.pc = pc /\ n.trace = trace /\ n.status = 200
      /\ n.candidates = q.candidates /\ n.current = q.current
      /\ n.attempts = q.attempts /\ n.attempted = q.attempted
      /\ n.skippedModels = q.skippedModels
      /\ n.skippedProviders = q.skippedProviders
  BY <1>1 DEF RequestState
<1>. HIDE DEF n
<1>5. Succeeded(q, n)
  BY <1>1, <1>3, <1>4 DEF Succeeded, trace
<1>. QED  BY <1>2, <1>5 DEF TypeInv, TypeOK

LEMMA GarbleMoves ==
  ASSUME TypeInv, NEW r \in Requests, Garble(r)
  PROVE  /\ Garbled(req[r], req'[r])
         /\ \A s \in Requests \ {r} : req'[s] = req[s]
<1>. DEFINE n == [req[r] EXCEPT !.pc = "crashed", !.status = 500]
<1>1. req' = [req EXCEPT ![r] = n] /\ req[r].pc = "calling" /\ req[r] \in RequestState
  BY DEF Garble, TypeInv, TypeOK
<1>2. n.pc = "crashed" /\ n.status = 500 /\ SameCalls(req[r], n)
  BY <1>1 DEF RequestState, SameCalls
<1>. HIDE DEF n
<1>. QED  BY <1>1, <1>2 DEF Garbled, TypeInv, TypeOK

LEMMA StreamEndMoves ==
  ASSUME TypeInv, NEW r \in Requests, StreamEnd(r)
  PROVE  /\ StreamEnded(req[r], req'[r])
         /\ \A s \in Requests \ {r} : req'[s] = req[s]
<1>. DEFINE n == [req[r] EXCEPT !.pc = "done"]
<1>1. req' = [req EXCEPT ![r] = n] /\ req[r].pc = "streaming" /\ req[r] \in RequestState
  BY DEF StreamEnd, TypeInv, TypeOK
<1>2. n.pc = "done" /\ n.status = req[r].status /\ SameCalls(req[r], n)
  BY <1>1 DEF RequestState, SameCalls
<1>. HIDE DEF n
<1>. QED  BY <1>1, <1>2 DEF StreamEnded, TypeInv, TypeOK

(* The keys refused when the scope of a failure is decided are those of    *)
(* the next state: the headers that follow extend cooldowns only.          *)
LEMMA MarkedAsAfter ==
  ASSUME TypeInv, NEW c \in Candidate, NEW category \in ErrorCategory,
         NEW seconds \in Nat, NEW reset \in Nat \cup {NoValue}, NEW marked,
         marked = [keyHealth EXCEPT ![KeyOf(c)] = KeyAfter(c, category, seconds)],
         keyHealth' = [keyHealth EXCEPT ![KeyOf(c)] =
                         KeyAfterHeaders(c, category, seconds, reset)]
  PROVE  AllKeysRefused(c.provider, marked) <=> AllKeysRefused(c.provider, keyHealth')
<1>1. keyHealth \in [Key -> HealthState] /\ c.provider \in Providers /\ KeyOf(c) \in Key
  BY CandidateFields DEF TypeInv, TypeOK
<1>2. \A k \in Key : keyHealth'[k].reason = marked[k].reason
  BY <1>1, KeyAfterReason
<1>3. \A k \in KeysOf[c.provider] : <<c.provider, k>> \in Key
  BY <1>1, ConfigTypes DEF Key
<1>. QED  BY <1>2, <1>3 DEF AllKeysRefused

LEMMA AfterFailureBlames ==
  ASSUME NEW q \in RequestState, q.pc = "calling", q.current \in Candidate,
         NEW failure \in UpstreamFailure, NEW category \in ErrorCategory,
         NEW marked, NEW health,
         AllKeysRefused(q.current.provider, marked)
           <=> AllKeysRefused(q.current.provider, health)
  PROVE  Blamed(q, AfterFailure(q, failure, category,
                                FailureScope(q.current, category, marked)),
                category, health)
<1>. DEFINE scope == FailureScope(q.current, category, marked)
            status == IF failure.status = 0 THEN 502 ELSE failure.status
            models == q.skippedModels \cup {m \in {PairOf(q.current)} : scope = "model"}
            providers == q.skippedProviders
                           \cup {p \in {q.current.provider} : scope = "provider"}
            trace == Recorded(q, category)
            o == [q EXCEPT !.trace = trace, !.status = status, !.skippedModels = models,
                           !.skippedProviders = providers]
<1>1. AfterFailure(q, failure, category, scope) = o
  BY DEF AfterFailure
<1>2. status # 200
  BY DEF UpstreamFailure
<1>3. /\ scope = "model" <=> category = "model_not_found"
      /\ scope = "provider" <=>
           category \in AuthErrors /\ AllKeysRefused(q.current.provider, health)
  BY DEF FailureScope, DecisionScope, AuthErrors
<1>. HIDE DEF scope
<1>4. /\ models = q.skippedModels
             \cup {m \in {PairOf(q.current)} : category = "model_not_found"}
      /\ providers = q.skippedProviders
             \cup {p \in {q.current.provider} :
                     category \in AuthErrors /\ AllKeysRefused(p, health)}
  BY <1>3
<1>. HIDE DEF status, models, providers, trace
<1>5. /\ o.trace = trace /\ o.status = status /\ o.skippedModels = models
      /\ o.skippedProviders = providers /\ o.pc = "calling"
      /\ o.candidates = q.candidates /\ o.current = q.current
      /\ o.attempts = q.attempts /\ o.attempted = q.attempted
  BY DEF RequestState
<1>. HIDE DEF o
<1>6. Blamed(q, o, category, health)
  BY <1>2, <1>4, <1>5 DEF Blamed, trace
<1>. QED  BY <1>1, <1>6 DEF scope

LEMMA FailMoves ==
  ASSUME TypeInv, NEW r \in Requests, NEW failure \in Failures, Fail(r, failure)
  PROVE  /\ Failed(req[r], req'[r], keyHealth')
         /\ \A s \in Requests \ {r} : req'[s] = req[s]
<1>. DEFINE q == req[r]
            c == q.current
            category == Category(failure)
            seconds == CooldownSeconds(c.provider, category, failure.retryAfter)
            marked == [keyHealth EXCEPT ![KeyOf(c)] = KeyAfter(c, category, seconds)]
            scope == FailureScope(c, category, marked)
            next == AfterFailure(q, failure, category, scope)
            pLoad == RequestEnd(providerLoad, c.provider)
            kLoad == RequestEnd(keyLoad, KeyOf(c))
<1>1. q \in RequestState /\ c \in Candidate /\ q.pc = "calling"
  BY DEF Fail, TypeInv, TypeOK, CurrentOK
<1>2. /\ failure \in UpstreamFailure
      /\ failure.retryAfter \in Nat \cup {NoValue}
      /\ failure.reset \in Nat \cup {NoValue}
  BY SchedulerConstants DEF UpstreamFailure
<1>3. category \in ErrorCategory
  BY CategoryType
<1>4. seconds \in Nat
  BY <1>1, <1>2, CandidateFields, CooldownSecondsType
<1>5. keyHealth' = [keyHealth EXCEPT ![KeyOf(c)] =
        KeyAfterHeaders(c, category, seconds, failure.reset)]
  BY DEF Fail
<1>6. \/ /\ ~Retryable(category)
         /\ req' = [req EXCEPT ![r] = [next EXCEPT !.pc = "done"]]
      \/ /\ category \in TransientErrors
         /\ req' = [req EXCEPT ![r] = [next EXCEPT !.pc = "backoff"]]
      \/ Retryable(category) /\ TryNext(r, next, pLoad, kLoad)
  BY DEF Fail
<1>. HIDE DEF category, seconds, pLoad, kLoad
<1>7. AllKeysRefused(c.provider, marked) <=> AllKeysRefused(c.provider, keyHealth')
  BY <1>1, <1>2, <1>3, <1>4, <1>5, MarkedAsAfter
<1>. HIDE DEF marked
<1>8. Blamed(q, next, category, keyHealth')
  BY <1>1, <1>2, <1>3, <1>7, AfterFailureBlames
<1>9. next \in RequestState
  BY <1>1, <1>2, <1>3, AfterFailureType
<1>. HIDE DEF next
<1>10. CASE Retryable(category) /\ TryNext(r, next, pLoad, kLoad)
  <2>1. Proceeds(next, req'[r]) /\ \A s \in Requests \ {r} : req'[s] = req[s]
    BY <1>9, <1>10, TryNextMoves
  <2>. QED  BY <1>1, <1>3, <1>8, <1>9, <1>10, <2>1 DEF Failed
<1>11. ASSUME NEW pc, \/ category \in TransientErrors /\ pc = "backoff"
                      \/ ~Retryable(category) /\ pc = "done",
              req' = [req EXCEPT ![r] = [next EXCEPT !.pc = pc]]
       PROVE  /\ Failed(req[r], req'[r], keyHealth')
              /\ \A s \in Requests \ {r} : req'[s] = req[s]
  <2>. DEFINE n == [next EXCEPT !.pc = pc]
  <2>1. n.pc = pc /\ n.status = next.status /\ SameCalls(next, n)
    BY <1>9 DEF RequestState, SameCalls
  <2>2. req' = [req EXCEPT ![r] = n]
    BY <1>11
  <2>. HIDE DEF n
  <2>3. req'[r] = n /\ \A s \in Requests \ {r} : req'[s] = req[s]
    BY <2>2 DEF TypeInv, TypeOK
  <2>. QED  BY <1>1, <1>3, <1>8, <1>9, <1>11, <2>1, <2>3 DEF Failed
<1>. QED  BY <1>6, <1>10, <1>11

(* A step is one request's, or none's.                                     *)
LEMMA OneMoves ==
  ASSUME TypeInv, [Next]_vars
  PROVE  \/ req' = req
         \/ \E s \in Requests :
              RequestMoves(s) /\ \A r \in Requests \ {s} : req'[r] = req[r]
<1>1. ASSUME NEW s \in Requests,
             Start(s) \/ Answer(s) \/ BackoffElapsed(s) \/ StreamEnd(s)
      PROVE  (\A r \in Requests \ {s} : req'[r] = req[r]) /\ RequestMoves(s)
  <2>1. CASE Start(s)
    BY <2>1, StartMoves DEF RequestMoves
  <2>2. CASE \E reset \in Resets : Succeed(s, reset)
    BY <2>2, SucceedMoves DEF RequestMoves
  <2>3. CASE \E failure \in Failures : Fail(s, failure)
    BY <2>3, FailMoves DEF RequestMoves
  <2>4. CASE Garble(s)
    BY <2>4, GarbleMoves DEF RequestMoves
  <2>5. CASE BackoffElapsed(s)
    <3>1. req[s] \in RequestState /\ req[s].pc = "backoff"
      BY <2>5 DEF BackoffElapsed, TypeInv, TypeOK
    <3>. QED  BY <2>5, <3>1, TryNextMoves DEF BackoffElapsed, Resumed, RequestMoves
  <2>6. CASE StreamEnd(s)
    BY <2>6, StreamEndMoves DEF RequestMoves
  <2>. QED  BY <1>1, <2>1, <2>2, <2>3, <2>4, <2>5, <2>6 DEF Answer
<1>. QED  BY <1>1 DEF Next, Tick, vars

LEMMA StepMoves ==
  ASSUME TypeInv, [Next]_vars
  PROVE  \A r \in Requests : RequestMoves(r)
<1>1. ASSUME NEW s \in Requests, \A r \in Requests \ {s} : req'[r] = req[r],
             RequestMoves(s)
      PROVE  \A r \in Requests : RequestMoves(r)
  <2>1. \A r \in Requests \ {s} : RequestMoves(r)
    BY <1>1 DEF RequestMoves
  <2>. QED  BY <1>1, <2>1
<1>2. ASSUME req' = req
      PROVE  \A r \in Requests : RequestMoves(r)
  BY <1>2 DEF RequestMoves
<1>. QED  BY <1>1, <1>2, OneMoves

-----------------------------------------------------------------------------
(* The history of a request survives every move of its record.             *)

Undecided(q) == \A i \in DOMAIN q.trace : q.trace[i].outcome \notin Decisive

(* What holds of a record whenever it reaches the head of the loop.        *)
LoopHead(o, health) ==
  /\ Undecided(o)
  /\ o.status # 200
  /\ ModelsSkipped(o)
  /\ \A t \in o.attempted : HasAnswer(o, t)
  /\ SkipsExplained(o, health)
  /\ o.attempts <= MaxAttempts
  /\ o.trace = <<>> => Eligible(o) # {} /\ BudgetLeft(o)

LEMMA RecordedShape ==
  ASSUME NEW q \in RequestState, q.current \in Candidate, NEW outcome \in Outcome,
         NEW t, t = Recorded(q, outcome)
  PROVE  /\ t # <<>>
         /\ Len(t) \in DOMAIN t
         /\ t[Len(t)].target = TargetOf(q.current)
         /\ t[Len(t)].outcome = outcome
         /\ \A i \in DOMAIN q.trace : i \in DOMAIN t /\ t[i] = q.trace[i]
         /\ \A i \in DOMAIN t : i \in DOMAIN q.trace \/ i = Len(t)
         /\ \A i, j \in DOMAIN t : i < j => i \in DOMAIN q.trace
<1>. DEFINE e == [target |-> TargetOf(q.current), outcome |-> outcome]
<1>1. q.trace \in Seq(TraceEntry) /\ e \in TraceEntry
  BY CandidateFields DEF RequestState, TraceEntry
<1>2. t = Append(q.trace, e)
  BY DEF Recorded
<1>3. e.target = TargetOf(q.current) /\ e.outcome = outcome
  OBVIOUS
<1>. HIDE DEF e
<1>4. /\ Len(t) = Len(q.trace) + 1
      /\ DOMAIN t = 1..(Len(q.trace) + 1)
      /\ DOMAIN q.trace = 1..Len(q.trace)
      /\ \A i \in 1..Len(q.trace) : t[i] = q.trace[i]
      /\ t[Len(q.trace) + 1] = e
      /\ Len(q.trace) \in Nat
      /\ t # <<>>
  BY <1>1, <1>2
<1>5. \A m \in Nat : /\ m + 1 \in 1..(m + 1)
                     /\ \A i \in 1..m : i \in 1..(m + 1)
                     /\ \A i \in 1..(m + 1) : i \in 1..m \/ i = m + 1
                     /\ \A i, j \in 1..(m + 1) : i < j => i \in 1..m
  OBVIOUS
<1>. QED  BY <1>3, <1>4, <1>5

LEMMA StayRefused ==
  ASSUME TypeInv, KeysStayRefused, NEW p \in Providers, AllKeysRefused(p, keyHealth)
  PROVE  AllKeysRefused(p, keyHealth')
  BY ConfigTypes DEF KeysStayRefused, AllKeysRefused, Key

(* An answer recorded: what it adds to the history.                        *)
LEMMA RecordHistory ==
  ASSUME TypeInv, KeysStayRefused, NEW q \in RequestState, q.current \in Candidate,
         q.pc = "calling", MissingModels(q), AttemptsAnswered(q),
         SkipsExplained(q, keyHealth), NEW outcome \in Outcome, NEW o,
         o.trace = Recorded(q, outcome), o.attempted = q.attempted,
         o.skippedModels = q.skippedModels
           \cup {m \in {PairOf(q.current)} : outcome = "model_not_found"},
         o.skippedProviders = q.skippedProviders
           \cup {p \in {q.current.provider} :
                   outcome \in AuthErrors /\ AllKeysRefused(p, keyHealth')}
  PROVE  /\ ModelsSkipped(o)
         /\ \A t \in o.attempted : HasAnswer(o, t)
         /\ SkipsExplained(o, keyHealth')
<1>. DEFINE last == Len(o.trace)
<1>1. /\ last \in DOMAIN o.trace
      /\ o.trace[last].target = TargetOf(q.current)
      /\ o.trace[last].outcome = outcome
      /\ \A i \in DOMAIN q.trace : i \in DOMAIN o.trace /\ o.trace[i] = q.trace[i]
      /\ \A i \in DOMAIN o.trace : i \in DOMAIN q.trace \/ i = last
      /\ \A i, j \in DOMAIN o.trace : i < j => i \in DOMAIN q.trace
  BY RecordedShape
<1>2. /\ PairAsked(TargetOf(q.current)) = PairOf(q.current)
      /\ TargetOf(q.current)[1] = q.current.provider
  BY DEF PairAsked, TargetOf, PairOf
<1>3. PairOf(q.current) \notin q.skippedModels
  BY DEF MissingModels, InFlight
<1>. HIDE DEF last
<1>4. ModelsSkipped(o)
  <2>1. ASSUME NEW i \in DOMAIN o.trace, o.trace[i].outcome = "model_not_found"
        PROVE  PairAsked(o.trace[i].target) \in o.skippedModels
    <3>1. CASE i \in DOMAIN q.trace
      BY <1>1, <2>1, <3>1 DEF MissingModels, ModelsSkipped
    <3>2. CASE i = last
      BY <1>1, <1>2, <2>1, <3>2
    <3>. QED  BY <1>1, <3>1, <3>2
  <2>2. ASSUME NEW m \in o.skippedModels
        PROVE  \E i \in DOMAIN o.trace :
                 /\ o.trace[i].outcome = "model_not_found"
                 /\ PairAsked(o.trace[i].target) = m
    <3>1. CASE m \in q.skippedModels
      BY <1>1, <3>1 DEF MissingModels, ModelsSkipped
    <3>2. CASE m = PairOf(q.current) /\ outcome = "model_not_found"
      BY <1>1, <1>2, <3>2
    <3>. QED  BY <3>1, <3>2
  <2>3. ASSUME NEW i \in DOMAIN o.trace, NEW j \in DOMAIN o.trace, i < j,
               o.trace[i].outcome = "model_not_found"
        PROVE  PairAsked(o.trace[i].target) # PairAsked(o.trace[j].target)
    <3>1. i \in DOMAIN q.trace /\ o.trace[i] = q.trace[i]
      BY <1>1, <2>3
    <3>2. CASE j \in DOMAIN q.trace
      BY <1>1, <2>3, <3>1, <3>2 DEF MissingModels, ModelsSkipped
    <3>3. CASE j = last
      BY <1>1, <1>2, <1>3, <2>3, <3>1, <3>3 DEF MissingModels, ModelsSkipped
    <3>. QED  BY <1>1, <3>2, <3>3
  <2>. QED  BY <2>1, <2>2, <2>3 DEF ModelsSkipped
<1>5. ASSUME NEW t \in o.attempted
      PROVE  HasAnswer(o, t)
  <2>1. CASE HasAnswer(q, t)
    BY <1>1, <2>1 DEF HasAnswer
  <2>2. CASE t = TargetOf(q.current)
    BY <1>1, <2>2 DEF HasAnswer
  <2>. QED  BY <2>1, <2>2 DEF AttemptsAnswered
<1>6. ASSUME NEW p \in o.skippedProviders
      PROVE  /\ AllKeysRefused(p, keyHealth')
             /\ \E i \in DOMAIN o.trace :
                  o.trace[i].outcome \in AuthErrors /\ o.trace[i].target[1] = p
  <2>1. CASE p \in q.skippedProviders
    <3>1. p \in Providers
      BY <2>1 DEF RequestState
    <3>2. AllKeysRefused(p, keyHealth')
      BY <2>1, <3>1, StayRefused DEF SkipsExplained
    <3>. QED  BY <1>1, <2>1, <3>2 DEF SkipsExplained
  <2>2. CASE /\ p = q.current.provider /\ outcome \in AuthErrors
             /\ AllKeysRefused(p, keyHealth')
    BY <1>1, <1>2, <2>2
  <2>. QED  BY <2>1, <2>2
<1>. QED  BY <1>4, <1>5, <1>6 DEF SkipsExplained

(* From the loop head, a call or the end.                                  *)
LEMMA ProceedsHistory ==
  ASSUME NEW o \in RequestState, NEW n, NEW health, LoopHead(o, health), Proceeds(o, n)
  PROVE  History(n, health)
<1>1. o.attempts \in Nat /\ MaxAttempts \in Nat
  BY SchedulerConstants DEF RequestState
<1>2. ASSUME NEW c \in Candidate, Launched(o, n, c)
      PROVE  History(n, health)
  <2>1. /\ n.pc = "calling" /\ n.current = c /\ n.trace = o.trace
        /\ n.attempts = o.attempts + 1 /\ n.status = o.status
        /\ n.attempted = o.attempted \cup {TargetOf(c)}
        /\ n.skippedModels = o.skippedModels
        /\ n.skippedProviders = o.skippedProviders
    BY <1>2 DEF Launched
  <2>2. PairOf(c) \notin o.skippedModels
    BY <1>2 DEF Launched, NextCandidates, Eligible
  <2>3. Fresh(n)
    BY <1>1, <2>1 DEF Fresh
  <2>4. Conclusion(n)
    <3>1. o.trace # <<>> => Len(o.trace) \in DOMAIN o.trace
      BY DEF RequestState
    <3>. QED  BY <2>1, <3>1 DEF LoopHead, Undecided, Conclusion, Decisive
  <2>5. MissingModels(n)
    BY <2>1, <2>2 DEF LoopHead, MissingModels, ModelsSkipped
  <2>6. AttemptsAnswered(n)
    BY <2>1 DEF LoopHead, AttemptsAnswered, HasAnswer, InFlight
  <2>7. SkipsExplained(n, health)
    BY <2>1 DEF LoopHead, SkipsExplained
  <2>8. Exhausted(n)
    BY <2>1 DEF Exhausted
  <2>. QED  BY <2>3, <2>4, <2>5, <2>6, <2>7, <2>8 DEF History
<1>3. CASE GivenUp(o, n)
  <2>1. o.trace # <<>>
    BY <1>3 DEF GivenUp, LoopHead
  <2>2. /\ n.pc = "done" /\ n.trace = o.trace /\ n.attempts = o.attempts
        /\ n.attempted = o.attempted /\ n.candidates = o.candidates
        /\ n.skippedModels = o.skippedModels
        /\ n.skippedProviders = o.skippedProviders
        /\ n.status = FinalStatus(o)
    BY <1>3 DEF GivenUp, SameCalls
  <2>3. Len(o.trace) \in DOMAIN o.trace
    BY <2>1 DEF RequestState
  <2>4. n.status # 200
    BY <2>2 DEF FinalStatus, LoopHead
  <2>5. Conclusion(n)
    BY <2>2, <2>3, <2>4 DEF LoopHead, Undecided, Conclusion, Decisive
  <2>6. Fresh(n)
    BY <2>2 DEF Fresh
  <2>7. MissingModels(n)
    BY <2>2 DEF LoopHead, MissingModels, ModelsSkipped, InFlight
  <2>8. AttemptsAnswered(n)
    BY <2>2 DEF LoopHead, AttemptsAnswered, HasAnswer
  <2>9. SkipsExplained(n, health)
    BY <2>2 DEF LoopHead, SkipsExplained
  <2>10. Exhausted(n)
    <3>1. Eligible(n) = Eligible(o)
      BY <2>2 DEF Eligible
    <3>2. ~BudgetLeft(o) => o.attempts = MaxAttempts
      BY <1>1 DEF BudgetLeft, LoopHead
    <3>. QED  BY <1>3, <2>2, <3>1, <3>2 DEF Exhausted, GivenUp
  <2>. QED  BY <2>5, <2>6, <2>7, <2>8, <2>9, <2>10 DEF History
<1>. QED  BY <1>2, <1>3 DEF Proceeds

LEMMA SkipsStayExplained ==
  ASSUME TypeInv, KeysStayRefused, NEW q \in RequestState, SkipsExplained(q, keyHealth),
         NEW n, n.skippedProviders = q.skippedProviders, n.trace = q.trace
  PROVE  SkipsExplained(n, keyHealth')
<1>1. \A p \in q.skippedProviders : p \in Providers
  BY DEF RequestState
<1>. QED  BY <1>1, StayRefused DEF SkipsExplained

LEMMA OpenedHistory ==
  ASSUME NEW q \in RequestState, Fresh(q), NEW n, NEW found, NEW health,
         Opened(q, n, found)
  PROVE  History(n, health)
<1>1. PICK o \in RequestState :
        /\ o.candidates = found /\ o.pc = q.pc
        /\ o.attempts = q.attempts /\ o.attempted = q.attempted
        /\ o.skippedModels = q.skippedModels
        /\ o.skippedProviders = q.skippedProviders
        /\ o.trace = q.trace /\ o.status = q.status
        /\ Proceeds(o, n)
  BY DEF Opened
<1>2. /\ o.attempts = 0 /\ o.attempted = {} /\ o.trace = <<>>
      /\ o.skippedModels = {} /\ o.skippedProviders = {} /\ o.status = 0
  BY <1>1 DEF Opened, Fresh
<1>3. MaxAttempts \in Nat /\ MaxAttempts > 0
  BY SchedulerConstants
<1>4. Eligible(o) # {}
  <2>1. Eligible(o) = found
    BY <1>1, <1>2 DEF Eligible
  <2>. QED  BY <2>1 DEF Opened
<1>5. LoopHead(o, health)
  BY <1>2, <1>3, <1>4
  DEF LoopHead, Undecided, ModelsSkipped, SkipsExplained, BudgetLeft
<1>. QED  BY <1>1, <1>5, ProceedsHistory

LEMMA SucceededHistory ==
  ASSUME TypeInv, KeysStayRefused, NEW q \in RequestState, q.current \in Candidate,
         History(q, keyHealth), NEW n, Succeeded(q, n)
  PROVE  History(n, keyHealth')
<1>1. /\ ModelsSkipped(n)
      /\ \A t \in n.attempted : HasAnswer(n, t)
      /\ SkipsExplained(n, keyHealth')
  <2>1. /\ n.skippedModels = q.skippedModels
             \cup {m \in {PairOf(q.current)} : "success" = "model_not_found"}
        /\ n.skippedProviders = q.skippedProviders
             \cup {p \in {q.current.provider} :
                     "success" \in AuthErrors /\ AllKeysRefused(p, keyHealth')}
    BY DEF Succeeded, AuthErrors
  <2>. QED  BY <2>1, RecordHistory DEF Succeeded, History, Outcome
<1>2. /\ n.trace # <<>> /\ n.trace[Len(n.trace)].outcome = "success"
      /\ \A i \in DOMAIN q.trace : n.trace[i] = q.trace[i]
      /\ \A i \in DOMAIN n.trace : i \in DOMAIN q.trace \/ i = Len(n.trace)
  BY RecordedShape DEF Succeeded, Outcome
<1>3. n.pc \in {"streaming", "done"} /\ n.status = 200 /\ q.pc = "calling"
  BY DEF Succeeded
<1>4. Undecided(q)
  BY <1>3 DEF History, Conclusion, Undecided
<1>5. Conclusion(n)
  BY <1>2, <1>3, <1>4 DEF Conclusion, Undecided
<1>6. Fresh(n)
  BY <1>3 DEF Fresh, History, Succeeded
<1>7. Exhausted(n)
  BY <1>2 DEF Exhausted, Decisive
<1>. QED  BY <1>1, <1>3, <1>5, <1>6, <1>7
          DEF History, MissingModels, AttemptsAnswered, InFlight

(* A garbled body, or the end of a stream.                                 *)
LEMMA SettledHistory ==
  ASSUME TypeInv, KeysStayRefused, NEW q \in RequestState, History(q, keyHealth),
         NEW n, Garbled(q, n) \/ StreamEnded(q, n) \/ Rejected(q, n)
  PROVE  History(n, keyHealth')
<1>1. /\ n.attempts = q.attempts /\ n.attempted = q.attempted
      /\ n.current = q.current /\ n.candidates = q.candidates
      /\ n.skippedModels = q.skippedModels
      /\ n.skippedProviders = q.skippedProviders /\ n.trace = q.trace
  BY DEF Garbled, StreamEnded, Rejected, SameCalls
<1>2. SkipsExplained(n, keyHealth')
  BY <1>1, SkipsStayExplained DEF History
<1>3. CASE Garbled(q, n)
  <2>1. q.pc = "calling" /\ n.pc = "crashed" /\ n.status = 500
    BY <1>3 DEF Garbled
  <2>2. q.status # 200 /\ Undecided(q)
    <3>1. q.trace # <<>> => Len(q.trace) \in DOMAIN q.trace
      BY DEF RequestState
    <3>. QED  BY <2>1, <3>1 DEF History, Conclusion, Undecided, Decisive
  <2>3. Conclusion(n)
    BY <1>1, <2>1, <2>2 DEF Conclusion, Undecided, History
  <2>4. Fresh(n) /\ Exhausted(n)
    BY <1>1, <2>1 DEF Fresh, Exhausted, History
  <2>5. MissingModels(n) /\ AttemptsAnswered(n)
    BY <1>1, <2>1 DEF MissingModels, ModelsSkipped, AttemptsAnswered, HasAnswer,
                      InFlight, History
  <2>. QED  BY <1>2, <2>3, <2>4, <2>5 DEF History
<1>4. CASE StreamEnded(q, n)
  <2>1. q.pc = "streaming" /\ n.pc = "done" /\ n.status = q.status
    BY <1>4 DEF StreamEnded
  <2>2. Conclusion(n)
    BY <1>1, <2>1 DEF Conclusion, History
  <2>3. Fresh(n)
    BY <1>1, <2>1 DEF Fresh, History
  <2>4. MissingModels(n) /\ AttemptsAnswered(n)
    BY <1>1, <2>1 DEF MissingModels, ModelsSkipped, AttemptsAnswered, HasAnswer,
                      InFlight, History
  <2>5. Exhausted(n)
    BY <1>1, <2>1 DEF Exhausted, History, Conclusion, Decisive
  <2>. QED  BY <1>2, <2>2, <2>3, <2>4, <2>5 DEF History
<1>5. CASE Rejected(q, n)
  <2>1. q.pc = "idle" /\ n.pc = "done" /\ n.status \in {400, 404, 503}
    BY <1>5 DEF Rejected
  <2>2. n.trace = <<>> /\ n.attempted = {} /\ n.skippedModels = {}
    BY <1>1, <2>1 DEF History, Fresh
  <2>. QED  BY <1>2, <2>1, <2>2
            DEF History, Fresh, Conclusion, MissingModels, ModelsSkipped, InFlight,
                AttemptsAnswered, Exhausted
<1>. QED  BY <1>3, <1>4, <1>5

LEMMA FailedHistory ==
  ASSUME TypeInv, KeysStayRefused, NEW q \in RequestState, q.current \in Candidate,
         q.attempts <= MaxAttempts, History(q, keyHealth), NEW n,
         Failed(q, n, keyHealth')
  PROVE  History(n, keyHealth')
<1>1. PICK category \in ErrorCategory, o \in RequestState :
        /\ Blamed(q, o, category, keyHealth')
        /\ \/ /\ n.pc = IF Retryable(category) THEN "backoff" ELSE "done"
              /\ n.status = o.status
              /\ SameCalls(o, n)
           \/ Retryable(category) /\ Proceeds(o, n)
  BY DEF Failed, Retryable, TransientErrors, ClientErrors
<1>2. q.pc = "calling" /\ category \in Outcome
  BY DEF Failed, Outcome
<1>3. /\ ModelsSkipped(o)
      /\ \A t \in o.attempted : HasAnswer(o, t)
      /\ SkipsExplained(o, keyHealth')
  BY <1>1, <1>2, RecordHistory DEF Blamed, History
<1>4. /\ o.trace # <<>> /\ o.trace[Len(o.trace)].outcome = category
      /\ \A i \in DOMAIN q.trace : o.trace[i] = q.trace[i]
      /\ \A i \in DOMAIN o.trace : i \in DOMAIN q.trace \/ i = Len(o.trace)
  BY <1>1, <1>2, RecordedShape DEF Blamed
<1>5. Undecided(q) /\ q.attempts > 0
  BY <1>2 DEF History, Conclusion, Undecided, Fresh
<1>6. category # "success"
  BY DEF ErrorCategory, AuthErrors, ThrottleErrors, ClientErrors, TransientErrors
<1>7. o.status # 200 /\ o.attempts = q.attempts
  BY <1>1 DEF Blamed
<1>8. CASE Retryable(category)
  <2>1. Undecided(o)
    BY <1>4, <1>5, <1>6, <1>8 DEF Undecided, Decisive, Retryable
  <2>2. CASE Proceeds(o, n)
    <3>1. LoopHead(o, keyHealth')
      BY <1>3, <1>4, <1>7, <2>1 DEF LoopHead
    <3>. QED  BY <2>2, <3>1, ProceedsHistory
  <2>3. CASE n.pc = "backoff" /\ n.status = o.status /\ SameCalls(o, n)
    <3>1. /\ n.attempts = o.attempts /\ n.attempted = o.attempted
          /\ n.skippedModels = o.skippedModels
          /\ n.skippedProviders = o.skippedProviders /\ n.trace = o.trace
      BY <2>3 DEF SameCalls
    <3>2. Conclusion(n)
      BY <1>4, <1>6, <1>7, <2>1, <2>3, <3>1 DEF Conclusion, Undecided, Decisive
    <3>3. Fresh(n) /\ Exhausted(n)
      BY <1>5, <1>7, <2>3, <3>1 DEF Fresh, Exhausted
    <3>4. MissingModels(n) /\ AttemptsAnswered(n) /\ SkipsExplained(n, keyHealth')
      BY <1>3, <2>3, <3>1 DEF MissingModels, ModelsSkipped, AttemptsAnswered,
                              HasAnswer, InFlight, SkipsExplained
    <3>. QED  BY <3>2, <3>3, <3>4 DEF History
  <2>. QED  BY <1>1, <1>8, <2>2, <2>3
<1>9. CASE ~Retryable(category)
  <2>1. n.pc = "done" /\ n.status = o.status /\ SameCalls(o, n)
    BY <1>1, <1>9
  <2>2. /\ n.attempts = o.attempts /\ n.attempted = o.attempted
        /\ n.skippedModels = o.skippedModels
        /\ n.skippedProviders = o.skippedProviders /\ n.trace = o.trace
    BY <2>1 DEF SameCalls
  <2>3. Conclusion(n)
    BY <1>4, <1>5, <1>6, <1>7, <2>1, <2>2 DEF Conclusion, Undecided
  <2>4. Exhausted(n)
    BY <1>4, <1>9, <2>2 DEF Exhausted, Retryable, Decisive
  <2>5. Fresh(n)
    BY <2>1 DEF Fresh
  <2>6. MissingModels(n) /\ AttemptsAnswered(n) /\ SkipsExplained(n, keyHealth')
    BY <1>3, <2>1, <2>2 DEF MissingModels, ModelsSkipped, AttemptsAnswered,
                            HasAnswer, InFlight, SkipsExplained
  <2>. QED  BY <2>3, <2>4, <2>5, <2>6 DEF History
<1>. QED  BY <1>8, <1>9

LEMMA ResumedHistory ==
  ASSUME TypeInv, KeysStayRefused, NEW q \in RequestState, Settled(q),
         History(q, keyHealth), NEW n, Resumed(q, n)
  PROVE  History(n, keyHealth')
<1>1. q.pc = "backoff" /\ Proceeds(q, n)
  BY DEF Resumed
<1>2. q.attempts > 0 /\ Len(q.trace) > 0
  BY <1>1 DEF History, Fresh, Settled
<1>3. q.trace # <<>> /\ Len(q.trace) \in DOMAIN q.trace
  BY <1>2 DEF RequestState
<1>4. Undecided(q)
  BY <1>1 DEF History, Conclusion, Undecided
<1>5. q.status # 200
  BY <1>3, <1>4 DEF History, Conclusion, Undecided, Decisive
<1>6. SkipsExplained(q, keyHealth')
  BY SkipsStayExplained DEF History
<1>7. \A t \in q.attempted : HasAnswer(q, t)
  BY <1>1 DEF History, AttemptsAnswered, InFlight
<1>8. LoopHead(q, keyHealth')
  BY <1>3, <1>4, <1>5, <1>6, <1>7
  DEF LoopHead, History, MissingModels, Settled, TraceOK
<1>. QED  BY <1>1, <1>8, ProceedsHistory

THEOREM HistoryInvariant == Spec => []HistoryOK
<1>1. Init => HistoryOK
  BY DEF Init, HistoryOK, History, Fresh, Conclusion, MissingModels, ModelsSkipped,
         InFlight, AttemptsAnswered, SkipsExplained, Exhausted
<1>2. ASSUME TypeInv, CallsOK, HistoryOK, [Next]_vars
      PROVE  HistoryOK'
  <2>1. KeysStayRefused /\ \A r \in Requests : RequestMoves(r)
    BY <1>2, StepStaysRefused, StepMoves
  <2>2. ASSUME NEW r \in Requests
        PROVE  History(req'[r], keyHealth')
    <3>. DEFINE q == req[r]
                n == req'[r]
    <3>. SUFFICES History(n, keyHealth')
      OBVIOUS
    <3>1. q \in RequestState /\ History(q, keyHealth)
      BY <1>2 DEF TypeInv, TypeOK, HistoryOK
    <3>2. q.pc = "calling" => q.current \in Candidate
      BY <1>2 DEF TypeInv, CurrentOK
    <3>3. /\ q.attempts <= MaxAttempts
          /\ q.pc = "backoff" => Settled(q)
      BY <1>2 DEF CallsOK, Settled, InCall, TraceOK
    <3>4. \/ n = q
          \/ Rejected(q, n)
          \/ Opened(q, n, Resolve(Route[r]))
          \/ Succeeded(q, n)
          \/ Garbled(q, n)
          \/ StreamEnded(q, n)
          \/ Resumed(q, n)
          \/ Failed(q, n, keyHealth')
      BY <2>1 DEF RequestMoves
    <3>. HIDE DEF q, n
    <3>5. CASE n = q
      BY <1>2, <2>1, <3>1, <3>5, SkipsStayExplained DEF History
    <3>6. CASE Opened(q, n, Resolve(Route[r]))
      BY <3>1, <3>6, OpenedHistory DEF History
    <3>7. CASE Succeeded(q, n)
      <4>1. q.pc = "calling"
        BY <3>7 DEF Succeeded
      <4>. QED  BY <1>2, <2>1, <3>1, <3>2, <3>7, <4>1, SucceededHistory
    <3>8. CASE Garbled(q, n) \/ StreamEnded(q, n) \/ Rejected(q, n)
      BY <1>2, <2>1, <3>1, <3>8, SettledHistory
    <3>9. CASE Resumed(q, n)
      <4>1. q.pc = "backoff"
        BY <3>9 DEF Resumed
      <4>. QED  BY <1>2, <2>1, <3>1, <3>3, <3>9, <4>1, ResumedHistory
    <3>10. CASE Failed(q, n, keyHealth')
      <4>1. q.pc = "calling"
        BY <3>10 DEF Failed
      <4>. QED  BY <1>2, <2>1, <3>1, <3>2, <3>3, <3>10, <4>1, FailedHistory
    <3>. QED  BY <3>4, <3>5, <3>6, <3>7, <3>8, <3>9, <3>10
  <2>. QED  BY <2>2 DEF HistoryOK
<1>. QED  BY <1>1, <1>2, TypeInvariant, CallsInvariant, PTL DEF Spec

(* A success or a client error ends the request, and 200 is reported       *)
(* exactly for a success.                                                  *)
THEOREM OutcomeDecides == Spec => []DecisiveOutcomeEnds
<1>1. HistoryOK => DecisiveOutcomeEnds
  BY DEF HistoryOK, History, Conclusion, DecisiveOutcomeEnds, Decisive
<1>. QED  BY <1>1, HistoryInvariant, PTL

(* A request gives up on a retryable error only with its budget spent or   *)
(* every candidate tried or ruled out by an answer it received itself.     *)
THEOREM GivesUpLast == Spec => []NoPrematureGiveUp
<1>1. ASSUME TypeInv, HistoryOK, NEW r \in Requests, NEW q, q = req[r],
             q.pc = "done", q.trace # <<>>,
             q.trace[Len(q.trace)].outcome \notin ClientErrors \cup {"success"}
      PROVE  q.attempts = MaxAttempts \/ \A c \in q.candidates : RuledOut(q, c)
  <2>1. History(q, keyHealth) /\ q \in RequestState
    BY <1>1 DEF HistoryOK, TypeInv, TypeOK
  <2>2. CASE Eligible(q) = {}
    <3>1. ASSUME NEW c \in q.candidates
          PROVE  RuledOut(q, c)
      <4>1. c \in Candidate
        BY <2>1 DEF RequestState
      <4>2. \/ TargetOf(c) \in q.attempted
            \/ c.provider \in q.skippedProviders
            \/ PairOf(c) \in q.skippedModels
        BY <2>2 DEF Eligible
      <4>3. CASE TargetOf(c) \in q.attempted
        BY <1>1, <2>1, <4>3
        DEF History, AttemptsAnswered, InFlight, HasAnswer, RuledOut
      <4>4. CASE c.provider \in q.skippedProviders
        BY <2>1, <4>4 DEF History, SkipsExplained, RuledOut
      <4>5. CASE PairOf(c) \in q.skippedModels
        BY <2>1, <4>5
        DEF History, MissingModels, ModelsSkipped, PairAsked, PairOf, RuledOut
      <4>. QED  BY <4>2, <4>3, <4>4, <4>5
    <3>. QED  BY <3>1
  <2>. QED  BY <1>1, <2>1, <2>2 DEF History, Exhausted, Decisive
<1>2. TypeInv /\ HistoryOK => NoPrematureGiveUp
  BY <1>1 DEF NoPrematureGiveUp
<1>. QED  BY <1>2, TypeInvariant, HistoryInvariant, PTL

LEMMA OneMore ==
  ASSUME NEW S, NEW s \in Seq(S), NEW x \in S
  PROVE  /\ Len(s \o <<x>>) = Len(s) + 1
         /\ \A k \in 1..Len(s) : (s \o <<x>>)[k] = s[k]
         /\ (s \o <<x>>)[Len(s) + 1] = x
<1>1. s \o <<x>> = Append(s, x)
  OBVIOUS
<1>. QED  BY <1>1

(* A model its provider does not have is not asked of that provider again  *)
(* with another key.                                                       *)
THEOREM MissingModelsLeftAlone == Spec => []MissingModelNotAskedAgain
<1>1. ASSUME TypeInv, HistoryOK, NEW r \in Requests, NEW q, q = req[r],
             NEW i \in DOMAIN q.trace, NEW j \in (i+1)..Len(Called(q)),
             q.trace[i].outcome = "model_not_found"
      PROVE  \/ Called(q)[j][1] # q.trace[i].target[1]
             \/ Called(q)[j][2] # q.trace[i].target[2]
  <2>. DEFINE s == [k \in DOMAIN q.trace |-> q.trace[k].target]
              Target == Providers \X Models \X KeyNames
  <2>1. q \in RequestState /\ ModelsSkipped(q)
        /\ (q.pc = "calling" => PairOf(q.current) \notin q.skippedModels)
    BY <1>1 DEF HistoryOK, History, MissingModels, InFlight, TypeInv, TypeOK
  <2>2. /\ q.trace \in Seq(TraceEntry) /\ Len(q.trace) \in Nat
        /\ DOMAIN q.trace = 1..Len(q.trace)
    BY <2>1 DEF RequestState
  <2>3. s \in Seq(Target) /\ Len(s) = Len(q.trace) /\ DOMAIN s = DOMAIN q.trace
    <3>1. \A k \in 1..Len(q.trace) : q.trace[k].target \in Target
      <4>1. \A k \in 1..Len(q.trace) : q.trace[k] \in TraceEntry
        BY <2>2
      <4>. QED  BY <4>1 DEF TraceEntry
    <3>2. s = [k \in 1..Len(q.trace) |-> q.trace[k].target]
      BY <2>2
    <3>. HIDE DEF Target, s
    <3>. QED  BY <2>2, <3>1, <3>2
  <2>4. PairAsked(q.trace[i].target) \in q.skippedModels
    BY <1>1, <2>1 DEF ModelsSkipped
  <2>5. ASSUME NEW k \in DOMAIN q.trace, i < k, Called(q)[j] = q.trace[k].target
        PROVE  \/ Called(q)[j][1] # q.trace[i].target[1]
               \/ Called(q)[j][2] # q.trace[i].target[2]
    <3>1. PairAsked(q.trace[i].target) # PairAsked(q.trace[k].target)
      BY <1>1, <2>1, <2>5 DEF ModelsSkipped
    <3>. QED  BY <2>5, <3>1 DEF PairAsked
  <2>6. \A m \in Nat : \A a \in 1..m : \A b \in (a+1)..m : b \in 1..m /\ a < b
    OBVIOUS
  <2>7. CASE q.pc = "calling"
    <3>1. TargetOf(q.current) \in Target
      BY <1>1, <2>7, CandidateFields DEF TypeInv, CurrentOK
    <3>2. Called(q) = s \o <<TargetOf(q.current)>>
      BY <2>7 DEF Called
    <3>. HIDE DEF s, Target
    <3>3. /\ Len(Called(q)) = Len(q.trace) + 1
          /\ \A k \in 1..Len(q.trace) : Called(q)[k] = s[k]
          /\ Called(q)[Len(q.trace) + 1] = TargetOf(q.current)
      <4>. DEFINE x == TargetOf(q.current)
      <4>. HIDE DEF x
      <4>1. /\ Len(s \o <<x>>) = Len(s) + 1
            /\ \A k \in 1..Len(s) : (s \o <<x>>)[k] = s[k]
            /\ (s \o <<x>>)[Len(s) + 1] = x
        BY <2>3, <3>1, OneMore DEF x
      <4>2. Called(q) = s \o <<x>>
        BY <3>2 DEF x
      <4>3. /\ Len(Called(q)) = Len(s) + 1
            /\ \A k \in 1..Len(s) : Called(q)[k] = s[k]
            /\ Called(q)[Len(s) + 1] = x
        BY <4>1, <4>2, Zenon
      <4>. QED  BY <2>3, <4>3, Zenon DEF x
    <3>4. \A m \in Nat : \A a \in 1..m : \A b \in (a+1)..(m+1) :
            (b \in 1..m /\ a < b) \/ b = m + 1
      OBVIOUS
    <3>5. (j \in DOMAIN q.trace /\ i < j) \/ j = Len(q.trace) + 1
      BY <1>1, <2>2, <3>3, <3>4
    <3>6. CASE j \in DOMAIN q.trace /\ i < j
      <4>1. Called(q)[j] = q.trace[j].target
        BY <2>2, <3>3, <3>6 DEF s
      <4>. QED  BY <2>5, <3>6, <4>1
    <3>7. CASE j = Len(q.trace) + 1
      <4>1. Called(q)[j][1] = q.current.provider /\ Called(q)[j][2] = q.current.model
        BY <3>3, <3>7 DEF TargetOf
      <4>. QED  BY <2>1, <2>4, <2>7, <4>1 DEF PairAsked, PairOf
    <3>. QED  BY <3>5, <3>6, <3>7
  <2>8. CASE q.pc # "calling"
    <3>1. Called(q) = s \o << >>
      BY <2>8 DEF Called
    <3>2. s \o << >> = s
      <4>. HIDE DEF s, Target
      <4>. QED  BY <2>3
    <3>3. Called(q) = s /\ Len(Called(q)) = Len(q.trace)
      BY <2>3, <3>1, <3>2
    <3>4. j \in DOMAIN q.trace /\ i < j
      <4>. HIDE DEF s
      <4>. QED  BY <1>1, <2>2, <2>6, <3>3
    <3>5. Called(q)[j] = q.trace[j].target
      BY <3>3, <3>4
    <3>. QED  BY <2>5, <3>4, <3>5
  <2>. QED  BY <2>7, <2>8
<1>2. TypeInv /\ HistoryOK => MissingModelNotAskedAgain
  BY <1>1 DEF MissingModelNotAskedAgain
<1>. QED  BY <1>2, TypeInvariant, HistoryInvariant, PTL

-----------------------------------------------------------------------------
(* The counters reconcile: a call is charged when it leaves, and reported  *)
(* as a success or a failure when it comes back.                           *)

Owed(r, p)  == IF r \in Unreported(p) THEN 1 ELSE 0
Reported(p) == usage[p].ok + usage[p].failed

LEMMA StartSent ==
  ASSUME NEW S, NEW load \in [S -> LoadState], NEW t \in S, NEW u \in S
  PROVE  RequestStart(load, t)[u].sent = load[u].sent + (IF u = t THEN 1 ELSE 0)
  BY DEF RequestStart, LoadState

LEMMA EndSent ==
  ASSUME NEW S, NEW load \in [S -> LoadState], NEW t \in S, NEW u \in S
  PROVE  RequestEnd(load, t)[u].sent = load[u].sent
  BY DEF RequestEnd, LoadState

LEMMA ReleaseSent ==
  ASSUME TypeInv, NEW t \in Providers
  PROVE  /\ RequestEnd(providerLoad, t) \in [Providers -> LoadState]
         /\ \A p \in Providers : RequestEnd(providerLoad, t)[p].sent = providerLoad[p].sent
<1>1. providerLoad \in [Providers -> LoadState]
  BY DEF TypeInv, TypeOK
<1>. QED  BY <1>1, EndSent, RequestEndType

LEMMA TryNextSent ==
  ASSUME TypeInv, NEW r \in Requests, NEW q \in RequestState,
         NEW pLoad \in [Providers -> LoadState], NEW kLoad,
         TryNext(r, q, pLoad, kLoad), NEW p \in Providers
  PROVE  providerLoad'[p].sent = pLoad[p].sent + Owed(r, p)'
<1>1. req \in [Requests -> RequestState]
  BY DEF TypeInv, TypeOK
<1>2. CASE \E c \in NextCandidates(q) : Launch(r, q, c, pLoad, kLoad)
  <2>1. PICK c \in NextCandidates(q) : Launch(r, q, c, pLoad, kLoad)
    BY <1>2
  <2>2. c.provider \in Providers
    BY <2>1, CandidateFields DEF NextCandidates, Eligible, RequestState
  <2>. DEFINE attempted == q.attempted \cup {TargetOf(c)}
              attempts == q.attempts + 1
              n == [q EXCEPT !.pc = "calling", !.current = c,
                             !.attempts = attempts, !.attempted = attempted]
  <2>3. req' = [req EXCEPT ![r] = n] /\ providerLoad' = RequestStart(pLoad, c.provider)
    BY <2>1 DEF Launch
  <2>. HIDE DEF attempts, attempted
  <2>4. n.pc = "calling" /\ n.current = c
    BY DEF RequestState
  <2>. HIDE DEF n
  <2>5. Owed(r, p)' = IF p = c.provider THEN 1 ELSE 0
    BY <1>1, <2>3, <2>4 DEF Owed, Unreported
  <2>. QED  BY <2>2, <2>3, <2>5, StartSent
<1>3. CASE GiveUp(r, q, pLoad, kLoad)
  <2>. DEFINE status == FinalStatus(q)
              n == [q EXCEPT !.pc = "done", !.status = status]
  <2>1. req' = [req EXCEPT ![r] = n] /\ providerLoad' = pLoad
    BY <1>3 DEF GiveUp
  <2>. HIDE DEF status
  <2>2. n.pc = "done"
    BY DEF RequestState
  <2>. HIDE DEF n
  <2>3. Owed(r, p)' = 0
    BY <1>1, <2>1, <2>2 DEF Owed, Unreported
  <2>. QED  BY <2>1, <2>3 DEF LoadState
<1>. QED  BY <1>2, <1>3 DEF TryNext

(* One request moved; every other owes what it owed.                       *)
LEMMA Rebalanced ==
  ASSUME TypeInv, TypeInv', ChargesReconcile, NEW r \in Requests,
         \A s \in Requests \ {r} : req'[s] = req[s],
         \A p \in Providers :
           providerLoad'[p].sent + Owed(r, p) + Reported(p)
             = providerLoad[p].sent + Owed(r, p)' + Reported(p)'
  PROVE  ChargesReconcile'
<1>1. ASSUME NEW p \in Providers
      PROVE  providerLoad'[p].sent
               = usage'[p].ok + usage'[p].failed + Cardinality(Unreported(p)')
  <2>. DEFINE H == Unreported(p)
              G == Unreported(p)'
  <2>1. H \in SUBSET Requests /\ G \in SUBSET Requests /\ H \ {r} = G \ {r}
    BY DEF Unreported
  <2>2. /\ Owed(r, p) = IF r \in H THEN 1 ELSE 0
        /\ Owed(r, p)' = IF r \in G THEN 1 ELSE 0
    BY DEF Owed
  <2>3. providerLoad[p].sent = Reported(p) + Cardinality(H)
    BY DEF ChargesReconcile, Reported
  <2>4. /\ providerLoad[p].sent \in Nat /\ providerLoad'[p].sent \in Nat
        /\ Reported(p) \in Nat /\ Reported(p)' \in Nat
    BY DEF TypeInv, TypeOK, LoadState, UsageState, Reported
  <2>. HIDE DEF H, G
  <2>5. /\ Cardinality(H) \in Nat
        /\ Cardinality(G) = Cardinality(H) - (IF r \in H THEN 1 ELSE 0)
                                           + (IF r \in G THEN 1 ELSE 0)
    BY <2>1, Recount
  <2>6. providerLoad'[p].sent = Reported(p)' + Cardinality(G)
    BY <2>2, <2>3, <2>4, <2>5
  <2>. QED  BY <2>6 DEF G, Reported
<1>. QED  BY <1>1 DEF ChargesReconcile

(* An answer moves one call from owed to reported.                         *)
LEMMA AnswerReports ==
  ASSUME TypeInv, NEW r \in Requests, req[r].pc = "calling", NEW u,
         usage' = [usage EXCEPT ![req[r].current.provider] = u],
         u.ok + u.failed = usage[req[r].current.provider].ok
                             + usage[req[r].current.provider].failed + 1,
         NEW p \in Providers
  PROVE  Reported(p)' = Reported(p) + Owed(r, p)
<1>. DEFINE c == req[r].current
<1>1. c.provider \in Providers
  BY CandidateFields DEF TypeInv, CurrentOK
<1>2. Owed(r, p) = IF p = c.provider THEN 1 ELSE 0
  BY DEF Owed, Unreported
<1>3. usage \in [Providers -> UsageState] /\ Reported(p) \in Nat
  BY DEF TypeInv, TypeOK, UsageState, Reported
<1>4. CASE p = c.provider
  <2>1. usage'[p] = u
    BY <1>1, <1>3, <1>4
  <2>. QED  BY <1>2, <1>4, <2>1 DEF Reported
<1>5. CASE p # c.provider
  <2>1. usage'[p] = usage[p]
    BY <1>1, <1>3, <1>5
  <2>2. Reported(p)' = Reported(p)
    BY <2>1 DEF Reported
  <2>. QED  BY <1>2, <1>3, <1>5, <2>2
<1>. QED  BY <1>4, <1>5

LEMMA StartReconciles ==
  ASSUME TypeInv, TypeInv', ChargesReconcile, NEW r \in Requests, Start(r)
  PROVE  ChargesReconcile'
<1>. DEFINE found == Resolve(Route[r])
            o == [req[r] EXCEPT !.candidates = found]
<1>1. /\ req[r] \in RequestState /\ found \subseteq Candidate
      /\ providerLoad \in [Providers -> LoadState]
  BY ResolveType DEF TypeInv, TypeOK
<1>2. ASSUME NEW p \in Providers
      PROVE  Owed(r, p) = 0 /\ Reported(p)' = Reported(p) /\ Reported(p) \in Nat
             /\ providerLoad[p].sent \in Nat /\ Owed(r, p)' \in Nat
  BY <1>1 DEF Start, Owed, Unreported, Reported, TypeInv, TypeOK, UsageState, LoadState
<1>3. \A s \in Requests \ {r} : req'[s] = req[s]
  BY StartMoves
<1>4. ASSUME NEW p \in Providers
      PROVE  providerLoad'[p].sent = providerLoad[p].sent + Owed(r, p)'
  <2>1. CASE \E status \in {400, 404, 503} : Reject(r, status)
    <3>1. PICK status \in {400, 404, 503} : Reject(r, status)
      BY <2>1
    <3>. DEFINE n == [req[r] EXCEPT !.pc = "done", !.status = status]
    <3>2. req' = [req EXCEPT ![r] = n] /\ providerLoad' = providerLoad
      BY <3>1 DEF Reject, loadVars
    <3>3. n.pc = "done"
      BY <1>1 DEF RequestState
    <3>. HIDE DEF n
    <3>4. Owed(r, p)' = 0
      BY <3>2, <3>3 DEF Owed, Unreported, TypeInv, TypeOK
    <3>. QED  BY <1>2, <3>2, <3>4
  <2>2. CASE TryNext(r, o, providerLoad, keyLoad)
    <3>. HIDE DEF found
    <3>1. o \in RequestState
      BY <1>1 DEF RequestState
    <3>. HIDE DEF o
    <3>. QED  BY <1>1, <2>2, <3>1, TryNextSent
  <2>. QED  BY <2>1, <2>2 DEF Start
<1>. QED  BY <1>2, <1>3, <1>4, Rebalanced

LEMMA SucceedReconciles ==
  ASSUME TypeInv, TypeInv', ChargesReconcile, NEW r \in Requests,
         NEW reset \in Resets, Succeed(r, reset)
  PROVE  ChargesReconcile'
<1>. DEFINE c == req[r].current
            u == UsageSuccess(usage[c.provider])
<1>1. req[r].pc = "calling" /\ usage' = [usage EXCEPT ![c.provider] = u]
  BY DEF Succeed
<1>2. c.provider \in Providers
  BY <1>1, CandidateFields DEF TypeInv, CurrentOK
<1>3. u.ok + u.failed = usage[c.provider].ok + usage[c.provider].failed + 1
  BY <1>2 DEF UsageSuccess, UsageState, TypeInv, TypeOK
<1>. HIDE DEF u
<1>4. \A p \in Providers : Reported(p)' = Reported(p) + Owed(r, p)
  BY <1>1, <1>3, AnswerReports
<1>5. /\ \A s \in Requests \ {r} : req'[s] = req[s]
      /\ req'[r].pc \in {"streaming", "done"}
  BY SucceedMoves DEF Succeeded
<1>6. \A p \in Providers : Owed(r, p)' = 0
  BY <1>5 DEF Owed, Unreported
<1>7. \A p \in Providers : providerLoad'[p].sent = providerLoad[p].sent
  BY <1>2, ReleaseSent DEF Succeed
<1>8. \A p \in Providers : /\ Owed(r, p) \in Nat /\ Reported(p) \in Nat
                           /\ providerLoad[p].sent \in Nat
  BY DEF Owed, Reported, TypeInv, TypeOK, UsageState, LoadState
<1>9. \A p \in Providers : providerLoad'[p].sent + Owed(r, p) + Reported(p)
                             = providerLoad[p].sent + Owed(r, p)' + Reported(p)'
  BY <1>4, <1>6, <1>7, <1>8
<1>. QED  BY <1>5, <1>9, Rebalanced

LEMMA FailReconciles ==
  ASSUME TypeInv, TypeInv', ChargesReconcile, NEW r \in Requests,
         NEW failure \in Failures, Fail(r, failure)
  PROVE  ChargesReconcile'
<1>. DEFINE q == req[r]
            c == q.current
            category == Category(failure)
            seconds == CooldownSeconds(c.provider, category, failure.retryAfter)
            marked == [keyHealth EXCEPT ![KeyOf(c)] = KeyAfter(c, category, seconds)]
            scope == FailureScope(c, category, marked)
            next == AfterFailure(q, failure, category, scope)
            pLoad == RequestEnd(providerLoad, c.provider)
            kLoad == RequestEnd(keyLoad, KeyOf(c))
            u == UsageAfter(usage[c.provider], category)
<1>1. q \in RequestState /\ c \in Candidate /\ q.pc = "calling"
  BY DEF Fail, TypeInv, TypeOK, CurrentOK
<1>2. c.provider \in Providers /\ category \in ErrorCategory
  BY <1>1, CandidateFields, CategoryType
<1>3. usage' = [usage EXCEPT ![c.provider] = u]
  BY DEF Fail
<1>4. \/ providerLoad' = pLoad /\ req'[r].pc \in {"done", "backoff"}
      \/ TryNext(r, next, pLoad, kLoad)
  <2>1. ASSUME NEW pc \in {"done", "backoff"}, req' = [req EXCEPT ![r] = [next EXCEPT !.pc = pc]]
        PROVE  req'[r].pc = pc
    <3>. DEFINE n == [next EXCEPT !.pc = pc]
    <3>1. next \in RequestState
      BY <1>1, <1>2, SchedulerConstants, AfterFailureType
    <3>. HIDE DEF next
    <3>2. n.pc = pc
      BY <3>1 DEF RequestState
    <3>3. req' = [req EXCEPT ![r] = n]
      BY <2>1
    <3>. HIDE DEF n
    <3>. QED  BY <3>2, <3>3 DEF TypeInv, TypeOK
  <2>2. \/ \E pc \in {"done", "backoff"} :
             /\ req' = [req EXCEPT ![r] = [next EXCEPT !.pc = pc]]
             /\ providerLoad' = pLoad
        \/ TryNext(r, next, pLoad, kLoad)
    BY DEF Fail
  <2>. HIDE DEF next, pLoad, kLoad
  <2>. QED  BY <2>1, <2>2
<1>5. u.ok + u.failed = usage[c.provider].ok + usage[c.provider].failed + 1
  BY <1>2 DEF UsageAfter, UsageState, TypeInv, TypeOK
<1>. HIDE DEF u, category, scope, marked, seconds
<1>6. \A p \in Providers : Reported(p)' = Reported(p) + Owed(r, p)
  BY <1>1, <1>3, <1>5, AnswerReports
<1>7. next \in RequestState
  BY <1>1, <1>2, SchedulerConstants, AfterFailureType
<1>8. pLoad \in [Providers -> LoadState]
      /\ \A p \in Providers : pLoad[p].sent = providerLoad[p].sent
  BY <1>2, ReleaseSent
<1>9. \A s \in Requests \ {r} : req'[s] = req[s]
  BY FailMoves
<1>. HIDE DEF next, pLoad, kLoad
<1>10. \A p \in Providers : /\ Owed(r, p) \in Nat /\ Reported(p) \in Nat
                            /\ Owed(r, p)' \in Nat
                            /\ providerLoad[p].sent \in Nat
  BY DEF Owed, Reported, TypeInv, TypeOK, UsageState, LoadState
<1>11. \A p \in Providers : providerLoad'[p].sent = pLoad[p].sent + Owed(r, p)'
  <2>1. CASE TryNext(r, next, pLoad, kLoad)
    BY <1>7, <1>8, <2>1, TryNextSent
  <2>2. CASE providerLoad' = pLoad /\ req'[r].pc \in {"done", "backoff"}
    <3>1. \A p \in Providers : Owed(r, p)' = 0
      BY <2>2 DEF Owed, Unreported
    <3>. QED  BY <1>8, <1>10, <2>2, <3>1
  <2>. QED  BY <1>4, <2>1, <2>2
<1>12. \A p \in Providers : providerLoad'[p].sent + Owed(r, p) + Reported(p)
                              = providerLoad[p].sent + Owed(r, p)' + Reported(p)'
  BY <1>6, <1>8, <1>10, <1>11
<1>. QED  BY <1>9, <1>12, Rebalanced

(* What a provider was charged is what it reported, but for the calls      *)
(* still out.                                                              *)
THEOREM ChargesAreReported == Spec => []ChargesReconcile
<1>1. Init => ChargesReconcile
  <2>1. Init => \A p \in Providers : Unreported(p) = {}
    BY DEF Init, Unreported
  <2>2. Cardinality({}) = 0
    BY FS_EmptySet
  <2>3. Init => \A p \in Providers : /\ providerLoad[p].sent = 0
                                     /\ usage[p].ok = 0 /\ usage[p].failed = 0
    BY DEF Init
  <2>. QED  BY <2>1, <2>2, <2>3 DEF ChargesReconcile
<1>2. ASSUME TypeInv, TypeInv', ChargesReconcile, [Next]_vars
      PROVE  ChargesReconcile'
  <2>1. ASSUME NEW r \in Requests, Garble(r)
        PROVE  ChargesReconcile'
    <3>1. /\ req'[r].pc = "crashed" /\ req[r].pc = "calling"
          /\ req'[r].current = req[r].current
          /\ \A s \in Requests \ {r} : req'[s] = req[s]
      BY <1>2, <2>1, GarbleMoves DEF Garbled, SameCalls
    <3>2. \A p \in Providers : Unreported(p)' = Unreported(p)
      BY <3>1 DEF Unreported
    <3>. QED  BY <1>2, <2>1, <3>2 DEF Garble, ChargesReconcile, loadVars
  <2>2. ASSUME NEW r \in Requests, StreamEnd(r)
        PROVE  ChargesReconcile'
    <3>1. /\ req'[r].pc = "done" /\ req[r].pc = "streaming"
          /\ \A s \in Requests \ {r} : req'[s] = req[s]
      BY <1>2, <2>2, StreamEndMoves DEF StreamEnded
    <3>2. \A p \in Providers : Unreported(p)' = Unreported(p)
      BY <3>1 DEF Unreported
    <3>3. req[r].current.provider \in Providers
      BY <1>2, <3>1, CandidateFields DEF TypeInv, CurrentOK
    <3>4. \A p \in Providers : providerLoad'[p].sent = providerLoad[p].sent
      BY <1>2, <2>2, <3>3, ReleaseSent DEF StreamEnd
    <3>. QED  BY <1>2, <2>2, <3>2, <3>4 DEF StreamEnd, ChargesReconcile
  <2>3. ASSUME NEW r \in Requests, BackoffElapsed(r)
        PROVE  ChargesReconcile'
    <3>1. req[r] \in RequestState /\ providerLoad \in [Providers -> LoadState]
      BY <1>2 DEF TypeInv, TypeOK
    <3>2. /\ \A s \in Requests \ {r} : req'[s] = req[s]
          /\ \A p \in Providers :
               providerLoad'[p].sent = providerLoad[p].sent + Owed(r, p)'
      BY <1>2, <2>3, <3>1, TryNextMoves, TryNextSent DEF BackoffElapsed
    <3>3. \A p \in Providers :
            /\ Owed(r, p) = 0 /\ Reported(p)' = Reported(p) /\ Reported(p) \in Nat
            /\ providerLoad[p].sent \in Nat /\ Owed(r, p)' \in Nat
      BY <1>2, <2>3 DEF BackoffElapsed, Owed, Unreported, Reported, TypeInv, TypeOK,
                        UsageState, LoadState
    <3>. QED  BY <1>2, <3>2, <3>3, Rebalanced
  <2>4. ASSUME req' = req, UNCHANGED loadVars, UNCHANGED usage
        PROVE  ChargesReconcile'
    BY <1>2, <2>4 DEF ChargesReconcile, Unreported, loadVars
  <2>. QED
    BY <1>2, <2>1, <2>2, <2>3, <2>4, StartReconciles, SucceedReconciles, FailReconciles
    DEF Next, Answer, Tick, vars
<1>. QED  BY <1>1, <1>2, TypeInvariant, PTL DEF Spec

-----------------------------------------------------------------------------
(* The first attempts stay within the limits.  A first attempt is made by  *)
(* the step that resolved its candidates, and no step makes a later        *)
(* attempt a first one.                                                    *)

First(r) == Holds(r) /\ req[r].attempts = 1

StillFirst(r) == First(r)' => First(r) /\ req'[r].current = req[r].current

LEMMA MovesStayFirst ==
  ASSUME TypeInv, HistoryOK, NEW r \in Requests, RequestMoves(r), req[r].pc # "idle"
  PROVE  StillFirst(r)
<1>. DEFINE q == req[r]
            n == req'[r]
<1>1. q.attempts \in Nat
  BY DEF TypeInv, TypeOK, RequestState
<1>2. q.pc \in {"calling", "backoff"} => q.attempts > 0
  BY DEF HistoryOK, History, Fresh
<1>3. ASSUME NEW o \in RequestState, o.attempts = q.attempts, q.attempts > 0,
             Proceeds(o, n)
      PROVE  ~First(r)'
  <2>1. n.pc = "done" \/ n.attempts = q.attempts + 1
    BY <1>3 DEF Proceeds, GivenUp, Launched
  <2>2. q.attempts + 1 # 1
    BY <1>1, <1>3
  <2>. QED  BY <2>1, <2>2 DEF First, Holds
<1>4. CASE n = q
  BY <1>4 DEF StillFirst, First, Holds
<1>5. CASE Rejected(q, n) \/ Opened(q, n, Resolve(Route[r]))
  BY <1>5 DEF Rejected, Opened
<1>6. CASE Succeeded(q, n)
  BY <1>6 DEF Succeeded, StillFirst, First, Holds
<1>7. CASE Garbled(q, n) \/ StreamEnded(q, n)
  BY <1>7 DEF Garbled, StreamEnded, SameCalls, StillFirst, First, Holds
<1>8. CASE Resumed(q, n)
  <2>1. q \in RequestState
    BY DEF TypeInv, TypeOK
  <2>. QED  BY <1>2, <1>3, <1>8, <2>1 DEF Resumed, StillFirst
<1>9. CASE Failed(q, n, keyHealth')
  <2>1. PICK category \in ErrorCategory, o \in RequestState :
          /\ Blamed(q, o, category, keyHealth')
          /\ n.pc \in {"backoff", "done"} \/ Proceeds(o, n)
    BY <1>9 DEF Failed
  <2>2. o.attempts = q.attempts /\ q.attempts > 0
    BY <1>2, <1>9, <2>1 DEF Failed, Blamed
  <2>3. CASE Proceeds(o, n)
    BY <1>3, <2>2, <2>3 DEF StillFirst
  <2>4. CASE n.pc \in {"backoff", "done"}
    BY <2>4 DEF StillFirst, First, Holds
  <2>. QED  BY <2>1, <2>3, <2>4
<1>. QED  BY <1>4, <1>5, <1>6, <1>7, <1>8, <1>9 DEF RequestMoves

(* What the request that starts finds open: its own call is one more.      *)
LEMMA StartsFirst ==
  ASSUME TypeInv, NEW r \in Requests, Start(r), First(r)'
  PROVE  /\ req'[r].current \in Candidate
         /\ PairOpen(req'[r].current)
         /\ KeyOpen(req'[r].current)
<1>. DEFINE q == req[r]
            n == req'[r]
            found == Resolve(Route[r])
<1>1. n.pc # "done"
  BY DEF First, Holds
<1>2. Opened(q, n, found)
  BY <1>1, StartMoves DEF Rejected
<1>3. PICK o \in RequestState : o.candidates = found /\ Proceeds(o, n)
  BY <1>2 DEF Opened
<1>4. PICK c \in Candidate : Launched(o, n, c)
  BY <1>1, <1>3 DEF Proceeds, GivenUp
<1>5. n.current = c /\ c \in found
  BY <1>3, <1>4 DEF Launched, NextCandidates, Eligible
<1>. QED  BY <1>4, <1>5 DEF Resolve

LEMMA SmallerSet ==
  ASSUME NEW H \in SUBSET Requests, NEW G \in SUBSET Requests, G \subseteq H
  PROVE  /\ Cardinality(G) \in Nat /\ Cardinality(H) \in Nat
         /\ Cardinality(G) <= Cardinality(H)
<1>1. IsFiniteSet(H) /\ IsFiniteSet(G)
  BY FiniteRequests, FS_Subset
<1>. QED  BY <1>1, FS_Subset, FS_CardinalityType

(* A set of first attempts that one request may join while its holders are *)
(* below the limit stays within the limit.                                 *)
LEMMA JoinsBelow ==
  ASSUME NEW r \in Requests, NEW H \in SUBSET Requests, NEW G \in SUBSET Requests,
         NEW holders \in SUBSET Requests, NEW limit \in Nat,
         H \subseteq holders, Cardinality(H) <= limit, G \subseteq H \cup {r},
         r \in G => Cardinality(holders) < limit
  PROVE  Cardinality(G) <= limit
<1>1. CASE r \notin G
  <2>1. G \subseteq H
    BY <1>1
  <2>. QED  BY <2>1, SmallerSet
<1>2. CASE r \in G
  <2>1. H \cup {r} \in SUBSET Requests /\ (H \cup {r}) \ {r} = H \ {r}
    OBVIOUS
  <2>2. Cardinality(H \cup {r}) <= Cardinality(H) + 1 /\ Cardinality(H) \in Nat
    BY <2>1, Recount
  <2>3. Cardinality(G) <= Cardinality(H \cup {r}) /\ Cardinality(G) \in Nat
        /\ Cardinality(H \cup {r}) \in Nat
    BY <2>1, SmallerSet
  <2>4. Cardinality(H) <= Cardinality(holders) /\ Cardinality(holders) \in Nat
    BY SmallerSet
  <2>. QED  BY <1>2, <2>2, <2>3, <2>4
<1>. QED  BY <1>1, <1>2

(* One request moved: at most it joined, and then the limits were open.    *)
LEMMA StepWithinLimit ==
  ASSUME TypeInv, TypeInv', InFlightAccounted, FirstAttemptsWithinLimit,
         NEW r \in Requests, \A s \in Requests \ {r} : req'[s] = req[s],
         \/ StillFirst(r)
         \/ First(r)' => /\ req'[r].current \in Candidate
                         /\ PairOpen(req'[r].current)
                         /\ KeyOpen(req'[r].current)
  PROVE  FirstAttemptsWithinLimit'
<1>1. ASSUME NEW k \in Key, KeyLimits[k].concurrent # NoLimit
      PROVE  Cardinality(FirstOnKey(k)') <= KeyLimits[k].concurrent
  <2>1. KeyLimits[k].concurrent \in Nat
    BY <1>1, ConfigTypes DEF Limit
  <2>2. /\ FirstOnKey(k) \in SUBSET Requests /\ FirstOnKey(k)' \in SUBSET Requests
        /\ HoldersOfKey(k) \in SUBSET Requests
        /\ FirstOnKey(k) \subseteq HoldersOfKey(k)
    BY DEF FirstOnKey, HoldersOfKey
  <2>3. Cardinality(FirstOnKey(k)) <= KeyLimits[k].concurrent
    BY <1>1 DEF FirstAttemptsWithinLimit
  <2>4. \A s \in Requests \ {r} : s \in FirstOnKey(k)' => s \in FirstOnKey(k)
    BY DEF FirstOnKey, HoldersOfKey, Holds
  <2>5. CASE StillFirst(r)
    <3>1. FirstOnKey(k)' \subseteq FirstOnKey(k)
      BY <2>2, <2>4, <2>5 DEF FirstOnKey, HoldersOfKey, StillFirst, First
    <3>. QED  BY <2>1, <2>2, <2>3, <3>1, SmallerSet
  <2>6. CASE First(r)' => KeyOpen(req'[r].current)
    <3>1. FirstOnKey(k)' \subseteq FirstOnKey(k) \cup {r}
      BY <2>2, <2>4
    <3>2. ASSUME r \in FirstOnKey(k)'
          PROVE  Cardinality(HoldersOfKey(k)) < KeyLimits[k].concurrent
      <4>1. First(r)' /\ KeyOf(req'[r].current) = k
        BY <3>2 DEF FirstOnKey, HoldersOfKey, First
      <4>2. keyLoad[k].inFlight < KeyLimits[k].concurrent
        BY <1>1, <2>6, <4>1 DEF KeyOpen, HasRequestBudget
      <4>. QED  BY <4>2 DEF InFlightAccounted
    <3>. QED  BY <2>1, <2>2, <2>3, <3>1, <3>2, JoinsBelow
  <2>. QED  BY <2>5, <2>6
<1>2. ASSUME NEW p \in Providers, ProviderLimits[p].concurrent # NoLimit
      PROVE  Cardinality(FirstOnProvider(p)') <= ProviderLimits[p].concurrent
  <2>1. ProviderLimits[p].concurrent \in Nat
    BY <1>2, ConfigTypes DEF Limit
  <2>2. /\ FirstOnProvider(p) \in SUBSET Requests /\ FirstOnProvider(p)' \in SUBSET Requests
        /\ HoldersOfProvider(p) \in SUBSET Requests
        /\ FirstOnProvider(p) \subseteq HoldersOfProvider(p)
    BY DEF FirstOnProvider, HoldersOfProvider
  <2>3. Cardinality(FirstOnProvider(p)) <= ProviderLimits[p].concurrent
    BY <1>2 DEF FirstAttemptsWithinLimit
  <2>4. \A s \in Requests \ {r} : s \in FirstOnProvider(p)' => s \in FirstOnProvider(p)
    BY DEF FirstOnProvider, HoldersOfProvider, Holds
  <2>5. CASE StillFirst(r)
    <3>1. FirstOnProvider(p)' \subseteq FirstOnProvider(p)
      BY <2>2, <2>4, <2>5 DEF FirstOnProvider, HoldersOfProvider, StillFirst, First
    <3>. QED  BY <2>1, <2>2, <2>3, <3>1, SmallerSet
  <2>6. CASE First(r)' => PairOpen(req'[r].current)
    <3>1. FirstOnProvider(p)' \subseteq FirstOnProvider(p) \cup {r}
      BY <2>2, <2>4
    <3>2. ASSUME r \in FirstOnProvider(p)'
          PROVE  Cardinality(HoldersOfProvider(p)) < ProviderLimits[p].concurrent
      <4>1. First(r)' /\ req'[r].current.provider = p /\ ~req'[r].current.dynamic
        BY <3>2 DEF FirstOnProvider, HoldersOfProvider, First
      <4>2. providerLoad[p].inFlight < ProviderLimits[p].concurrent
        BY <1>2, <2>6, <4>1 DEF PairOpen, HasRequestBudget
      <4>. QED  BY <4>2 DEF InFlightAccounted
    <3>. QED  BY <2>1, <2>2, <2>3, <3>1, <3>2, JoinsBelow
  <2>. QED  BY <2>5, <2>6
<1>. QED  BY <1>1, <1>2 DEF FirstAttemptsWithinLimit

(* However many requests arrive together, their first attempts in flight   *)
(* stay within the concurrency limits of every key and provider.           *)
THEOREM FirstAttemptsAreLimited == Spec => []FirstAttemptsWithinLimit
<1>1. Init => FirstAttemptsWithinLimit
  <2>1. ASSUME Init
        PROVE  /\ \A k \in Key : FirstOnKey(k) = {}
               /\ \A p \in Providers : FirstOnProvider(p) = {}
    BY <2>1 DEF Init, FirstOnKey, FirstOnProvider, HoldersOfKey, HoldersOfProvider, Holds
  <2>2. Cardinality({}) = 0
    BY FS_EmptySet
  <2>3. /\ \A k \in Key : KeyLimits[k].concurrent # NoLimit =>
             KeyLimits[k].concurrent \in Nat
        /\ \A p \in Providers : ProviderLimits[p].concurrent # NoLimit =>
             ProviderLimits[p].concurrent \in Nat
    BY ConfigTypes DEF Limit
  <2>4. \A n \in Nat : 0 <= n
    OBVIOUS
  <2>. QED  BY <2>1, <2>2, <2>3, <2>4 DEF FirstAttemptsWithinLimit
<1>2. ASSUME TypeInv, TypeInv', InFlightAccounted, HistoryOK, FirstAttemptsWithinLimit,
             [Next]_vars
      PROVE  FirstAttemptsWithinLimit'
  <2>1. ASSUME NEW r \in Requests, Start(r)
        PROVE  FirstAttemptsWithinLimit'
    <3>1. \A s \in Requests \ {r} : req'[s] = req[s]
      BY <1>2, <2>1, StartMoves
    <3>2. First(r)' => /\ req'[r].current \in Candidate
                       /\ PairOpen(req'[r].current)
                       /\ KeyOpen(req'[r].current)
      BY <1>2, <2>1, StartsFirst
    <3>. QED  BY <1>2, <3>1, <3>2, StepWithinLimit
  <2>2. ASSUME NEW r \in Requests, Answer(r) \/ BackoffElapsed(r) \/ StreamEnd(r)
        PROVE  FirstAttemptsWithinLimit'
    <3>1. req[r].pc # "idle"
      BY <2>2 DEF Answer, Succeed, Fail, Garble, BackoffElapsed, StreamEnd
    <3>2. RequestMoves(r)
      BY <1>2, StepMoves
    <3>3. \A s \in Requests \ {r} : req'[s] = req[s]
      <4>1. CASE BackoffElapsed(r)
        <5>1. req[r] \in RequestState
          BY <1>2 DEF TypeInv, TypeOK
        <5>. QED  BY <1>2, <4>1, <5>1, TryNextMoves DEF BackoffElapsed
      <4>. QED  BY <1>2, <2>2, <4>1, SucceedMoves, FailMoves, GarbleMoves, StreamEndMoves
                DEF Answer
    <3>. QED  BY <1>2, <3>1, <3>2, <3>3, MovesStayFirst, StepWithinLimit
  <2>3. ASSUME req' = req
        PROVE  FirstAttemptsWithinLimit'
    BY <1>2, <2>3 DEF FirstAttemptsWithinLimit, FirstOnKey, FirstOnProvider,
                      HoldersOfKey, HoldersOfProvider, Holds
  <2>. QED  BY <1>2, <2>1, <2>2, <2>3 DEF Next, Tick, vars
<1>. QED  BY <1>1, <1>2, TypeInvariant, InFlightIsAccounted, HistoryInvariant, PTL DEF Spec

-----------------------------------------------------------------------------
(* What happens to a request is a behaviour of Failover: step simulation   *)
(* under TaskOf, move by move.                                             *)

(* A request that has not arrived was offered nothing.                     *)
NothingOffered == \A r \in Requests : req[r].pc = "idle" => req[r].candidates = {}

LEMMA Stages ==
  ASSUME NEW q
  PROVE  /\ q.pc = "idle" => Stage(q) = "new"
         /\ q.pc = "calling" => Stage(q) = "asking"
         /\ q.pc = "backoff" => Stage(q) = "waiting"
         /\ q.pc \in {"streaming", "done"} /\ q.status = 200 => Stage(q) = "served"
         /\ q.pc = "crashed" /\ q.status # 200 => Stage(q) = "refused"
         /\ q.pc = "done" /\ q.status # 200 => IF Refused(q) THEN Stage(q) = "refused"
                                               ELSE Stage(q) = "exhausted"
  BY DEF Stage, Ended, Refused

(* The same, of a record whose history is in order.                        *)
LEMMA ExhaustedStage ==
  ASSUME NEW n, Undecided(n), Conclusion(n), n.pc = "done",
         n.trace # <<>> => Len(n.trace) \in DOMAIN n.trace
  PROVE  Stage(n) = "exhausted"
<1>1. n.status # 200
  BY DEF Undecided, Conclusion, Decisive
<1>2. ~Refused(n)
  BY DEF Undecided, Refused, Decisive
<1>. QED  BY <1>1, <1>2, Stages

LEMMA OpenAfterCall ==
  ASSUME NEW q, NEW n, NEW c, Launched(q, n, c)
  PROVE  Eligible(n) = {x \in Eligible(q) : ~Promise!SameTarget(x, c)}
<1>1. \A x : TargetOf(x) = TargetOf(c) <=> Promise!SameTarget(x, c)
  BY DEF TargetOf, Promise!SameTarget, Promise!SameModel
<1>. QED  BY <1>1 DEF Launched, Eligible

LEMMA OpenAfterPause ==
  ASSUME NEW q, NEW n, SameCalls(q, n)
  PROVE  Eligible(n) = Eligible(q)
  BY DEF SameCalls, Eligible

(* The head of the loop, seen from outside.                                *)
LEMMA OnwardMoves ==
  ASSUME NEW q, NEW n, Proceeds(q, n), q.attempts \in Nat,
         Undecided(q), Conclusion(n),
         q.trace # <<>> => Len(q.trace) \in DOMAIN q.trace,
         NEW t, NEW stage,
         t = [stage |-> stage, open |-> Eligible(q), at |-> q.current,
              calls |-> q.attempts]
  PROVE  \/ /\ t.calls < MaxAttempts
            /\ \E o \in Promise!Preferred(t.open) : TaskOf(n) = Promise!Asking(t, o)
         \/ /\ t.open = {} \/ t.calls >= MaxAttempts
            /\ TaskOf(n) = [t EXCEPT !.stage = "exhausted"]
<1>1. CASE \E c \in Candidate : Launched(q, n, c)
  <2>1. PICK c \in Candidate : Launched(q, n, c)
    BY <1>1
  <2>2. c \in Promise!Preferred(Eligible(q)) /\ q.attempts < MaxAttempts
    BY <2>1 DEF Launched, BudgetLeft, NextCandidates, Promise!Preferred
  <2>3. Stage(n) = "asking" /\ n.current = c /\ n.attempts = q.attempts + 1
    BY <2>1, Stages DEF Launched
  <2>4. Eligible(n) = {x \in t.open : ~Promise!SameTarget(x, c)}
    <3>1. t.open = Eligible(q)
      OBVIOUS
    <3>. QED  BY ONLY <2>1, <3>1, OpenAfterCall
  <2>5. n.attempts = t.calls + 1
    BY <2>3
  <2>6. TaskOf(n) = Promise!Asking(t, c)
    BY ONLY <2>3, <2>4, <2>5 DEF TaskOf, Promise!Asking
  <2>. QED  BY <2>2, <2>6
<1>2. CASE GivenUp(q, n)
  <2>1. q.attempts >= MaxAttempts \/ Eligible(q) = {}
    BY <1>2, SchedulerConstants DEF GivenUp, BudgetLeft
  <2>2. /\ n.pc = "done" /\ n.trace = q.trace /\ n.current = q.current
        /\ n.attempts = q.attempts /\ Eligible(n) = Eligible(q)
    BY <1>2, OpenAfterPause DEF GivenUp, SameCalls
  <2>3. Stage(n) = "exhausted"
    BY <2>2, ExhaustedStage DEF Undecided
  <2>4. TaskOf(n) = [t EXCEPT !.stage = "exhausted"]
    BY <2>2, <2>3 DEF TaskOf
  <2>. QED  BY <2>1, <2>4
<1>. QED  BY <1>1, <1>2 DEF Proceeds

(* One task replaced.                                                      *)
LEMMA Enters ==
  ASSUME NEW r \in Requests, \A s \in Requests \ {r} : req'[s] = req[s],
         NEW t, TaskOf(req'[r]) = t
  PROVE  Promise!Enter(r, t)
  BY DEF Promise!Enter

LEMMA GoesOnward ==
  ASSUME NEW r \in Requests, \A s \in Requests \ {r} : req'[s] = req[s],
         NEW q, Proceeds(q, req'[r]), q.attempts \in Nat,
         Undecided(q), Conclusion(req'[r]),
         q.trace # <<>> => Len(q.trace) \in DOMAIN q.trace,
         NEW t, NEW stage,
         t = [stage |-> stage, open |-> Eligible(q), at |-> q.current,
              calls |-> q.attempts]
  PROVE  Promise!Onward(r, t)
<1>. DEFINE n == req'[r]
<1>1. \/ /\ t.calls < MaxAttempts
         /\ \E o \in Promise!Preferred(t.open) : TaskOf(n) = Promise!Asking(t, o)
      \/ /\ t.open = {} \/ t.calls >= MaxAttempts
         /\ TaskOf(n) = [t EXCEPT !.stage = "exhausted"]
  <2>. HIDE DEF n
  <2>. QED  BY OnwardMoves DEF n
<1>2. \A u : TaskOf(n) = u => Promise!Enter(r, u)
  BY Enters
<1>. HIDE DEF n
<1>. QED  BY <1>1, <1>2 DEF Promise!Onward

(* What a failure rules out.                                               *)
LEMMA OpenAfterFailure ==
  ASSUME NEW q, NEW o, NEW category \in ErrorCategory, NEW health,
         Blamed(q, o, category, health)
  PROVE  /\ \E lost \in Promise!RuledOut(TaskOf(q)) : Eligible(o) = Eligible(q) \ lost
         /\ category \notin AuthErrors \cup {"model_not_found"} =>
              Eligible(o) = Eligible(q)
<1>1. /\ TaskOf(q).open = Eligible(q) /\ TaskOf(q).at = q.current
  BY DEF TaskOf
<1>2. \A x : PairOf(x) = PairOf(q.current) <=> Promise!SameModel(x, q.current)
  BY DEF PairOf, Promise!SameModel
<1>3. CASE category = "model_not_found"
  <2>1. o.skippedProviders = q.skippedProviders
    BY <1>3 DEF Blamed, AuthErrors
  <2>2. o.skippedModels = q.skippedModels \cup {PairOf(q.current)}
    BY <1>3 DEF Blamed
  <2>3. Eligible(o) = Eligible(q) \ {x \in Eligible(q) : Promise!SameModel(x, q.current)}
    BY <1>2, <2>1, <2>2 DEF Blamed, Eligible
  <2>. QED  BY <1>1, <1>3, <2>3 DEF Promise!RuledOut
<1>4. CASE category # "model_not_found"
  <2>1. o.skippedModels = q.skippedModels
    BY <1>4 DEF Blamed
  <2>2. CASE category \in AuthErrors /\ AllKeysRefused(q.current.provider, health)
    <3>1. o.skippedProviders = q.skippedProviders \cup {q.current.provider}
      BY <2>2 DEF Blamed
    <3>2. Eligible(o) =
            Eligible(q) \ {x \in Eligible(q) : x.provider = q.current.provider}
      BY <2>1, <3>1 DEF Blamed, Eligible
    <3>. QED  BY <1>1, <2>2, <3>2 DEF Promise!RuledOut
  <2>3. CASE ~(category \in AuthErrors /\ AllKeysRefused(q.current.provider, health))
    <3>1. o.skippedProviders = q.skippedProviders
      BY <2>3 DEF Blamed
    <3>2. Eligible(o) = Eligible(q)
      BY <2>1, <3>1 DEF Blamed, Eligible
    <3>3. {} \in Promise!RuledOut(TaskOf(q))
      BY DEF Promise!RuledOut
    <3>. QED  BY <3>2, <3>3
  <2>. QED  BY <2>2, <2>3
<1>. QED  BY <1>3, <1>4

(* The mapped tasks.                                                       *)
Tasks == [r \in Requests |-> TaskOf(req[r])]
OffersOf == [r \in Requests |-> Offered(r)]

LEMMA RejectedBegins ==
  ASSUME NEW r \in Requests, \A s \in Requests \ {r} : req'[s] = req[s],
         NothingOffered, History(req[r], keyHealth), History(req'[r], keyHealth'),
         Rejected(req[r], req'[r])
  PROVE  Promise!Begin(r)
<1>. DEFINE q == req[r]
            n == req'[r]
            t == [TaskOf(q) EXCEPT !.open = {}]
<1>1. /\ q.pc = "idle" /\ n.pc = "done" /\ n.status # 200
      /\ Eligible(n) = {} /\ n.current = q.current /\ n.attempts = q.attempts
      /\ n.trace = <<>>
  BY DEF Rejected, SameCalls, NothingOffered, Eligible, History, Fresh
<1>2. Stage(q) = "new" /\ Stage(n) = "exhausted"
  <2>1. ~Refused(n)
    BY <1>1 DEF Refused
  <2>. QED  BY <1>1, <2>1, Stages
<1>3. TaskOf(n) = [t EXCEPT !.stage = "exhausted"] /\ t.open = {}
  <2>1. t = [stage |-> Stage(q), open |-> {}, at |-> q.current, calls |-> q.attempts]
    BY DEF TaskOf
  <2>2. TaskOf(n) =
          [stage |-> "exhausted", open |-> {}, at |-> q.current, calls |-> q.attempts]
    BY <1>1, <1>2 DEF TaskOf
  <2>. HIDE DEF t
  <2>. QED  BY <2>1, <2>2
<1>4. Promise!Enter(r, [t EXCEPT !.stage = "exhausted"])
  <2>. DEFINE u == [t EXCEPT !.stage = "exhausted"]
  <2>1. TaskOf(req'[r]) = u
    BY <1>3
  <2>. HIDE DEF u
  <2>2. Promise!Enter(r, u)
    BY <2>1, Enters
  <2>. QED  BY <2>2 DEF u
<1>5. Promise!Onward(r, t)
  BY <1>3, <1>4 DEF Promise!Onward
<1>6. Tasks[r] = TaskOf(q) /\ TaskOf(q).stage = "new"
  BY <1>2 DEF Tasks, TaskOf
<1>7. {} \in SUBSET OffersOf[r]
  OBVIOUS
<1>. QED  BY <1>5, <1>6, <1>7 DEF Promise!Begin, Tasks, OffersOf

LEMMA OpenedBegins ==
  ASSUME NEW r \in Requests, \A s \in Requests \ {r} : req'[s] = req[s],
         History(req[r], keyHealth), History(req'[r], keyHealth'),
         Opened(req[r], req'[r], Resolve(Route[r]))
  PROVE  Promise!Begin(r)
<1>. DEFINE q == req[r]
            found == Resolve(Route[r])
            t == [TaskOf(q) EXCEPT !.open = found]
<1>1. PICK o \in RequestState :
        /\ o.candidates = found /\ o.pc = q.pc /\ o.current = q.current
        /\ o.attempts = q.attempts /\ o.attempted = q.attempted
        /\ o.skippedModels = q.skippedModels
        /\ o.skippedProviders = q.skippedProviders
        /\ o.trace = q.trace /\ o.status = q.status
        /\ Proceeds(o, req'[r])
  BY DEF Opened
<1>2. /\ q.pc = "idle" /\ o.attempts = 0 /\ o.attempted = {} /\ o.trace = <<>>
      /\ o.skippedModels = {} /\ o.skippedProviders = {}
  BY <1>1 DEF Opened, History, Fresh
<1>3. Eligible(o) = found
  BY <1>1, <1>2 DEF Eligible
<1>4. Stage(q) = "new"
  BY <1>2, Stages
<1>5. t = [stage |-> "new", open |-> Eligible(o), at |-> o.current, calls |-> o.attempts]
  BY <1>1, <1>3, <1>4 DEF TaskOf
<1>6. Undecided(o) /\ Conclusion(req'[r])
  BY <1>2 DEF Undecided, History
<1>7. Promise!Onward(r, t)
  <2>. HIDE DEF t
  <2>. QED  BY <1>1, <1>2, <1>5, <1>6, GoesOnward
<1>8. found \in SUBSET OffersOf[r]
  BY DEF Resolve, OffersOf, Offered
<1>9. Tasks[r] = TaskOf(q) /\ TaskOf(q).stage = "new"
  BY <1>4 DEF Tasks, TaskOf
<1>. QED  BY <1>7, <1>8, <1>9 DEF Promise!Begin, Tasks, OffersOf

(* The stage of a task replaced.                                           *)
LEMMA EntersStage ==
  ASSUME NEW r \in Requests, \A s \in Requests \ {r} : req'[s] = req[s],
         Eligible(req'[r]) = Eligible(req[r]), req'[r].current = req[r].current,
         req'[r].attempts = req[r].attempts,
         NEW stage, Stage(req'[r]) = stage
  PROVE  Promise!Enter(r, [Tasks[r] EXCEPT !.stage = stage])
<1>. DEFINE u == [Tasks[r] EXCEPT !.stage = stage]
<1>1. TaskOf(req'[r]) = u
  BY DEF TaskOf, Tasks
<1>. HIDE DEF u
<1>2. Promise!Enter(r, u)
  BY <1>1, Enters
<1>. QED  BY <1>2 DEF u

LEMMA DecidedConcludes ==
  ASSUME NEW r \in Requests, \A s \in Requests \ {r} : req'[s] = req[s],
         Succeeded(req[r], req'[r]) \/ Garbled(req[r], req'[r])
  PROVE  Promise!Conclude(r)
<1>1. /\ req[r].pc = "calling"
      /\ Eligible(req'[r]) = Eligible(req[r]) /\ req'[r].current = req[r].current
      /\ req'[r].attempts = req[r].attempts
  BY DEF Succeeded, Garbled, SameCalls, Eligible
<1>2. Tasks[r].stage = "asking"
  BY <1>1, Stages DEF Tasks, TaskOf
<1>3. Stage(req'[r]) \in {"served", "refused"}
  BY Stages DEF Succeeded, Garbled
<1>4. PICK stage \in {"served", "refused"} : Stage(req'[r]) = stage
  BY <1>3
<1>5. Promise!Enter(r, [Tasks[r] EXCEPT !.stage = stage])
  BY <1>1, <1>4, EntersStage
<1>. QED  BY <1>2, <1>5 DEF Promise!Conclude, Tasks

LEMMA StreamEndHidden ==
  ASSUME NEW r \in Requests, \A s \in Requests \ {r} : req'[s] = req[s],
         History(req[r], keyHealth), StreamEnded(req[r], req'[r])
  PROVE  UNCHANGED Tasks
<1>1. /\ req[r].pc = "streaming" /\ req'[r].pc = "done"
      /\ req[r].status = 200 /\ req'[r].status = 200
  BY DEF StreamEnded, History, Conclusion
<1>2. Stage(req[r]) = "served" /\ Stage(req'[r]) = "served"
  BY <1>1, Stages
<1>3. TaskOf(req'[r]) = TaskOf(req[r])
  BY <1>2 DEF TaskOf, StreamEnded, SameCalls, Eligible
<1>. QED  BY <1>3 DEF Tasks

LEMMA BackoffResumes ==
  ASSUME NEW r \in Requests, \A s \in Requests \ {r} : req'[s] = req[s],
         req[r] \in RequestState,
         History(req[r], keyHealth), History(req'[r], keyHealth'),
         Resumed(req[r], req'[r])
  PROVE  Promise!Resume(r)
<1>. DEFINE q == req[r]
<1>1. /\ q.pc = "backoff" /\ Proceeds(q, req'[r]) /\ q.attempts \in Nat
      /\ q.trace # <<>> => Len(q.trace) \in DOMAIN q.trace
  BY DEF Resumed, RequestState
<1>2. Undecided(q) /\ Conclusion(req'[r])
  BY <1>1 DEF History, Conclusion, Undecided, Decisive
<1>3. Stage(q) = "waiting"
  BY <1>1, Stages
<1>4. Tasks[r] = [stage |-> "waiting", open |-> Eligible(q), at |-> q.current,
                  calls |-> q.attempts]
  BY <1>3 DEF Tasks, TaskOf
<1>. HIDE DEF q
<1>5. \A t : t = [stage |-> "waiting", open |-> Eligible(q), at |-> q.current,
                  calls |-> q.attempts] => Promise!Onward(r, t)
  BY <1>1, <1>2, GoesOnward
<1>6. Promise!Onward(r, Tasks[r])
  BY <1>4, <1>5
<1>. QED  BY <1>4, <1>6 DEF Promise!Resume, Tasks

LEMMA FailureMovesOn ==
  ASSUME NEW r \in Requests, \A s \in Requests \ {r} : req'[s] = req[s],
         req[r] \in RequestState, req[r].pc = "calling" => req[r].current \in Candidate,
         History(req[r], keyHealth), History(req'[r], keyHealth'),
         Failed(req[r], req'[r], keyHealth')
  PROVE  Promise!Conclude(r) \/ Promise!Pause(r) \/ Promise!Retry(r)
<1>. DEFINE q == req[r]
            n == req'[r]
<1>1. PICK category \in ErrorCategory, o \in RequestState :
        /\ Blamed(q, o, category, keyHealth')
        /\ \/ /\ \/ category \in TransientErrors /\ n.pc = "backoff"
                 \/ ~Retryable(category) /\ n.pc = "done"
              /\ n.status = o.status
              /\ SameCalls(o, n)
           \/ Retryable(category) /\ Proceeds(o, n)
  BY DEF Failed
<1>2. /\ q.pc = "calling" /\ category \in Outcome
      /\ o.current = q.current /\ o.attempts = q.attempts /\ o.status # 200
      /\ q.attempts \in Nat /\ q.current \in Candidate
  BY <1>1 DEF Failed, Outcome, Blamed, RequestState
<1>3. /\ o.trace # <<>> /\ o.trace[Len(o.trace)].outcome = category
      /\ \A i \in DOMAIN q.trace : o.trace[i] = q.trace[i]
      /\ \A i \in DOMAIN o.trace : i \in DOMAIN q.trace \/ i = Len(o.trace)
  BY <1>1, <1>2, RecordedShape DEF Blamed
<1>4. Len(o.trace) \in DOMAIN o.trace
  BY <1>3 DEF RequestState
<1>5. Tasks[r] = TaskOf(q) /\ Stage(q) = "asking" /\ Tasks[r].stage = "asking"
  BY <1>2, Stages DEF Tasks, TaskOf
<1>6. CASE /\ n.status = o.status /\ SameCalls(o, n)
           /\ category \in TransientErrors /\ n.pc = "backoff"
  <2>1. category \notin AuthErrors \cup {"model_not_found"}
    BY <1>6 DEF AuthErrors, TransientErrors
  <2>2. Eligible(n) = Eligible(q)
    BY <1>1, <1>6, <2>1, OpenAfterFailure, OpenAfterPause
  <2>3. Stage(n) = "waiting" /\ n.current = q.current /\ n.attempts = q.attempts
    BY <1>2, <1>6, Stages DEF SameCalls
  <2>4. Promise!Enter(r, [Tasks[r] EXCEPT !.stage = "waiting"])
    BY <2>2, <2>3, EntersStage
  <2>. QED  BY <1>5, <2>4 DEF Promise!Pause, Tasks
<1>7. CASE /\ n.status = o.status /\ SameCalls(o, n)
           /\ ~Retryable(category) /\ n.pc = "done"
  <2>1. category \in ClientErrors /\ category \notin AuthErrors \cup {"model_not_found"}
    BY <1>7 DEF Retryable, AuthErrors, ClientErrors
  <2>2. Eligible(n) = Eligible(q)
    BY <1>1, <1>7, <2>1, OpenAfterFailure, OpenAfterPause
  <2>3. n.status # 200 /\ n.trace = o.trace
    BY <1>2, <1>7 DEF SameCalls
  <2>4. Refused(n)
    BY <1>3, <1>4, <2>1, <2>3 DEF Refused
  <2>5. Stage(n) = "refused" /\ n.current = q.current /\ n.attempts = q.attempts
    BY <1>2, <1>7, <2>3, <2>4, Stages DEF SameCalls
  <2>6. Promise!Enter(r, [Tasks[r] EXCEPT !.stage = "refused"])
    BY <2>2, <2>5, EntersStage
  <2>. QED  BY <1>5, <2>6 DEF Promise!Conclude, Tasks
<1>8. CASE Retryable(category) /\ Proceeds(o, n)
  <2>1. PICK lost \in Promise!RuledOut(TaskOf(q)) : Eligible(o) = Eligible(q) \ lost
    BY <1>1, OpenAfterFailure
  <2>2. Undecided(o) /\ Conclusion(n)
    <3>1. Undecided(q)
      BY <1>2 DEF History, Conclusion, Undecided, Decisive
    <3>2. category \notin Decisive
      BY <1>8 DEF Decisive, Retryable, ErrorCategory, AuthErrors, ThrottleErrors,
                  ClientErrors, TransientErrors
    <3>. QED  BY <1>3, <3>1, <3>2 DEF Undecided, History
  <2>. DEFINE t == [Tasks[r] EXCEPT !.open = @ \ lost]
  <2>3. t = [stage |-> "asking", open |-> Eligible(o), at |-> o.current,
             calls |-> o.attempts]
    BY <1>2, <1>5, <2>1 DEF TaskOf
  <2>4. Promise!Onward(r, t)
    <3>. HIDE DEF t
    <3>. QED  BY <1>2, <1>4, <1>8, <2>2, <2>3, GoesOnward
  <2>5. \E l \in Promise!RuledOut(Tasks[r]) :
          Promise!Onward(r, [Tasks[r] EXCEPT !.open = @ \ l])
    BY <1>5, <2>4
  <2>. QED  BY <1>5, <2>5 DEF Promise!Retry, Tasks
<1>. QED  BY <1>1, <1>6, <1>7, <1>8

LEMMA OneTaskMoves ==
  ASSUME TypeInv, HistoryOK, HistoryOK', NothingOffered, NEW r \in Requests,
         RequestMoves(r), \A s \in Requests \ {r} : req'[s] = req[s]
  PROVE  Promise!Next \/ UNCHANGED Tasks
<1>1. /\ req[r] \in RequestState
      /\ req[r].pc = "calling" => req[r].current \in Candidate
      /\ History(req[r], keyHealth) /\ History(req'[r], keyHealth')
  BY DEF TypeInv, TypeOK, CurrentOK, HistoryOK
<1>2. CASE req'[r] = req[r]
  BY <1>2 DEF Tasks
<1>3. CASE Rejected(req[r], req'[r]) \/ Opened(req[r], req'[r], Resolve(Route[r]))
  BY <1>1, <1>3, RejectedBegins, OpenedBegins DEF Promise!Next
<1>4. CASE Succeeded(req[r], req'[r]) \/ Garbled(req[r], req'[r])
  BY <1>4, DecidedConcludes DEF Promise!Next
<1>5. CASE StreamEnded(req[r], req'[r])
  BY <1>1, <1>5, StreamEndHidden
<1>6. CASE Resumed(req[r], req'[r])
  BY <1>1, <1>6, BackoffResumes DEF Promise!Next
<1>7. CASE Failed(req[r], req'[r], keyHealth')
  BY <1>1, <1>7, FailureMovesOn DEF Promise!Next
<1>. QED  BY <1>2, <1>3, <1>4, <1>5, <1>6, <1>7 DEF RequestMoves

LEMMA NothingOfferedNext ==
  ASSUME TypeInv, NothingOffered, [Next]_vars
  PROVE  NothingOffered'
<1>1. ASSUME NEW r \in Requests, req'[r].pc = "idle"
      PROVE  req'[r].candidates = {}
  <2>1. RequestMoves(r)
    BY StepMoves
  <2>2. req'[r] = req[r]
    BY <1>1, <2>1
    DEF RequestMoves, Rejected, Opened, Succeeded, Garbled, StreamEnded, Resumed,
        Failed, Proceeds, GivenUp, Launched
  <2>. QED  BY <1>1, <2>2 DEF NothingOffered
<1>. QED  BY <1>1 DEF NothingOffered

LEMMA TasksStep ==
  ASSUME TypeInv, HistoryOK, HistoryOK', NothingOffered, [Next]_vars
  PROVE  Promise!Next \/ UNCHANGED Tasks
<1>1. CASE req' = req
  BY <1>1 DEF Tasks
<1>2. CASE \E s \in Requests :
             RequestMoves(s) /\ \A r \in Requests \ {s} : req'[r] = req[r]
  BY <1>2, OneTaskMoves
<1>. QED  BY <1>1, <1>2, OneMoves

LEMMA TasksInit == Init => NothingOffered /\ Promise!Init
<1>. SUFFICES ASSUME Init PROVE NothingOffered /\ Promise!Init
  OBVIOUS
<1>1. ASSUME NEW r \in Requests
      PROVE  TaskOf(req[r]) =
               [stage |-> "new", open |-> {}, at |-> None, calls |-> 0]
  <2>1. /\ req[r].pc = "idle" /\ req[r].candidates = {}
        /\ req[r].current = None /\ req[r].attempts = 0
    BY DEF Init
  <2>2. Eligible(req[r]) = {} /\ Stage(req[r]) = "new"
    BY <2>1, Stages DEF Eligible
  <2>. QED  BY <2>1, <2>2 DEF TaskOf
<1>. QED  BY <1>1 DEF Promise!Init, NothingOffered, Init

(* However many requests there are and whatever the upstreams answer, each *)
(* request is handled as Failover says: its candidates in the order of     *)
(* their priority, none passed over, none twice, none after the end.       *)
THEOREM FailoverIsImplemented == Spec => ImplementsFailover
<1>1. Spec => []NothingOffered
  BY TypeInvariant, TasksInit, NothingOfferedNext, PTL DEF Spec
<1>2. Init => Promise!Init
  BY TasksInit
<1>3. TypeInv /\ HistoryOK /\ HistoryOK' /\ NothingOffered /\ [Next]_vars
        => [Promise!Next]_[r \in Requests |-> TaskOf(req[r])]
  BY TasksStep DEF Tasks
<1>. QED  BY <1>1, <1>2, <1>3, TypeInvariant, HistoryInvariant, PTL
          DEF Spec, ImplementsFailover, Promise!Spec
=============================================================================
