----------------------------- MODULE Scheduler -----------------------------
(***************************************************************************)
(* The failover loop of the gateway (Scheduler._run_operation in           *)
(* src/app/core/retry.py), run by many requests at once on one event loop. *)
(*                                                                         *)
(* Requests interleave only where the code awaits: at the upstream call    *)
(* and at the backoff sleep.  An action is therefore everything one        *)
(* request does between two awaits - handling an answer, choosing the next *)
(* candidate and charging its limits are one step.                         *)
(*                                                                         *)
(* A candidate list is resolved once, when the request starts; health and  *)
(* limits move under it while the request works through the list.          *)
(***************************************************************************)
EXTENDS Router

CONSTANTS
  StreamRequests,   \* the requests that ask for a stream
  MaxAttempts,      \* routing.max_total_attempts
  Failures,         \* the failures an upstream may answer with
  Resets,           \* what rate-limit headers of a success may say
  None

NoValue == -1       \* no Retry-After header; no budget reported exhausted

(* No response, no headers; and the adapter takes any response below 400   *)
(* for a success.                                                          *)
UpstreamFailure ==
  {f \in [status : Nat, body : SUBSET BodyPattern, exception : ExceptionKind,
          retryAfter : Nat \cup {NoValue}, reset : Nat \cup {NoValue}] :
     IF f.status = 0 THEN f.retryAfter = NoValue /\ f.reset = NoValue
                     ELSE f.status >= 400}

ASSUME SchedulerConstants ==
  /\ StreamRequests \subseteq Requests
  /\ MaxAttempts \in Nat \ {0}
  /\ Failures \subseteq UpstreamFailure
  /\ Resets \subseteq Nat \cup {NoValue}
  /\ None \notin Candidate

VARIABLES
  req,              \* the local state of each request's task
  usage,            \* per-provider attempt counters
  fallbacks         \* attempts after the first, over all requests

vars == <<healthVars, loadVars, req, usage, fallbacks>>

Outcome == ErrorCategory \cup {"success"}
TraceEntry == [target : Providers \X Models \X KeyNames, outcome : Outcome]
Phase == {"idle", "calling", "backoff", "streaming", "done", "crashed"}

RequestState ==
  [pc : Phase, candidates : SUBSET Candidate, current : Candidate \cup {None},
   attempts : Nat, attempted : SUBSET (Providers \X Models \X KeyNames),
   skippedModels : SUBSET Pair, skippedProviders : SUBSET Providers,
   trace : Seq(TraceEntry), status : Nat]

UsageState == [ok : Nat, failed : Nat, rateLimited : Nat, timeouts : Nat]

Init ==
  /\ providerHealth = [p \in Providers |-> Untouched]
  /\ keyHealth = [k \in Key |-> Untouched]
  /\ modelHealth = [m \in Pair |-> Untouched]
  /\ providerLoad = [p \in Providers |-> [inFlight |-> 0, sent |-> 0]]
  /\ keyLoad = [k \in Key |-> [inFlight |-> 0, sent |-> 0]]
  /\ req = [r \in Requests |->
       [pc |-> "idle", candidates |-> {}, current |-> None, attempts |-> 0,
        attempted |-> {}, skippedModels |-> {}, skippedProviders |-> {},
        trace |-> <<>>, status |-> 0]]
  /\ usage = [p \in Providers |->
       [ok |-> 0, failed |-> 0, rateLimited |-> 0, timeouts |-> 0]]
  /\ fallbacks = 0

-----------------------------------------------------------------------------
(* The head of the candidate loop, for the local state q a request has     *)
(* reached and the loads as its last answer left them.                     *)

EligibleMutant(q) ==
  {c \in q.candidates : /\ c.provider \notin q.skippedProviders
                        /\ PairOf(c) \notin q.skippedModels}
Eligible(q) ==
  {c \in q.candidates : /\ TargetOf(c) \notin q.attempted
                        /\ c.provider \notin q.skippedProviders
                        /\ PairOf(c) \notin q.skippedModels}

(* Mutant: keys rotate over all that is left, whatever its place.          *)
NextCandidatesMutant(q) == Eligible(q)
NextCandidates(q) ==
  {c \in Eligible(q) : \A d \in Eligible(q) : c.place <= d.place}

BudgetLeftMutant(q) == q.attempts <= MaxAttempts
BudgetLeft(q) == q.attempts < MaxAttempts

Launch(r, q, c, pLoad, kLoad) ==
  /\ req' = [req EXCEPT ![r] =
       [q EXCEPT !.pc = "calling", !.current = c, !.attempts = @ + 1,
                 !.attempted = @ \cup {TargetOf(c)}]]
  /\ providerLoad' = RequestStart(pLoad, c.provider)
  /\ keyLoad' = RequestStart(kLoad, KeyOf(c))
  /\ fallbacks' = IF q.attempts > 0 THEN fallbacks + 1 ELSE fallbacks

FinalStatus(q) ==
  IF q.trace[Len(q.trace)].outcome = "model_not_found" THEN 503 ELSE q.status

GiveUp(r, q, pLoad, kLoad) ==
  /\ req' = [req EXCEPT ![r] = [q EXCEPT !.pc = "done", !.status = FinalStatus(q)]]
  /\ providerLoad' = pLoad
  /\ keyLoad' = kLoad
  /\ UNCHANGED fallbacks

TryNext(r, q, pLoad, kLoad) ==
  \/ /\ BudgetLeft(q)
     /\ \E c \in NextCandidates(q) : Launch(r, q, c, pLoad, kLoad)
  \/ /\ Eligible(q) = {} \/ ~BudgetLeft(q)
     /\ GiveUp(r, q, pLoad, kLoad)

-----------------------------------------------------------------------------
(* A request arrives: 404 or 400 when nothing is configured for its name,  *)
(* 503 when all of it is cooling down or out of budget.                    *)
Reject(r, status) ==
  /\ req' = [req EXCEPT ![r] = [@ EXCEPT !.pc = "done", !.status = status]]
  /\ UNCHANGED <<loadVars, fallbacks>>

Start(r) ==
  LET found == Resolve(Route[r])
  IN  /\ req[r].pc = "idle"
      /\ \/ Route[r] = <<>> /\ \E status \in {400, 404} : Reject(r, status)
         \/ Route[r] # <<>> /\ found = {} /\ Reject(r, 503)
         \/ /\ found # {}
            /\ TryNext(r, [req[r] EXCEPT !.candidates = found],
                       providerLoad, keyLoad)
      /\ UNCHANGED <<healthVars, usage>>

Recorded(q, outcome) ==
  Append(q.trace, [target |-> TargetOf(q.current), outcome |-> outcome])

UsageSuccess(u) == [u EXCEPT !.ok = @ + 1]

(* An upstream success.  A stream stays in flight and carries no headers;  *)
(* reset is the time to the end of an exhausted upstream window.           *)
Succeed(r, reset) ==
  LET q == req[r]
      c == q.current
      stream == r \in StreamRequests
      cleared == RecordSuccess(keyHealth[KeyOf(c)])
  IN  /\ q.pc = "calling"
      /\ stream => reset = NoValue
      /\ req' = [req EXCEPT ![r] =
           [q EXCEPT !.pc = IF stream THEN "streaming" ELSE "done",
                     !.trace = Recorded(q, "success"), !.status = 200]]
      /\ providerLoad' = IF stream THEN providerLoad
                                   ELSE RequestEnd(providerLoad, c.provider)
      /\ keyLoad' = IF stream THEN keyLoad ELSE RequestEnd(keyLoad, KeyOf(c))
      /\ providerHealth' = [providerHealth EXCEPT ![c.provider] = RecordSuccess(@)]
      /\ keyHealth' = [keyHealth EXCEPT ![KeyOf(c)] =
           IF reset = NoValue THEN cleared ELSE RecordCooldown(cleared, reset)]
      /\ modelHealth' = [modelHealth EXCEPT ![PairOf(c)] = RecordSuccess(@)]
      /\ usage' = [usage EXCEPT ![c.provider] = UsageSuccess(@)]
      /\ UNCHANGED fallbacks

(* The body of the stream ends, completely or not: the finally block of    *)
(* _end_when_done releases the two limits.                                 *)
StreamEndMutant(r) ==
  LET c == req[r].current
  IN  /\ req[r].pc = "streaming"
      /\ req' = [req EXCEPT ![r].pc = "done"]
      /\ providerLoad' = RequestEnd(providerLoad, c.provider)
      /\ UNCHANGED <<keyLoad, healthVars, usage, fallbacks>>
StreamEnd(r) ==
  LET c == req[r].current
  IN  /\ req[r].pc = "streaming"
      /\ req' = [req EXCEPT ![r].pc = "done"]
      /\ providerLoad' = RequestEnd(providerLoad, c.provider)
      /\ keyLoad' = RequestEnd(keyLoad, KeyOf(c))
      /\ UNCHANGED <<healthVars, usage, fallbacks>>

(* A 200 whose body is not JSON: resp.json() raises inside the adapter, so *)
(* the request dies with a 500 before record_request_end.                  *)
Garble(r) ==
  /\ req[r].pc = "calling"
  /\ r \notin StreamRequests
  /\ req' = [req EXCEPT ![r] = [@ EXCEPT !.pc = "crashed", !.status = 500]]
  /\ UNCHANGED <<healthVars, loadVars, usage, fallbacks>>

-----------------------------------------------------------------------------
(* apply_failure, one operator per record it writes.                       *)

CooldownSeconds(p, category, retryAfter) ==
  CASE retryAfter # NoValue   -> retryAfter
    [] LongCooldown(category) -> HealthCfg[p].longCooldown
    [] OTHER                  -> HealthCfg[p].cooldown

KeyAfter(c, category, seconds) ==
  LET h == keyHealth[KeyOf(c)]
  IN  CASE MarkUnhealthy(category) = "key" ->
             RecordFailure(h, category, seconds, HealthCfg[c.provider].threshold)
        [] MarkUnhealthy(category) = "none" /\ Cooldown(category) ->
             RecordCooldown(h, seconds)
        [] OTHER -> h

(* _record_rate_limit follows apply_failure and may extend the cooldown.   *)
KeyAfterHeaders(c, category, seconds, reset) ==
  LET h == KeyAfter(c, category, seconds)
  IN  IF reset = NoValue THEN h ELSE RecordCooldown(h, reset)

ModelAfter(c, category, retryAfter) ==
  LET h == modelHealth[PairOf(c)]
      cfg == HealthCfg[c.provider]
      seconds == IF retryAfter > 0 THEN retryAfter
                 ELSE ModelCooldown(cfg.modelCooldown, cfg.modelMaxCooldown, h.failures)
  IN  IF DecisionScope(category) = "model" \/ category \in TransientErrors
      THEN RecordFailure(h, category, seconds, 1) ELSE h

AllKeysRefused(p, health) ==
  \A k \in KeysOf[p] : health[<<p, k>>].reason \in AuthErrors

ProviderAfterMutant(c, category, seconds, health) ==
  LET h == providerHealth[c.provider]
  IN  CASE MarkUnhealthy(category) = "provider" ->
             RecordFailure(h, category, seconds, HealthCfg[c.provider].threshold)
        [] category \in AuthErrors -> RecordCooldown(h, seconds)
        [] OTHER -> h
ProviderAfter(c, category, seconds, health) ==
  LET h == providerHealth[c.provider]
  IN  CASE MarkUnhealthy(category) = "provider" ->
             RecordFailure(h, category, seconds, HealthCfg[c.provider].threshold)
        [] category \in AuthErrors /\ AllKeysRefused(c.provider, health) ->
             RecordCooldown(h, seconds)
        [] OTHER -> h

(* The scope apply_failure returns: a refused key widens to its provider   *)
(* once every enabled key of the provider has been refused.                *)
FailureScopeMutant(c, category, health) ==
  IF category \in AuthErrors THEN "provider" ELSE DecisionScope(category)
FailureScope(c, category, health) ==
  IF category \in AuthErrors /\ AllKeysRefused(c.provider, health)
  THEN "provider" ELSE DecisionScope(category)

UsageAfterMutant(u, category) ==
  IF category \in ThrottleErrors THEN [u EXCEPT !.rateLimited = @ + 1]
  ELSE [u EXCEPT !.failed = @ + 1,
                 !.timeouts = @ + (IF category = "timeout" THEN 1 ELSE 0)]
UsageAfter(u, category) ==
  [ok |-> u.ok,
   failed |-> u.failed + 1,
   rateLimited |-> u.rateLimited + (IF category \in ThrottleErrors THEN 1 ELSE 0),
   timeouts |-> u.timeouts + (IF category = "timeout" THEN 1 ELSE 0)]

(* The local state after the failure, before the loop goes on.             *)
AfterFailure(q, failure, category, scope) ==
  [q EXCEPT
     !.trace = Recorded(q, category),
     !.status = IF failure.status = 0 THEN 502 ELSE failure.status,
     !.skippedModels = @ \cup {m \in {PairOf(q.current)} : scope = "model"},
     !.skippedProviders =
        @ \cup {p \in {q.current.provider} : scope = "provider"}]

(* An upstream failure: an error for the client when no candidate could do *)
(* better, a backoff sleep when the upstream may recover, and otherwise    *)
(* the next candidate in the same breath.                                  *)
Fail(r, failure) ==
  LET q == req[r]
      c == q.current
      category == Category(failure)
      seconds == CooldownSeconds(c.provider, category, failure.retryAfter)
      marked == [keyHealth EXCEPT ![KeyOf(c)] = KeyAfter(c, category, seconds)]
      next == AfterFailure(q, failure, category,
                           FailureScope(c, category, marked))
      pLoad == RequestEnd(providerLoad, c.provider)
      kLoad == RequestEnd(keyLoad, KeyOf(c))
      Pause(pc) == /\ req' = [req EXCEPT ![r] = [next EXCEPT !.pc = pc]]
                   /\ providerLoad' = pLoad
                   /\ keyLoad' = kLoad
                   /\ UNCHANGED fallbacks
  IN  /\ q.pc = "calling"
      /\ keyHealth' = [keyHealth EXCEPT ![KeyOf(c)] =
           KeyAfterHeaders(c, category, seconds, failure.reset)]
      /\ providerHealth' = [providerHealth EXCEPT ![c.provider] =
           ProviderAfter(c, category, seconds, marked)]
      /\ modelHealth' = [modelHealth EXCEPT ![PairOf(c)] =
           ModelAfter(c, category, failure.retryAfter)]
      /\ usage' = [usage EXCEPT ![c.provider] = UsageAfter(@, category)]
      /\ \/ ~Retryable(category) /\ Pause("done")
         \/ category \in TransientErrors /\ Pause("backoff")
         \/ /\ Retryable(category)
            /\ category \notin TransientErrors
            /\ TryNext(r, next, pLoad, kLoad)

(* The sleep is over.  Nothing is checked again before the next attempt.   *)
BackoffElapsedMutant(r) ==
  /\ req[r].pc = "backoff"
  /\ BudgetLeft(req[r])
  /\ TryNext(r, req[r], providerLoad, keyLoad)
  /\ UNCHANGED <<healthVars, usage>>
BackoffElapsed(r) ==
  /\ req[r].pc = "backoff"
  /\ TryNext(r, req[r], providerLoad, keyLoad)
  /\ UNCHANGED <<healthVars, usage>>

(* A second passes.                                                        *)
Cooling ==
  \/ \E p \in Providers : InCooldown(providerHealth[p])
  \/ \E k \in Key : InCooldown(keyHealth[k])
  \/ \E m \in Pair : InCooldown(modelHealth[m])

Tick ==
  /\ Cooling
  /\ providerHealth' = [p \in Providers |-> Elapse(providerHealth[p])]
  /\ keyHealth' = [k \in Key |-> Elapse(keyHealth[k])]
  /\ modelHealth' = [m \in Pair |-> Elapse(modelHealth[m])]
  /\ UNCHANGED <<loadVars, req, usage, fallbacks>>

-----------------------------------------------------------------------------
Answer(r) ==
  \/ \E reset \in Resets : Succeed(r, reset)
  \/ \E failure \in Failures : Fail(r, failure)
  \/ Garble(r)

Next ==
  \/ \E r \in Requests : Start(r) \/ Answer(r) \/ BackoffElapsed(r) \/ StreamEnd(r)
  \/ Tick

Spec == Init /\ [][Next]_vars

(* Every upstream call returns, because the HTTP client has a connect and  *)
(* a read timeout, and every sleep ends.  A stream may stay open for ever, *)
(* and nothing makes a client send its request.                            *)
Fairness == \A r \in Requests : WF_vars(Answer(r)) /\ WF_vars(BackoffElapsed(r))

FairSpec == Spec /\ Fairness

-----------------------------------------------------------------------------
(* Properties.                                                             *)

TypeOK ==
  /\ providerHealth \in [Providers -> HealthState]
  /\ keyHealth \in [Key -> HealthState]
  /\ modelHealth \in [Pair -> HealthState]
  /\ providerLoad \in [Providers -> LoadState]
  /\ keyLoad \in [Key -> LoadState]
  /\ req \in [Requests -> RequestState]
  /\ usage \in [Providers -> UsageState]
  /\ fallbacks \in Nat

Holds(r) == req[r].pc \in {"calling", "streaming", "crashed"}

HoldersOfProvider(p) == {r \in Requests : Holds(r) /\ req[r].current.provider = p}
HoldersOfKey(k) == {r \in Requests : Holds(r) /\ KeyOf(req[r].current) = k}

(* The in-flight counters are the number of requests that hold them: every *)
(* attempt releases both its provider and its key exactly once, whatever   *)
(* the order of answers, and the max(0, ...) of record_request_end never   *)
(* hides a double release.  A request that died on a garbled body never    *)
(* releases, and is counted as a holder for ever.                          *)
InFlightAccounted ==
  /\ \A p \in Providers :
       providerLoad[p].inFlight = Cardinality(HoldersOfProvider(p))
  /\ \A k \in Key : keyLoad[k].inFlight = Cardinality(HoldersOfKey(k))

Unreported(p) == {r \in Requests : /\ req[r].pc \in {"calling", "crashed"}
                                  /\ req[r].current.provider = p}

(* The limits count attempts when they leave, the usage counters when they *)
(* come back: the two agree up to the attempts still out.                  *)
ChargesReconcile ==
  \A p \in Providers :
    providerLoad[p].sent =
      usage[p].ok + usage[p].failed + Cardinality(Unreported(p))

FirstOnKey(k) ==
  {r \in HoldersOfKey(k) : req[r].attempts = 1}
FirstOnProvider(p) ==
  {r \in HoldersOfProvider(p) : req[r].attempts = 1 /\ ~req[r].current.dynamic}

(* Checking a limit and charging it are one step for the first attempt of  *)
(* a request: however many requests arrive together, the first attempts in *)
(* flight stay within concurrent_requests.                                 *)
FirstAttemptsWithinLimit ==
  /\ \A k \in Key :
       KeyLimits[k].concurrent # NoLimit =>
         Cardinality(FirstOnKey(k)) <= KeyLimits[k].concurrent
  /\ \A p \in Providers :
       ProviderLimits[p].concurrent # NoLimit =>
         Cardinality(FirstOnProvider(p)) <= ProviderLimits[p].concurrent

(* No (provider, model, key) is called twice for one request, even when an *)
(* alias lists a target twice.                                             *)
NoTargetTwice ==
  \A r \in Requests :
    LET q == req[r] IN
    /\ \A i, j \in DOMAIN q.trace : q.trace[i].target = q.trace[j].target => i = j
    /\ q.pc = "calling" =>
         \A i \in DOMAIN q.trace : q.trace[i].target # TargetOf(q.current)

(* Targets of a request in the order it called them.                       *)
Called(q) ==
  [i \in DOMAIN q.trace |-> q.trace[i].target]
    \o (IF q.pc = "calling" THEN <<TargetOf(q.current)>> ELSE <<>>)

(* A request makes at most max_total_attempts calls.                       *)
AttemptBudget == \A r \in Requests : Len(Called(req[r])) <= MaxAttempts

(* A model its provider does not have is not asked of that provider again  *)
(* with another key.                                                       *)
MissingModelNotAskedAgain ==
  \A r \in Requests :
    LET q == req[r] IN
    \A i \in DOMAIN q.trace : \A j \in (i+1)..Len(Called(q)) :
      q.trace[i].outcome = "model_not_found" =>
        \/ Called(q)[j][1] # q.trace[i].target[1]
        \/ Called(q)[j][2] # q.trace[i].target[2]

(* A success or a client error ends the request, and a request is reported *)
(* with 200 exactly when its last attempt succeeded.                       *)
DecisiveOutcomeEnds ==
  \A r \in Requests :
    LET q == req[r] IN
    /\ \A i \in DOMAIN q.trace :
         q.trace[i].outcome \in ClientErrors \cup {"success"} =>
           i = Len(q.trace) /\ q.pc \in {"streaming", "done"}
    /\ q.status = 200 <=>
         q.trace # <<>> /\ q.trace[Len(q.trace)].outcome = "success"

(* Why a candidate of a request that gave up was left untried.             *)
RuledOut(q, c) ==
  \E i \in DOMAIN q.trace :
    LET t == q.trace[i] IN
    \/ t.target = TargetOf(c)
    \/ /\ t.outcome = "model_not_found"
       /\ t.target[1] = c.provider /\ t.target[2] = c.model
    \/ /\ t.outcome \in AuthErrors
       /\ t.target[1] = c.provider
       /\ AllKeysRefused(c.provider, keyHealth)

(* A request gives up on a retryable error only with its budget spent or   *)
(* every candidate tried or ruled out by an answer it received itself.     *)
NoPrematureGiveUp ==
  \A r \in Requests :
    LET q == req[r] IN
    /\ q.pc = "done"
    /\ q.trace # <<>>
    /\ q.trace[Len(q.trace)].outcome \notin ClientErrors \cup {"success"}
    => \/ q.attempts = MaxAttempts
       \/ \A c \in q.candidates : RuledOut(q, c)

(* A provider is only paused for consecutive failures of its own that      *)
(* reached the threshold, or when every one of its keys has been refused:  *)
(* a bad key, a throttled key or a missing model never takes it away.      *)
ProviderCooldownEarned ==
  \A p \in Providers :
    InCooldown(providerHealth[p]) =>
      \/ providerHealth[p].failures >= HealthCfg[p].threshold
      \/ AllKeysRefused(p, keyHealth)

(* Every request that called an upstream is answered, unless its answer is *)
(* a stream that stays open.                                               *)
EveryRequestAnswered ==
  \A r \in Requests :
    req[r].pc \in {"calling", "backoff"} ~>
      req[r].pc \in {"streaming", "done", "crashed"}

(* A request as its client could follow it.                                *)
Ended(q) == q.pc \in {"streaming", "done", "crashed"}

Refused(q) ==
  q.pc = "crashed" \/ \E i \in DOMAIN q.trace : q.trace[i].outcome \in ClientErrors

Stage(q) ==
  CASE q.pc = "idle"                                  -> "new"
    [] q.pc = "calling"                               -> "asking"
    [] q.pc = "backoff"                               -> "waiting"
    [] Ended(q) /\ q.status = 200                     -> "served"
    [] Ended(q) /\ q.status # 200 /\ Refused(q)       -> "refused"
    [] Ended(q) /\ q.status # 200 /\ ~Refused(q)      -> "exhausted"

TaskOf(q) ==
  [stage |-> Stage(q), open |-> Eligible(q), at |-> q.current, calls |-> q.attempts]

Offered(r) == {c \in Places(Route[r]) : KeyOf(c) \in Key}

Promise ==
  INSTANCE Failover WITH
    Budget <- MaxAttempts, Nobody <- None,
    Offers <- [r \in Requests |-> Offered(r)],
    task <- [r \in Requests |-> TaskOf(req[r])]

(* With every skipped model and provider, backoff and budget, and however  *)
(* many requests run at once, a request goes through its candidates in the *)
(* order of their priority: none is passed over that no answer to this     *)
(* request ruled out, none comes back, and none is called after the end.   *)
ImplementsFailover == Promise!Spec
=============================================================================
