---------------------------- MODULE KeySelection ----------------------------
(***************************************************************************)
(* Which of a provider's keys a request tries first (_order_keys,          *)
(* _headroom and _RoundRobinCursor of src/app/core/router.py), under       *)
(* concurrent requests.                                                    *)
(*                                                                         *)
(* All requests ask for the same model name, which stands for a number of  *)
(* models of one provider, in the order of their priorities; keys are      *)
(* ordered anew for each of them that is not ruled out.  The limits count  *)
(* an attempt when it leaves and its tokens when it has come back, as      *)
(* usage does, and what the upstream says of its own budget is known with  *)
(* the answer.                                                             *)
(*                                                                         *)
(* A headroom is a fraction of a window.  Local windows do not slide, so   *)
(* that the tightest of a kind stands for all of that kind.  The           *)
(* upstream's window is not known: the largest budget ever announced for   *)
(* the key stands for it.                                                  *)
(***************************************************************************)
EXTENDS Integers, Sequences, SequencesExt, FiniteSetsExt, FiniteSets, TLC

CONSTANTS
  Requests,
  KeyList,      \* the enabled keys, in the order of the configuration
  Settings,     \* the configurations and upstreams looked at
  MaxModels,    \* models a name may stand for
  MaxAttempts,  \* max_total_attempts
  MaxWindow,    \* bound: the largest window, and budget, of a key
  Unit,         \* fractions of windows are counted in this part of one
  Estimate,     \* estimate_tokens of every request
  Costs         \* bound: the tokens an answer may cost

Keys == ToSet(KeyList)
N == Len(KeyList)

Policies == {"smart", "priority", "least_used", "round_robin"}

(* A window of no size stands for none.                                    *)
Setting ==
  [policy : Policies, models : 1..MaxModels, headers : BOOLEAN, disturbed : BOOLEAN,
   limit : [Keys -> 0..MaxWindow], budget : [Keys -> 0..MaxWindow], arrivals : Nat]

ASSUME KeySelectionConstants ==
  /\ IsFiniteSet(Requests)
  /\ KeyList \in Seq(ToSet(KeyList)) /\ IsInjective(KeyList) /\ Len(KeyList) > 0
  /\ Settings \subseteq Setting
  /\ {MaxModels, MaxAttempts, MaxWindow, Unit} \subseteq Nat \ {0}
  /\ \A whole \in 1..MaxWindow : Unit % whole = 0
  /\ Estimate \in Nat /\ Costs \subseteq Nat

VARIABLES
  policy,     \* the provider's key_selection
  models,     \* the models the requested name stands for
  headers,    \* does the upstream send rate-limit headers?
  disturbed,  \* may calls fail, and models and keys be ruled out?
  limit,      \* key -> its tightest request window, or 0
  budget,     \* key -> its tightest token window, or 0
  arrivals,   \* bound: requests that ask for the model
  cursor,     \* _RoundRobinCursor
  charged,    \* key -> attempts in its window
  tokens,     \* key -> tokens in its window
  used,       \* key -> requests of its usage counter
  remaining,  \* key -> what the upstream left of its budget, if known
  top,        \* key -> max_remaining_requests, 0 before the first answer
  blocked,    \* the keys in cooldown, or out of concurrent requests
  skipped,    \* the models that resolve() passes over
  headed,     \* key -> requests for whose first model it headed the order
  request     \* each request's task

setting == <<policy, models, headers, disturbed, limit, budget, arrivals>>
vars == <<setting, cursor, charged, tokens, used, remaining, top, blocked, skipped,
          headed, request>>

Unknown == -1
Candidate == (1..MaxModels) \X Keys
RequestState == [pc : {"idle", "calling", "backoff"},
                 candidates : Seq(Candidate), attempt : 0..MaxAttempts]
Idle == [pc |-> "idle", candidates |-> <<>>, attempt |-> 0]

Init ==
  /\ \E s \in Settings :
       /\ policy = s.policy /\ models = s.models /\ headers = s.headers
       /\ disturbed = s.disturbed /\ limit = s.limit /\ budget = s.budget
       /\ arrivals = s.arrivals
  /\ cursor = 0
  /\ charged = [k \in Keys |-> 0] /\ tokens = [k \in Keys |-> 0]
  /\ used = [k \in Keys |-> 0]
  /\ remaining = [k \in Keys |-> Unknown] /\ top = [k \in Keys |-> 0]
  /\ blocked = {} /\ skipped = {} /\ headed = [k \in Keys |-> 0]
  /\ request = [r \in Requests |-> Idle]

-----------------------------------------------------------------------------
(* Mutant: keys[start:] + keys[start:].                                    *)
RotatedMutant(c) == [i \in 1..N |-> KeyList[Min({c + i, N})]]

Rotated(c) == [i \in 1..N |-> KeyList[((c + i - 1) % N) + 1]]

Before(x, y) == x[1] < y[1] \/ (x[1] = y[1] /\ x[2] < y[2])

(* A finite set of tuples as a sequence: each tuple has as many in front   *)
(* of it as come before it.                                                *)
InOrder(S) ==
  [p \in 1..Cardinality(S) |->
     CHOOSE x \in S : Cardinality({y \in S : Before(y, x)}) = p - 1]

(* Python's sort: stable.                                                  *)
SortedBy(keys, cost) ==
  LET ranked == InOrder({<<cost[keys[i]], i>> : i \in 1..N})
  IN  [p \in 1..N |-> keys[ranked[p][2]]]

(* Part of a whole, in units that all windows divide: exact.               *)
Fraction(part, whole) == (part * Unit) \div whole

(* The windows a key has.                                                  *)
RequestWindow(k) ==
  IF limit[k] > 0 THEN {Fraction(limit[k] - charged[k], limit[k])} ELSE {}

TokenWindow(k) ==
  IF budget[k] > 0 THEN {Fraction(budget[k] - tokens[k], budget[k])} ELSE {}

(* The upstream's budget counts while its window lasts.                    *)
Upstream(k) ==
  IF remaining[k] # Unknown /\ top[k] > 0
  THEN {Fraction(remaining[k], top[k])} ELSE {}

(* Mutant: the request window is read from usage, after the answer.        *)
HeadroomMutant(k) ==
  LET here == IF limit[k] > 0 THEN {Fraction(limit[k] - used[k], limit[k])} ELSE {}
  IN  Max({0, Min({Unit} \union here \union TokenWindow(k) \union Upstream(k))})

(* No window leaves more than all of itself: 1.0, also when there is none. *)
Headroom(k) ==
  Max({0, Min({Unit} \union RequestWindow(k) \union TokenWindow(k) \union Upstream(k))})

Rotating == policy \in {"smart", "round_robin"} /\ N > 1

(* Mutant: least_used sorts the most used first.                           *)
OrderKeysMutant(c) ==
  CASE N = 1 \/ policy = "priority" -> KeyList
    [] N > 1 /\ policy = "smart" -> SortedBy(Rotated(c), [k \in Keys |-> -Headroom(k)])
    [] N > 1 /\ policy = "least_used" -> SortedBy(KeyList, [k \in Keys |-> -used[k]])
    [] N > 1 /\ policy = "round_robin" -> Rotated(c)

OrderKeys(c) ==
  CASE N = 1 \/ policy = "priority" -> KeyList
    [] N > 1 /\ policy = "smart" -> SortedBy(Rotated(c), [k \in Keys |-> -Headroom(k)])
    [] N > 1 /\ policy = "least_used" -> SortedBy(KeyList, used)
    [] N > 1 /\ policy = "round_robin" -> Rotated(c)

(* Mutant: the cursor lives for one resolve() only.                        *)
CursorAtMutant(n) == IF Rotating THEN n % N ELSE 0

(* next_index: one count for all requests, of which only the remainder     *)
(* matters; its value when keys have been ordered n more times.            *)
CursorAt(n) == IF Rotating THEN (cursor + n) % N ELSE cursor

(* The models that are neither stale nor in cooldown, of a provider that   *)
(* is neither in cooldown nor out of its total limits.                     *)
Open == (1..models) \ skipped

(* Keys are ordered for each of them in turn.                              *)
OrderFor(m) == OrderKeys(CursorAt(Cardinality({o \in Open : o < m})))

Room(k) ==
  /\ limit[k] > 0 => charged[k] < limit[k]
  /\ budget[k] > 0 => tokens[k] + Estimate <= budget[k]

Available(k) == Room(k) /\ k \notin blocked

(* resolve(): the models in their order, for each its keys.                *)
Offers == {<<m, i, OrderFor(m)[i]>> : m \in Open, i \in 1..N}

Resolution ==
  LET listed == InOrder({offer \in Offers : Available(offer[3])})
  IN  [i \in DOMAIN listed |-> <<listed[i][1], listed[i][3]>>]

-----------------------------------------------------------------------------
(* An attempt with a candidate charges its key.                            *)
Try(r, candidates, attempt) ==
  /\ charged' = [charged EXCEPT ![candidates[1][2]] = @ + 1]
  /\ request' = [request EXCEPT ![r] =
       [pc |-> "calling", candidates |-> candidates, attempt |-> attempt]]

(* resolve() up to the candidate list, whether or not anything is in it.   *)
Order ==
  /\ FoldFunction(+, 0, headed) < arrivals
  /\ cursor' = CursorAt(Cardinality(Open))
  /\ headed' = IF Open = {} THEN headed
               ELSE [headed EXCEPT ![OrderKeys(cursor)[1]] = @ + 1]

Arrive(r) ==
  /\ request[r].pc = "idle" /\ Order
  /\ Resolution # <<>> /\ Try(r, Resolution, 1)
  /\ UNCHANGED <<setting, tokens, used, remaining, top, blocked, skipped>>

Refuse(r) ==
  /\ request[r].pc = "idle" /\ Order
  /\ Resolution = <<>>
  /\ UNCHANGED <<setting, charged, tokens, used, remaining, top, blocked, skipped, request>>

(* An answer, good or bad, is counted by usage, and may tell of a budget   *)
(* in which this call is counted.  A budget that is used up pauses the     *)
(* key.                                                                    *)
ComeBack(r) ==
  LET k == request[r].candidates[1][2]
      least == IF disturbed THEN 0 ELSE 1
  IN  /\ request[r].pc = "calling"
      /\ used' = [used EXCEPT ![k] = @ + 1]
      /\ \E left \in {remaining[k]} \union
                     IF headers THEN {Unknown} \union least..(MaxWindow - 1) ELSE {} :
           /\ remaining' = [remaining EXCEPT ![k] = left]
           /\ top' = [top EXCEPT ![k] = Max({@, left})]

(* A success costs tokens, which count where the key has a window for      *)
(* them, and ends the cooldowns of key, model and provider.                *)
Answer(r) ==
  LET k == request[r].candidates[1][2]
  IN  /\ ComeBack(r)
      /\ \E cost \in IF budget[k] > 0 THEN Costs ELSE {0} :
           tokens' = [tokens EXCEPT ![k] = @ + cost]
      /\ blocked' \in {blocked, blocked \ {k}} \union
                      IF disturbed /\ headers THEN {blocked \union {k}} ELSE {}
      /\ skipped' \in SUBSET skipped
      /\ request' = [request EXCEPT ![r] = Idle]
      /\ UNCHANGED <<setting, cursor, charged, headed>>

From(candidates, i) == SubSeq(candidates, i, Len(candidates))

(* What is left without the first candidate, or without all of its model,  *)
(* which stand together.                                                   *)
LeftOver(candidates) ==
  {From(candidates, 2)}
    \union {From(candidates, i) : i \in
              {j \in 2..Len(candidates) : /\ candidates[j][1] # candidates[1][1]
                                         /\ candidates[j - 1][1] = candidates[1][1]}}

(* A failure may put the key, the model and the provider in cooldown.  It  *)
(* rules out this candidate, or its model, and the request goes on with    *)
(* the list made when it arrived.                                          *)
Fail(r) ==
  /\ disturbed /\ ComeBack(r)
  /\ blocked' \in {blocked, blocked \union {request[r].candidates[1][2]}}
  /\ skipped' \in {skipped, skipped \union {request[r].candidates[1][1]}, 1..models}
  /\ \/ request' = [request EXCEPT ![r] = Idle]
     \/ /\ request[r].attempt < MaxAttempts
        /\ \E left \in LeftOver(request[r].candidates) \ {<<>>} :
             request' = [request EXCEPT ![r] =
               [@ EXCEPT !.pc = "backoff", !.candidates = left]]
  /\ UNCHANGED <<setting, cursor, charged, tokens, headed>>

Failover(r) ==
  /\ request[r].pc = "backoff"
  /\ Try(r, request[r].candidates, request[r].attempt + 1)
  /\ UNCHANGED <<setting, cursor, tokens, used, remaining, top, blocked, skipped, headed>>

(* The upstream's window ends: what it said of it says nothing any more.   *)
Reset(k) ==
  /\ remaining[k] # Unknown
  /\ remaining' = [remaining EXCEPT ![k] = Unknown]
  /\ UNCHANGED <<setting, cursor, charged, tokens, used, top, blocked, skipped, headed,
                 request>>

(* What rules keys and models out or in again besides these requests: time *)
(* that passes, failures under other names, a list that makes a model      *)
(* stale, the calls a key has under way, the total limits.                 *)
Disturb ==
  /\ disturbed
  /\ \/ \E k \in Keys : blocked' \in {blocked \union {k}, blocked \ {k}} /\ UNCHANGED skipped
     \/ /\ \E m \in 1..models : skipped' \in {skipped \union {m}, skipped \ {m}, 1..models}
        /\ UNCHANGED blocked
  /\ UNCHANGED <<setting, cursor, charged, tokens, used, remaining, top, headed, request>>

Next ==
  \/ \E r \in Requests :
       Arrive(r) \/ Refuse(r) \/ Answer(r) \/ Fail(r) \/ Failover(r)
  \/ \E k \in Keys : Reset(k)
  \/ Disturb

Spec == Init /\ [][Next]_vars

-----------------------------------------------------------------------------
TypeOK ==
  /\ policy \in Policies /\ models \in 1..MaxModels
  /\ headers \in BOOLEAN /\ disturbed \in BOOLEAN
  /\ limit \in [Keys -> 0..MaxWindow] /\ budget \in [Keys -> 0..MaxWindow]
  /\ arrivals \in Nat
  /\ cursor \in 0..(N - 1)
  /\ charged \in [Keys -> Nat] /\ tokens \in [Keys -> Nat] /\ used \in [Keys -> Nat]
  /\ remaining \in [Keys -> Unknown..(MaxWindow - 1)] /\ top \in [Keys -> 0..(MaxWindow - 1)]
  /\ \A k \in Keys : remaining[k] <= top[k]
  /\ blocked \subseteq Keys /\ skipped \subseteq 1..MaxModels /\ headed \in [Keys -> Nat]
  /\ request \in [Requests -> RequestState]
  /\ \A r \in Requests : request[r].pc = "idle" <=> request[r].candidates = <<>>

(* Whatever the order, it is an order of all keys: the list of a request   *)
(* that makes its first call holds none twice and, while nothing is ruled  *)
(* out, for every model each key with room in its windows.                 *)
EveryKeyOffered ==
  \A r \in Requests : request[r].pc = "calling" /\ request[r].attempt = 1 =>
    /\ IsInjective(request[r].candidates)
    /\ ~disturbed => \A m \in 1..models, k \in Keys :
         Room(k) => <<m, k>> \in ToSet(request[r].candidates)

(* Round robin, and smart selection where no key has a window (the default *)
(* of both limits) and no headers come: all keys are always level.         *)
TakingTurns ==
  \/ policy = "round_robin"
  \/ policy = "smart" /\ ~headers /\ \A k \in Keys : limit[k] = 0 /\ budget[k] = 0

(* The keys they ever put first: the cursor moves on once for every model  *)
(* of the name, so that it skips.                                          *)
Reached == {KeyList[((i * models) % N) + 1] : i \in 0..(N - 1)}

(* Where keys take turns, the keys the cursor reaches are first equally    *)
(* often, and the others never, however many requests arrive at once.      *)
(* With one model it reaches all of them, whatever fails, waits or is      *)
(* ruled out ("round robin should alternate", tests/test_routing.py:38).   *)
(* With as many models as keys it reaches only the first.  A model that is *)
(* passed over does not move the cursor: with several models nothing is    *)
(* said once models are ruled out.                                         *)
RoundRobinEven ==
  TakingTurns /\ (models = 1 \/ ~disturbed) =>
    /\ \A k, l \in Reached : headed[k] <= headed[l] + 1
    /\ \A k \in Keys \ Reached : headed[k] = 0

(* The part of a request window that so many calls use.                    *)
Share(calls, k) == IF limit[k] > 0 THEN Fraction(calls, limit[k]) ELSE 0

(* How far one key may get ahead of another while nothing is ruled out and *)
(* no headers come.  Smart selection counts the calls in flight: where no  *)
(* key has a token window, the last call on a key went out when no other   *)
(* key had used a smaller part of its request window, however many         *)
(* requests arrive at once.  Of keys without a window it says nothing but  *)
(* that they go first.  least_used counts the calls that have come back:   *)
(* all requests in flight may be on one key, but no more than those, while *)
(* another has room.                                                       *)
SpreadBounded ==
  ~headers /\ ~disturbed =>
    /\ policy = "smart" /\ (\A k \in Keys : budget[k] = 0) =>
         \A k, l \in Keys : charged[k] > 0 => Share(charged[k] - 1, k) <= Share(charged[l], l)
    /\ policy = "least_used" =>
         \A k, l \in Keys : Room(l) => charged[k] <= charged[l] + Cardinality(Requests)
=============================================================================
