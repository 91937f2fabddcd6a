------------------------------- MODULE Limits -------------------------------
(***************************************************************************)
(* The limits of one key across edits of the configuration, under requests *)
(* that began before (LimitState and _sync of src/app/core/limits.py, with *)
(* the charges and releases of src/app/core/retry.py).                     *)
(*                                                                         *)
(* A LimitState is an object: the registry holds the current one, and a    *)
(* request holds on to the one it charged.  _sync replaces the current one *)
(* when the configuration differs, and the old and the new object share    *)
(* the counters of the windows that both have.  Nobody reads a replaced    *)
(* object again but to charge its counters.  So a registry is the current  *)
(* state with all counters there are, in order of creation, and what is    *)
(* held of a state is the place of its counters.                           *)
(*                                                                         *)
(* A request keeps the configuration it arrived under, and every look at   *)
(* the limits is one at those of that configuration.                       *)
(*                                                                         *)
(* The windows do not slide here (SlidingWindow models that): a behaviour  *)
(* falls into one window.                                                  *)
(***************************************************************************)
EXTENDS Naturals, Sequences, FiniteSets, FiniteSetsExt

CONSTANTS
  Requests,
  Configs,      \* what an operator may write as limits of the key
  MaxAttempts,  \* max_total_attempts
  MaxEdits      \* bound: edits of the configuration

RequestFields == {"requests_per_minute"}
TokenFields   == {"tokens_per_minute"}
Fields        == RequestFields \cup TokenFields

(* What a configuration leaves out; every limit is positive.               *)
Absent == 0
LimitsConfig == [concurrent_requests : Nat, window : [Fields -> Nat]]

(* effective_key_limits: the key's own fields override the provider's.     *)
Override(own, general) == IF own # Absent THEN own ELSE general

EffectiveKeyLimits(provider, key) ==
  [concurrent_requests |-> Override(key.concurrent_requests, provider.concurrent_requests),
   window |-> [f \in Fields |-> Override(key.window[f], provider.window[f])]]

LimitState == [cfg : LimitsConfig, in_flight : Nat, counter : [Fields -> Nat]]
Counter    == [limit : Nat, used : Nat]
Registry   == [state : LimitState, counters : [Fields -> Seq(Counter)]]

ASSUME LimitsConstants ==
  /\ IsFiniteSet(Requests)
  /\ Configs \subseteq LimitsConfig /\ Configs # {}
  /\ MaxAttempts \in Nat \ {0} /\ MaxEdits \in Nat

VARIABLES
  config,    \* the limits in the running configuration
  edits,     \* how often the configuration was edited
  limits,    \* the registry, as far as the key goes
  stray,     \* releases that reached a state no longer current
  request    \* each request's task

limitsVars == <<config, edits, limits, stray, request>>

(* What a request holds of no state.                                       *)
Nowhere == [f \in Fields |-> Absent]

RequestState ==
  [pc : {"new", "resolving", "in flight", "backoff", "done"},
   config : Configs, attempt : 0..MaxAttempts, tokens : 0..1,
   current : BOOLEAN, place : [Fields -> Nat]]

-----------------------------------------------------------------------------
(* from_config of a state that nothing precedes.                           *)
FirstState(cfg) ==
  [state    |-> [cfg |-> cfg, in_flight |-> 0,
                 counter |-> [f \in Fields |-> IF cfg.window[f] = Absent THEN Absent ELSE 1]],
   counters |-> [f \in Fields |->
                   IF cfg.window[f] = Absent THEN <<>>
                   ELSE <<[limit |-> cfg.window[f], used |-> 0]>>]]

(* A window that stays.                                                    *)
InBoth(reg, cfg, f) == cfg.window[f] # Absent /\ reg.state.counter[f] # Absent

(* _sync for another configuration: a counter that stays gets the new      *)
(* limit, a new one is empty; the requests in flight are carried on.       *)
Replaced(reg, cfg) ==
  [state |-> [cfg |-> cfg, in_flight |-> reg.state.in_flight,
              counter |-> [f \in Fields |->
                IF cfg.window[f] = Absent THEN Absent
                ELSE IF InBoth(reg, cfg, f) THEN reg.state.counter[f]
                ELSE Len(reg.counters[f]) + 1]],
   counters |-> [f \in Fields |->
     IF cfg.window[f] = Absent THEN reg.counters[f]
     ELSE IF InBoth(reg, cfg, f)
     THEN [reg.counters[f] EXCEPT ![reg.state.counter[f]].limit = cfg.window[f]]
     ELSE Append(reg.counters[f], [limit |-> cfg.window[f], used |-> 0])]]

(* Mutants: the requests in flight are forgotten; a counter that stays is  *)
(* copied and not shared; it keeps its limit.                              *)
SyncFlightMutant(reg, cfg) ==
  IF reg.state.cfg = cfg THEN reg ELSE [Replaced(reg, cfg) EXCEPT !.state.in_flight = 0]

SyncCopyMutant(reg, cfg) ==
  IF reg.state.cfg = cfg THEN reg
  ELSE [Replaced(reg, cfg) EXCEPT
         !.state.counter = [f \in Fields |->
           IF InBoth(reg, cfg, f) THEN Len(reg.counters[f]) + 1 ELSE @[f]],
         !.counters = [f \in Fields |->
           IF InBoth(reg, cfg, f) THEN Append(@[f], @[f][reg.state.counter[f]]) ELSE @[f]]]

SyncLimitMutant(reg, cfg) ==
  IF reg.state.cfg = cfg THEN reg
  ELSE [Replaced(reg, cfg) EXCEPT
         !.counters = [f \in Fields |->
           IF InBoth(reg, cfg, f) THEN reg.counters[f] ELSE @[f]]]

Sync(reg, cfg) == IF reg.state.cfg = cfg THEN reg ELSE Replaced(reg, cfg)

-----------------------------------------------------------------------------
(* Charging the counters at the given places, those among the fields.      *)
Charged(counters, place, fields, amount) ==
  [f \in Fields |->
    IF f \in fields /\ place[f] # Absent
    THEN [counters[f] EXCEPT ![place[f]].used = @ + amount]
    ELSE counters[f]]

RecordRequestStart(reg) ==
  [state    |-> [reg.state EXCEPT !.in_flight = @ + 1],
   counters |-> Charged(reg.counters, reg.state.counter, RequestFields, 1)]

(* The slot goes back to the state that was charged, current or not.       *)
RecordRequestEnd(reg, current, place, tokens) ==
  [state    |-> [reg.state EXCEPT !.in_flight =
                   IF current /\ @ > 0 THEN @ - 1 ELSE @],
   counters |-> Charged(reg.counters, place, TokenFields, tokens)]

WindowWouldExceed(reg, f, amount) ==
  LET c == reg.state.counter[f]
  IN  c # Absent /\ reg.counters[f][c].used + amount > reg.counters[f][c].limit

HasRequestBudget(reg) ==
  /\ \/ reg.state.cfg.concurrent_requests = Absent
     \/ reg.state.in_flight < reg.state.cfg.concurrent_requests
  /\ \A f \in RequestFields : ~WindowWouldExceed(reg, f, 1)

HasTokenBudget(reg, estimate) == \A f \in TokenFields : ~WindowWouldExceed(reg, f, estimate)

-----------------------------------------------------------------------------
LimitsInit ==
  /\ config \in Configs
  /\ edits = 0
  /\ limits = FirstState(config)
  /\ stray = 0
  /\ request = [r \in Requests |->
       [pc |-> "new", config |-> config, attempt |-> 0, tokens |-> 0,
        current |-> FALSE, place |-> Nowhere]]

(* A save or a reload: the registry is not touched.                        *)
Edit(cfg) ==
  /\ edits < MaxEdits
  /\ edits' = edits + 1 /\ config' = cfg
  /\ UNCHANGED <<limits, stray, request>>

Arrive(r) ==
  /\ request[r].pc = "new"
  /\ request' = [request EXCEPT ![r].pc = "resolving", ![r].config = config]
  /\ UNCHANGED <<config, edits, limits, stray>>

(* A state that is replaced stays with the requests that hold it.          *)
Synced(r)  == Sync(limits, request[r].config)
Holders(r) ==
  [s \in Requests |->
    IF Synced(r) = limits THEN request[s] ELSE [request[s] EXCEPT !.current = FALSE]]

(* A request leaves its state; of one that is over there only remains what *)
(* it has charged.                                                         *)
Freed(q) == [q EXCEPT !.current = FALSE, !.place = Nowhere]

Ended(q, tokens) == [Freed(q) EXCEPT !.pc = "done", !.tokens = tokens]

(* An attempt holds the state it found in force.                           *)
Begun(q, place) ==
  [q EXCEPT !.pc = "in flight", !.attempt = @ + 1, !.current = TRUE, !.place = place]

Attempt(r) ==
  /\ limits' = RecordRequestStart(Synced(r))
  /\ request' = [Holders(r) EXCEPT ![r] = Begun(@, Synced(r).state.counter)]

(* resolve() and the first attempt are one step of the event loop.  The    *)
(* limits are asked here, for one token, and not before a failover.        *)
Launch(r) ==
  /\ request[r].pc = "resolving"
  /\ \/ /\ HasRequestBudget(Synced(r)) /\ HasTokenBudget(Synced(r), 1)
        /\ Attempt(r)
     \/ /\ ~(HasRequestBudget(Synced(r)) /\ HasTokenBudget(Synced(r), 1))
        /\ limits' = Synced(r)
        /\ request' = [Holders(r) EXCEPT ![r] = Ended(@, 0)]
  /\ UNCHANGED <<config, edits, stray>>

Failover(r) ==
  /\ request[r].pc = "backoff"
  /\ Attempt(r)
  /\ UNCHANGED <<config, edits, stray>>

(* record_request_end on the state that the attempt charged.               *)
Release(r, tokens) ==
  /\ request[r].pc = "in flight"
  /\ limits' = RecordRequestEnd(limits, request[r].current, request[r].place, tokens)
  /\ stray' = IF request[r].current THEN stray ELSE stray + 1
  /\ UNCHANGED <<config, edits>>

(* An answer, or the end of a stream: one token is charged.                *)
Answer(r) ==
  /\ Release(r, 1)
  /\ request' = [request EXCEPT ![r] = Ended(@, 1)]

Fail(r) ==
  /\ Release(r, 0)
  /\ \/ request' = [request EXCEPT ![r] = Ended(@, 0)]
     \/ /\ request[r].attempt < MaxAttempts
        /\ request' = [request EXCEPT ![r] = [Freed(@) EXCEPT !.pc = "backoff"]]

LimitsNext ==
  \/ \E cfg \in Configs : Edit(cfg)
  \/ \E r \in Requests :
       \/ Arrive(r) \/ Launch(r) \/ Failover(r) \/ Answer(r) \/ Fail(r)

LimitsSpec == LimitsInit /\ [][LimitsNext]_limitsVars

-----------------------------------------------------------------------------
(* Properties.                                                             *)

(* Types; who holds a current state holds its counters.                    *)
LimitsTypeOK ==
  /\ config \in Configs /\ edits \in 0..MaxEdits
  /\ limits \in Registry /\ stray \in Nat
  /\ request \in [Requests -> RequestState]
  /\ \A r \in Requests : request[r].current =>
       request[r].pc = "in flight" /\ request[r].place = limits.state.counter

InFlight == {r \in Requests : request[r].pc = "in flight"}

(* An edit of the limits neither forgets requests in flight nor counts     *)
(* them twice: in_flight of the state in force is the number of calls and  *)
(* streams under way, plus the releases that reached a state already       *)
(* replaced, which are never made good.                                    *)
InFlightCarriedOver == limits.state.in_flight = Cardinality(InFlight) + stray

(* ARCHITECTURE.md:60: a reload never wipes live state.  A window that     *)
(* every configuration has keeps, through any edits and under requests of  *)
(* several configurations at once, the count of all attempts and of all    *)
(* tokens, those of answers that came after the edit too.                  *)
Kept == {f \in Fields : \A cfg \in Configs : cfg.window[f] # Absent}

Attempts == MapThenSumSet(LAMBDA r : request[r].attempt, Requests)
Tokens   == MapThenSumSet(LAMBDA r : request[r].tokens, Requests)

KeptWindowKeepsCharges ==
  \A f \in Kept :
    limits.counters[f][limits.state.counter[f]].used =
      IF f \in RequestFields THEN Attempts ELSE Tokens

(* A request of an older configuration puts its limits back in force, and  *)
(* the next one of the new configuration undoes that: at every moment the  *)
(* limits in force are those of one configuration, never a window of one   *)
(* with the limit of another.                                              *)
OneConfigurationInForce ==
  \A f \in Fields :
    LET c == limits.state.counter[f]
    IN  /\ c = Absent <=> limits.state.cfg.window[f] = Absent
        /\ c # Absent => limits.counters[f][c].limit = limits.state.cfg.window[f]
=============================================================================
