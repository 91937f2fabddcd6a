----------------------------- MODULE LimitsProofs -----------------------------
(***************************************************************************)
(* The local rate limits.  First a key's limits across edits, for any      *)
(* number of requests, any configurations and any number of edits: slots   *)
(* are accounted for, and the limits in force are those of one             *)
(* configuration.  Then the ring of one window: lazily cleaned, it         *)
(* remembers exactly the charges of the last Size slots, for every size,   *)
(* limit and length of run.                                                *)
(***************************************************************************)
EXTENDS Limits, SkewedWindow, SumTheorems


(* A registry in which the current state has exactly the counters of its   *)
(* configuration, with its limits.                                         *)
OneConfiguration(reg) ==
  \A f \in Fields :
    LET c == reg.state.counter[f]
    IN  /\ c \in 0..Len(reg.counters[f])
        /\ c = Absent <=> reg.state.cfg.window[f] = Absent
        /\ c # Absent => reg.counters[f][c].limit = reg.state.cfg.window[f]

(* A change of one counter of a window leaves the others alone, a charge   *)
(* all limits.                                                             *)
LEMMA CounterSet ==
  ASSUME NEW s \in Seq(Counter), NEW i \in 1..Len(s), NEW c \in Counter
  PROVE  LET t == [s EXCEPT ![i] = c]
         IN  /\ t \in Seq(Counter) /\ Len(t) = Len(s)
             /\ t[i] = c
             /\ \A j \in 1..Len(s) : j # i => t[j] = s[j]
OBVIOUS

LEMMA LimitSet ==
  ASSUME NEW s \in Seq(Counter), NEW i \in 1..Len(s), NEW n \in Nat
  PROVE  LET t == [s EXCEPT ![i].limit = n]
         IN  /\ t \in Seq(Counter) /\ Len(t) = Len(s)
             /\ t[i].limit = n
<1> DEFINE c == [s[i] EXCEPT !.limit = n]
<1>1. s[i] \in Counter
  OBVIOUS
<1>2. c \in Counter /\ c.limit = n
  BY <1>1 DEF Counter
<1>3. [s EXCEPT ![i].limit = n] = [s EXCEPT ![i] = c]
  OBVIOUS
<1> HIDE DEF c
<1> QED
  BY <1>2, <1>3, CounterSet

LEMMA UsedSet ==
  ASSUME NEW s \in Seq(Counter), NEW i \in Nat, NEW n \in Nat
  PROVE  LET t == [s EXCEPT ![i].used = @ + n]
         IN  /\ t \in Seq(Counter) /\ Len(t) = Len(s)
             /\ \A j \in 1..Len(s) : t[j].limit = s[j].limit
<1> DEFINE c == [s[i] EXCEPT !.used = @ + n]
<1>1. [s EXCEPT ![i].used = @ + n] = [s EXCEPT ![i] = c]
  OBVIOUS
<1>2. CASE i \in 1..Len(s)
  <2>1. s[i] \in Counter
    BY <1>2
  <2>2. c \in Counter /\ c.limit = s[i].limit
    BY <2>1 DEF Counter
  <2> HIDE DEF c
  <2> QED
    BY <1>1, <1>2, <2>2, CounterSet
<1>3. CASE i \notin 1..Len(s)
  <2> HIDE DEF c
  <2>1. [s EXCEPT ![i] = c] = s
    BY <1>3
  <2> QED
    BY <1>1, <2>1
<1> QED
  BY <1>2, <1>3

(* The parts of a configuration and of a registry.                         *)
LEMMA ConfigParts ==
  ASSUME NEW cfg \in LimitsConfig
  PROVE  /\ cfg.concurrent_requests \in Nat
         /\ \A f \in Fields : cfg.window[f] \in Nat
BY DEF LimitsConfig

LEMMA RegistryParts ==
  ASSUME NEW reg \in Registry
  PROVE  /\ reg.state \in LimitState /\ reg.state.cfg \in LimitsConfig
         /\ reg.state.in_flight \in Nat
         /\ reg.state.counter \in [Fields -> Nat]
         /\ reg.counters \in [Fields -> Seq(Counter)]
         /\ \A f \in Fields : reg.counters[f] \in Seq(Counter)
BY DEF Registry, LimitState

LEMMA MakeRegistry ==
  ASSUME NEW cfg \in LimitsConfig, NEW n \in Nat,
         NEW counter \in [Fields -> Nat], NEW counters \in [Fields -> Seq(Counter)]
  PROVE  [state |-> [cfg |-> cfg, in_flight |-> n, counter |-> counter],
          counters |-> counters] \in Registry
BY DEF Registry, LimitState

(* The first state has no requests, and the windows of its configuration.  *)
LEMMA FirstStateOK ==
  ASSUME NEW cfg \in LimitsConfig
  PROVE  /\ FirstState(cfg) \in Registry
         /\ OneConfiguration(FirstState(cfg))
         /\ FirstState(cfg).state.in_flight = 0
         /\ FirstState(cfg).state.cfg = cfg
<1> DEFINE counter == [f \in Fields |-> IF cfg.window[f] = Absent THEN Absent ELSE 1]
           counters == [f \in Fields |->
                          IF cfg.window[f] = Absent THEN <<>>
                          ELSE <<[limit |-> cfg.window[f], used |-> 0]>>]
<1>1. counter \in [Fields -> Nat]
  BY DEF Absent
<1>2. ASSUME NEW f \in Fields
      PROVE  <<[limit |-> cfg.window[f], used |-> 0]>> \in Seq(Counter)
  BY ConfigParts DEF Counter
<1>3. counters \in [Fields -> Seq(Counter)]
  BY <1>2
<1>4. FirstState(cfg) = [state |-> [cfg |-> cfg, in_flight |-> 0, counter |-> counter],
                         counters |-> counters]
  BY DEF FirstState
<1> HIDE DEF counter, counters
<1>5. FirstState(cfg) \in Registry
  BY <1>1, <1>3, <1>4, MakeRegistry
<1> USE DEF counter, counters
<1>6. OneConfiguration(FirstState(cfg))
  <2> SUFFICES ASSUME NEW f \in Fields
               PROVE  /\ counter[f] \in 0..Len(counters[f])
                      /\ counter[f] = Absent <=> cfg.window[f] = Absent
                      /\ counter[f] # Absent => counters[f][counter[f]].limit = cfg.window[f]
    BY <1>4 DEF OneConfiguration
  <2>1. CASE cfg.window[f] = Absent
    BY <2>1 DEF Absent
  <2>2. CASE cfg.window[f] # Absent
    BY <2>2 DEF Absent
  <2> QED
    BY <2>1, <2>2
<1> QED
  BY <1>4, <1>5, <1>6

(* _sync carries the requests in flight over, and leaves the counters and  *)
(* limits of the configuration it was asked for.                           *)
LEMMA SyncOK ==
  ASSUME NEW reg \in Registry, OneConfiguration(reg), NEW cfg \in LimitsConfig
  PROVE  /\ Sync(reg, cfg) \in Registry
         /\ OneConfiguration(Sync(reg, cfg))
         /\ Sync(reg, cfg).state.in_flight = reg.state.in_flight
         /\ Sync(reg, cfg).state.cfg = cfg
<1>1. CASE reg.state.cfg = cfg
  BY <1>1 DEF Sync
<1>2. CASE reg.state.cfg # cfg
  <2> DEFINE counter == [f \in Fields |->
                IF cfg.window[f] = Absent THEN Absent
                ELSE IF InBoth(reg, cfg, f) THEN reg.state.counter[f]
                ELSE Len(reg.counters[f]) + 1]
             kept(f) == [reg.counters[f] EXCEPT ![reg.state.counter[f]].limit = cfg.window[f]]
             more(f) == Append(reg.counters[f], [limit |-> cfg.window[f], used |-> 0])
             counters == [f \in Fields |->
                IF cfg.window[f] = Absent THEN reg.counters[f]
                ELSE IF InBoth(reg, cfg, f) THEN kept(f) ELSE more(f)]
  <2>1. Sync(reg, cfg) = [state |-> [cfg |-> cfg, in_flight |-> reg.state.in_flight,
                                     counter |-> counter],
                          counters |-> counters]
    BY <1>2, Zenon DEF Sync, Replaced
  <2>2. ASSUME NEW f \in Fields
        PROVE  /\ reg.counters[f] \in Seq(Counter) /\ Len(reg.counters[f]) \in Nat
               /\ reg.state.counter[f] \in 0..Len(reg.counters[f])
               /\ cfg.window[f] \in Nat
    BY RegistryParts, ConfigParts DEF OneConfiguration
  <2>3. ASSUME NEW f \in Fields, InBoth(reg, cfg, f)
        PROVE  /\ kept(f) \in Seq(Counter) /\ Len(kept(f)) = Len(reg.counters[f])
               /\ reg.state.counter[f] \in 1..Len(kept(f))
               /\ kept(f)[reg.state.counter[f]].limit = cfg.window[f]
    <3>1. reg.state.counter[f] \in 1..Len(reg.counters[f])
      BY <2>2, <2>3 DEF InBoth, Absent
    <3> QED
      BY <2>2, <3>1, LimitSet
  <2>4. ASSUME NEW f \in Fields
        PROVE  /\ more(f) \in Seq(Counter) /\ Len(more(f)) = Len(reg.counters[f]) + 1
               /\ more(f)[Len(reg.counters[f]) + 1].limit = cfg.window[f]
    BY <2>2 DEF Counter
  <2> HIDE DEF kept, more
  <2>5. counter \in [Fields -> Nat]
    BY <2>2 DEF Absent
  <2>6. counters \in [Fields -> Seq(Counter)]
    BY <2>2, <2>3, <2>4
  <2>7. Sync(reg, cfg) \in Registry
    BY <2>1, <2>5, <2>6, RegistryParts, MakeRegistry
  <2>8. OneConfiguration(Sync(reg, cfg))
    <3> HIDE DEF counter, counters
    <3> SUFFICES ASSUME NEW f \in Fields
                 PROVE  /\ counter[f] \in 0..Len(counters[f])
                        /\ counter[f] = Absent <=> cfg.window[f] = Absent
                        /\ counter[f] # Absent => counters[f][counter[f]].limit = cfg.window[f]
      BY <2>1 DEF OneConfiguration
    <3> USE DEF counter, counters
    <3>1. CASE cfg.window[f] = Absent
      BY <3>1, <2>2 DEF Absent
    <3>2. CASE cfg.window[f] # Absent /\ InBoth(reg, cfg, f)
      BY <3>2, <2>3 DEF Absent
    <3>3. CASE cfg.window[f] # Absent /\ ~InBoth(reg, cfg, f)
      BY <3>3, <2>2, <2>4 DEF Absent
    <3> QED
      BY <3>1, <3>2, <3>3
  <2> QED
    BY <2>1, <2>7, <2>8
<1> QED
  BY <1>1, <1>2

(* Charging changes no limit and drops no counter.                         *)
LEMMA ChargedOK ==
  ASSUME NEW counters \in [Fields -> Seq(Counter)], NEW place \in [Fields -> Nat],
         NEW fields \in SUBSET Fields, NEW amount \in Nat
  PROVE  /\ Charged(counters, place, fields, amount) \in [Fields -> Seq(Counter)]
         /\ \A f \in Fields :
              /\ Len(Charged(counters, place, fields, amount)[f]) = Len(counters[f])
              /\ \A i \in 1..Len(counters[f]) :
                   Charged(counters, place, fields, amount)[f][i].limit = counters[f][i].limit
<1> DEFINE more(f) == [counters[f] EXCEPT ![place[f]].used = @ + amount]
<1>1. ASSUME NEW f \in Fields
      PROVE  /\ more(f) \in Seq(Counter) /\ Len(more(f)) = Len(counters[f])
             /\ \A i \in 1..Len(counters[f]) : more(f)[i].limit = counters[f][i].limit
  BY UsedSet
<1>2. Charged(counters, place, fields, amount) =
        [f \in Fields |-> IF f \in fields /\ place[f] # Absent THEN more(f) ELSE counters[f]]
  BY Zenon DEF Charged
<1> HIDE DEF more
<1> QED
  BY <1>1, <1>2

(* What changes neither limits nor places keeps the configuration in force. *)
LEMMA SameLimits ==
  ASSUME NEW reg \in Registry, OneConfiguration(reg), NEW state, NEW counters,
         state.cfg = reg.state.cfg, state.counter = reg.state.counter,
         \A f \in Fields :
           /\ Len(counters[f]) = Len(reg.counters[f])
           /\ \A i \in 1..Len(reg.counters[f]) :
                counters[f][i].limit = reg.counters[f][i].limit
  PROVE  OneConfiguration([state |-> state, counters |-> counters])
<1> SUFFICES ASSUME NEW f \in Fields
             PROVE  LET c == reg.state.counter[f]
                    IN  /\ c \in 0..Len(counters[f])
                        /\ c = Absent <=> reg.state.cfg.window[f] = Absent
                        /\ c # Absent => counters[f][c].limit = reg.state.cfg.window[f]
  BY DEF OneConfiguration
<1> DEFINE c == reg.state.counter[f]
           n == Len(reg.counters[f])
<1>1. n \in Nat
  BY RegistryParts
<1>2. /\ c \in 0..n
      /\ c = Absent <=> reg.state.cfg.window[f] = Absent
      /\ c # Absent => reg.counters[f][c].limit = reg.state.cfg.window[f]
  BY DEF OneConfiguration
<1>3. /\ Len(counters[f]) = n
      /\ \A i \in 1..n : counters[f][i].limit = reg.counters[f][i].limit
  OBVIOUS
<1> HIDE DEF c, n
<1>4. c # Absent => c \in 1..n
  BY <1>1, <1>2 DEF Absent
<1>5. c # Absent => counters[f][c].limit = reg.state.cfg.window[f]
  BY <1>2, <1>3, <1>4
<1>6. c \in 0..Len(counters[f])
  BY <1>2, <1>3
<1> QED
  BY <1>2, <1>5, <1>6, Zenon DEF c

(* A start takes one slot, an end gives one back if it reaches the current *)
(* state; neither changes the configuration in force.                      *)
LEMMA StartOK ==
  ASSUME NEW reg \in Registry, OneConfiguration(reg)
  PROVE  /\ RecordRequestStart(reg) \in Registry
         /\ OneConfiguration(RecordRequestStart(reg))
         /\ RecordRequestStart(reg).state.in_flight = reg.state.in_flight + 1
         /\ RecordRequestStart(reg).state.counter = reg.state.counter
<1> DEFINE counters == Charged(reg.counters, reg.state.counter, RequestFields, 1)
           state    == [reg.state EXCEPT !.in_flight = @ + 1]
<1>1. /\ counters \in [Fields -> Seq(Counter)]
      /\ \A f \in Fields :
           /\ Len(counters[f]) = Len(reg.counters[f])
           /\ \A i \in 1..Len(reg.counters[f]) :
                counters[f][i].limit = reg.counters[f][i].limit
  <2>1. reg.counters \in [Fields -> Seq(Counter)] /\ reg.state.counter \in [Fields -> Nat]
    BY RegistryParts
  <2>2. RequestFields \in SUBSET Fields /\ 1 \in Nat
    BY DEF Fields
  <2> QED
    BY <2>1, <2>2, ChargedOK, Zenon
<1>2. /\ state \in LimitState /\ state.cfg = reg.state.cfg
      /\ state.counter = reg.state.counter
      /\ state.in_flight = reg.state.in_flight + 1
  BY RegistryParts DEF LimitState
<1>3. RecordRequestStart(reg) = [state |-> state, counters |-> counters]
  BY Zenon DEF RecordRequestStart
<1> HIDE DEF counters, state
<1>4. RecordRequestStart(reg) \in Registry
  BY <1>1, <1>2, <1>3 DEF Registry
<1>5. OneConfiguration(RecordRequestStart(reg))
  BY <1>1, <1>2, <1>3, SameLimits
<1> QED
  BY <1>2, <1>3, <1>4, <1>5

LEMMA EndOK ==
  ASSUME NEW reg \in Registry, OneConfiguration(reg), NEW current \in BOOLEAN,
         NEW place \in [Fields -> Nat], NEW tokens \in Nat
  PROVE  LET after == RecordRequestEnd(reg, current, place, tokens)
         IN  /\ after \in Registry
             /\ OneConfiguration(after)
             /\ after.state.in_flight =
                  IF current /\ reg.state.in_flight > 0
                  THEN reg.state.in_flight - 1 ELSE reg.state.in_flight
             /\ after.state.counter = reg.state.counter
<1> DEFINE counters == Charged(reg.counters, place, TokenFields, tokens)
           left     == IF current /\ reg.state.in_flight > 0
                       THEN reg.state.in_flight - 1 ELSE reg.state.in_flight
           state    == [reg.state EXCEPT !.in_flight =
                          IF current /\ @ > 0 THEN @ - 1 ELSE @]
<1>1. /\ counters \in [Fields -> Seq(Counter)]
      /\ \A f \in Fields :
           /\ Len(counters[f]) = Len(reg.counters[f])
           /\ \A i \in 1..Len(reg.counters[f]) :
                counters[f][i].limit = reg.counters[f][i].limit
  <2>1. reg.counters \in [Fields -> Seq(Counter)] /\ reg.state.counter \in [Fields -> Nat]
    BY RegistryParts
  <2>2. TokenFields \in SUBSET Fields /\ 1 \in Nat
    BY DEF Fields
  <2> QED
    BY <2>1, <2>2, ChargedOK, Zenon
<1>2. /\ state \in LimitState /\ state.cfg = reg.state.cfg
      /\ state.counter = reg.state.counter
      /\ state.in_flight = left
  <2>1. left \in Nat
    BY RegistryParts
  <2>2. state = [reg.state EXCEPT !.in_flight = left]
    OBVIOUS
  <2> HIDE DEF left, state
  <2> QED
    BY <2>1, <2>2, RegistryParts DEF LimitState
<1>3. RecordRequestEnd(reg, current, place, tokens) =
        [state |-> state, counters |-> counters]
  BY Zenon DEF RecordRequestEnd
<1> HIDE DEF counters, state, left
<1>4. RecordRequestEnd(reg, current, place, tokens) \in Registry
  BY <1>1, <1>2, <1>3 DEF Registry
<1>5. OneConfiguration(RecordRequestEnd(reg, current, place, tokens))
  BY <1>1, <1>2, <1>3, SameLimits
<1> QED
  BY <1>2, <1>3, <1>4, <1>5 DEF left

-----------------------------------------------------------------------------
(* How far a request is tells how often it has tried.                      *)
Progress ==
  \A r \in Requests :
    /\ request[r].pc \in {"new", "resolving"} => request[r].attempt = 0
    /\ request[r].pc = "backoff" => request[r].attempt < MaxAttempts

IInv == LimitsTypeOK /\ Progress /\ OneConfiguration(limits) /\ InFlightCarriedOver

(* The parts of a request's record, and of the record after a step.        *)
LEMMA RequestParts ==
  ASSUME NEW q \in RequestState
  PROVE  /\ q.pc \in {"new", "resolving", "in flight", "backoff", "done"}
         /\ q.config \in Configs /\ q.attempt \in 0..MaxAttempts /\ q.tokens \in 0..1
         /\ q.current \in BOOLEAN /\ q.place \in [Fields -> Nat]
BY DEF RequestState

LEMMA FreedOK ==
  ASSUME NEW q \in RequestState
  PROVE  /\ Freed(q) \in RequestState /\ Freed(q).current = FALSE
         /\ Freed(q).attempt = q.attempt /\ Freed(q).pc = q.pc
<1>1. Nowhere \in [Fields -> Nat]
  BY DEF Nowhere, Absent
<1> QED
  BY <1>1 DEF Freed, RequestState

LEMMA EndedOK ==
  ASSUME NEW q \in RequestState, NEW tokens \in 0..1
  PROVE  /\ Ended(q, tokens) \in RequestState /\ Ended(q, tokens).current = FALSE
         /\ Ended(q, tokens).pc = "done"
<1>1. Freed(q) \in RequestState /\ Freed(q).current = FALSE
  BY FreedOK
<1> HIDE DEF Freed
<1> QED
  BY <1>1 DEF Ended, RequestState

(* When r looks at the limits, the others stay as they are, except that    *)
(* the state they hold may be replaced.                                    *)
LEMMA SyncedOK ==
  ASSUME IInv, NEW r \in Requests
  PROVE  /\ Synced(r) \in Registry /\ OneConfiguration(Synced(r))
         /\ Synced(r).state.in_flight = limits.state.in_flight
         /\ Holders(r) \in [Requests -> RequestState]
         /\ \A s \in Requests :
              /\ Holders(r)[s].pc = request[s].pc
              /\ Holders(r)[s].attempt = request[s].attempt
              /\ Holders(r)[s].current =>
                   Holders(r)[s].pc = "in flight"
                     /\ Holders(r)[s].place = Synced(r).state.counter
<1>1. /\ request \in [Requests -> RequestState] /\ limits \in Registry
      /\ OneConfiguration(limits)
  BY DEF IInv, LimitsTypeOK
<1>2. request[r].config \in LimitsConfig
  BY <1>1, RequestParts, LimitsConstants
<1>3. /\ Synced(r) \in Registry /\ OneConfiguration(Synced(r))
      /\ Synced(r).state.in_flight = limits.state.in_flight
  BY <1>1, <1>2, SyncOK DEF Synced
<1>4. CASE Synced(r) = limits
  <2>1. Holders(r) = request
    BY <1>1, <1>4 DEF Holders
  <2> QED
    BY <1>1, <1>3, <1>4, <2>1 DEF IInv, LimitsTypeOK
<1>5. CASE Synced(r) # limits
  <2> DEFINE held == [s \in Requests |-> [request[s] EXCEPT !.current = FALSE]]
  <2>1. Holders(r) = held
    BY <1>5 DEF Holders
  <2>2. ASSUME NEW s \in Requests
        PROVE  /\ held[s] \in RequestState
               /\ held[s].pc = request[s].pc /\ held[s].attempt = request[s].attempt
               /\ held[s].current = FALSE
    <3>1. request[s] \in RequestState
      BY <1>1
    <3> QED
      BY <3>1 DEF RequestState
  <2> QED
    BY <1>3, <2>1, <2>2
<1> QED
  BY <1>4, <1>5

(* The requests in flight are finitely many, one more or one fewer.        *)
LEMMA InFlightFinite ==
  /\ IsFiniteSet(InFlight) /\ Cardinality(InFlight) \in Nat
  /\ \A r : r \notin InFlight => Cardinality(InFlight \cup {r}) = Cardinality(InFlight) + 1
  /\ \A r : r \in InFlight =>
       /\ Cardinality(InFlight) > 0
       /\ Cardinality(InFlight \ {r}) = Cardinality(InFlight) - 1
<1>1. InFlight \subseteq Requests
  BY DEF InFlight
<1>2. IsFiniteSet(InFlight)
  BY <1>1, FS_Subset, LimitsConstants
<1>3. Cardinality(InFlight) \in Nat
  BY <1>2, FS_CardinalityType
<1>4. ASSUME NEW r, r \in InFlight PROVE Cardinality(InFlight) > 0
  BY <1>2, <1>3, <1>4, FS_EmptySet
<1> QED
  BY <1>2, <1>3, <1>4, FS_AddElement, FS_RemoveElement

LEMMA OneMore ==
  /\ \A m \in Nat : \A n \in 0..m : n < m => n + 1 \in 0..m
  /\ \A m, n \in Nat : (m + n) + 1 = (m + 1) + n
OBVIOUS

(* An attempt takes a slot of the state that it finds in force.            *)
LEMMA AttemptKeeps ==
  ASSUME IInv, NEW r \in Requests, Attempt(r), UNCHANGED <<config, edits, stray>>,
         request[r].pc # "in flight", request[r].attempt < MaxAttempts
  PROVE  IInv'
<1> DEFINE q == Begun(Holders(r)[r], Synced(r).state.counter)
<1>1. /\ request' = [Holders(r) EXCEPT ![r] = q]
      /\ limits' = RecordRequestStart(Synced(r))
  BY Zenon DEF Attempt
<1>2. /\ Synced(r) \in Registry /\ OneConfiguration(Synced(r))
      /\ Synced(r).state.in_flight = limits.state.in_flight
      /\ Holders(r) \in [Requests -> RequestState]
      /\ \A s \in Requests :
           /\ Holders(r)[s].pc = request[s].pc
           /\ Holders(r)[s].attempt = request[s].attempt
           /\ Holders(r)[s].current =>
                Holders(r)[s].pc = "in flight"
                  /\ Holders(r)[s].place = Synced(r).state.counter
  BY SyncedOK
<1>3. /\ limits' \in Registry /\ OneConfiguration(limits')
      /\ limits'.state.in_flight = limits.state.in_flight + 1
      /\ limits'.state.counter = Synced(r).state.counter
  BY <1>1, <1>2, StartOK, RegistryParts
<1>4. /\ q \in RequestState /\ q.pc = "in flight"
      /\ q.place = Synced(r).state.counter
  <2>1. Holders(r)[r] \in RequestState /\ Holders(r)[r].attempt + 1 \in 0..MaxAttempts
    <3>1. request[r] \in RequestState
      BY DEF IInv, LimitsTypeOK
    <3>2. request[r].attempt \in 0..MaxAttempts /\ MaxAttempts \in Nat
      BY <3>1, RequestParts, LimitsConstants
    <3>3. Holders(r) \in [Requests -> RequestState]
          /\ Holders(r)[r].attempt = request[r].attempt
      BY <1>2
    <3> HIDE DEF q
    <3>4. Holders(r)[r] \in RequestState
      BY <3>3
    <3>5. request[r].attempt + 1 \in 0..MaxAttempts
      BY <3>2, OneMore, Zenon
    <3> QED
      BY <3>3, <3>4, <3>5, Zenon
  <2>2. Synced(r).state.counter \in [Fields -> Nat]
    BY <1>2, RegistryParts
  <2> QED
    BY <2>1, <2>2 DEF RequestState, Begun
<1> HIDE DEF q
<1>5. request' \in [Requests -> RequestState]
  BY <1>1, <1>2, <1>4
<1>6. \A s \in Requests : request'[s] = IF s = r THEN q ELSE Holders(r)[s]
  BY <1>1, <1>2
<1>7. \A s \in Requests : request'[s].current =>
        request'[s].pc = "in flight" /\ request'[s].place = limits'.state.counter
  BY <1>2, <1>3, <1>4, <1>6
<1>8. LimitsTypeOK'
  BY <1>3, <1>5, <1>7 DEF IInv, LimitsTypeOK
<1>9. Progress'
  BY <1>2, <1>4, <1>6 DEF IInv, Progress
<1>10. InFlightCarriedOver'
  <2>1. r \notin InFlight /\ InFlight' = InFlight \cup {r}
    <3>1. \A s \in Requests :
            request'[s].pc = "in flight" <=> s = r \/ request[s].pc = "in flight"
      BY <1>2, <1>4, <1>6
    <3> QED
      BY <3>1 DEF InFlight
  <2>2. Cardinality(InFlight') = Cardinality(InFlight) + 1
    BY <2>1, InFlightFinite
  <2>3. Cardinality(InFlight) \in Nat /\ stray \in Nat
    BY InFlightFinite DEF IInv, LimitsTypeOK
  <2>4. limits.state.in_flight = Cardinality(InFlight) + stray
    BY DEF IInv, InFlightCarriedOver
  <2>5. limits'.state.in_flight = Cardinality(InFlight') + stray
    <3>1. limits'.state.in_flight = limits.state.in_flight + 1
      BY <1>3
    <3>2. limits'.state.in_flight = (Cardinality(InFlight) + stray) + 1
      BY <2>4, <3>1, Zenon
    <3>3. (Cardinality(InFlight) + stray) + 1 = (Cardinality(InFlight) + 1) + stray
      BY <2>3, OneMore, Zenon
    <3> QED
      BY <2>2, <3>2, <3>3, Zenon
  <2> QED
    BY <2>5 DEF InFlightCarriedOver
<1> QED
  BY <1>3, <1>8, <1>9, <1>10 DEF IInv

(* A release gives the slot back to the state that was charged, or is a    *)
(* stray one.  What the request becomes is its own affair.                 *)
LEMMA ReleaseKeeps ==
  ASSUME IInv, NEW r \in Requests, NEW tokens \in 0..1, Release(r, tokens),
         NEW q \in RequestState, request' = [request EXCEPT ![r] = q],
         q.current = FALSE, q.pc \in {"done", "backoff"},
         q.pc = "backoff" => q.attempt < MaxAttempts
  PROVE  IInv'
<1>1. /\ request \in [Requests -> RequestState] /\ limits \in Registry
      /\ OneConfiguration(limits) /\ stray \in Nat
      /\ limits.state.in_flight \in Nat
  BY RegistryParts DEF IInv, LimitsTypeOK
<1>2. /\ request[r].current \in BOOLEAN /\ request[r].place \in [Fields -> Nat]
  BY <1>1, RequestParts
<1>3. /\ limits' = RecordRequestEnd(limits, request[r].current, request[r].place, tokens)
      /\ tokens \in Nat
  <2>1. limits' = RecordRequestEnd(limits, request[r].current, request[r].place, tokens)
    BY Zenon DEF Release
  <2> QED
    BY <2>1
<1>4. /\ limits' \in Registry /\ OneConfiguration(limits')
      /\ limits'.state.in_flight =
           IF request[r].current /\ limits.state.in_flight > 0
           THEN limits.state.in_flight - 1 ELSE limits.state.in_flight
      /\ limits'.state.counter = limits.state.counter
  BY <1>1, <1>2, <1>3, EndOK
<1>5. /\ request' \in [Requests -> RequestState]
      /\ \A s \in Requests : request'[s] = IF s = r THEN q ELSE request[s]
  BY <1>1
<1>6. LimitsTypeOK'
  <2>1. \A s \in Requests : request'[s].current =>
          request'[s].pc = "in flight" /\ request'[s].place = limits'.state.counter
    BY <1>4, <1>5 DEF IInv, LimitsTypeOK
  <2>2. stray' \in Nat /\ config' = config /\ edits' = edits
    <3>1. /\ stray' = IF request[r].current THEN stray ELSE stray + 1
          /\ config' = config /\ edits' = edits
      BY Zenon DEF Release
    <3> QED
      BY <1>1, <3>1
  <2> QED
    BY <1>4, <1>5, <2>1, <2>2 DEF IInv, LimitsTypeOK
<1>7. Progress'
  BY <1>5 DEF IInv, Progress
<1>8. InFlightCarriedOver'
  <2>1. r \in InFlight /\ InFlight' = InFlight \ {r}
    BY <1>5 DEF InFlight, Release
  <2>2. /\ Cardinality(InFlight') = Cardinality(InFlight) - 1
        /\ Cardinality(InFlight) \in Nat /\ Cardinality(InFlight) > 0
    BY <2>1, InFlightFinite
  <2>3. limits.state.in_flight = Cardinality(InFlight) + stray
    BY DEF IInv, InFlightCarriedOver
  <2>4. CASE request[r].current
    <3>1. stray' = stray
      BY <2>4 DEF Release
    <3> QED
      BY <1>1, <1>4, <2>2, <2>3, <2>4, <3>1 DEF InFlightCarriedOver
  <2>5. CASE ~request[r].current
    <3>1. stray' = stray + 1
      BY <2>5 DEF Release
    <3> QED
      BY <1>1, <1>4, <2>2, <2>3, <2>5, <3>1 DEF InFlightCarriedOver
  <2> QED
    BY <2>4, <2>5
<1> QED
  BY <1>4, <1>6, <1>7, <1>8 DEF IInv

LEMMA InitOK == LimitsInit => IInv
<1> SUFFICES ASSUME LimitsInit PROVE IInv
  OBVIOUS
<1>1. config \in Configs /\ config \in LimitsConfig
  BY LimitsConstants DEF LimitsInit
<1>2. /\ limits \in Registry /\ OneConfiguration(limits)
      /\ limits.state.in_flight = 0
  BY <1>1, FirstStateOK DEF LimitsInit
<1>3. request \in [Requests -> RequestState]
  <2>1. Nowhere \in [Fields -> Nat]
    BY DEF Nowhere, Absent
  <2> QED
    BY <1>1, <2>1, LimitsConstants DEF LimitsInit, RequestState
<1>4. \A r \in Requests : request[r].pc = "new" /\ request[r].attempt = 0
                            /\ request[r].current = FALSE
  BY DEF LimitsInit
<1>5. LimitsTypeOK
  <2>1. edits \in 0..MaxEdits /\ stray \in Nat
    BY LimitsConstants DEF LimitsInit
  <2> QED
    BY <1>1, <1>2, <1>3, <1>4, <2>1 DEF LimitsTypeOK
<1>6. Progress
  BY <1>4 DEF Progress
<1>7. InFlightCarriedOver
  <2>1. InFlight = {}
    BY <1>4 DEF InFlight
  <2> QED
    BY <1>2, <2>1, FS_EmptySet DEF LimitsInit, InFlightCarriedOver
<1> QED
  BY <1>2, <1>5, <1>6, <1>7 DEF IInv

(* Steps that leave the registry alone and start or end no call.           *)
LEMMA QuietKeeps ==
  ASSUME IInv, NEW r \in Requests, NEW q \in RequestState,
         request' = [request EXCEPT ![r] = q], UNCHANGED <<config, edits, limits, stray>>,
         request[r].pc = "new", q.pc = "resolving", q.attempt = request[r].attempt,
         q.current = request[r].current
  PROVE  IInv'
<1>1. /\ request' \in [Requests -> RequestState]
      /\ \A s \in Requests : request'[s] = IF s = r THEN q ELSE request[s]
  BY DEF IInv, LimitsTypeOK
<1>2. LimitsTypeOK'
  BY <1>1 DEF IInv, LimitsTypeOK
<1>3. Progress'
  BY <1>1 DEF IInv, Progress
<1>4. InFlight' = InFlight
  BY <1>1 DEF InFlight
<1> QED
  BY <1>2, <1>3, <1>4 DEF IInv, InFlightCarriedOver

(* A request that finds no budget has only synchronised the registry.      *)
LEMMA RefusalKeeps ==
  ASSUME IInv, NEW r \in Requests, request[r].pc = "resolving",
         limits' = Synced(r), UNCHANGED <<config, edits, stray>>,
         request' = [Holders(r) EXCEPT ![r] = Ended(@, 0)]
  PROVE  IInv'
<1>1. /\ Synced(r) \in Registry /\ OneConfiguration(Synced(r))
      /\ Synced(r).state.in_flight = limits.state.in_flight
      /\ Holders(r) \in [Requests -> RequestState]
      /\ \A s \in Requests :
           /\ Holders(r)[s].pc = request[s].pc
           /\ Holders(r)[s].attempt = request[s].attempt
           /\ Holders(r)[s].current =>
                Holders(r)[s].pc = "in flight"
                  /\ Holders(r)[s].place = Synced(r).state.counter
  BY SyncedOK
<1> DEFINE q == Ended(Holders(r)[r], 0)
<1>2. q \in RequestState /\ q.current = FALSE /\ q.pc = "done"
  <2> HIDE DEF q
  <2>1. Holders(r)[r] \in RequestState /\ 0 \in 0..1
    <3>1. Holders(r) \in [Requests -> RequestState]
      BY <1>1
    <3> QED
      BY <3>1
  <2> USE DEF q
  <2> QED
    BY <2>1, EndedOK, Zenon
<1>3. request' = [Holders(r) EXCEPT ![r] = q]
  OBVIOUS
<1> HIDE DEF q
<1>4. /\ request' \in [Requests -> RequestState]
      /\ \A s \in Requests : request'[s] = IF s = r THEN q ELSE Holders(r)[s]
  BY <1>1, <1>2, <1>3
<1>5. LimitsTypeOK'
  BY <1>1, <1>2, <1>4 DEF IInv, LimitsTypeOK
<1>6. Progress'
  BY <1>1, <1>2, <1>4 DEF IInv, Progress
<1>7. InFlight' = InFlight
  BY <1>1, <1>2, <1>4 DEF InFlight
<1> QED
  BY <1>1, <1>5, <1>6, <1>7 DEF IInv, InFlightCarriedOver

(* Every step keeps the invariant, one case per action.                    *)
LEMMA NextKeeps == IInv /\ [LimitsNext]_limitsVars => IInv'
<1> SUFFICES ASSUME IInv, [LimitsNext]_limitsVars PROVE IInv'
  OBVIOUS
<1>1. request \in [Requests -> RequestState]
  BY DEF IInv, LimitsTypeOK
<1>2. ASSUME NEW cfg \in Configs, Edit(cfg) PROVE IInv'
  <2>1. InFlight' = InFlight
    BY <1>2 DEF Edit, InFlight
  <2> QED
    <3>1. /\ edits' \in 0..MaxEdits /\ config' \in Configs
          /\ UNCHANGED <<limits, stray, request>>
      <4>1. edits \in 0..MaxEdits /\ MaxEdits \in Nat
        BY LimitsConstants DEF IInv, LimitsTypeOK
      <4>2. /\ edits < MaxEdits /\ edits' = edits + 1 /\ config' = cfg
            /\ UNCHANGED <<limits, stray, request>>
        BY <1>2, Zenon DEF Edit
      <4> QED
        BY <4>1, <4>2
    <3>2. LimitsTypeOK'
      BY <3>1 DEF IInv, LimitsTypeOK
    <3>3. Progress'
      BY <3>1 DEF IInv, Progress
    <3> QED
      BY <2>1, <3>1, <3>2, <3>3 DEF IInv, InFlightCarriedOver
<1>3. ASSUME NEW r \in Requests, Arrive(r) PROVE IInv'
  <2> DEFINE q == [request[r] EXCEPT !.pc = "resolving", !.config = config]
  <2>1. /\ q \in RequestState /\ q.pc = "resolving" /\ q.attempt = request[r].attempt
        /\ q.current = request[r].current
    <3>1. request[r] \in RequestState /\ config \in Configs
      BY <1>1 DEF IInv, LimitsTypeOK
    <3> QED
      BY <3>1 DEF RequestState
  <2>2. /\ request' = [request EXCEPT ![r] = q] /\ request[r].pc = "new"
        /\ UNCHANGED <<config, edits, limits, stray>>
    BY <1>3 DEF Arrive
  <2> HIDE DEF q
  <2> QED
    BY <2>1, <2>2, QuietKeeps
<1>4. ASSUME NEW r \in Requests, Launch(r) PROVE IInv'
  <2>1. request[r].pc = "resolving" /\ request[r].attempt = 0
    BY <1>4 DEF Launch, IInv, Progress
  <2>2. CASE Attempt(r)
    <3>1. request[r].pc # "in flight" /\ request[r].attempt < MaxAttempts
      BY <2>1, LimitsConstants
    <3>2. UNCHANGED <<config, edits, stray>>
      BY <1>4, Zenon DEF Launch
    <3> QED
      BY <2>2, <3>1, <3>2, AttemptKeeps
  <2>3. CASE limits' = Synced(r) /\ request' = [Holders(r) EXCEPT ![r] = Ended(@, 0)]
    BY <1>4, <2>1, <2>3, RefusalKeeps DEF Launch
  <2> QED
    BY <1>4, <2>2, <2>3 DEF Launch
<1>5. ASSUME NEW r \in Requests, Failover(r) PROVE IInv'
  <2>1. request[r].pc = "backoff" /\ request[r].attempt < MaxAttempts
    BY <1>5 DEF Failover, IInv, Progress
  <2> QED
    BY <1>5, <2>1, AttemptKeeps DEF Failover
<1>6. ASSUME NEW r \in Requests, Answer(r) PROVE IInv'
  <2>1. /\ Ended(request[r], 1) \in RequestState
        /\ Ended(request[r], 1).current = FALSE /\ Ended(request[r], 1).pc = "done"
    BY <1>1, 1 \in 0..1, EndedOK, Zenon
  <2>2. Release(r, 1) /\ request' = [request EXCEPT ![r] = Ended(request[r], 1)]
    BY <1>6 DEF Answer
  <2> QED
    BY <2>1, <2>2, 1 \in 0..1, ReleaseKeeps, Zenon
<1>7. ASSUME NEW r \in Requests, Fail(r) PROVE IInv'
  <2>1. CASE request' = [request EXCEPT ![r] = Ended(request[r], 0)]
    <3>1. /\ Ended(request[r], 0) \in RequestState
          /\ Ended(request[r], 0).current = FALSE /\ Ended(request[r], 0).pc = "done"
      BY <1>1, 0 \in 0..1, EndedOK, Zenon
    <3>2. Release(r, 0)
      BY <1>7, Zenon DEF Fail
    <3> QED
      BY <2>1, <3>1, <3>2, 0 \in 0..1, ReleaseKeeps, Zenon
  <2>2. CASE /\ request[r].attempt < MaxAttempts
             /\ request' = [request EXCEPT ![r] = [Freed(request[r]) EXCEPT !.pc = "backoff"]]
    <3> DEFINE q == [Freed(request[r]) EXCEPT !.pc = "backoff"]
    <3>1. /\ Freed(request[r]) \in RequestState /\ Freed(request[r]).current = FALSE
          /\ Freed(request[r]).attempt = request[r].attempt
      BY <1>1, FreedOK
    <3>2. /\ q \in RequestState /\ q.current = FALSE /\ q.pc = "backoff"
          /\ q.attempt < MaxAttempts
      BY <2>2, <3>1 DEF RequestState
    <3>3. request' = [request EXCEPT ![r] = q] /\ Release(r, 0)
      BY <1>7, <2>2 DEF Fail
    <3> HIDE DEF q
    <3> QED
      BY <3>2, <3>3, 0 \in 0..1, ReleaseKeeps, Zenon
  <2> QED
    BY <1>7, <2>1, <2>2 DEF Fail
<1>8. CASE UNCHANGED limitsVars
  BY <1>8 DEF limitsVars, IInv, LimitsTypeOK, Progress, InFlightCarriedOver, InFlight
<1> QED
  BY <1>2, <1>3, <1>4, <1>5, <1>6, <1>7, <1>8 DEF LimitsNext

LEMMA Invariant == LimitsSpec => []IInv
BY InitOK, NextKeeps, PTL DEF LimitsSpec

-----------------------------------------------------------------------------
(* What the counter in force of a window has been charged, and what the    *)
(* requests say that they have charged.                                    *)
Used(reg, f) == reg.counters[f][reg.state.counter[f]].used
AttemptOf(q) == [r \in Requests |-> q[r].attempt]
TokensOf(q)  == [r \in Requests |-> q[r].tokens]

(* The state in force is one of the configurations; a request that is not  *)
(* over has charged no tokens; a request under way holds, current or not,  *)
(* the counter in force of every window that is kept.                      *)
Charges ==
  /\ limits.state.cfg \in Configs
  /\ \A r \in Requests : request[r].pc # "done" => request[r].tokens = 0
  /\ \A r \in Requests, f \in Kept :
       request[r].pc = "in flight" => request[r].place[f] = limits.state.counter[f]
  /\ \A f \in Kept : Used(limits, f) =
       IF f \in RequestFields THEN Weight(AttemptOf(request), Requests)
                              ELSE Weight(TokensOf(request), Requests)

(* The two kinds of windows.                                               *)
LEMMA KindOfField ==
  /\ RequestFields \subseteq Fields /\ TokenFields \subseteq Fields
  /\ \A f \in Fields : f \in RequestFields <=> f \notin TokenFields
  /\ Kept \subseteq Fields
BY DEF Fields, RequestFields, TokenFields, Kept

LEMMA CountsAreNat ==
  ASSUME NEW q \in [Requests -> RequestState]
  PROVE  \A r \in Requests : /\ q[r].attempt \in Nat /\ q[r].tokens \in Nat
                             /\ AttemptOf(q)[r] = q[r].attempt
                             /\ TokensOf(q)[r] = q[r].tokens
<1> SUFFICES ASSUME NEW r \in Requests
             PROVE  q[r].attempt \in Nat /\ q[r].tokens \in Nat
  BY DEF AttemptOf, TokensOf
<1>1. q[r].attempt \in 0..MaxAttempts /\ q[r].tokens \in 0..1 /\ MaxAttempts \in Nat
  BY RequestParts, LimitsConstants
<1> QED
  BY <1>1

(* The folds of the model are weights.                                     *)
LEMMA AttemptsIsWeight ==
  request \in [Requests -> RequestState] =>
    Attempts = Weight(AttemptOf(request), Requests)
<1> SUFFICES ASSUME request \in [Requests -> RequestState]
             PROVE  Attempts = Weight(AttemptOf(request), Requests)
  OBVIOUS
<1> DEFINE a == AttemptOf(request)
           Solves(g) == g = [s \in SUBSET Requests |->
                               IF s = {} THEN 0
                               ELSE request[Picked(s)].attempt + g[s \ {Picked(s)}]]
<1>1. Attempts = (CHOOSE g : Solves(g))[Requests]
  BY DEF Attempts, MapThenSumSet, MapThenFoldSet, Picked
<1>2. IsFiniteSet(Requests) /\ \A r \in Requests : a[r] \in Nat
  BY LimitsConstants, CountsAreNat
<1>3. \A s \in SUBSET Requests : s # {} => request[Picked(s)].attempt = a[Picked(s)]
  BY DEF AttemptOf, Picked
<1> HIDE DEF a
<1>4. \A g : Solves(g) <=> Adds(a, Requests, g)
  BY <1>3 DEF Adds
<1>5. \E g : Adds(a, Requests, g)
  BY <1>2, WeightAdds
<1> HIDE DEF Solves
<1>6. Adds(a, Requests, CHOOSE g : Solves(g))
  BY <1>4, <1>5
<1>7. (CHOOSE g : Solves(g))[Requests] = Weight(a, Requests)
  BY <1>2, <1>6, OnlyWeightAdds
<1> QED
  BY <1>1, <1>7 DEF a

LEMMA TokensIsWeight ==
  request \in [Requests -> RequestState] =>
    Tokens = Weight(TokensOf(request), Requests)
<1> SUFFICES ASSUME request \in [Requests -> RequestState]
             PROVE  Tokens = Weight(TokensOf(request), Requests)
  OBVIOUS
<1> DEFINE a == TokensOf(request)
           Solves(g) == g = [s \in SUBSET Requests |->
                               IF s = {} THEN 0
                               ELSE request[Picked(s)].tokens + g[s \ {Picked(s)}]]
<1>1. Tokens = (CHOOSE g : Solves(g))[Requests]
  BY DEF Tokens, MapThenSumSet, MapThenFoldSet, Picked
<1>2. IsFiniteSet(Requests) /\ \A r \in Requests : a[r] \in Nat
  BY LimitsConstants, CountsAreNat
<1>3. \A s \in SUBSET Requests : s # {} => request[Picked(s)].tokens = a[Picked(s)]
  BY DEF TokensOf, Picked
<1> HIDE DEF a
<1>4. \A g : Solves(g) <=> Adds(a, Requests, g)
  BY <1>3 DEF Adds
<1>5. \E g : Adds(a, Requests, g)
  BY <1>2, WeightAdds
<1> HIDE DEF Solves
<1>6. Adds(a, Requests, CHOOSE g : Solves(g))
  BY <1>4, <1>5
<1>7. (CHOOSE g : Solves(g))[Requests] = Weight(a, Requests)
  BY <1>2, <1>6, OnlyWeightAdds
<1> QED
  BY <1>1, <1>7 DEF a

(* A charge reaches the counter at the given place, in the given windows.  *)
LEMMA ChargeReaches ==
  ASSUME NEW counters, NEW place, NEW fields, NEW amount \in Nat, NEW f \in Fields,
         counters[f] \in Seq(Counter), place[f] \in 1..Len(counters[f]), f \in fields
  PROVE  Charged(counters, place, fields, amount)[f][place[f]].used =
           counters[f][place[f]].used + amount
<1> DEFINE s == counters[f]
           p == place[f]
           c == [s[p] EXCEPT !.used = @ + amount]
<1>1. s[p] \in Counter /\ p # Absent
  BY DEF Absent
<1>2. Charged(counters, place, fields, amount)[f] = [s EXCEPT ![p] = c]
  BY <1>1 DEF Charged
<1>3. c.used = s[p].used + amount
  BY <1>1 DEF Counter
<1>4. [s EXCEPT ![p] = c][p] = c
  OBVIOUS
<1> HIDE DEF c
<1> QED
  BY <1>2, <1>3, <1>4

(* A window that is kept has a counter in force, which _sync never leaves. *)
LEMMA KeptCounter ==
  ASSUME NEW reg \in Registry, OneConfiguration(reg), reg.state.cfg \in Configs,
         NEW f \in Kept
  PROVE  /\ reg.state.counter[f] \in 1..Len(reg.counters[f])
         /\ reg.state.counter[f] # Absent
         /\ reg.counters[f] \in Seq(Counter)
<1>1. f \in Fields /\ reg.state.cfg.window[f] # Absent
  BY DEF Kept
<1>2. /\ reg.state.counter[f] \in 0..Len(reg.counters[f])
      /\ reg.state.counter[f] # Absent
  BY <1>1 DEF OneConfiguration
<1>3. reg.counters[f] \in Seq(Counter) /\ Len(reg.counters[f]) \in Nat
  BY <1>1, RegistryParts
<1> QED
  BY <1>2, <1>3 DEF Absent

LEMMA SyncUsed ==
  ASSUME NEW reg \in Registry, OneConfiguration(reg), reg.state.cfg \in Configs,
         NEW cfg \in Configs, NEW f \in Kept
  PROVE  /\ Sync(reg, cfg).state.counter[f] = reg.state.counter[f]
         /\ Used(Sync(reg, cfg), f) = Used(reg, f)
<1> DEFINE c == reg.state.counter[f]
<1>1. /\ c \in 1..Len(reg.counters[f]) /\ c # Absent
      /\ reg.counters[f] \in Seq(Counter)
  BY KeptCounter
<1>2. f \in Fields /\ cfg.window[f] # Absent
  BY DEF Kept
<1>3. CASE reg.state.cfg = cfg
  BY <1>3 DEF Sync
<1>4. CASE reg.state.cfg # cfg
  <2>1. InBoth(reg, cfg, f)
    BY <1>1, <1>2 DEF InBoth
  <2>2. Sync(reg, cfg) = Replaced(reg, cfg)
    BY <1>4 DEF Sync
  <2>3. /\ Replaced(reg, cfg).state.counter[f] = c
        /\ Replaced(reg, cfg).counters[f] =
             [reg.counters[f] EXCEPT ![c].limit = cfg.window[f]]
    BY <1>2, <2>1 DEF Replaced
  <2>4. [reg.counters[f] EXCEPT ![c].limit = cfg.window[f]][c].used
          = reg.counters[f][c].used
    <3>1. reg.counters[f][c] \in Counter
      BY <1>1
    <3>2. [reg.counters[f] EXCEPT ![c].limit = cfg.window[f]][c]
            = [reg.counters[f][c] EXCEPT !.limit = cfg.window[f]]
      BY <1>1
    <3> QED
      BY <3>1, <3>2 DEF Counter
  <2> QED
    BY <2>2, <2>3, <2>4 DEF Used
<1> QED
  BY <1>3, <1>4

LEMMA StartUsed ==
  ASSUME NEW reg \in Registry, OneConfiguration(reg), reg.state.cfg \in Configs,
         NEW f \in Kept
  PROVE  /\ RecordRequestStart(reg).state.cfg = reg.state.cfg
         /\ Used(RecordRequestStart(reg), f) =
              IF f \in RequestFields THEN Used(reg, f) + 1 ELSE Used(reg, f)
<1> DEFINE c == reg.state.counter[f]
<1>1. c \in 1..Len(reg.counters[f])
  BY KeptCounter
<1>2. /\ reg.counters \in [Fields -> Seq(Counter)]
      /\ reg.state.counter \in [Fields -> Nat] /\ reg.state \in LimitState
  BY RegistryParts
<1>3. f \in Fields /\ RequestFields \in SUBSET Fields /\ 1 \in Nat
  BY KindOfField
<1>4. LET used == Charged(reg.counters, reg.state.counter, RequestFields, 1)[f][c].used
      IN  /\ f \in RequestFields => used = reg.counters[f][c].used + 1
          /\ f \notin RequestFields => used = reg.counters[f][c].used
  <2>1. reg.counters[f] \in Seq(Counter)
    BY KeptCounter
  <2>2. CASE f \in RequestFields
    <3> DEFINE cs == reg.counters
               pl == reg.state.counter
               fs == RequestFields
               n  == 1
    <3>1. /\ n \in Nat /\ f \in Fields /\ cs[f] \in Seq(Counter)
          /\ pl[f] \in 1..Len(cs[f]) /\ f \in fs
      BY <1>1, <1>3, <2>1, <2>2
    <3> HIDE DEF cs, pl, fs, n
    <3>2. Charged(cs, pl, fs, n)[f][pl[f]].used = cs[f][pl[f]].used + n
      BY ONLY <3>1, ChargeReaches
    <3> QED
      BY <2>2, <3>2 DEF cs, pl, fs, n
  <2>3. CASE f \notin RequestFields
    <3>1. Charged(reg.counters, reg.state.counter, RequestFields, 1)[f] = reg.counters[f]
      BY <1>3, <2>3 DEF Charged
    <3> QED
      BY <2>3, <3>1, Zenon
  <2> QED
    BY <2>2, <2>3
<1>5. /\ RecordRequestStart(reg).state.counter = reg.state.counter
      /\ RecordRequestStart(reg).state.cfg = reg.state.cfg
      /\ RecordRequestStart(reg).counters =
           Charged(reg.counters, reg.state.counter, RequestFields, 1)
  BY <1>2 DEF RecordRequestStart, LimitState
<1> QED
  BY <1>4, <1>5, Zenon DEF Used

LEMMA EndUsed ==
  ASSUME NEW reg \in Registry, OneConfiguration(reg), reg.state.cfg \in Configs,
         NEW current \in BOOLEAN, NEW place \in [Fields -> Nat], NEW tokens \in Nat,
         NEW f \in Kept, place[f] = reg.state.counter[f]
  PROVE  LET after == RecordRequestEnd(reg, current, place, tokens)
         IN  /\ after.state.cfg = reg.state.cfg
             /\ Used(after, f) =
                  IF f \in RequestFields THEN Used(reg, f) ELSE Used(reg, f) + tokens
<1> DEFINE c == reg.state.counter[f]
           after == RecordRequestEnd(reg, current, place, tokens)
<1>1. c \in 1..Len(reg.counters[f])
  BY KeptCounter
<1>2. /\ reg.counters \in [Fields -> Seq(Counter)] /\ reg.state \in LimitState
  BY RegistryParts
<1>3. f \in Fields /\ TokenFields \in SUBSET Fields
      /\ (f \in TokenFields <=> f \notin RequestFields)
  BY KindOfField
<1>4. LET used == Charged(reg.counters, place, TokenFields, tokens)[f][c].used
      IN  /\ f \in TokenFields => used = reg.counters[f][c].used + tokens
          /\ f \notin TokenFields => used = reg.counters[f][c].used
  <2>1. reg.counters[f] \in Seq(Counter) /\ place[f] = c /\ place[f] \in 1..Len(reg.counters[f])
    BY <1>1, KeptCounter
  <2>2. CASE f \in TokenFields
    <3> DEFINE cs == reg.counters
               fs == TokenFields
    <3>1. /\ tokens \in Nat /\ f \in Fields /\ cs[f] \in Seq(Counter)
          /\ place[f] \in 1..Len(cs[f]) /\ f \in fs
      BY <1>1, <1>3, <2>1, <2>2
    <3> HIDE DEF cs, fs
    <3>2. Charged(cs, place, fs, tokens)[f][place[f]].used = cs[f][place[f]].used + tokens
      BY ONLY <3>1, ChargeReaches
    <3> QED
      BY <2>1, <2>2, <3>2 DEF cs, fs
  <2>3. CASE f \notin TokenFields
    <3>1. Charged(reg.counters, place, TokenFields, tokens)[f] = reg.counters[f]
      BY <1>3, <2>3 DEF Charged
    <3> QED
      BY <2>3, <3>1, Zenon
  <2> QED
    BY <2>2, <2>3
<1>5. /\ after.state.counter = reg.state.counter
      /\ after.state.cfg = reg.state.cfg
      /\ after.counters = Charged(reg.counters, place, TokenFields, tokens)
  BY <1>2 DEF RecordRequestEnd, LimitState
<1> HIDE DEF after
<1> QED
  BY <1>3, <1>4, <1>5, Zenon DEF Used, after

LEMMA UsedIsNat ==
  ASSUME NEW reg \in Registry, OneConfiguration(reg), reg.state.cfg \in Configs
  PROVE  \A f \in Kept : Used(reg, f) \in Nat
<1> SUFFICES ASSUME NEW f \in Kept PROVE Used(reg, f) \in Nat
  OBVIOUS
<1>1. /\ reg.state.counter[f] \in 1..Len(reg.counters[f])
      /\ reg.counters[f] \in Seq(Counter)
  BY KeptCounter
<1>2. reg.counters[f][reg.state.counter[f]] \in Counter
  BY <1>1
<1> QED
  BY <1>2 DEF Used, Counter

LEMMA EndedParts ==
  ASSUME NEW q \in RequestState, NEW tokens \in 0..1
  PROVE  /\ Ended(q, tokens) \in RequestState /\ Ended(q, tokens).pc = "done"
         /\ Ended(q, tokens).tokens = tokens /\ Ended(q, tokens).attempt = q.attempt
<1>1. Freed(q) \in RequestState /\ Freed(q).attempt = q.attempt
  BY FreedOK
<1> HIDE DEF Freed
<1> QED
  BY <1>1 DEF Ended, RequestState

-----------------------------------------------------------------------------
LEMMA ChargesInit == LimitsInit => Charges
<1> SUFFICES ASSUME LimitsInit PROVE Charges
  OBVIOUS
<1>1. config \in Configs /\ config \in LimitsConfig /\ limits = FirstState(config)
  BY LimitsConstants DEF LimitsInit
<1>2. \A r \in Requests : /\ request[r].pc = "new" /\ request[r].attempt = 0
                          /\ request[r].tokens = 0
  BY DEF LimitsInit
<1>3. /\ Weight(AttemptOf(request), Requests) = 0
      /\ Weight(TokensOf(request), Requests) = 0
  <2>1. /\ \A r \in Requests \ {} : AttemptOf(request)[r] = 0
        /\ \A r \in Requests \ {} : TokensOf(request)[r] = 0
    BY <1>2 DEF AttemptOf, TokensOf
  <2> QED
    BY <2>1, {} \subseteq Requests, WeightOfSupport, NoUnits
<1>4. ASSUME NEW f \in Kept PROVE Used(limits, f) = 0
  <2>1. f \in Fields /\ config.window[f] # Absent
    BY <1>1 DEF Kept
  <2> QED
    BY <1>1, <2>1 DEF Used, FirstState
<1>5. limits.state.cfg = config
  BY <1>1, FirstStateOK
<1> QED
  BY <1>1, <1>2, <1>3, <1>4, <1>5 DEF Charges

(* A step of r that adds to its attempts and its tokens what it adds to    *)
(* the counters in force.                                                  *)
More(r, n, before, after, s) == after = IF s = r THEN before + n ELSE before

Charging(r, a, t) ==
  /\ limits'.state.cfg \in Configs
  /\ \A s \in Requests :
       /\ More(r, a, request[s].attempt, request'[s].attempt, s)
       /\ More(r, t, request[s].tokens, request'[s].tokens, s)
       /\ request'[s].pc # "done" => request'[s].tokens = 0
       /\ request'[s].pc = "in flight" =>
            \A f \in Kept : request'[s].place[f] = limits'.state.counter[f]
  /\ \A f \in Kept : Used(limits', f) =
       IF f \in RequestFields THEN Used(limits, f) + a ELSE Used(limits, f) + t

LEMMA ChargesStep ==
  ASSUME IInv, IInv', Charges, NEW r \in Requests, NEW a \in Nat, NEW t \in Nat,
         Charging(r, a, t)
  PROVE  Charges'
<1> DEFINE v == AttemptOf(request)
           w == AttemptOf(request')
           x == TokensOf(request)
           y == TokensOf(request')
<1>1. /\ request \in [Requests -> RequestState]
      /\ IsFiniteSet(Requests)
  BY LimitsConstants DEF IInv, LimitsTypeOK
<1>2. \A s \in Requests : v[s] \in Nat /\ x[s] \in Nat
  BY <1>1, CountsAreNat
<1>3. /\ \A s \in Requests : w[s] = IF s = r THEN v[s] + a ELSE v[s]
      /\ \A s \in Requests : y[s] = IF s = r THEN x[s] + t ELSE x[s]
  BY DEF Charging, More, AttemptOf, TokensOf
<1> HIDE DEF v, w, x, y
<1>4. Weight(w, Requests) = Weight(v, Requests) + a
  <2>1. /\ \A s \in Requests : v[s] \in Nat
        /\ \A s \in Requests : w[s] = IF s = r THEN v[s] + a ELSE v[s]
        /\ IsFiniteSet(Requests) /\ r \in Requests /\ a \in Nat
    BY <1>1, <1>2, <1>3
  <2> QED
    BY ONLY <2>1, WeightGrows
<1>5. Weight(y, Requests) = Weight(x, Requests) + t
  <2>1. /\ \A s \in Requests : x[s] \in Nat
        /\ \A s \in Requests : y[s] = IF s = r THEN x[s] + t ELSE x[s]
        /\ IsFiniteSet(Requests) /\ r \in Requests /\ t \in Nat
    BY <1>1, <1>2, <1>3
  <2> QED
    BY ONLY <2>1, WeightGrows
<1>6. \A f \in Kept : Used(limits', f) =
        IF f \in RequestFields THEN Weight(w, Requests) ELSE Weight(y, Requests)
  BY <1>4, <1>5, Zenon DEF Charges, Charging, v, x
<1> QED
  BY <1>6 DEF Charges, Charging, Used, AttemptOf, TokensOf, w, y

(* A step that starts and ends no call, synchronised or not.               *)
Quiet ==
  /\ limits'.state.cfg \in Configs
  /\ \A s \in Requests :
       /\ request'[s].attempt = request[s].attempt
       /\ request'[s].tokens = request[s].tokens
       /\ request'[s].pc # "done" => request[s].pc # "done"
       /\ request'[s].pc = "in flight" =>
            request[s].pc = "in flight" /\ request'[s].place = request[s].place
  /\ \A f \in Kept : /\ limits'.state.counter[f] = limits.state.counter[f]
                     /\ Used(limits', f) = Used(limits, f)

LEMMA QuietCharges ==
  ASSUME IInv, IInv', Charges, NEW r \in Requests,
         Quiet
  PROVE  Charges'
<1>1. /\ request \in [Requests -> RequestState] /\ limits \in Registry
      /\ OneConfiguration(limits) /\ limits.state.cfg \in Configs
  BY DEF IInv, LimitsTypeOK, Charges
<1>2. \A s \in Requests : request[s].attempt \in Nat /\ request[s].tokens \in Nat
  BY <1>1, CountsAreNat
<1>3. \A f \in Kept : Used(limits, f) \in Nat
  BY <1>1, UsedIsNat
<1>4. \A n \in Nat : n + 0 = n
  OBVIOUS
<1>5. ASSUME NEW s \in Requests
      PROVE  /\ More(r, 0, request[s].attempt, request'[s].attempt, s)
             /\ More(r, 0, request[s].tokens, request'[s].tokens, s)
             /\ request'[s].pc # "done" => request'[s].tokens = 0
             /\ request'[s].pc = "in flight" =>
                  \A f \in Kept : request'[s].place[f] = limits'.state.counter[f]
  <2>1. /\ More(r, 0, request[s].attempt, request[s].attempt, s)
        /\ More(r, 0, request[s].tokens, request[s].tokens, s)
    BY <1>2, <1>4, Zenon DEF More
  <2> QED
    BY <2>1, Zenon DEF Quiet, Charges
<1>6. ASSUME NEW f \in Kept
      PROVE  Used(limits', f) =
               IF f \in RequestFields THEN Used(limits, f) + 0 ELSE Used(limits, f) + 0
  <2>1. Used(limits', f) = Used(limits, f)
    BY Zenon DEF Quiet
  <2> QED
    BY <1>3, <1>4, <2>1, Zenon
<1>7. Charging(r, 0, 0)
  BY <1>5, <1>6, Zenon DEF Charging, Quiet
<1> QED
  BY <1>7, 0 \in Nat, ChargesStep, Zenon

(* What a look of r at the limits does to the registry and to the others.  *)
LEMMA SyncedCharges ==
  ASSUME IInv, Charges, NEW r \in Requests
  PROVE  /\ Synced(r).state.cfg \in Configs
         /\ \A f \in Kept : /\ Synced(r).state.counter[f] = limits.state.counter[f]
                             /\ Used(Synced(r), f) = Used(limits, f)
         /\ \A s \in Requests : /\ Holders(r)[s].pc = request[s].pc
                                 /\ Holders(r)[s].attempt = request[s].attempt
                                 /\ Holders(r)[s].tokens = request[s].tokens
                                 /\ Holders(r)[s].place = request[s].place
<1>1. /\ request \in [Requests -> RequestState] /\ limits \in Registry
      /\ OneConfiguration(limits) /\ limits.state.cfg \in Configs
  BY DEF IInv, LimitsTypeOK, Charges
<1>2. request[r].config \in Configs
  BY <1>1, RequestParts
<1>3. Synced(r).state.cfg \in Configs
  BY <1>1, <1>2, SyncOK, LimitsConstants DEF Synced
<1>4. \A f \in Kept : /\ Synced(r).state.counter[f] = limits.state.counter[f]
                      /\ Used(Synced(r), f) = Used(limits, f)
  BY <1>1, <1>2, SyncUsed DEF Synced
<1>5. ASSUME NEW s \in Requests
      PROVE  Holders(r)[s] \in {request[s], [request[s] EXCEPT !.current = FALSE]}
  BY DEF Holders
<1>6. ASSUME NEW s \in Requests
      PROVE  /\ Holders(r)[s].pc = request[s].pc
             /\ Holders(r)[s].attempt = request[s].attempt
             /\ Holders(r)[s].tokens = request[s].tokens
             /\ Holders(r)[s].place = request[s].place
  <2>1. request[s] \in RequestState
    BY <1>1
  <2>2. Holders(r)[s] \in {request[s], [request[s] EXCEPT !.current = FALSE]}
    BY <1>5
  <2> QED
    BY <2>1, <2>2 DEF RequestState
<1> QED
  BY <1>3, <1>4, <1>6

(* A request that finds no budget charges nothing.                         *)
LEMMA RefusalCharges ==
  ASSUME IInv, IInv', Charges, NEW r \in Requests, request[r].pc = "resolving",
         limits' = Synced(r), request' = [Holders(r) EXCEPT ![r] = Ended(@, 0)]
  PROVE  Charges'
<1> DEFINE held == Holders(r)
           q == Ended(held[r], 0)
<1>1. held \in [Requests -> RequestState]
  BY SyncedOK
<1>2. request' = [held EXCEPT ![r] = q]
  OBVIOUS
<1>3. held[r] \in RequestState
  BY <1>1
<1>4. q.pc = "done" /\ q.tokens = 0 /\ q.attempt = held[r].attempt
  BY <1>3, 0 \in 0..1, EndedParts, Zenon
<1>5. \A s \in Requests : /\ held[s].pc = request[s].pc
                          /\ held[s].attempt = request[s].attempt
                          /\ held[s].tokens = request[s].tokens
                          /\ held[s].place = request[s].place
  BY SyncedCharges
<1> HIDE DEF held, q
<1>6. \A s \in Requests : request'[s] = IF s = r THEN q ELSE held[s]
  BY <1>1, <1>2
<1>7. request[r].tokens = 0
  BY DEF Charges
<1>8. \A s \in Requests :
        /\ request'[s].attempt = request[s].attempt
        /\ request'[s].tokens = request[s].tokens
        /\ request'[s].pc # "done" => request[s].pc # "done"
        /\ request'[s].pc = "in flight" =>
             request[s].pc = "in flight" /\ request'[s].place = request[s].place
  BY <1>4, <1>5, <1>6, <1>7
<1>9. /\ limits'.state.cfg \in Configs
      /\ \A f \in Kept : /\ limits'.state.counter[f] = limits.state.counter[f]
                          /\ Used(limits', f) = Used(limits, f)
  BY SyncedCharges, Zenon
<1>10. Quiet
  BY <1>8, <1>9, Zenon DEF Quiet
<1> QED
  BY <1>10, QuietCharges

(* An attempt: one more for r and for the request windows in force.        *)
LEMMA AttemptCharges ==
  ASSUME IInv, IInv', Charges, NEW r \in Requests, Attempt(r),
         request[r].pc # "done"
  PROVE  Charges'
<1> DEFINE reg == Synced(r)
           held == Holders(r)
           q == Begun(held[r], reg.state.counter)
<1>1. /\ request \in [Requests -> RequestState] /\ limits \in Registry
      /\ OneConfiguration(limits) /\ limits.state.cfg \in Configs
  BY DEF IInv, LimitsTypeOK, Charges
<1>3. /\ reg \in Registry /\ OneConfiguration(reg)
      /\ held \in [Requests -> RequestState]
  BY SyncedOK
<1>4. reg.state.cfg \in Configs
  BY SyncedCharges
<1>5. \A f \in Kept : /\ reg.state.counter[f] = limits.state.counter[f]
                      /\ Used(reg, f) = Used(limits, f)
  BY SyncedCharges
<1>6. \A s \in Requests : /\ held[s].pc = request[s].pc
                          /\ held[s].attempt = request[s].attempt
                          /\ held[s].tokens = request[s].tokens
                          /\ held[s].place = request[s].place
  BY SyncedCharges
<1>7. request' = [held EXCEPT ![r] = q] /\ limits' = RecordRequestStart(reg)
  BY Zenon DEF Attempt
<1>8. /\ q.pc = "in flight" /\ q.attempt = held[r].attempt + 1
      /\ q.tokens = held[r].tokens /\ q.place = reg.state.counter
  <2>1. held[r] \in RequestState
    BY <1>3
  <2> HIDE DEF held, reg
  <2> QED
    BY <2>1 DEF Begun, RequestState
<1> HIDE DEF reg, held, q
<1>9. \A s \in Requests : request'[s] = IF s = r THEN q ELSE held[s]
  BY <1>3, <1>7
<1>10. \A s \in Requests : request[s].tokens \in Nat
  BY <1>1, CountsAreNat
<1>11. \A f \in Kept : Used(limits, f) \in Nat
  BY <1>1, UsedIsNat
<1>12. \A n \in Nat : n + 0 = n
  OBVIOUS
<1>13. RecordRequestStart(reg).state.counter = reg.state.counter
  BY <1>3, StartOK
<1>14. ASSUME NEW f \in Kept
       PROVE  /\ RecordRequestStart(reg).state.cfg = reg.state.cfg
              /\ Used(RecordRequestStart(reg), f) =
                   IF f \in RequestFields THEN Used(reg, f) + 1 ELSE Used(reg, f)
  BY <1>3, <1>4, StartUsed
<1>15. ASSUME NEW f \in Kept
       PROVE  Used(limits', f) =
                IF f \in RequestFields THEN Used(limits, f) + 1 ELSE Used(limits, f) + 0
  BY <1>5, <1>7, <1>11, <1>12, <1>14, Zenon
<1>16. limits'.state.cfg \in Configs /\ limits'.state.counter = reg.state.counter
  <2>1. RecordRequestStart(reg).state.cfg = reg.state.cfg
    BY <1>3, RegistryParts DEF RecordRequestStart, LimitState
  <2> QED
    BY <1>4, <1>7, <1>13, <2>1, Zenon
<1>17. ASSUME NEW s \in Requests
       PROVE  /\ More(r, 1, request[s].attempt, request'[s].attempt, s)
              /\ More(r, 0, request[s].tokens, request'[s].tokens, s)
              /\ request'[s].pc # "done" => request'[s].tokens = 0
              /\ request'[s].pc = "in flight" =>
                   \A f \in Kept : request'[s].place[f] = limits'.state.counter[f]
  <2>1. CASE s = r
    <3>1. request'[s] = q /\ request[r].tokens = 0
      BY <1>9, <2>1, Zenon DEF Charges
    <3>2. /\ request'[s].attempt = request[s].attempt + 1
          /\ request'[s].tokens = request[s].tokens /\ request'[s].tokens = 0
          /\ request'[s].place = reg.state.counter
      BY <1>6, <1>8, <2>1, <3>1, Zenon
    <3> QED
      BY <1>10, <1>12, <1>16, <2>1, <3>2, Zenon DEF More
  <2>2. CASE s # r
    <3>1. request'[s] = held[s]
      BY <1>9, <2>2, Zenon
    <3>2. /\ request'[s].attempt = request[s].attempt
          /\ request'[s].tokens = request[s].tokens
          /\ request'[s].pc = request[s].pc /\ request'[s].place = request[s].place
      BY <1>6, <3>1, Zenon
    <3> QED
      BY <1>5, <1>16, <2>2, <3>2, Zenon DEF More, Charges
  <2> QED
    BY <2>1, <2>2
<1>18. Charging(r, 1, 0)
  BY <1>15, <1>16, <1>17, Zenon DEF Charging
<1> QED
  BY <1>18, 0 \in Nat, 1 \in Nat, ChargesStep, Zenon

(* A release: the tokens of r, and of the token windows in force.          *)
LEMMA ReleaseCharges ==
  ASSUME IInv, IInv', Charges, NEW r \in Requests, NEW tokens \in 0..1,
         Release(r, tokens),
         NEW q \in RequestState, request' = [request EXCEPT ![r] = q],
         q.attempt = request[r].attempt, q.tokens = tokens,
         q.pc \in {"done", "backoff"}, q.pc = "backoff" => tokens = 0
  PROVE  Charges'
<1>1. /\ request \in [Requests -> RequestState] /\ limits \in Registry
      /\ OneConfiguration(limits) /\ limits.state.cfg \in Configs
  BY DEF IInv, LimitsTypeOK, Charges
<1>2. request[r].current \in BOOLEAN /\ request[r].place \in [Fields -> Nat]
  BY <1>1, RequestParts
<1>3. /\ limits' = RecordRequestEnd(limits, request[r].current, request[r].place, tokens)
      /\ request[r].pc = "in flight"
  BY Zenon DEF Release
<1>4. tokens \in Nat
  OBVIOUS
<1>5. /\ limits'.state.counter = limits.state.counter
      /\ limits'.state.cfg \in Configs
  <2>1. limits.state \in LimitState
    BY <1>1, RegistryParts
  <2> QED
    BY <1>1, <1>3, <2>1 DEF RecordRequestEnd, LimitState
<1>6. \A f \in Kept : Used(limits, f) \in Nat
  BY <1>1, UsedIsNat
<1>7. \A n \in Nat : n + 0 = n /\ 0 + n = n
  OBVIOUS
<1>8. ASSUME NEW f \in Kept
      PROVE  Used(limits', f) =
               IF f \in RequestFields THEN Used(limits, f) + 0 ELSE Used(limits, f) + tokens
  <2> DEFINE place == request[r].place
             current == request[r].current
  <2>1. place[f] = limits.state.counter[f]
    BY <1>3 DEF Charges
  <2>2. place \in [Fields -> Nat] /\ current \in BOOLEAN
    BY <1>2
  <2> HIDE DEF place, current
  <2>3. Used(RecordRequestEnd(limits, current, place, tokens), f) =
          IF f \in RequestFields THEN Used(limits, f) ELSE Used(limits, f) + tokens
    BY ONLY <1>1, <1>4, <2>1, <2>2, f \in Kept, EndUsed
  <2> QED
    BY <1>3, <1>6, <1>7, <2>3, Zenon DEF place, current
<1>9. \A s \in Requests : request'[s] = IF s = r THEN q ELSE request[s]
  BY <1>1
<1>10. ASSUME NEW s \in Requests
       PROVE  /\ More(r, 0, request[s].attempt, request'[s].attempt, s)
              /\ More(r, tokens, request[s].tokens, request'[s].tokens, s)
              /\ request'[s].pc # "done" => request'[s].tokens = 0
              /\ request'[s].pc = "in flight" =>
                   \A f \in Kept : request'[s].place[f] = limits'.state.counter[f]
  <2>1. CASE s = r
    <3>1. request'[s] = q
      BY <1>9, <2>1, Zenon
    <3>2. request[s].tokens = 0 /\ request[s].attempt \in Nat
      <4>1. request[s].pc # "done"
        BY <1>3, <2>1
      <4> QED
        BY <1>1, <4>1, CountsAreNat, Zenon DEF Charges
    <3>3. q.pc # "in flight" /\ (q.pc # "done" => q.tokens = 0)
      OBVIOUS
    <3>4. /\ q.attempt = request[s].attempt + 0
          /\ q.tokens = request[s].tokens + tokens
      BY <1>4, <1>7, <2>1, <3>2, Zenon
    <3> QED
      BY <2>1, <3>1, <3>3, <3>4, Zenon DEF More
  <2>2. CASE s # r
    <3>1. request'[s] = request[s]
      BY <1>9, <2>2, Zenon
    <3>2. /\ request[s].pc # "done" => request[s].tokens = 0
          /\ request[s].pc = "in flight" =>
               \A f \in Kept : request[s].place[f] = limits.state.counter[f]
      BY Zenon DEF Charges
    <3>3. limits'.state.counter = limits.state.counter
      BY <1>5
    <3>4. /\ More(r, 0, request[s].attempt, request'[s].attempt, s)
          /\ More(r, tokens, request[s].tokens, request'[s].tokens, s)
      BY ONLY <2>2, <3>1 DEF More
    <3> QED
      BY <3>1, <3>2, <3>3, <3>4, Zenon
  <2> QED
    BY <2>1, <2>2
<1>11. Charging(r, 0, tokens)
  BY <1>5, <1>8, <1>10, Zenon DEF Charging
<1> QED
  BY <1>4, <1>11, 0 \in Nat, ChargesStep, Zenon

(* Every step keeps the charges, one case per action.                      *)
LEMMA ChargesNext == IInv /\ IInv' /\ Charges /\ [LimitsNext]_limitsVars => Charges'
<1> SUFFICES ASSUME IInv, IInv', Charges, [LimitsNext]_limitsVars PROVE Charges'
  OBVIOUS
<1>1. /\ request \in [Requests -> RequestState] /\ limits \in Registry
      /\ OneConfiguration(limits) /\ limits.state.cfg \in Configs
  BY DEF IInv, LimitsTypeOK, Charges
<1>2. ASSUME NEW cfg \in Configs, Edit(cfg) PROVE Charges'
  BY <1>2 DEF Edit, Charges, Used, AttemptOf, TokensOf
<1>4. ASSUME NEW r \in Requests, Arrive(r) PROVE Charges'
  <2> DEFINE q == [request[r] EXCEPT !.pc = "resolving", !.config = config]
  <2>1. /\ request' = [request EXCEPT ![r] = q] /\ request[r].pc = "new"
        /\ limits' = limits
    BY <1>4 DEF Arrive
  <2>2. /\ q \in RequestState /\ q.pc = "resolving" /\ q.attempt = request[r].attempt
        /\ q.tokens = request[r].tokens
    <3>1. request[r] \in RequestState /\ config \in Configs
      BY <1>1 DEF IInv, LimitsTypeOK
    <3> QED
      BY <3>1 DEF RequestState
  <2> HIDE DEF q
  <2>3. \A s \in Requests : request'[s] = IF s = r THEN q ELSE request[s]
    BY <1>1, <2>1
  <2>4. Quiet
    BY <1>1, <2>1, <2>2, <2>3 DEF Quiet
  <2> QED
    BY <2>4, QuietCharges
<1>5. ASSUME NEW r \in Requests, Launch(r) PROVE Charges'
  <2>1. request[r].pc = "resolving"
    BY <1>5, Zenon DEF Launch
  <2>2. CASE Attempt(r)
    BY <2>1, <2>2, AttemptCharges
  <2>3. CASE limits' = Synced(r) /\ request' = [Holders(r) EXCEPT ![r] = Ended(@, 0)]
    BY <2>1, <2>3, RefusalCharges
  <2> QED
    BY <1>5, <2>2, <2>3 DEF Launch
<1>6. ASSUME NEW r \in Requests, Failover(r) PROVE Charges'
  BY <1>6, AttemptCharges DEF Failover
<1>7. ASSUME NEW r \in Requests, Answer(r) PROVE Charges'
  <2> DEFINE q == Ended(request[r], 1)
  <2>1. /\ q \in RequestState /\ q.pc = "done" /\ q.tokens = 1
        /\ q.attempt = request[r].attempt
    BY <1>1, 1 \in 0..1, EndedParts, Zenon
  <2>2. Release(r, 1) /\ request' = [request EXCEPT ![r] = q]
    BY <1>7 DEF Answer
  <2> HIDE DEF q
  <2> QED
    BY <2>1, <2>2, 1 \in 0..1, ReleaseCharges
<1>8. ASSUME NEW r \in Requests, Fail(r) PROVE Charges'
  <2>1. CASE request' = [request EXCEPT ![r] = Ended(request[r], 0)]
    <3> DEFINE q == Ended(request[r], 0)
    <3>1. /\ q \in RequestState /\ q.pc = "done" /\ q.tokens = 0
          /\ q.attempt = request[r].attempt
      BY <1>1, 0 \in 0..1, EndedParts, Zenon
    <3>2. Release(r, 0) /\ request' = [request EXCEPT ![r] = q]
      BY <1>8, <2>1 DEF Fail
    <3> HIDE DEF q
    <3> QED
      BY <3>1, <3>2, 0 \in 0..1, ReleaseCharges
  <2>2. CASE request' = [request EXCEPT ![r] = [Freed(request[r]) EXCEPT !.pc = "backoff"]]
    <3> DEFINE q == [Freed(request[r]) EXCEPT !.pc = "backoff"]
    <3>1. Release(r, 0) /\ request' = [request EXCEPT ![r] = q]
      BY <1>8, <2>2 DEF Fail
    <3>2. request[r] \in RequestState /\ request[r].pc = "in flight"
      BY <1>1, <3>1, Zenon DEF Release
    <3>3. request[r].tokens = 0
      BY <3>2 DEF Charges
    <3>4. /\ q \in RequestState /\ q.pc = "backoff" /\ q.tokens = 0
          /\ q.attempt = request[r].attempt
      <4>1. Nowhere \in [Fields -> Nat]
        BY DEF Nowhere, Absent
      <4> QED
        BY <3>2, <3>3, <4>1 DEF Freed, RequestState
    <3> HIDE DEF q
    <3> QED
      BY <3>1, <3>4, 0 \in 0..1, ReleaseCharges
  <2> QED
    BY <1>8, <2>1, <2>2 DEF Fail
<1>9. CASE UNCHANGED limitsVars
  BY <1>9 DEF limitsVars, Charges, Used, AttemptOf, TokensOf
<1> QED
  BY <1>2, <1>4, <1>5, <1>6, <1>7, <1>8, <1>9 DEF LimitsNext

-----------------------------------------------------------------------------
(* The state variables of Limits keep their types, and a request that holds *)
(* the current LimitState holds its counters.                              *)
THEOREM TypeCorrect == LimitsSpec => []LimitsTypeOK
<1>1. IInv => LimitsTypeOK
  BY DEF IInv
<1> QED
  BY <1>1, Invariant, PTL

(* _sync carries in_flight over: whatever is edited, and whichever of the  *)
(* configurations the requests under way look at, the state in force counts *)
(* the calls under way and the releases that came too late for it.         *)
THEOREM SlotsCarriedOver == LimitsSpec => []InFlightCarriedOver
<1>1. IInv => InFlightCarriedOver
  BY DEF IInv
<1> QED
  BY <1>1, Invariant, PTL

(* However requests of several configurations alternate, the windows and   *)
(* limits in force are those of one of them.                               *)
THEOREM LimitsOfOneConfiguration == LimitsSpec => []OneConfigurationInForce
<1>1. IInv => OneConfigurationInForce
  BY DEF IInv, OneConfiguration, OneConfigurationInForce
<1> QED
  BY <1>1, Invariant, PTL

(* Replaced counters (limits.py:174, _sync) never take a charge with them: *)
(* a window that every configuration has counts every attempt and every    *)
(* token of every request, whatever is edited in between and whichever     *)
(* state the request charged.                                              *)
THEOREM ChargesKept == LimitsSpec => []KeptWindowKeepsCharges
<1>1. IInv /\ Charges => KeptWindowKeepsCharges
  BY AttemptsIsWeight, TokensIsWeight DEF IInv, LimitsTypeOK, Charges, Used, KeptWindowKeepsCharges
<1> QED
  BY <1>1, Invariant, ChargesInit, ChargesNext, PTL DEF LimitsSpec

-----------------------------------------------------------------------------
USE RingConstants

(* The buckets of a window are told apart by the remainder of the slot.    *)
LEMMA ResiduesDiffer ==
  ASSUME NEW s \in Int, NEW t \in Int, s < t, t - s < Size
  PROVE  s % Size # t % Size
<1>1. /\ s = Size * (s \div Size) + (s % Size)
      /\ t = Size * (t \div Size) + (t % Size)
  OBVIOUS
<1>2. SUFFICES ASSUME s % Size = t % Size PROVE FALSE
  OBVIOUS
<1> DEFINE k == (t \div Size) - (s \div Size)
<1>3. k \in Int /\ t - s = Size * k
  <2>1. s \div Size \in Int /\ t \div Size \in Int
    OBVIOUS
  <2> QED
    BY <1>1, <1>2, <2>1
<1>4. CASE k <= 0
  BY <1>3, <1>4
<1>5. CASE k >= 1
  BY <1>3, <1>5
<1> QED
  BY <1>3, <1>4, <1>5

LEMMA BucketOf ==
  ASSUME NEW s \in Int
  PROVE  s % Size \in Bucket
BY DEF Bucket

LEMMA RingParts ==
  ASSUME NEW rg \in Ring
  PROVE  rg.counts \in [Bucket -> Nat] /\ rg.lastSlot \in Nat
BY DEF Ring

-----------------------------------------------------------------------------
LEMMA AdvanceIsRing ==
  ASSUME NEW rg \in Ring, NEW slot \in Nat
  PROVE  /\ Advance(rg, slot) \in Ring
         /\ rg.lastSlot <= slot => Advance(rg, slot).lastSlot = slot
<1> DEFINE gone(b) == \/ slot - rg.lastSlot >= Size
                      \/ \E s \in (rg.lastSlot + 1)..slot : s % Size = b
           left == [b \in Bucket |-> IF gone(b) THEN 0 ELSE rg.counts[b]]
           last == IF slot > rg.lastSlot THEN slot ELSE rg.lastSlot
<1>1. rg.counts \in [Bucket -> Nat] /\ rg.lastSlot \in Nat
  BY RingParts
<1>2. Advance(rg, slot) = [counts |-> left, lastSlot |-> last]
  BY Zenon DEF Advance
<1>3. left \in [Bucket -> Nat]
  <2> HIDE DEF gone
  <2> QED
    BY <1>1
<1>4. last \in Nat /\ (rg.lastSlot <= slot => last = slot)
  BY <1>1
<1> HIDE DEF left, last
<1> QED
  BY <1>2, <1>3, <1>4 DEF Ring

LEMMA RecordedIsRing ==
  ASSUME NEW rg \in Ring, NEW slot \in Nat, NEW amount \in Nat
  PROVE  /\ Recorded(rg, amount, slot) \in Ring
         /\ rg.lastSlot <= slot => Recorded(rg, amount, slot).lastSlot = slot
         /\ Recorded(rg, amount, slot).counts =
              [Advance(rg, slot).counts EXCEPT ![slot % Size] = @ + amount]
<1> DEFINE ad == Advance(rg, slot)
           b == slot % Size
<1>1. ad \in Ring /\ (rg.lastSlot <= slot => ad.lastSlot = slot)
  BY AdvanceIsRing
<1>2. b \in Bucket
  BY BucketOf
<1>3. Recorded(rg, amount, slot) = [ad EXCEPT !.counts[b] = @ + amount]
  BY DEF Recorded
<1> HIDE DEF ad, b
<1>4. ad.counts \in [Bucket -> Nat] /\ ad.lastSlot \in Nat
  BY <1>1, RingParts
<1>5. [ad EXCEPT !.counts[b] = @ + amount] =
        [counts |-> [ad.counts EXCEPT ![b] = @ + amount],
         lastSlot |-> ad.lastSlot]
  BY <1>1 DEF Ring
<1>6. [ad.counts EXCEPT ![b] = @ + amount] \in [Bucket -> Nat]
  BY <1>2, <1>4
<1> QED
  BY <1>1, <1>3, <1>4, <1>5, <1>6 DEF Ring, ad, b

(* What TypeOK leaves out: the clock has not passed below its start, so    *)
(* every slot of the window is a slot of the clock.                        *)
TypeInv == TypeOK /\ now >= Epoch

LEMMA TypeInvInit == Init => TypeInv
BY DEF Init, TypeInv, TypeOK, Fresh, Ring

LEMMA TypeInvNext == TypeInv /\ [Next]_vars => TypeInv'
<1> SUFFICES ASSUME TypeInv, [Next]_vars PROVE TypeInv'
  OBVIOUS
<1> USE DEF TypeInv, TypeOK
<1>1. CASE Admit
  <2> DEFINE charged == Recorded(ring, 1, now)
  <2>1. charged \in Ring /\ charged.lastSlot = now
    BY RecordedIsRing
  <2>2. ring' = charged /\ UNCHANGED <<now, saved>>
    BY <1>1 DEF Admit
  <2> HIDE DEF charged
  <2> QED
    BY <2>1, <2>2 DEF Ring
<1>2. CASE Look
  <2> DEFINE cleaned == Advance(ring, now)
  <2>1. cleaned \in Ring /\ cleaned.lastSlot = now
    BY AdvanceIsRing
  <2>2. ring' = cleaned /\ UNCHANGED <<now, saved>>
    BY <1>2 DEF Look
  <2> HIDE DEF cleaned
  <2> QED
    BY <2>1, <2>2 DEF Ring
<1>3. CASE Flush
  BY <1>3, RingParts DEF Flush
<1>4. CASE Restart
  BY <1>4, RingParts DEF Restart
<1>5. ASSUME NEW amount \in Amounts, Charge(amount) PROVE TypeInv'
  <2> DEFINE charged == Recorded(ring, amount, now)
  <2>1. charged \in Ring /\ charged.lastSlot = now
    BY RecordedIsRing
  <2>2. ring' = charged /\ UNCHANGED <<now, saved>>
    BY <1>5 DEF Charge
  <2> HIDE DEF charged
  <2> QED
    BY <2>1, <2>2 DEF Ring
<1>6. ASSUME NEW slots \in 1..Size, Pass(slots) PROVE TypeInv'
  BY <1>6 DEF Pass, Ring
<1>7. CASE UNCHANGED vars
  BY <1>7 DEF vars
<1> QED
  BY <1>1, <1>2, <1>3, <1>4, <1>5, <1>6, <1>7 DEF Next

(* The ring is always well formed, and the saved row, the counter and the  *)
(* wall clock are in this order: what limits.py:54 (max) must maintain     *)
(* across every load().                                                    *)
THEOREM WindowTypeCorrect == Spec => []TypeOK
<1>1. Spec => []TypeInv
  BY TypeInvInit, TypeInvNext, PTL DEF Spec
<1> QED
  BY <1>1, PTL DEF TypeInv

-----------------------------------------------------------------------------
(* Cleaning changes nothing that can be seen of the last Size slots.       *)
LEMMA AdvanceKeepsView ==
  ASSUME NEW rg \in Ring, NEW slot \in Nat, rg.lastSlot <= slot
  PROVE  View(Advance(rg, slot), slot) = View(rg, slot)
<1> DEFINE ad == Advance(rg, slot)
<1>1. ad.lastSlot = slot /\ rg.lastSlot \in Nat
  BY AdvanceIsRing, RingParts
<1>2. ASSUME NEW age \in 0..(Size - 1)
      PROVE  View(ad, slot)[age] = View(rg, slot)[age]
  <2> DEFINE s == slot - age
  <2>1. s \in Int /\ s <= slot /\ slot - Size < s
    OBVIOUS
  <2>2. s % Size \in Bucket
    BY <2>1, BucketOf
  <2>3. View(ad, slot)[age] = ad.counts[s % Size]
    BY <1>1, <2>1 DEF View
  <2>4. View(rg, slot)[age] =
          IF rg.lastSlot - Size < s /\ s <= rg.lastSlot
          THEN rg.counts[s % Size] ELSE 0
    BY Zenon DEF View
  <2> HIDE DEF ad, s
  <2>5. CASE s <= rg.lastSlot
    <3>1. ASSUME NEW t \in (rg.lastSlot + 1)..slot PROVE t % Size # s % Size
      <4>1. t \in Int /\ s < t /\ t - s < Size
        BY <1>1, <2>1, <2>5
      <4> QED
        BY <2>1, <4>1, ResiduesDiffer
    <3>2. slot - rg.lastSlot < Size /\ rg.lastSlot - Size < s
      BY <1>1, <2>1, <2>5
    <3>3. ad.counts[s % Size] = rg.counts[s % Size]
      BY <1>1, <2>2, <3>1, <3>2 DEF Advance, ad
    <3> QED
      BY <2>3, <2>4, <2>5, <3>2, <3>3
  <2>6. CASE s > rg.lastSlot
    <3>1. s \in (rg.lastSlot + 1)..slot
      BY <1>1, <2>1, <2>6
    <3>2. ad.counts[s % Size] = 0
      BY <2>2, <3>1, Zenon DEF Advance, ad
    <3> QED
      BY <1>1, <2>1, <2>3, <2>4, <2>6, <3>2
  <2> QED
    BY <1>1, <2>1, <2>5, <2>6
<1> QED
  BY <1>2, Zenon DEF View

(* A charge shows at age 0 and nowhere else.                               *)
LEMMA RecordedShows ==
  ASSUME NEW rg \in Ring, NEW slot \in Nat, rg.lastSlot <= slot,
         NEW amount \in Nat
  PROVE  View(Recorded(rg, amount, slot), slot) =
           [View(rg, slot) EXCEPT ![0] = @ + amount]
<1> DEFINE ad == Advance(rg, slot)
           rec == Recorded(rg, amount, slot)
<1>1. /\ ad \in Ring /\ ad.lastSlot = slot
      /\ rec \in Ring /\ rec.lastSlot = slot
  BY AdvanceIsRing, RecordedIsRing
<1>2. rec.counts = [ad.counts EXCEPT ![slot % Size] = @ + amount]
  BY RecordedIsRing
<1>3. View(ad, slot) = View(rg, slot)
  BY AdvanceKeepsView
<1> HIDE DEF ad, rec
<1>4. ad.counts \in [Bucket -> Nat]
  BY <1>1, RingParts
<1>5. ASSUME NEW age \in 0..(Size - 1)
      PROVE  View(rec, slot)[age] =
               IF age = 0 THEN View(ad, slot)[age] + amount
                          ELSE View(ad, slot)[age]
  <2> DEFINE s == slot - age
  <2>1. s \in Int /\ s <= slot /\ slot - Size < s /\ slot \in Int
    OBVIOUS
  <2>2. /\ View(rec, slot)[age] = rec.counts[s % Size]
        /\ View(ad, slot)[age] = ad.counts[s % Size]
    BY <1>1, <2>1 DEF View
  <2>3. s % Size \in Bucket
    BY <2>1, BucketOf
  <2>4. CASE age = 0
    <3>1. s = slot
      BY <2>4
    <3> QED
      BY <1>2, <1>4, <2>2, <2>3, <2>4, <3>1
  <2>5. CASE age # 0
    <3>1. s < slot /\ slot - s < Size
      BY <2>5
    <3>2. s % Size # slot % Size
      BY <2>1, <3>1, ResiduesDiffer
    <3> QED
      BY <1>2, <1>4, <2>2, <2>3, <2>5, <3>2
  <2> QED
    BY <2>4, <2>5
<1>6. /\ DOMAIN View(rec, slot) = 0..(Size - 1)
      /\ DOMAIN View(ad, slot) = 0..(Size - 1)
      /\ View(rec, slot) = [age \in 0..(Size - 1) |-> View(rec, slot)[age]]
      /\ View(ad, slot) = [age \in 0..(Size - 1) |-> View(ad, slot)[age]]
  BY DEF View
<1>7. View(rec, slot) = [View(ad, slot) EXCEPT ![0] = @ + amount]
  BY <1>5, <1>6
<1> QED
  BY <1>3, <1>7 DEF rec

(* Time moves every charge to a greater age and drops the oldest.          *)
LEMMA PassAges ==
  ASSUME NEW rg \in Ring, NEW slot \in Nat, rg.lastSlot <= slot,
         NEW slots \in 1..Size
  PROVE  View(rg, slot + slots) = Window!Aged(View(rg, slot), slots)
<1>1. rg.lastSlot \in Nat
  BY RingParts
<1>2. ASSUME NEW age \in 0..(Size - 1)
      PROVE  View(rg, slot + slots)[age] =
               IF age >= slots THEN View(rg, slot)[age - slots] ELSE 0
  <2> DEFINE s == slot + slots - age
  <2>1. s \in Int
    OBVIOUS
  <2>2. View(rg, slot + slots)[age] =
          IF rg.lastSlot - Size < s /\ s <= rg.lastSlot
          THEN rg.counts[s % Size] ELSE 0
    BY DEF View
  <2>3. CASE age >= slots
    <3>1. age - slots \in 0..(Size - 1) /\ slot - (age - slots) = s
      BY <2>3
    <3>2. View(rg, slot)[age - slots] =
            IF rg.lastSlot - Size < slot - (age - slots)
               /\ slot - (age - slots) <= rg.lastSlot
            THEN rg.counts[(slot - (age - slots)) % Size] ELSE 0
      BY <3>1, Zenon DEF View
    <3> HIDE DEF s
    <3> QED
      BY <2>2, <2>3, <3>1, <3>2
  <2>4. CASE age < slots
    <3>1. s > rg.lastSlot
      BY <1>1, <2>4
    <3> HIDE DEF s
    <3> QED
      BY <1>1, <2>1, <2>2, <2>4, <3>1
  <2> QED
    BY <2>3, <2>4
<1>3. View(rg, slot + slots) =
        [age \in 0..(Size - 1) |-> View(rg, slot + slots)[age]]
  BY DEF View
<1> QED
  BY <1>2, <1>3 DEF Window!Aged, Window!Age

-----------------------------------------------------------------------------
(* Sums.  The folds of the models are totals of SumTheorems, those of the  *)
(* instances of CallWindow included.                                       *)
LEMMA BucketsAreFinite == IsFiniteSet(Bucket) /\ IsFiniteSet(0..(Size - 1))
BY FS_Interval DEF Bucket

LEMMA CurrentTotalIsWeight ==
  ASSUME NEW rg \in Ring, NEW slot \in Nat
  PROVE  CurrentTotal(rg, slot) = Weight(Advance(rg, slot).counts, Bucket)
<1> DEFINE c == Advance(rg, slot).counts
<1>1. CurrentTotal(rg, slot) = Total(c)
  BY DEF CurrentTotal, Total, FoldFunction, FoldFunctionOnSet, MapThenFoldSet
<1>2. c \in [Bucket -> Nat]
  BY AdvanceIsRing, RingParts
<1> HIDE DEF c
<1>3. Total(c) = Weight(c, Bucket)
  BY <1>2, BucketsAreFinite, TotalIsWeight
<1> QED
  BY <1>1, <1>3 DEF c

LEMMA TotalOfIsWeight ==
  ASSUME NEW w \in [0..(Size - 1) -> Nat]
  PROVE  /\ Window!TotalOf(w) = Weight(w, 0..(Size - 1))
         /\ Calls!TotalOf(w) = Weight(w, 0..(Size - 1))
<1>1. Window!TotalOf(w) = Total(w)
  BY DEF Window!TotalOf, Window!FoldFunction, Window!FoldFunctionOnSet,
         Window!MapThenFoldSet,
         Total, FoldFunction, FoldFunctionOnSet, MapThenFoldSet
<1>2. Calls!TotalOf(w) = Total(w)
  BY DEF Calls!TotalOf, Calls!FoldFunction, Calls!FoldFunctionOnSet,
         Calls!MapThenFoldSet,
         Total, FoldFunction, FoldFunctionOnSet, MapThenFoldSet
<1>3. Total(w) = Weight(w, 0..(Size - 1))
  BY BucketsAreFinite, TotalIsWeight
<1> QED
  BY <1>1, <1>2, <1>3

LEMMA ViewIsWindow ==
  ASSUME NEW rg \in Ring, NEW slot \in Nat
  PROVE  View(rg, slot) \in [0..(Size - 1) -> Nat]
<1>1. rg.counts \in [Bucket -> Nat]
  BY RingParts
<1>2. ASSUME NEW age \in 0..(Size - 1)
      PROVE  rg.counts[(slot - age) % Size] \in Nat
  <2>1. (slot - age) % Size \in Bucket
    BY BucketOf
  <2> QED
    BY <1>1, <2>1
<1> QED
  BY <1>2 DEF View

LEMMA AgesDiffer ==
  ASSUME NEW slot \in Nat, NEW i \in 0..(Size - 1), NEW j \in 0..(Size - 1),
         (slot - i) % Size = (slot - j) % Size
  PROVE  i = j
<1> DEFINE s == slot - i
           t == slot - j
<1>1. s \in Int /\ t \in Int
  OBVIOUS
<1>2. s % Size = t % Size
  OBVIOUS
<1>3. (s < t => t - s < Size) /\ (t < s => s - t < Size)
  OBVIOUS
<1>4. s = t => i = j
  OBVIOUS
<1> HIDE DEF s, t
<1>5. ~ (s < t)
  BY <1>1, <1>2, <1>3, ResiduesDiffer, Zenon
<1>6. ~ (t < s)
  BY <1>1, <1>2, <1>3, ResiduesDiffer, Zenon
<1>7. s = t
  BY <1>1, <1>5, <1>6
<1> QED
  BY <1>4, <1>7

(* What is in the window is in the buckets, each age in its own.           *)
LEMMA ViewCounted ==
  ASSUME NEW rg \in Ring, NEW slot \in Nat, rg.lastSlot <= slot
  PROVE  Window!TotalOf(View(rg, slot)) <= CurrentTotal(rg, slot)
<1> DEFINE ad == Advance(rg, slot)
           c == ad.counts
           w == View(rg, slot)
           m == [age \in 0..(Size - 1) |-> (slot - age) % Size]
<1>1. ad \in Ring /\ ad.lastSlot = slot /\ w = View(ad, slot)
  BY AdvanceIsRing, AdvanceKeepsView
<1>2. c \in [Bucket -> Nat]
  BY <1>1, RingParts
<1>3. w \in [0..(Size - 1) -> Nat]
  BY ViewIsWindow
<1>4. \A age \in 0..(Size - 1) : m[age] \in Bucket
  BY BucketOf
<1>5. ASSUME NEW i \in 0..(Size - 1), NEW j \in 0..(Size - 1), m[i] = m[j]
      PROVE  i = j
  BY <1>5, AgesDiffer
<1>6. m \in Injection(0..(Size - 1), Bucket)
  <2>1. m \in [0..(Size - 1) -> Bucket] /\ DOMAIN m = 0..(Size - 1)
    BY <1>4
  <2> HIDE DEF m
  <2> QED
    BY <1>5, <2>1 DEF Injection, IsInjective
<1>7. \A age \in 0..(Size - 1) : w[age] = c[m[age]]
  <2> SUFFICES ASSUME NEW age \in 0..(Size - 1)
               PROVE  View(ad, slot)[age] = c[(slot - age) % Size]
    BY <1>1
  <2> HIDE DEF ad
  <2> QED
    BY <1>1 DEF View
<1> HIDE DEF ad, c, w, m
<1>8. \A age \in 0..(Size - 1) : w[age] \in Nat /\ w[age] <= c[m[age]]
  BY <1>3, <1>7
<1>9. Weight(w, 0..(Size - 1)) <= Weight(c, Bucket)
  BY <1>2, <1>6, <1>8, BucketsAreFinite, WeightIsAtMost
<1> QED
  BY <1>3, <1>9, TotalOfIsWeight, CurrentTotalIsWeight DEF w, c, ad
-----------------------------------------------------------------------------
LEMMA WindowInit == Init => Window!Init
BY DEF Init, Fresh, View, Window!Init, Window!Empty, Window!Age

LEMMA TotalsAreNat ==
  ASSUME NEW rg \in Ring, NEW slot \in Nat
  PROVE  /\ CurrentTotal(rg, slot) \in Nat
         /\ Window!TotalOf(View(rg, slot)) \in Nat
<1> DEFINE c == Advance(rg, slot).counts
           w == View(rg, slot)
<1>1. c \in [Bucket -> Nat] /\ w \in [0..(Size - 1) -> Nat]
  BY AdvanceIsRing, RingParts, ViewIsWindow
<1> HIDE DEF c, w
<1>2. Weight(c, Bucket) \in Nat /\ Weight(w, 0..(Size - 1)) \in Nat
  BY <1>1, BucketsAreFinite, FiniteUnits
<1> QED
  BY <1>1, <1>2, CurrentTotalIsWeight, TotalOfIsWeight DEF c, w

LEMMA WindowStep ==
  TypeInv /\ [Next]_vars =>
    [Window!Next]_<<View(ring, now), View(saved, now)>>
<1> SUFFICES ASSUME TypeInv, [Next]_vars
             PROVE  \/ Window!Next
                    \/ UNCHANGED <<View(ring, now), View(saved, now)>>
  OBVIOUS
<1> USE DEF TypeInv, TypeOK
<1>1. CASE Admit
  <2>1. Window!Charge(1)
    BY <1>1, RecordedShows DEF Admit, Window!Charge
  <2>2. CurrentTotal(ring, now) + 1 <= Limit
    <3>1. ~ (CurrentTotal(ring, now) + 1 > Limit)
      BY <1>1 DEF Admit, WouldExceed
    <3> QED
      BY <3>1, TotalsAreNat
  <2>3. Window!TotalOf(View(ring, now)) + 1 <= Limit
    <3>1. Window!TotalOf(View(ring, now)) <= CurrentTotal(ring, now)
      BY ViewCounted
    <3> QED
      BY <2>2, <3>1, TotalsAreNat
  <2> QED
    BY <2>1, <2>3 DEF Window!Next, Window!Admit
<1>2. CASE Look
  BY <1>2, AdvanceKeepsView DEF Look
<1>3. CASE Flush
  BY <1>3 DEF Flush, Window!Next, Window!Save
<1>4. CASE Restart
  BY <1>4 DEF Restart, Window!Next, Window!Restart
<1>5. ASSUME NEW amount \in Amounts, Charge(amount) PROVE Window!Next
  <2>1. Window!Charge(amount)
    BY <1>5, RecordedShows DEF Charge, Window!Charge
  <2> QED
    BY <2>1 DEF Window!Next
<1>6. ASSUME NEW slots \in 1..Size, Pass(slots) PROVE Window!Next
  <2>1. saved.lastSlot <= now /\ ring.lastSlot <= now
    BY RingParts
  <2>2. Window!Pass(slots)
    BY <1>6, <2>1, PassAges DEF Pass, Window!Pass
  <2> QED
    BY <2>2 DEF Window!Next
<1>7. CASE UNCHANGED vars
  BY <1>7 DEF vars
<1> QED
  BY <1>1, <1>2, <1>3, <1>4, <1>5, <1>6, <1>7 DEF Next

(* The counter of limits.py, looked at through its window, is the window:  *)
(* a charge shows once and at once, ages with the clock, is dropped when   *)
(* it is Size slots old and not before, a restart brings back what was     *)
(* saved, aged by the time in between, and a call is admitted only while   *)
(* what was charged in the last Size slots leaves room for it.             *)
THEOREM RingIsTheWindow == Spec => ImplementsWindow
<1>1. Spec => []TypeInv
  BY TypeInvInit, TypeInvNext, PTL DEF Spec
<1> QED
  BY <1>1, WindowInit, WindowStep, PTL DEF Spec, ImplementsWindow, Window!Spec

-----------------------------------------------------------------------------
(* The clock that may be set back.  The buckets that will still be there   *)
(* when the ring is looked at in a given slot:                             *)
Lasting(rg, slot) ==
  {b \in Bucket : /\ ~ (slot - rg.lastSlot >= Size)
                  /\ ~ \E s \in (rg.lastSlot + 1)..slot : s % Size = b}

(* A charge of true age a must last for Size - 1 - a slots more.  The      *)
(* charges that are no older than an age are covered when the buckets that *)
(* last as long as the oldest of them must hold at least as much.          *)
Covers(w, rg, slot) ==
  \A age \in 0..(Size - 1) :
    Weight(w, 0..age) <= Weight(rg.counts, Lasting(rg, slot + (Size - 1 - age)))

LEMMA SubsetsAreFinite ==
  /\ \A age \in 0..(Size - 1) : IsFiniteSet(0..age) /\ 0..age \subseteq 0..(Size - 1)
  /\ \A rg, slot : IsFiniteSet(Lasting(rg, slot)) /\ Lasting(rg, slot) \subseteq Bucket
<1>1. \A age \in 0..(Size - 1) : IsFiniteSet(0..age)
  BY FS_Interval
<1>2. \A rg, slot : Lasting(rg, slot) \subseteq Bucket
  BY DEF Lasting
<1>3. \A rg, slot : IsFiniteSet(Lasting(rg, slot))
  BY <1>2, BucketsAreFinite, FS_Subset
<1> QED
  BY <1>1, <1>2, <1>3

LEMMA WeightsAreNat ==
  /\ \A w \in [0..(Size - 1) -> Nat], age \in 0..(Size - 1) : Weight(w, 0..age) \in Nat
  /\ \A c \in [Bucket -> Nat] : \A rg, slot : Weight(c, Lasting(rg, slot)) \in Nat
<1>1. ASSUME NEW w \in [0..(Size - 1) -> Nat], NEW age \in 0..(Size - 1)
      PROVE  Weight(w, 0..age) \in Nat
  <2>1. IsFiniteSet(0..age) /\ \A x \in 0..age : w[x] \in Nat
    BY SubsetsAreFinite
  <2> QED
    BY <2>1, FiniteUnits
<1>2. ASSUME NEW c \in [Bucket -> Nat], NEW rg, NEW slot
      PROVE  Weight(c, Lasting(rg, slot)) \in Nat
  <2>1. IsFiniteSet(Lasting(rg, slot)) /\ \A x \in Lasting(rg, slot) : c[x] \in Nat
    BY SubsetsAreFinite
  <2> QED
    BY <2>1, FiniteUnits
<1> QED
  BY <1>1, <1>2

(* What covers the window is not less than it.                             *)
LEMMA CoveredTotal ==
  ASSUME NEW w \in [0..(Size - 1) -> Nat], NEW rg \in Ring, NEW slot \in Nat,
         Covers(w, rg, slot)
  PROVE  CurrentTotal(rg, slot) >= Calls!TotalOf(w)
<1> DEFINE c == Advance(rg, slot).counts
           L == Lasting(rg, slot)
<1>1. Weight(w, 0..(Size - 1)) <= Weight(rg.counts, L)
  <2>1. Size - 1 \in 0..(Size - 1) /\ slot + (Size - 1 - (Size - 1)) = slot
    OBVIOUS
  <2> QED
    BY <2>1 DEF Covers
<1>2. rg.counts \in [Bucket -> Nat] /\ c \in [Bucket -> Nat]
  BY AdvanceIsRing, RingParts
<1>3. \A b \in L : b \in Bucket /\ rg.counts[b] = c[b]
  BY DEF Lasting, Advance
<1> HIDE DEF c, L
<1>4. \A b \in L : rg.counts[b] \in Nat /\ rg.counts[b] <= c[b]
  BY <1>2, <1>3
<1>5. Weight(rg.counts, L) <= Weight(c, Bucket)
  <2>1. L \subseteq Bucket /\ \A b \in Bucket : c[b] \in Nat
    BY <1>2, <1>3
  <2> QED
    BY <1>4, <2>1, BucketsAreFinite, WeightIsMonotone
<1>6. /\ Weight(w, 0..(Size - 1)) \in Nat /\ Weight(c, Bucket) \in Nat
      /\ Weight(rg.counts, L) \in Nat
  BY <1>2, BucketsAreFinite, FiniteUnits, WeightsAreNat DEF L
<1>7. Weight(c, Bucket) >= Weight(w, 0..(Size - 1))
  BY <1>1, <1>5, <1>6
<1> QED
  BY <1>7, CurrentTotalIsWeight, TotalOfIsWeight DEF c

(* Cleaning takes nothing that is needed.                                  *)
LEMMA AdvanceCovers ==
  ASSUME NEW w \in [0..(Size - 1) -> Nat], NEW rg \in Ring, NEW slot \in Nat,
         Covers(w, rg, slot)
  PROVE  Covers(w, Advance(rg, slot), slot)
<1> DEFINE ad == Advance(rg, slot)
<1>1. /\ ad \in Ring /\ rg.lastSlot \in Nat /\ ad.lastSlot \in Nat
      /\ rg.counts \in [Bucket -> Nat] /\ ad.counts \in [Bucket -> Nat]
  BY AdvanceIsRing, RingParts
<1>2. ad.lastSlot = IF slot > rg.lastSlot THEN slot ELSE rg.lastSlot
  BY DEF Advance
<1>3. ASSUME NEW later \in Nat, slot <= later, NEW b \in Lasting(rg, later)
      PROVE  b \in Lasting(ad, later) /\ ad.counts[b] = rg.counts[b]
  <2>1. /\ b \in Bucket /\ ~ (later - rg.lastSlot >= Size)
        /\ \A s \in (rg.lastSlot + 1)..later : s % Size # b
    BY <1>3 DEF Lasting
  <2>2. /\ ~ (slot - rg.lastSlot >= Size)
        /\ \A s \in (rg.lastSlot + 1)..slot : s \in (rg.lastSlot + 1)..later
    BY <1>1, <1>3, <2>1
  <2>3. ad.counts[b] = rg.counts[b]
    BY <2>1, <2>2 DEF Advance
  <2> HIDE DEF ad
  <2>4. /\ ~ (later - ad.lastSlot >= Size)
        /\ \A s \in (ad.lastSlot + 1)..later : s \in (rg.lastSlot + 1)..later
    BY <1>1, <1>2, <1>3, <2>1
  <2> QED
    BY <2>1, <2>3, <2>4 DEF Lasting
<1> HIDE DEF ad
<1>4. ASSUME NEW age \in 0..(Size - 1)
      PROVE  Weight(w, 0..age) <= Weight(ad.counts, Lasting(ad, slot + (Size - 1 - age)))
  <2> DEFINE later == slot + (Size - 1 - age)
             L == Lasting(rg, later)
             M == Lasting(ad, later)
  <2>1. later \in Nat /\ slot <= later
    OBVIOUS
  <2>2. Weight(w, 0..age) <= Weight(rg.counts, L)
    BY DEF Covers
  <2> HIDE DEF later
  <2>3. L \subseteq M /\ \A b \in L : ad.counts[b] = rg.counts[b]
    BY <1>3, <2>1
  <2>4. L \subseteq Bucket /\ M \subseteq Bucket /\ IsFiniteSet(M)
    BY SubsetsAreFinite
  <2>5. /\ Weight(w, 0..age) \in Nat
        /\ Weight(rg.counts, L) \in Nat /\ Weight(ad.counts, M) \in Nat
    BY <1>1, WeightsAreNat
  <2> HIDE DEF L, M
  <2>6. /\ \A b \in M : ad.counts[b] \in Nat
        /\ \A b \in L : rg.counts[b] \in Nat /\ rg.counts[b] <= ad.counts[b]
    BY <1>1, <2>3, <2>4
  <2>7. Weight(rg.counts, L) <= Weight(ad.counts, M)
    BY <2>3, <2>4, <2>6, WeightIsMonotone
  <2>8. Weight(w, 0..age) <= Weight(ad.counts, M)
    BY <2>2, <2>5, <2>7
  <2> QED
    BY <2>8 DEF M, later
<1> QED
  BY <1>4 DEF Covers, ad

(* A charge goes to a bucket that has just begun to last its Size slots.   *)
LEMMA RecordedCovers ==
  ASSUME NEW w \in [0..(Size - 1) -> Nat], NEW rg \in Ring, NEW slot \in Nat,
         Covers(w, rg, slot), NEW amount \in Nat
  PROVE  Covers([w EXCEPT ![0] = @ + amount], Recorded(rg, amount, slot), slot)
<1> DEFINE ad == Advance(rg, slot)
           rec == Recorded(rg, amount, slot)
           v == [w EXCEPT ![0] = @ + amount]
           here == slot % Size
<1>1. /\ ad \in Ring /\ ad.counts \in [Bucket -> Nat] /\ ad.lastSlot \in Nat
      /\ Covers(w, ad, slot)
  BY AdvanceIsRing, RingParts, AdvanceCovers
<1>2. slot <= ad.lastSlot
  BY RingParts DEF Advance
<1>3. rec.counts = [ad.counts EXCEPT ![here] = @ + amount]
  BY RecordedIsRing
<1>4. rec.lastSlot = ad.lastSlot
  BY DEF Recorded
<1>5. here \in Bucket
  BY BucketOf
<1> HIDE DEF ad, rec
<1>6. ASSUME NEW age \in 0..(Size - 1)
      PROVE  Weight(v, 0..age) <= Weight(rec.counts, Lasting(rec, slot + (Size - 1 - age)))
  <2> DEFINE later == slot + (Size - 1 - age)
             L == Lasting(ad, later)
  <2>1. later \in Nat /\ slot <= later /\ later - slot < Size
    OBVIOUS
  <2>2. Weight(w, 0..age) <= Weight(ad.counts, L)
    BY <1>1 DEF Covers
  <2>3. Lasting(rec, slot + (Size - 1 - age)) = L
    BY <1>4 DEF Lasting
  <2> HIDE DEF later
  <2>4. here \in L
    <3>1. ~ (later - ad.lastSlot >= Size)
      BY <1>1, <1>2, <2>1
    <3>2. ASSUME NEW s \in (ad.lastSlot + 1)..later PROVE s % Size # slot % Size
      <4>1. s \in Int /\ slot < s /\ s - slot < Size
        BY <1>1, <1>2, <2>1
      <4> QED
        BY <4>1, ResiduesDiffer
    <3> QED
      BY <1>5, <3>1, <3>2 DEF Lasting
  <2>5. L \subseteq Bucket /\ IsFiniteSet(L) /\ IsFiniteSet(0..age) /\ 0 \in 0..age
    BY SubsetsAreFinite
  <2>6. /\ Weight(w, 0..age) \in Nat /\ Weight(ad.counts, L) \in Nat
    BY <1>1, WeightsAreNat
  <2>7. Weight(v, 0..age) = Weight(w, 0..age) + amount
    <3> DEFINE D == 0..age
    <3>1. \A y \in D : w[y] \in Nat
      OBVIOUS
    <3>2. \A y \in D : v[y] = IF y = 0 THEN w[y] + amount ELSE w[y]
      OBVIOUS
    <3>3. IsFiniteSet(D) /\ 0 \in D /\ amount \in Nat
      BY <2>5
    <3> HIDE DEF v, D
    <3>4. Weight(v, D) = Weight(w, D) + amount
      BY ONLY <3>1, <3>2, <3>3, WeightGrows
    <3> QED
      BY <3>4 DEF D
  <2>8. Weight(rec.counts, L) = Weight(ad.counts, L) + amount
    <3> DEFINE c == ad.counts
               d == rec.counts
    <3>1. \A y \in L : c[y] \in Nat
      BY <1>1, <2>5
    <3>2. \A y \in L : d[y] = IF y = here THEN c[y] + amount ELSE c[y]
      BY <1>1, <1>3, <2>5
    <3>3. IsFiniteSet(L) /\ here \in L /\ amount \in Nat
      BY <2>4, <2>5
    <3> HIDE DEF L, here, v, c, d
    <3>4. Weight(d, L) = Weight(c, L) + amount
      BY ONLY <3>1, <3>2, <3>3, WeightGrows
    <3> QED
      BY <3>4 DEF c, d
  <2> HIDE DEF L, here, v
  <2>9. Weight(w, 0..age) + amount <= Weight(ad.counts, L) + amount
    BY <2>2, <2>6
  <2> QED
    BY <2>3, <2>7, <2>8, <2>9
<1> QED
  BY <1>6 DEF Covers, rec, v

(* As time passes charges grow older, and need to last less.               *)
LEMMA PassCovers ==
  ASSUME NEW w \in [0..(Size - 1) -> Nat], NEW rg \in Ring, NEW slot \in Nat,
         NEW slots \in 1..Size, Covers(w, rg, slot)
  PROVE  Covers(Calls!Aged(w, slots), rg, slot + slots)
<1> DEFINE v == Calls!Aged(w, slots)
<1>1. \A a \in 0..(Size - 1) : v[a] = IF a >= slots THEN w[a - slots] ELSE 0
  BY DEF Calls!Aged, Calls!Age
<1>2. rg.counts \in [Bucket -> Nat]
  BY RingParts
<1> HIDE DEF v
<1>3. ASSUME NEW age \in 0..(Size - 1)
      PROVE  Weight(v, 0..age)
               <= Weight(rg.counts, Lasting(rg, slot + slots + (Size - 1 - age)))
  <2> DEFINE later == slot + slots + (Size - 1 - age)
             L == Lasting(rg, later)
  <2>1. Weight(rg.counts, L) \in Nat
    BY <1>2, WeightsAreNat
  <2>2. Weight(v, 0..age) = Weight(v, slots..age)
    <3>1. slots..age \subseteq 0..age /\ \A a \in (0..age) \ (slots..age) : v[a] = 0
      BY <1>1
    <3> QED
      BY <3>1, WeightOfSupport
  <2>3. CASE age < slots
    <3>1. slots..age = {}
      BY <2>3
    <3>2. Weight(v, 0..age) = 0
      BY <2>2, <3>1, NoUnits
    <3> HIDE DEF L
    <3> QED
      BY <2>1, <3>2 DEF L
  <2>4. CASE age >= slots
    <3> DEFINE young == age - slots
               m == [a \in slots..age |-> a - slots]
    <3>1. young \in 0..(Size - 1) /\ later = slot + (Size - 1 - young)
      BY <2>4
    <3>2. Weight(w, 0..young) <= Weight(rg.counts, L)
      <4> HIDE DEF young, later
      <4> QED
        BY <3>1 DEF Covers
    <3>3. m \in Injection(slots..age, 0..young)
      <4>1. /\ DOMAIN m = slots..age
            /\ \A a \in slots..age : m[a] \in 0..young
            /\ \A a, b \in slots..age : m[a] = m[b] => a = b
        OBVIOUS
      <4>2. m \in [slots..age -> 0..young]
        BY <4>1
      <4> HIDE DEF m, young
      <4> QED
        BY <4>1, <4>2 DEF Injection, IsInjective
    <3>4. \A a \in slots..age : v[a] = w[m[a]] /\ m[a] \in 0..(Size - 1)
      BY <1>1
    <3> HIDE DEF m
    <3>5. \A a \in slots..age : v[a] \in Nat /\ v[a] <= w[m[a]]
      BY <3>4
    <3>6. /\ IsFiniteSet(0..young) /\ \A a \in 0..young : w[a] \in Nat
          /\ Weight(w, 0..young) \in Nat
      BY <3>1, SubsetsAreFinite, WeightsAreNat
    <3> HIDE DEF young
    <3>7. Weight(v, slots..age) <= Weight(w, 0..young)
      BY <3>3, <3>5, <3>6, WeightIsAtMost
    <3>8. Weight(v, slots..age) \in Nat
      <4>1. IsFiniteSet(slots..age)
        BY FS_Interval
      <4> QED
        BY <3>5, <4>1, FiniteUnits
    <3> HIDE DEF L
    <3> QED
      BY <2>1, <2>2, <3>2, <3>6, <3>7, <3>8 DEF L
  <2> QED
    BY <2>3, <2>4
<1> QED
  BY <1>3 DEF Covers, v

(* On a clock set back every bucket lasts longer.                          *)
LEMMA StepBackCovers ==
  ASSUME NEW w \in [0..(Size - 1) -> Nat], NEW rg \in Ring, NEW slot \in Nat,
         NEW before \in Nat, before <= slot, Covers(w, rg, slot)
  PROVE  Covers(w, rg, before)
<1>1. rg.counts \in [Bucket -> Nat] /\ rg.lastSlot \in Nat
  BY RingParts
<1>2. ASSUME NEW age \in 0..(Size - 1)
      PROVE  Weight(w, 0..age) <= Weight(rg.counts, Lasting(rg, before + (Size - 1 - age)))
  <2> DEFINE later == slot + (Size - 1 - age)
             sooner == before + (Size - 1 - age)
             L == Lasting(rg, later)
             M == Lasting(rg, sooner)
  <2>0. later \in Nat /\ sooner \in Nat /\ sooner <= later
    OBVIOUS
  <2>1. L \subseteq M
    <3> HIDE DEF later, sooner
    <3>1. ASSUME NEW b \in L PROVE b \in M
      <4>1. /\ b \in Bucket
            /\ ~ (later - rg.lastSlot >= Size)
            /\ \A s \in (rg.lastSlot + 1)..later : s % Size # b
        BY DEF Lasting
      <4>2. /\ ~ (sooner - rg.lastSlot >= Size)
            /\ \A s \in (rg.lastSlot + 1)..sooner : s \in (rg.lastSlot + 1)..later
        BY <1>1, <2>0, <4>1
      <4> QED
        BY <4>1, <4>2 DEF Lasting
    <3> QED
      BY <3>1
  <2>2. Weight(w, 0..age) <= Weight(rg.counts, L)
    BY DEF Covers
  <2>3. IsFiniteSet(M) /\ M \subseteq Bucket
    BY SubsetsAreFinite
  <2>4. /\ Weight(w, 0..age) \in Nat
        /\ Weight(rg.counts, L) \in Nat /\ Weight(rg.counts, M) \in Nat
    BY <1>1, WeightsAreNat
  <2> HIDE DEF L, M
  <2>5. /\ \A b \in M : rg.counts[b] \in Nat
        /\ \A b \in L : rg.counts[b] \in Nat /\ rg.counts[b] <= rg.counts[b]
    BY <1>1, <2>1, <2>3
  <2>6. Weight(rg.counts, L) <= Weight(rg.counts, M)
    BY <2>1, <2>3, <2>5, WeightIsMonotone
  <2>7. Weight(w, 0..age) <= Weight(rg.counts, M)
    BY <2>2, <2>4, <2>6
  <2> QED
    BY <2>7 DEF M, sooner
<1> QED
  BY <1>2 DEF Covers

-----------------------------------------------------------------------------
SkewedInv ==
  /\ now \in Nat /\ ring \in Ring /\ saved \in Ring
  /\ recent \in [0..(Size - 1) -> Nat] /\ durable \in [0..(Size - 1) -> Nat]
  /\ Covers(recent, ring, now) /\ Covers(durable, saved, now)

LEMMA SkewedInvInit == SkewedInit => SkewedInv
<1> SUFFICES ASSUME SkewedInit PROVE SkewedInv
  OBVIOUS
<1>1. /\ now \in Nat /\ ring \in Ring /\ saved \in Ring
  BY DEF SkewedInit, Init, Fresh, Ring
<1>2. /\ recent = [a \in 0..(Size - 1) |-> 0] /\ durable = recent
  BY DEF SkewedInit, Calls!Init, Calls!Empty, Calls!Age
<1>3. ASSUME NEW rg \in Ring PROVE Covers(recent, rg, now)
  <2>1. rg.counts \in [Bucket -> Nat]
    BY RingParts
  <2>2. ASSUME NEW age \in 0..(Size - 1)
        PROVE  Weight(recent, 0..age)
                 <= Weight(rg.counts, Lasting(rg, now + (Size - 1 - age)))
    <3> DEFINE L == Lasting(rg, now + (Size - 1 - age))
               D == 0..age
    <3>1. {} \subseteq D /\ \A a \in D \ {} : recent[a] = 0
      BY <1>2
    <3>2. Weight(rg.counts, L) \in Nat
      BY <2>1, WeightsAreNat
    <3> HIDE DEF D, L
    <3>3. Weight(recent, D) = 0
      BY <3>1, WeightOfSupport, NoUnits
    <3>4. Weight(recent, D) <= Weight(rg.counts, L)
      BY <3>2, <3>3
    <3> QED
      BY <3>4 DEF D, L
  <2> QED
    BY <2>2 DEF Covers
<1>4. recent \in [0..(Size - 1) -> Nat]
  BY <1>2
<1> QED
  BY <1>1, <1>2, <1>3, <1>4 DEF SkewedInv

LEMMA ChargeCovers ==
  ASSUME SkewedInv, NEW amount \in Nat,
         ring' = Recorded(ring, amount, now), UNCHANGED <<now, saved>>,
         Calls!Charge(amount)
  PROVE  SkewedInv'
<1>1. recent' = [recent EXCEPT ![0] = @ + amount] /\ durable' = durable
  BY DEF Calls!Charge
<1>2. Covers([recent EXCEPT ![0] = @ + amount], Recorded(ring, amount, now), now)
  BY RecordedCovers DEF SkewedInv
<1>3. Recorded(ring, amount, now) \in Ring
  BY RecordedIsRing DEF SkewedInv
<1>4. [recent EXCEPT ![0] = @ + amount] \in [0..(Size - 1) -> Nat]
  BY DEF SkewedInv
<1> QED
  BY <1>1, <1>2, <1>3, <1>4, Zenon DEF SkewedInv, Covers, Lasting

LEMMA SkewedInvNext == SkewedInv /\ [SkewedNext]_<<vars, true>> => SkewedInv'
<1> SUFFICES ASSUME SkewedInv, [SkewedNext]_<<vars, true>> PROVE SkewedInv'
  OBVIOUS
<1>1. CASE Admit /\ Calls!Charge(1)
  BY <1>1, ChargeCovers DEF Admit
<1>2. CASE Look /\ UNCHANGED true
  <2>1. Covers(recent, Advance(ring, now), now) /\ Advance(ring, now) \in Ring
    BY AdvanceCovers, AdvanceIsRing DEF SkewedInv
  <2> QED
    BY <1>2, <2>1, Zenon DEF Look, true, SkewedInv, Covers, Lasting
<1>3. CASE Flush /\ Calls!Save
  BY <1>3, Zenon DEF Flush, Calls!Save, SkewedInv, Covers, Lasting
<1>4. CASE Restart /\ Calls!Restart
  BY <1>4, Zenon DEF Restart, Calls!Restart, SkewedInv, Covers, Lasting
<1>5. ASSUME NEW amount \in Amounts, Charge(amount), Calls!Charge(amount)
      PROVE  SkewedInv'
  BY <1>5, ChargeCovers DEF Charge
<1>6. ASSUME NEW slots \in 1..Size, Pass(slots), Calls!Pass(slots)
      PROVE  SkewedInv'
  <2>1. /\ Covers(Calls!Aged(recent, slots), ring, now + slots)
        /\ Covers(Calls!Aged(durable, slots), saved, now + slots)
    BY PassCovers DEF SkewedInv
  <2>2. now + slots \in Nat
    BY DEF SkewedInv
  <2>3. \A w \in [0..(Size - 1) -> Nat] :
          Calls!Aged(w, slots) \in [0..(Size - 1) -> Nat]
    <3>1. ASSUME NEW w \in [0..(Size - 1) -> Nat], NEW a \in 0..(Size - 1), a >= slots
          PROVE  w[a - slots] \in Nat
      <4>1. a - slots \in 0..(Size - 1)
        BY <3>1
      <4> QED
        BY <4>1
    <3> QED
      BY <3>1 DEF Calls!Aged, Calls!Age
  <2>4. /\ now' = now + slots /\ UNCHANGED <<ring, saved>>
        /\ recent' = Calls!Aged(recent, slots)
        /\ durable' = Calls!Aged(durable, slots)
    BY <1>6 DEF Pass, Calls!Pass
  <2> QED
    BY <2>1, <2>2, <2>3, <2>4, Zenon DEF SkewedInv, Covers, Lasting
<1>7. ASSUME NEW slots \in 1..(Horizon - Epoch), StepBack(slots)
      PROVE  SkewedInv'
  <2>1. now - slots \in Nat /\ now - slots <= now
    BY <1>7 DEF StepBack, SkewedInv
  <2>2. Covers(recent, ring, now - slots) /\ Covers(durable, saved, now - slots)
    BY <2>1, StepBackCovers DEF SkewedInv
  <2>3. now' = now - slots /\ UNCHANGED <<ring, saved, recent, durable>>
    BY <1>7 DEF StepBack, true
  <2> QED
    BY <2>1, <2>2, <2>3, Zenon DEF SkewedInv, Covers, Lasting
<1>8. CASE UNCHANGED <<vars, true>>
  BY <1>8, Zenon DEF vars, true, SkewedInv, Covers, Lasting
<1> QED
  BY <1>1, <1>2, <1>3, <1>4, <1>5, <1>6, <1>7, <1>8 DEF SkewedNext

(* limits.py:77 (_advance) on a clock that may be set back by any amount,  *)
(* any number of times, also while the program is down: the counter never  *)
(* holds less than was charged in the window that has really passed.       *)
THEOREM NeverForgets == SkewedSpec => []NeverUndercounts
<1>1. SkewedInv => NeverUndercounts
  BY CoveredTotal DEF SkewedInv, NeverUndercounts
<1> QED
  BY <1>1, SkewedInvInit, SkewedInvNext, PTL DEF SkewedSpec
=============================================================================
