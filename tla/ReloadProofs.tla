---------------------------- MODULE ReloadProofs ----------------------------
(***************************************************************************)
(* The replacement of the configuration, for any number of requests, keys  *)
(* and generations and any timeouts: a replaced monitor is silent, and no  *)
(* request loses its clients before it has had a grace period of time.     *)
(***************************************************************************)
EXTENDS Reload, TLAPS

(* A monitor is running exactly while its generation is current, unless it *)
(* died; one that was not started, sleeps or was stopped asks nothing.     *)
MonitorFollows ==
  \A g \in Gens :
    /\ g > gen => monitor[g] = "unbuilt"
    /\ g = gen => monitor[g] \in {"asking", "asleep", "dead"}
    /\ g < gen => monitor[g] \in {"stopped", "dead"}
    /\ monitor[g] \in {"unbuilt", "asleep", "stopped"} => asks[g] = {}

(* A request belongs to a generation that was built.                       *)
RequestFollows == \A r \in Requests : request[r].gen <= gen

(* What is left of the grace period and the age of a request of that       *)
(* generation make a grace period, and it has that age when it is over.    *)
Covered(q) ==
  /\ retiring[q.gen] = "grace" => Grace <= grace[q.gen] + q.age
  /\ retiring[q.gen] = "closed" => q.age = Grace

GraceCovers == \A r \in Requests : InFlight(r) => Covered(request[r])

IInv == TypeOK /\ MonitorFollows /\ RequestFollows /\ GraceCovers

-----------------------------------------------------------------------------
LEMMA ConstantFacts ==
  /\ Timeout \in Nat /\ Margin \in Nat /\ LastGen \in Nat
  /\ Grace \in Nat /\ Gens \subseteq Nat /\ 0 \in Gens
BY ReloadConstants DEF Grace, Gens

LEMMA InitInvariant == Init => IInv
<1>1. Init => TypeOK
  BY ConstantFacts DEF Init, TypeOK, RequestState, Ended
<1>2. Init => MonitorFollows /\ RequestFollows /\ GraceCovers
  BY ConstantFacts
  DEF Init, MonitorFollows, RequestFollows, GraceCovers, InFlight, Ended, Gens
<1> QED
  BY <1>1, <1>2 DEF IInv

(* What one request becomes in a step of its own: it is over, or it keeps  *)
(* its generation and its age, or it is new and of the current generation. *)
Moved(q, n) ==
  /\ n \in RequestState
  /\ \/ n = Ended
     \/ n.gen = q.gen /\ n.age = q.age /\ q.pc # "none"
     \/ n.gen = gen /\ q.pc = "none"

LEMMA EndedType == Ended \in RequestState
BY ConstantFacts DEF Ended, RequestState

LEMMA NewPlace ==
  ASSUME NEW q \in RequestState,
         NEW pc \in {"resolving", "calling", "streaming", "backoff"}
  PROVE  /\ [q EXCEPT !.pc = pc] \in RequestState
         /\ [q EXCEPT !.pc = pc].gen = q.gen
         /\ [q EXCEPT !.pc = pc].age = q.age
BY DEF RequestState

LEMMA RequestMoves ==
  ASSUME IInv, NEW r \in Requests,
         Arrive(r) \/ Attempt(r) \/ Answer(r) \/ Fail(r) \/ StreamEnds(r)
  PROVE  /\ UNCHANGED generation
         /\ \E n : Moved(request[r], n) /\ request' = [request EXCEPT ![r] = n]
<1> DEFINE q == request[r]
<1>0. q \in RequestState /\ request \in [Requests -> RequestState] /\ gen \in Gens
  BY DEF IInv, TypeOK
<1>1. CASE Arrive(r)
  <2> DEFINE n == [q EXCEPT !.pc = "resolving", !.gen = gen]
  <2>1. n \in RequestState /\ n.gen = gen
    BY <1>0 DEF RequestState
  <2>2. q.pc = "none" /\ request' = [request EXCEPT ![r] = n] /\ UNCHANGED generation
    BY <1>1, <1>0 DEF Arrive
  <2>3. Moved(q, n)
    BY <2>1, <2>2 DEF Moved
  <2> HIDE DEF n
  <2> QED
    BY <2>2, <2>3
<1>2. ASSUME NEW pc \in {"resolving", "calling", "streaming", "backoff"},
             q.pc # "none", request' = [request EXCEPT ![r].pc = pc],
             UNCHANGED generation
      PROVE  /\ UNCHANGED generation
             /\ \E n : Moved(request[r], n) /\ request' = [request EXCEPT ![r] = n]
  <2> DEFINE n == [q EXCEPT !.pc = pc]
  <2>1. n \in RequestState /\ n.gen = q.gen /\ n.age = q.age
    BY <1>0, NewPlace
  <2>2. request' = [request EXCEPT ![r] = n]
    BY <1>2, <1>0
  <2>3. Moved(q, n)
    BY <2>1, <1>2 DEF Moved
  <2> HIDE DEF n
  <2> QED
    BY <1>2, <2>2, <2>3
<1>3. CASE request' = [request EXCEPT ![r] = Ended] /\ UNCHANGED generation
  BY <1>3, EndedType DEF Moved
<1> QED
  BY <1>1, <1>2, <1>3 DEF Attempt, Answer, Fail, StreamEnds

(* Such a move keeps the invariant.                                        *)
LEMMA MoveKeeps ==
  ASSUME IInv, UNCHANGED generation, NEW r \in Requests, NEW n,
         Moved(request[r], n), request' = [request EXCEPT ![r] = n]
  PROVE  IInv'
<1> DEFINE q == request[r]
<1>0. /\ TypeOK /\ gen \in Gens /\ q \in RequestState /\ n \in RequestState
      /\ request \in [Requests -> RequestState]
      /\ gen' = gen /\ retiring' = retiring /\ grace' = grace
  BY DEF IInv, TypeOK, Moved, generation
<1>1. TypeOK'
  BY <1>0 DEF TypeOK, generation
<1>2. MonitorFollows'
  BY DEF IInv, MonitorFollows, generation
<1>3. /\ request'[r] = n
      /\ \A s \in Requests : s # r => request'[s] = request[s]
  BY <1>0
<1>4. n.gen <= gen
  <2>1. q.gen <= gen /\ gen \in Nat
    BY <1>0, ConstantFacts DEF IInv, RequestFollows
  <2> QED
    BY <2>1, ConstantFacts DEF Moved, Ended
<1>5. RequestFollows'
  BY <1>0, <1>3, <1>4 DEF IInv, RequestFollows
<1>6. ASSUME n.pc # "none"
      PROVE  /\ retiring[n.gen] = "grace" => Grace <= grace[n.gen] + n.age
             /\ retiring[n.gen] = "closed" => n.age = Grace
  <2>1. CASE n.gen = q.gen /\ n.age = q.age /\ q.pc # "none"
    BY <2>1 DEF IInv, GraceCovers, Covered, InFlight
  <2>2. CASE n.gen = gen
    <3>1. retiring[gen] = "no"
      BY <1>0, ConstantFacts DEF TypeOK
    <3> QED
      BY <2>2, <3>1
  <2> QED
    BY <1>6, <2>1, <2>2 DEF Moved, Ended
<1>7. GraceCovers'
  BY <1>0, <1>3, <1>6 DEF IInv, GraceCovers, Covered, InFlight
<1> QED
  BY <1>1, <1>2, <1>5, <1>7 DEF IInv

-----------------------------------------------------------------------------
(* A step that leaves generations, requests, clocks and retirement alone   *)
(* can disturb only what the monitors do.                                  *)
LEMMA MonitorKeeps ==
  ASSUME IInv, UNCHANGED <<gen, client, retiring, grace, request>>,
         monitor' \in [Gens -> {"unbuilt", "asking", "asleep", "dead", "stopped"}],
         asks' \in [Gens -> SUBSET Keys],
         MonitorFollows'
  PROVE  IInv'
<1>1. TypeOK'
  BY DEF IInv, TypeOK
<1>2. RequestFollows' /\ GraceCovers'
  BY DEF IInv, RequestFollows, GraceCovers, Covered, InFlight
<1> QED
  BY <1>1, <1>2 DEF IInv

LEMMA MonitorSteps ==
  ASSUME IInv, NEW g \in Gens,
         \/ NextRound(g)
         \/ \E k \in Keys : Checked(g, k) \/ CheckRaises(g, k)
  PROVE  IInv'
<1>0. /\ monitor \in [Gens -> {"unbuilt", "asking", "asleep", "dead", "stopped"}]
      /\ asks \in [Gens -> SUBSET Keys] /\ gen \in Nat /\ MonitorFollows
      /\ \A h \in Gens : h \in Nat
  BY ConstantFacts DEF IInv, TypeOK, Gens
<1>1. CASE NextRound(g)
  <2>1. MonitorFollows'
    BY <1>0, <1>1 DEF MonitorFollows, NextRound
  <2> QED
    BY <2>1, <1>0, <1>1, MonitorKeeps DEF NextRound
<1>2. ASSUME NEW k \in Keys, Checked(g, k) PROVE IInv'
  <2>1. MonitorFollows'
    BY <1>0, <1>2 DEF MonitorFollows, Checked
  <2>2. /\ monitor' \in [Gens -> {"unbuilt", "asking", "asleep", "dead", "stopped"}]
        /\ asks' \in [Gens -> SUBSET Keys]
    BY <1>0, <1>2 DEF Checked
  <2> QED
    BY <2>1, <2>2, <1>2, MonitorKeeps DEF Checked
<1>3. ASSUME NEW k \in Keys, CheckRaises(g, k) PROVE IInv'
  <2>1. MonitorFollows'
    BY <1>0, <1>3 DEF MonitorFollows, CheckRaises
  <2>2. /\ monitor' \in [Gens -> {"unbuilt", "asking", "asleep", "dead", "stopped"}]
        /\ asks' \in [Gens -> SUBSET Keys]
    BY <1>0, <1>3 DEF CheckRaises
  <2> QED
    BY <2>1, <2>2, <1>3, MonitorKeeps DEF CheckRaises
<1> QED
  BY <1>1, <1>2, <1>3

-----------------------------------------------------------------------------
(* The generations.                                                        *)
LEMMA ApplyConfigStep == IInv /\ ApplyConfig => IInv'
<1> SUFFICES ASSUME IInv, ApplyConfig PROVE IInv'
  OBVIOUS
<1>0. /\ TypeOK /\ MonitorFollows /\ gen \in Nat /\ gen < LastGen /\ gen' = gen + 1
      /\ gen \in Gens /\ gen + 1 \in Gens /\ request' = request /\ grace' = grace
      /\ \A h \in Gens : h \in Nat
  BY ConstantFacts DEF IInv, TypeOK, Gens, ApplyConfig
<1>1. /\ client' = [client EXCEPT ![gen + 1] = "open"]
      /\ retiring' = [retiring EXCEPT ![gen] = "stopping"]
      /\ Cancel(gen)
  BY DEF ApplyConfig
<1>2. TypeOK'
  <2>1. /\ client' \in [Gens -> {"unbuilt", "open", "closed"}]
        /\ monitor' \in [Gens -> {"unbuilt", "asking", "asleep", "dead", "stopped"}]
        /\ asks' \in [Gens -> SUBSET Keys]
        /\ retiring' \in [Gens -> {"no", "stopping", "grace", "closed", "failed"}]
    BY <1>0, <1>1 DEF TypeOK, Cancel
  <2>2. ASSUME NEW g \in Gens
        PROVE  /\ client'[g] = "unbuilt" <=> g > gen'
               /\ retiring'[g] = "no" <=> g >= gen'
               /\ client'[g] = "closed" <=> retiring'[g] = "closed"
    BY <1>0, <1>1 DEF TypeOK
  <2> QED
    BY <1>0, <2>1, <2>2 DEF TypeOK
<1>3. MonitorFollows'
  BY <1>0, <1>1 DEF TypeOK, MonitorFollows, Cancel, Running
<1>4. \A r \in Requests : request[r].gen \in Nat /\ request[r].gen \in Gens
  BY <1>0 DEF TypeOK, RequestState
<1>5. RequestFollows'
  BY <1>0, <1>4 DEF IInv, RequestFollows
<1>6. GraceCovers'
  BY <1>0, <1>1, <1>4 DEF IInv, GraceCovers, Covered, InFlight, TypeOK
<1> QED
  BY <1>2, <1>3, <1>5, <1>6 DEF IInv

LEMMA StoppedStep ==
  ASSUME IInv, NEW g \in Gens, Stopped(g)
  PROVE  IInv'
<1>0. /\ TypeOK /\ MonitorFollows /\ gen \in Nat /\ Grace \in 0..Grace
      /\ retiring[g] = "stopping"
      /\ UNCHANGED <<gen, client, monitor, asks, request>>
      /\ \A h \in Gens : h \in Nat
  BY ConstantFacts DEF IInv, TypeOK, Stopped
<1>1. \/ retiring' = [retiring EXCEPT ![g] = "failed"] /\ grace' = grace
      \/ /\ retiring' = [retiring EXCEPT ![g] = "grace"]
         /\ grace' = [grace EXCEPT ![g] = Grace]
  BY DEF Stopped
<1>2. TypeOK'
  BY <1>0, <1>1 DEF TypeOK
<1>3. MonitorFollows' /\ RequestFollows'
  BY <1>0 DEF IInv, MonitorFollows, RequestFollows
<1>4. \A r \in Requests : request[r].gen \in Gens /\ request[r].age \in 0..Grace
  BY <1>0 DEF TypeOK, RequestState
<1>5. ASSUME NEW r \in Requests, InFlight(r)
      PROVE  /\ retiring'[request[r].gen] = "grace" =>
                  Grace <= grace'[request[r].gen] + request[r].age
             /\ retiring'[request[r].gen] = "closed" => request[r].age = Grace
  <2>1. CASE request[r].gen # g
    <3>1. /\ retiring'[request[r].gen] = retiring[request[r].gen]
          /\ grace'[request[r].gen] = grace[request[r].gen]
      BY <1>0, <1>1, <1>4, <2>1 DEF TypeOK
    <3> QED
      BY <3>1, <1>5 DEF IInv, GraceCovers, Covered
  <2>2. CASE request[r].gen = g
    <3>1. /\ retiring'[g] # "closed"
          /\ retiring'[g] = "grace" => grace'[g] = Grace
      BY <1>0, <1>1 DEF TypeOK
    <3> QED
      BY <1>4, <2>2, <3>1, ConstantFacts
  <2> QED
    BY <2>1, <2>2
<1>6. GraceCovers'
  BY <1>0, <1>5 DEF GraceCovers, Covered, InFlight
<1> QED
  BY <1>2, <1>3, <1>6 DEF IInv

LEMMA CloseStep ==
  ASSUME IInv, NEW g \in Gens, Close(g)
  PROVE  IInv'
<1>0. /\ TypeOK /\ retiring[g] = "grace" /\ grace[g] = 0
      /\ retiring' = [retiring EXCEPT ![g] = "closed"]
      /\ client' = [client EXCEPT ![g] = "closed"]
      /\ UNCHANGED <<gen, monitor, asks, grace, request>>
      /\ gen \in Nat /\ \A h \in Gens : h \in Nat
  BY ConstantFacts DEF IInv, TypeOK, Close
<1>1. TypeOK'
  BY <1>0 DEF TypeOK
<1>2. MonitorFollows' /\ RequestFollows'
  BY <1>0 DEF IInv, MonitorFollows, RequestFollows
<1>3. \A r \in Requests : request[r].gen \in Gens /\ request[r].age \in 0..Grace
  BY <1>0 DEF TypeOK, RequestState
<1>4. ASSUME NEW r \in Requests, InFlight(r), request[r].gen = g
      PROVE  request[r].age = Grace
  <2>1. Grace <= 0 + request[r].age
    BY <1>0, <1>4 DEF IInv, GraceCovers, Covered
  <2> QED
    BY <1>3, <2>1, ConstantFacts
<1>5. GraceCovers'
  BY <1>0, <1>3, <1>4 DEF IInv, GraceCovers, Covered, InFlight, TypeOK
<1> QED
  BY <1>1, <1>2, <1>5 DEF IInv

-----------------------------------------------------------------------------
(* Time.  What the grace period loses the request gains, up to a grace     *)
(* period; and no grace period is over when the clock goes on.             *)
LEMMA OlderBy ==
  ASSUME NEW q \in RequestState
  PROVE  /\ Older(q) \in RequestState
         /\ Older(q).pc = q.pc /\ Older(q).gen = q.gen
         /\ q.age < Grace => Older(q).age = q.age + 1
         /\ ~(q.age < Grace) => Older(q).age = Grace
<1>1. q.age \in 0..Grace
  BY DEF RequestState
<1> DEFINE age == IF q.age < Grace THEN q.age + 1 ELSE q.age
<1>2. /\ age \in 0..Grace
      /\ q.age < Grace => age = q.age + 1
      /\ ~(q.age < Grace) => age = Grace
  BY <1>1, ConstantFacts
<1>3. Older(q) = [q EXCEPT !.age = age]
  BY DEF Older
<1> HIDE DEF age
<1> QED
  BY <1>2, <1>3 DEF RequestState

LEMMA TickStep == IInv /\ Tick => IInv'
<1> SUFFICES ASSUME IInv, Tick PROVE IInv'
  OBVIOUS
<1>0. /\ TypeOK /\ RequestFollows /\ GraceCovers
      /\ UNCHANGED <<gen, client, monitor, asks, retiring>>
      /\ \A r \in Requests : request[r] \in RequestState /\ request[r].gen \in Gens
                             /\ request[r].age \in 0..Grace
  BY DEF IInv, TypeOK, Tick, RequestState
<1>1. /\ \A r \in Requests :
           request'[r] = IF InFlight(r) THEN Older(request[r]) ELSE request[r]
      /\ \A g \in Gens : grace'[g] = IF retiring[g] = "grace" THEN grace[g] - 1 ELSE grace[g]
      /\ request' = [r \in Requests |-> request'[r]]
      /\ grace' = [g \in Gens |-> grace'[g]]
  BY DEF Tick
<1>2. ASSUME NEW g \in Gens
      PROVE  /\ grace[g] \in 0..Grace /\ grace'[g] \in 0..Grace
             /\ retiring[g] = "grace" => grace'[g] = grace[g] - 1
  <2>1. grace[g] \in 0..Grace /\ (retiring[g] = "grace" => grace[g] # 0)
    BY <1>0 DEF Tick, Due, TypeOK
  <2>2. grace'[g] = IF retiring[g] = "grace" THEN grace[g] - 1 ELSE grace[g]
    BY <1>1
  <2>3. grace[g] # 0 => grace[g] - 1 \in 0..Grace
    BY <2>1, ConstantFacts
  <2> QED
    BY <2>1, <2>2, <2>3
<1>3. ASSUME NEW r \in Requests
      PROVE  /\ request'[r] \in RequestState /\ request'[r].pc = request[r].pc
             /\ request'[r].gen = request[r].gen
             /\ InFlight(r) => \/ request'[r].age = request[r].age + 1
                               \/ request'[r].age = Grace
  <2>1. request'[r] \in {request[r], Older(request[r])}
        /\ (InFlight(r) => request'[r] = Older(request[r]))
    BY <1>1
  <2>2. request[r] \in RequestState
    BY <1>0
  <2> QED
    BY <2>1, <2>2, OlderBy
<1>4. TypeOK'
  <2>1. request' \in [Requests -> RequestState]
    BY <1>1, <1>3
  <2>2. grace' \in [Gens -> 0..Grace]
    BY <1>1, <1>2
  <2> QED
    BY <1>0, <2>1, <2>2 DEF TypeOK
<1>5. MonitorFollows'
  BY <1>0 DEF IInv, MonitorFollows
<1>6. RequestFollows'
  BY <1>0, <1>3 DEF RequestFollows
<1>7. ASSUME NEW r \in Requests, InFlight(r)
      PROVE  /\ retiring[request[r].gen] = "grace" =>
                  Grace <= grace'[request[r].gen] + request'[r].age
             /\ retiring[request[r].gen] = "closed" => request'[r].age = Grace
  <2> DEFINE g == request[r].gen
  <2>1. /\ g \in Gens /\ request[r].age \in 0..Grace
        /\ grace[g] \in 0..Grace /\ grace'[g] \in 0..Grace
        /\ retiring[g] = "grace" => grace'[g] = grace[g] - 1
    BY <1>0, <1>2
  <2>2. /\ retiring[g] = "grace" => Grace <= grace[g] + request[r].age
        /\ retiring[g] = "closed" => request[r].age = Grace
    BY <1>0, <1>7 DEF GraceCovers, Covered
  <2>3. \/ request'[r].age = request[r].age + 1
        \/ request'[r].age = Grace
    BY <1>3, <1>7
  <2>4. request'[r].age \in 0..Grace
    BY <1>3 DEF RequestState
  <2> HIDE DEF g
  <2>5. /\ retiring[g] = "grace" => Grace <= grace'[g] + request'[r].age
        /\ retiring[g] = "closed" => request'[r].age = Grace
    BY <2>1, <2>2, <2>3, <2>4, ConstantFacts
  <2> QED
    BY <2>5 DEF g
<1>8. GraceCovers'
  BY <1>0, <1>3, <1>7 DEF GraceCovers, Covered, InFlight
<1> QED
  BY <1>4, <1>5, <1>6, <1>8 DEF IInv

-----------------------------------------------------------------------------
LEMMA NextInvariant == IInv /\ [Next]_vars => IInv'
<1> SUFFICES ASSUME IInv, [Next]_vars PROVE IInv'
  OBVIOUS
<1>1. CASE ApplyConfig
  BY <1>1, ApplyConfigStep
<1>2. ASSUME NEW g \in Gens,
             \/ Stopped(g) \/ Close(g) \/ NextRound(g)
             \/ \E k \in Keys : Checked(g, k) \/ CheckRaises(g, k)
      PROVE  IInv'
  BY <1>2, StoppedStep, CloseStep, MonitorSteps
<1>3. ASSUME NEW r \in Requests,
             Arrive(r) \/ Attempt(r) \/ Answer(r) \/ Fail(r) \/ StreamEnds(r)
      PROVE  IInv'
  <2>1. /\ UNCHANGED generation
        /\ \E n : Moved(request[r], n) /\ request' = [request EXCEPT ![r] = n]
    BY <1>3, RequestMoves
  <2> QED
    BY <2>1, MoveKeeps
<1>4. CASE Tick
  BY <1>4, TickStep
<1>5. CASE UNCHANGED vars
  BY <1>5 DEF vars, IInv, TypeOK, MonitorFollows, RequestFollows, GraceCovers,
                   Covered, InFlight
<1> QED
  BY <1>1, <1>2, <1>3, <1>4, <1>5 DEF Next

THEOREM Invariance == Spec => []IInv
BY InitInvariant, NextInvariant, PTL DEF Spec

(* Types, and the life of a generation: it is built when it becomes        *)
(* current, retired when the next one does, and its clients are closed by  *)
(* its own retirement only (apply_config, _close_later).                   *)
THEOREM TypeCorrect == Spec => []TypeOK
<1>1. IInv => TypeOK
  BY DEF IInv
<1> QED
  BY <1>1, Invariance, PTL

(* Once replaced, a monitor asks nothing and records nothing more, unless  *)
(* it had died before (ProviderHealthMonitor.stop).                        *)
THEOREM RetiredMonitorsAreSilent == Spec => []RetiredMonitorSilent
<1>1. IInv => RetiredMonitorSilent
  BY DEF IInv, MonitorFollows, RetiredMonitorSilent
<1> QED
  BY <1>1, Invariance, PTL

(* No client is closed under a request that arrived less than the longest  *)
(* request timeout and five seconds before, whatever the request does and  *)
(* however often the configuration is replaced (apply_config,              *)
(* _close_later).                                                          *)
THEOREM RequestsHaveTheirGrace == Spec => []NotCutShort
<1>1. ASSUME IInv PROVE NotCutShort
  <2> SUFFICES ASSUME NEW r \in Requests, InFlight(r), ~Usable(r)
               PROVE  request[r].age = Grace
    BY DEF NotCutShort
  <2>1. request[r].gen \in Gens /\ request[r].gen <= gen /\ gen \in Nat
        /\ request[r].gen \in Nat
    BY <1>1, ConstantFacts DEF IInv, TypeOK, RequestState, RequestFollows
  <2>2. client[request[r].gen] = "closed"
    BY <1>1, <2>1 DEF IInv, TypeOK, Usable
  <2>3. retiring[request[r].gen] = "closed"
    BY <1>1, <2>1, <2>2 DEF IInv, TypeOK
  <2> QED
    BY <1>1, <2>3 DEF IInv, GraceCovers, Covered
<1> QED
  BY <1>1, Invariance, PTL
=============================================================================
