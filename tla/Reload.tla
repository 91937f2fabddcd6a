------------------------------- MODULE Reload -------------------------------
(***************************************************************************)
(* Replacing the configuration of a running gateway (apply_config of       *)
(* src/app/admin/status.py, AppState.replace_config, ProviderRegistry,     *)
(* ProviderHealthMonitor of src/app/core/provider_checks.py), under        *)
(* requests that began before.                                             *)
(*                                                                         *)
(* Every configuration is a generation with clients, a scheduler and a     *)
(* monitor of its own; health, limits and usage are shared by all          *)
(* generations (Limits models what an edit of the limits does).  A request *)
(* keeps the generation it arrived in.  A replaced generation stops its    *)
(* monitor and closes its clients after a grace period.                    *)
(*                                                                         *)
(* How long a request takes has no bound: it may wait for the models of    *)
(* one provider after the other, connect and read have a timeout each, and *)
(* the one for reading starts anew with every byte.  Time is in ticks, and *)
(* a timer that is due runs before the clock goes on.                      *)
(***************************************************************************)
EXTENDS Naturals

CONSTANTS
  Requests,
  Keys,      \* the keys the monitor checks
  Timeout,   \* the longest request_timeout_seconds of the providers
  Margin,    \* what the grace period has more than that
  LastGen    \* bound: generations after the first

ASSUME ReloadConstants == {Timeout, Margin, LastGen} \subseteq Nat

Gens == 0..LastGen

VARIABLES
  gen,       \* the generation new requests get
  client,    \* of each generation: "unbuilt", "open", "closed"
  monitor,   \* of each generation: "unbuilt", "asking", "asleep", "dead", "stopped"
  asks,      \* the keys each generation's monitor has asked about, not answered
  retiring,  \* of each generation: "no", "stopping", "grace", "closed", "failed"
  grace,     \* time until the clients of a generation in "grace" are closed
  request    \* each request's task

vars == <<gen, client, monitor, asks, retiring, grace, request>>
generation == <<gen, client, monitor, asks, retiring, grace>>

Grace == Timeout + Margin

(* The age of a request counts from its arrival, up to a grace period.     *)
RequestState ==
  [pc : {"none", "resolving", "calling", "streaming", "backoff"},
   gen : Gens, age : 0..Grace]

InFlight(r) == request[r].pc # "none"

(* No request, or one that is over.                                        *)
Ended == [pc |-> "none", gen |-> 0, age |-> 0]

Init ==
  /\ gen = 0
  /\ client = [g \in Gens |-> IF g = 0 THEN "open" ELSE "unbuilt"]
  /\ monitor = [g \in Gens |-> IF g = 0 THEN "asking" ELSE "unbuilt"]
  /\ asks = [g \in Gens |-> IF g = 0 THEN Keys ELSE {}]
  /\ retiring = [g \in Gens |-> "no"]
  /\ grace = [g \in Gens |-> 0]
  /\ request = [r \in Requests |-> Ended]

-----------------------------------------------------------------------------
(* apply_config up to its await: the swap, the new monitor, and the        *)
(* cancellation of the old one, which reaches the checks it gathers.  A    *)
(* monitor that has died cannot be cancelled, nor the checks it left.      *)
Running(g) == monitor[g] \in {"asking", "asleep"}

CancelMutant(g) ==
  /\ monitor' = [monitor EXCEPT ![g] = IF Running(g) THEN "stopped" ELSE @,
                                ![g + 1] = "asking"]
  /\ asks' = [asks EXCEPT ![g + 1] = Keys]

Cancel(g) ==
  /\ monitor' = [monitor EXCEPT ![g] = IF Running(g) THEN "stopped" ELSE @,
                                ![g + 1] = "asking"]
  /\ asks' = [asks EXCEPT ![g] = IF Running(g) THEN {} ELSE @,
                          ![g + 1] = Keys]

ApplyConfig ==
  /\ gen < LastGen
  /\ gen' = gen + 1
  /\ client' = [client EXCEPT ![gen + 1] = "open"]
  /\ Cancel(gen)
  /\ retiring' = [retiring EXCEPT ![gen] = "stopping"]
  /\ UNCHANGED <<grace, request>>

(* stop() returns, or raises what the monitor died of: then the caller     *)
(* gets an error and nobody closes the old clients.                        *)
StoppedMutant(g) ==
  /\ retiring[g] = "stopping"
  /\ \/ /\ monitor[g] = "dead"
        /\ retiring' = [retiring EXCEPT ![g] = "failed"]
        /\ UNCHANGED grace
     \/ /\ monitor[g] = "stopped"
        /\ retiring' = [retiring EXCEPT ![g] = "grace"]
        /\ grace' = [grace EXCEPT ![g] = Timeout]
  /\ UNCHANGED <<gen, client, monitor, asks, request>>

StoppedRaisesMutant(g) ==
  /\ retiring[g] = "stopping"
  /\ retiring' = [retiring EXCEPT ![g] = "failed"]
  /\ UNCHANGED <<gen, client, monitor, asks, grace, request>>

Stopped(g) ==
  /\ retiring[g] = "stopping"
  /\ \/ /\ monitor[g] = "dead"
        /\ retiring' = [retiring EXCEPT ![g] = "failed"]
        /\ UNCHANGED grace
     \/ /\ monitor[g] = "stopped"
        /\ retiring' = [retiring EXCEPT ![g] = "grace"]
        /\ grace' = [grace EXCEPT ![g] = Grace]
  /\ UNCHANGED <<gen, client, monitor, asks, request>>

(* _close_later and ProviderRegistry.aclose.                               *)
Close(g) ==
  /\ retiring[g] = "grace" /\ grace[g] = 0
  /\ retiring' = [retiring EXCEPT ![g] = "closed"]
  /\ client' = [client EXCEPT ![g] = "closed"]
  /\ UNCHANGED <<gen, monitor, asks, grace, request>>

-----------------------------------------------------------------------------
(* The monitor.  A key is answered for, well or badly; or the body of the  *)
(* answer is of a shape health_check does not expect, which raises through *)
(* gather and ends the task, while the other checks of the round go on.    *)
Checked(g, k) ==
  /\ k \in asks[g]
  /\ asks' = [asks EXCEPT ![g] = @ \ {k}]
  /\ monitor' = [monitor EXCEPT ![g] =
       IF @ = "asking" /\ asks[g] = {k} THEN "asleep" ELSE @]
  /\ UNCHANGED <<gen, client, retiring, grace, request>>

CheckRaises(g, k) ==
  /\ k \in asks[g]
  /\ asks' = [asks EXCEPT ![g] = @ \ {k}]
  /\ monitor' = [monitor EXCEPT ![g] = "dead"]
  /\ UNCHANGED <<gen, client, retiring, grace, request>>

NextRound(g) ==
  /\ monitor[g] = "asleep"
  /\ monitor' = [monitor EXCEPT ![g] = "asking"]
  /\ asks' = [asks EXCEPT ![g] = Keys]
  /\ UNCHANGED <<gen, client, retiring, grace, request>>

-----------------------------------------------------------------------------
(* A request arrives and may wait for model discovery.                     *)
Arrive(r) ==
  /\ request[r].pc = "none"
  /\ request' = [request EXCEPT ![r].pc = "resolving", ![r].gen = gen]
  /\ UNCHANGED generation

(* The first attempt, or the next, with the clients of its generation.     *)
Attempt(r) ==
  /\ request[r].pc \in {"resolving", "backoff"}
  /\ request' = [request EXCEPT ![r].pc = "calling"]
  /\ UNCHANGED generation

Usable(r) == client[request[r].gen] = "open"

(* An answer, or the first byte of a stream.                               *)
Answer(r) ==
  /\ request[r].pc = "calling" /\ Usable(r)
  /\ \/ request' = [request EXCEPT ![r] = Ended]
     \/ request' = [request EXCEPT ![r].pc = "streaming"]
  /\ UNCHANGED generation

(* To its end, to an error or a closed client, or the caller goes away.    *)
StreamEnds(r) ==
  /\ request[r].pc = "streaming"
  /\ request' = [request EXCEPT ![r] = Ended]
  /\ UNCHANGED generation

(* An error of the upstream, a timeout, a closed client; or no candidate   *)
(* is left.  The request tries again or not.                               *)
Fail(r) ==
  /\ request[r].pc \in {"resolving", "calling"}
  /\ \/ request' = [request EXCEPT ![r] = Ended]
     \/ /\ request[r].pc = "calling"
        /\ request' = [request EXCEPT ![r].pc = "backoff"]
  /\ UNCHANGED generation

(* Time passes for the requests and for the grace periods.                 *)
Due == \E g \in Gens : retiring[g] = "grace" /\ grace[g] = 0

Older(q) == [q EXCEPT !.age = IF @ < Grace THEN @ + 1 ELSE @]

Tick ==
  /\ ~Due
  /\ (\E r \in Requests : InFlight(r)) \/ (\E g \in Gens : retiring[g] = "grace")
  /\ request' = [r \in Requests |->
       IF InFlight(r) THEN Older(request[r]) ELSE request[r]]
  /\ grace' = [g \in Gens |-> IF retiring[g] = "grace" THEN grace[g] - 1 ELSE grace[g]]
  /\ UNCHANGED <<gen, client, monitor, asks, retiring>>

Next ==
  \/ ApplyConfig
  \/ \E g \in Gens :
       \/ Stopped(g) \/ Close(g) \/ NextRound(g)
       \/ \E k \in Keys : Checked(g, k) \/ CheckRaises(g, k)
  \/ \E r \in Requests :
       \/ Arrive(r) \/ Attempt(r) \/ Answer(r) \/ Fail(r) \/ StreamEnds(r)
  \/ Tick

Spec == Init /\ [][Next]_vars

(* The event loop runs what is ready: timers, and tasks that were          *)
(* cancelled.  Nothing is asked of the requests or of the upstream.        *)
Fairness ==
  /\ \A g \in Gens : WF_vars(Stopped(g)) /\ WF_vars(Close(g))
  /\ WF_vars(Tick)

FairSpec == Spec /\ Fairness

-----------------------------------------------------------------------------
(* Properties.                                                             *)

(* Types; a generation is built, current, then replaced, and only its own  *)
(* retirement closes its clients.                                          *)
TypeOK ==
  /\ gen \in Gens
  /\ client \in [Gens -> {"unbuilt", "open", "closed"}]
  /\ monitor \in [Gens -> {"unbuilt", "asking", "asleep", "dead", "stopped"}]
  /\ asks \in [Gens -> SUBSET Keys]
  /\ retiring \in [Gens -> {"no", "stopping", "grace", "closed", "failed"}]
  /\ grace \in [Gens -> 0..Grace]
  /\ request \in [Requests -> RequestState]
  /\ \A g \in Gens :
       /\ client[g] = "unbuilt" <=> g > gen
       /\ retiring[g] = "no" <=> g >= gen
       /\ client[g] = "closed" <=> retiring[g] = "closed"

(* status.py:232: requests in flight use the old clients, "close them once *)
(* those have had time to finish".  That time is Timeout + 5 seconds from  *)
(* the arrival of the request, for all it does: its wait for discovery,    *)
(* every attempt, the pauses between them and the stream.  No client is    *)
(* closed under a request that is younger, however often the configuration *)
(* is replaced meanwhile; one that takes longer may be cut short.          *)
NotCutShort ==
  \A r \in Requests : InFlight(r) /\ ~Usable(r) => request[r].age = Grace

(* Once a generation is replaced its monitor asks nothing and records      *)
(* nothing more, unless it had died before: then the checks it left behind *)
(* still write to the health that all generations share.                   *)
RetiredMonitorSilent ==
  \A g \in Gens : g < gen /\ monitor[g] # "dead" => monitor[g] = "stopped" /\ asks[g] = {}

(* The clients of a replaced generation are closed in the end, unless its  *)
(* monitor had died: the caller of the reload is told of that error, and   *)
(* nobody closes them.                                                     *)
OldClientsClosed ==
  \A g \in Gens :
    g < gen /\ monitor[g] # "dead" ~> client[g] = "closed"
=============================================================================
