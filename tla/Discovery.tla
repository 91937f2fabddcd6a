----------------------------- MODULE Discovery -----------------------------
(***************************************************************************)
(* Model discovery of one provider and what "auto" makes of it             *)
(* (discover_models and discover_models_cached of                          *)
(* src/app/providers/openai_compatible.py; resolve_dynamic and is_stale of *)
(* src/app/core/router.py).                                                *)
(*                                                                         *)
(* Several tasks may want the list at once: the background refresh that    *)
(* requests share, and admin calls.  They meet at the discovery lock and   *)
(* only its holder calls the upstream.  A request never calls: it takes    *)
(* what is cached, starts a refresh if that is old, and waits for the      *)
(* refresh, for a bounded time, only if nothing is cached.                 *)
(*                                                                         *)
(* Time is in ticks.  The code keeps the instants of the last success and  *)
(* the last failure and compares their distance to the clock; the model    *)
(* keeps the distances.  A list that was never fetched is the empty list,  *)
(* of whatever age; a failure that never happened is one of age Cap.       *)
(***************************************************************************)
EXTENDS Naturals, FiniteSets, Sequences, SequencesExt

CONSTANTS
  Requests,      \* clients that ask for "auto"
  Admins,        \* callers of GET /admin/free-models
  Models,
  Answers,       \* the lists the upstream may answer with
  FreeModels,    \* the configured ":free" chat models
  Refresh,       \* refresh_interval_seconds
  StaleAfter,    \* stale_after_seconds
  FailurePause,  \* min(refresh_interval_seconds, 60)
  MaxWait,       \* DISCOVERY_WAIT_SECONDS
  Cap            \* bound: ages are counted up to here

ASSUME DiscoveryConstants ==
  /\ Answers \subseteq SUBSET Models /\ FreeModels \subseteq Models
  /\ {Refresh, StaleAfter, FailurePause} \subseteq Nat \ {0}
  /\ FailurePause <= Refresh /\ MaxWait \in Nat
  /\ Cap \in Nat /\ Cap > Refresh /\ Cap > StaleAfter + FailurePause

Refresher == "refresher"
Task == Admins \cup {Refresher}

VARIABLES
  list,       \* _discovered_models
  listAge,    \* time since the last success
  failAge,    \* time since the last failure that no success followed
  task,       \* where each task is in discover_models
  queue,      \* the tasks waiting for the lock, in order
  request,    \* each request's task
  closed      \* aclose() was called

vars == <<list, listAge, failAge, task, queue, request, closed>>

TaskPhase == {"idle", "start", "lock", "calling"}
RequestState ==
  [pc : {"idle", "waiting", "elsewhere"}, wait : 0..MaxWait,
   got : SUBSET Models, offered : SUBSET Models]

Init ==
  /\ list = {} /\ listAge = Cap /\ failAge = Cap
  /\ task = [t \in Task |-> "idle"]
  /\ queue = <<>>
  /\ request = [r \in Requests |->
       [pc |-> "idle", wait |-> 0, got |-> {}, offered |-> FreeModels]]
  /\ closed = FALSE

Fresh   == list # {} /\ listAge < Refresh
Pausing == failAge < FailurePause
Idle(t) == task[t] = "idle"
Calling == {t \in Task : task[t] = "calling"}

-----------------------------------------------------------------------------
(* resolve_dynamic: a request goes on with what it was given, first to the *)
(* discovery of other providers, then to resolve().                        *)
Given(q, models) == [q EXCEPT !.pc = "elsewhere", !.wait = 0, !.got = models]

(* The end of a task: whoever waits for the refresh gets the list it       *)
(* returned.                                                               *)
Return(t, models) ==
  /\ task' = [task EXCEPT ![t] = "idle"]
  /\ request' = [r \in Requests |->
       IF t = Refresher /\ request[r].pc = "waiting"
       THEN Given(request[r], models) ELSE request[r]]

(* The checks before the lock, and again once it is held.                  *)
Proceed(t) ==
  \/ /\ Fresh \/ Pausing
     /\ Return(t, list)
  \/ /\ ~Fresh /\ ~Pausing
     /\ task' = [task EXCEPT ![t] = "calling"]
     /\ UNCHANGED request

(* A task enters discover_models.  It takes a free lock without waiting;   *)
(* a lock that somebody already queues for is not free.                    *)
Enter(t) ==
  /\ task[t] = "start"
  /\ \/ /\ Fresh \/ Pausing \/ (Calling = {} /\ queue = <<>>)
        /\ Proceed(t)
        /\ UNCHANGED queue
     \/ /\ ~Fresh /\ ~Pausing
        /\ Calling # {} \/ queue # <<>>
        /\ task' = [task EXCEPT ![t] = "lock"]
        /\ queue' = Append(queue, t)
        /\ UNCHANGED request
  /\ UNCHANGED <<list, listAge, failAge, closed>>

GrantedMutant ==
  /\ queue # <<>> /\ Calling = {}
  /\ queue' = Tail(queue)
  /\ task' = [task EXCEPT ![Head(queue)] = "calling"]
  /\ UNCHANGED <<list, listAge, failAge, request, closed>>

Granted ==
  /\ queue # <<>> /\ Calling = {}
  /\ queue' = Tail(queue)
  /\ Proceed(Head(queue))
  /\ UNCHANGED <<list, listAge, failAge, closed>>

(* The upstream lists its models.                                          *)
Answer(t, models) ==
  /\ task[t] = "calling" /\ ~closed
  /\ list' = models /\ listAge' = 0 /\ failAge' = Cap
  /\ Return(t, models)
  /\ UNCHANGED <<queue, closed>>

(* An error, a timeout, a body that is not a list, a closed client.        *)
FailMutant(t) ==
  /\ task[t] = "calling"
  /\ list' = IF listAge > Refresh THEN {} ELSE list
  /\ failAge' = 0
  /\ Return(t, list')
  /\ UNCHANGED <<listAge, queue, closed>>

FailKeepsMutant(t) ==
  /\ task[t] = "calling"
  /\ failAge' = 0
  /\ Return(t, list)
  /\ UNCHANGED <<list, listAge, queue, closed>>

Fail(t) ==
  /\ task[t] = "calling"
  /\ list' = IF listAge > StaleAfter THEN {} ELSE list
  /\ failAge' = 0
  /\ Return(t, list')
  /\ UNCHANGED <<listAge, queue, closed>>

-----------------------------------------------------------------------------
(* discover_models_cached.  A request of the old configuration may come    *)
(* here when the provider has been replaced already.                       *)
Ask(r) ==
  /\ request[r].pc = "idle"
  /\ request' = [request EXCEPT ![r] =
       IF list # {} THEN Given(@, list) ELSE [@ EXCEPT !.pc = "waiting"]]
  /\ task' = IF ~Fresh /\ Idle(Refresher)
             THEN [task EXCEPT ![Refresher] = "start"] ELSE task
  /\ UNCHANGED <<list, listAge, failAge, queue, closed>>

(* The request gives up on the list.  The refresh is shielded and goes on. *)
TimeOutLateMutant(r) ==
  /\ request[r].pc = "waiting" /\ request[r].wait = MaxWait /\ Idle(Refresher)
  /\ request' = [request EXCEPT ![r] = Given(@, {})]
  /\ UNCHANGED <<list, listAge, failAge, task, queue, closed>>

TimeOut(r) ==
  /\ request[r].pc = "waiting" /\ request[r].wait = MaxWait
  /\ request' = [request EXCEPT ![r] = Given(@, {})]
  /\ UNCHANGED <<list, listAge, failAge, task, queue, closed>>

(* known_model_ids, and the ":free" models resolve() leaves in; those that *)
(* are discovered and not configured come after them.                      *)
KnownModelIdsMutant == list

KnownModelIds == IF list = {} THEN Models ELSE list

Resolve(r) ==
  /\ request[r].pc = "elsewhere"
  /\ request' = [request EXCEPT ![r] =
       [@ EXCEPT !.pc = "idle", !.got = {},
                 !.offered = (FreeModels \cap KnownModelIds) \cup request[r].got]]
  /\ UNCHANGED <<list, listAge, failAge, task, queue, closed>>

(* GET /admin/free-models asks without the cache of requests.              *)
AdminAsk(a) ==
  /\ Idle(a)
  /\ task' = [task EXCEPT ![a] = "start"]
  /\ UNCHANGED <<list, listAge, failAge, queue, request, closed>>

(* The provider is replaced by a reload: the refresh is cancelled, and the *)
(* cancellation ends the requests that wait for it.                        *)
CloseMutant ==
  /\ ~closed /\ closed' = TRUE
  /\ task' = [task EXCEPT ![Refresher] = "idle"]
  /\ request' = [r \in Requests |->
       IF request[r].pc = "waiting"
       THEN [request[r] EXCEPT !.pc = "idle", !.wait = 0] ELSE request[r]]
  /\ UNCHANGED <<list, listAge, failAge, queue>>

Close ==
  /\ ~closed /\ closed' = TRUE
  /\ task' = [task EXCEPT ![Refresher] = "idle"]
  /\ queue' = RemoveFirst(queue, Refresher)
  /\ request' = [r \in Requests |->
       IF request[r].pc = "waiting"
       THEN [request[r] EXCEPT !.pc = "idle", !.wait = 0] ELSE request[r]]
  /\ UNCHANGED <<list, listAge, failAge>>

Older(age) == IF age < Cap THEN age + 1 ELSE Cap

Tick ==
  /\ listAge' = Older(listAge) /\ failAge' = Older(failAge)
  /\ request' = [r \in Requests |->
       IF request[r].pc = "waiting" /\ request[r].wait < MaxWait
       THEN [request[r] EXCEPT !.wait = @ + 1] ELSE request[r]]
  /\ UNCHANGED <<list, task, queue, closed>>

Next ==
  \/ \E t \in Task : Enter(t) \/ Fail(t) \/ \E models \in Answers : Answer(t, models)
  \/ \E r \in Requests : Ask(r) \/ TimeOut(r) \/ Resolve(r)
  \/ \E a \in Admins : AdminAsk(a)
  \/ Granted \/ Close \/ Tick

Spec == Init /\ [][Next]_vars

(* The event loop runs what is ready, and the clock runs.  Nothing is      *)
(* assumed of the upstream: a read timeout starts again with every byte,   *)
(* so a call may stay open.                                                *)
Fairness ==
  /\ \A t \in Task : WF_vars(Enter(t))
  /\ \A r \in Requests : WF_vars(TimeOut(r)) /\ WF_vars(Resolve(r))
  /\ WF_vars(Granted) /\ WF_vars(Tick)

FairSpec == Spec /\ Fairness

-----------------------------------------------------------------------------
(* Properties.                                                             *)

(* Types, and who queues for the lock.                                     *)
TypeOK ==
  /\ list \subseteq Models /\ listAge \in 0..Cap /\ failAge \in 0..Cap
  /\ task \in [Task -> TaskPhase] /\ request \in [Requests -> RequestState]
  /\ closed \in BOOLEAN
  /\ ToSet(queue) = {t \in Task : task[t] = "lock"} /\ IsInjective(queue)

(* One upstream call serves everybody: while a call is out no other is,    *)
(* and there is neither a fresh list nor a failure too recent to try again.*)
(* A task that queued behind a call does not repeat it, however the call   *)
(* ended.                                                                  *)
OneCallServesAll ==
  /\ Cardinality(Calling) <= 1
  /\ Calling # {} => ~Fresh /\ ~Pausing

(* ARCHITECTURE.md:183: the last list is retained during transient failures*)
(* and expires after the stale window.  No failure that came later than    *)
(* the window has left a list behind it, and no failure within the window  *)
(* has taken one away.                                                     *)
ListLifetime ==
  [][/\ list' # {} /\ failAge' < Cap => listAge' - failAge' <= StaleAfter
     /\ list # {} /\ list' = {} => listAge > StaleAfter \/ listAge' = 0]_vars

(* README.md:720: a configured free model is skipped only when it has      *)
(* disappeared from a successful discovery.  One that every list names is  *)
(* offered at every moment: before the first list, behind a timeout, after *)
(* an empty answer, after the list has been dropped.                       *)
Steady == {m \in FreeModels : \A models \in Answers \ {{}} : m \in models}

SteadyModelOffered == \A r \in Requests : Steady \subseteq request[r].offered

(* Nobody waits for ever, even when the upstream never answers.            *)
EveryAskAnswered ==
  \A r \in Requests : request[r].pc = "waiting" ~> request[r].pc = "idle"
=============================================================================
