------------------------------ MODULE Failover ------------------------------
(***************************************************************************)
(* What the gateway promises to do with one request (abstract).  The       *)
(* request is offered some of the targets its model name stands for, and   *)
(* calls them one at a time in the order of preference, each once.  An     *)
(* answer that decides ends it; any other rules out at most the model or   *)
(* the provider it is about.  It is given up only when nothing is open or  *)
(* its calls are spent.                                                    *)
(*                                                                         *)
(* Health, limits, classes of errors and the other requests, by which the  *)
(* code arrives at this, are not mentioned.                                *)
(***************************************************************************)
EXTENDS Integers

CONSTANTS
  Requests,
  Offers,    \* request -> what its name stands for: place, provider, model, key
  Budget,    \* calls a request may make
  Nobody

VARIABLE
  task       \* request -> its stage, the offers open to it, the offer it
             \* called last, and how many it has called

SameModel(x, y) == x.provider = y.provider /\ x.model = y.model
SameTarget(x, y) == SameModel(x, y) /\ x.key = y.key

Init ==
  task = [r \in Requests |->
    [stage |-> "new", open |-> {}, at |-> Nobody, calls |-> 0]]

Preferred(open) == {o \in open : \A x \in open : o.place <= x.place}

Asking(t, o) ==
  [stage |-> "asking", open |-> {x \in t.open : ~SameTarget(x, o)},
   at |-> o, calls |-> t.calls + 1]

Enter(r, t) == task' = [task EXCEPT ![r] = t]

Onward(r, t) ==
  \/ /\ t.calls < Budget
     /\ \E o \in Preferred(t.open) : Enter(r, Asking(t, o))
  \/ /\ t.open = {} \/ t.calls >= Budget
     /\ Enter(r, [t EXCEPT !.stage = "exhausted"])

(* What is on offer is decided once, when the request arrives.             *)
Begin(r) ==
  /\ task[r].stage = "new"
  /\ \E open \in SUBSET Offers[r] : Onward(r, [task[r] EXCEPT !.open = open])

(* A success, or an answer no other target could better.                   *)
Conclude(r) ==
  /\ task[r].stage = "asking"
  /\ \E stage \in {"served", "refused"} : Enter(r, [task[r] EXCEPT !.stage = stage])

(* The target may recover: nothing is ruled out, the request pauses.       *)
Pause(r) ==
  /\ task[r].stage = "asking"
  /\ Enter(r, [task[r] EXCEPT !.stage = "waiting"])

RuledOut(t) ==
  {{}, {x \in t.open : SameModel(x, t.at)},
       {x \in t.open : x.provider = t.at.provider}}

Retry(r) ==
  /\ task[r].stage = "asking"
  /\ \E lost \in RuledOut(task[r]) :
       Onward(r, [task[r] EXCEPT !.open = @ \ lost])

Resume(r) ==
  /\ task[r].stage = "waiting"
  /\ Onward(r, task[r])

Next ==
  \E r \in Requests : Begin(r) \/ Conclude(r) \/ Pause(r) \/ Retry(r) \/ Resume(r)

Spec == Init /\ [][Next]_task
=============================================================================
