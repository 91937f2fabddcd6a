---------------------------- MODULE SkewedWindow ----------------------------
(***************************************************************************)
(* The ring of SlidingWindow on a wall clock that may be set back, beside  *)
(* the true window of CallWindow, which goes by the time that has really   *)
(* passed.  time.time() promises no more: an operator or a time service    *)
(* may turn it back between any two calls, across a restart too.           *)
(***************************************************************************)
EXTENDS SlidingWindow

VARIABLES
  recent, durable     \* charges by their true age: see CallWindow

Calls == INSTANCE CallWindow
true == <<recent, durable>>

SkewedInit == Init /\ Calls!Init

(* The clock is set back, by less or by more than a window.                *)
StepBack(slots) ==
  /\ now - slots >= Epoch
  /\ now' = now - slots
  /\ UNCHANGED <<ring, saved, true>>

SkewedNext ==
  \/ Admit /\ Calls!Charge(1)
  \/ Look /\ UNCHANGED true
  \/ \E amount \in Amounts : Charge(amount) /\ Calls!Charge(amount)
  \/ Flush /\ Calls!Save
  \/ Restart /\ Calls!Restart
  \/ \E slots \in 1..Size : Pass(slots) /\ Calls!Pass(slots)
  \/ \E slots \in 1..(Horizon - Epoch) : StepBack(slots)

SkewedSpec == SkewedInit /\ [][SkewedNext]_<<vars, true>>

-----------------------------------------------------------------------------
(* However the clock is set back, a charge made less than a window ago is  *)
(* never forgotten: the ring may count too much, until the clock has       *)
(* caught up, but never too little, so no call is admitted beyond the rate.*)
NeverUndercounts == CurrentTotal(ring, now) >= Calls!TotalOf(recent)
=============================================================================
