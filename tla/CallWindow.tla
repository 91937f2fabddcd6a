----------------------------- MODULE CallWindow -----------------------------
(***************************************************************************)
(* What a local rate-limit window promises: it knows how much was charged  *)
(* in each of the last Size slots of the clock, the current one included,  *)
(* admits a call only while the sum leaves room for it, and after a        *)
(* restart knows what it knew when it was last saved.                      *)
(***************************************************************************)
EXTENDS Integers, Functions

CONSTANTS
  Size,      \* slots of one window
  Limit,     \* charges one window may hold
  Amounts    \* charges made without asking: tokens, calls of a failover

VARIABLES
  recent,    \* age in slots -> charges
  durable    \* the same, for the charges that were saved

Age == 0..(Size - 1)
Empty == [a \in Age |-> 0]

TotalOf(f) == FoldFunction(LAMBDA x, y : x + y, 0, f)
Aged(w, slots) == [a \in Age |-> IF a >= slots THEN w[a - slots] ELSE 0]

Init == recent = Empty /\ durable = Empty

Pass(slots) ==
  recent' = Aged(recent, slots) /\ durable' = Aged(durable, slots)

Charge(amount) ==
  recent' = [recent EXCEPT ![0] = @ + amount] /\ UNCHANGED durable

Admit == TotalOf(recent) + 1 <= Limit /\ Charge(1)

Save == durable' = recent /\ UNCHANGED recent

Restart == recent' = durable /\ UNCHANGED durable

Next ==
  \/ \E slots \in 1..Size : Pass(slots)
  \/ Admit
  \/ \E amount \in Amounts : Charge(amount)
  \/ Save
  \/ Restart

Spec == Init /\ [][Next]_<<recent, durable>>
=============================================================================
