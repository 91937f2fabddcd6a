--------------------------- MODULE SlidingWindow ---------------------------
(***************************************************************************)
(* The ring of buckets behind a local rate limit (_SlidingWindowCounter in *)
(* src/app/core/limits.py) with its dump and load.                         *)
(*                                                                         *)
(* Time is the wall clock in slots of one bucket.  The ring is cleaned     *)
(* lazily: a bucket keeps the counts of an old slot until an operation     *)
(* looks at the clock.                                                     *)
(***************************************************************************)
EXTENDS Integers, Functions

CONSTANTS
  Size, Limit, Amounts,
  Epoch,     \* the slot at which the process first starts
  Horizon,   \* bound: the last slot of a run
  MaxCount   \* bound: the largest count of one bucket

ASSUME RingConstants ==
  /\ Size \in Nat \ {0} /\ Limit \in Nat /\ Amounts \subseteq Nat
  /\ Epoch \in Nat /\ Epoch >= Size
  /\ Horizon \in Nat /\ MaxCount \in Nat

VARIABLES
  now,       \* the wall clock
  ring,      \* the counter in memory
  saved      \* the row of limit_counters

vars == <<now, ring, saved>>

Bucket == 0..(Size - 1)
Ring == [counts : [Bucket -> Nat], lastSlot : Nat]

(* A new counter.  A counter that was never saved is loaded as this one.   *)
Fresh == [counts |-> [b \in Bucket |-> 0], lastSlot |-> 0]

Init == now = Epoch /\ ring = Fresh /\ saved = Fresh

-----------------------------------------------------------------------------
(* _advance: drop what has slid out of the window since the last look.     *)
AdvanceMutant(rg, slot) ==
  [counts |->
     [b \in Bucket |->
        IF \/ slot - rg.lastSlot >= Size
           \/ \E s \in (rg.lastSlot + 1)..(slot - 1) : s % Size = b
        THEN 0 ELSE rg.counts[b]],
   lastSlot |-> IF slot > rg.lastSlot THEN slot ELSE rg.lastSlot]

AdvanceBackMutant(rg, slot) ==
  [counts |->
     [b \in Bucket |->
        IF \/ slot - rg.lastSlot >= Size
           \/ \E s \in (rg.lastSlot + 1)..slot : s % Size = b
        THEN 0 ELSE rg.counts[b]],
   lastSlot |-> slot]

Advance(rg, slot) ==
  [counts |->
     [b \in Bucket |->
        IF \/ slot - rg.lastSlot >= Size
           \/ \E s \in (rg.lastSlot + 1)..slot : s % Size = b
        THEN 0 ELSE rg.counts[b]],
   lastSlot |-> IF slot > rg.lastSlot THEN slot ELSE rg.lastSlot]

CurrentTotal(rg, slot) ==
  FoldFunction(LAMBDA x, y : x + y, 0, Advance(rg, slot).counts)

WouldExceed(rg, amount, slot) == CurrentTotal(rg, slot) + amount > Limit

RecordedMutant(rg, amount, slot) ==
  [Advance(rg, slot) EXCEPT !.counts[slot % Size] = @ + amount,
                            !.lastSlot = slot + 1]

Recorded(rg, amount, slot) ==
  [Advance(rg, slot) EXCEPT !.counts[slot % Size] = @ + amount]

(* has_request_budget and record_request_start, which no await separates.  *)
(* Each reads the clock: if a slot ends between the two the call is a      *)
(* Look, a Pass and a Charge(1).                                           *)
Admit ==
  /\ ~WouldExceed(ring, 1, now)
  /\ ring' = Recorded(ring, 1, now)
  /\ UNCHANGED <<now, saved>>

(* Asking without charging changes the ring too: a refusal, a candidate    *)
(* that is resolved and not called, the dashboard.                         *)
Look ==
  /\ ring' = Advance(ring, now)
  /\ UNCHANGED <<now, saved>>

(* Tokens are charged when the answer is known, and the attempts of a      *)
(* failover without asking.                                                *)
Charge(amount) ==
  LET charged == Recorded(ring, amount, now)
  IN  /\ charged.counts[now % Size] <= MaxCount
      /\ ring' = charged
      /\ UNCHANGED <<now, saved>>

(* dump() into limit_counters: every 60 seconds and on shutdown.           *)
Flush == saved' = ring /\ UNCHANGED <<now, ring>>

(* A crash or a restart: a new counter, then load() of the saved row.      *)
Restart == ring' = saved /\ UNCHANGED <<now, saved>>

Pass(slots) ==
  /\ now + slots <= Horizon
  /\ now' = now + slots
  /\ UNCHANGED <<ring, saved>>

Next ==
  \/ Admit \/ Look \/ Flush \/ Restart
  \/ \E amount \in Amounts : Charge(amount)
  \/ \E slots \in 1..Size : Pass(slots)

Spec == Init /\ [][Next]_vars

-----------------------------------------------------------------------------
(* What a ring says of the last Size slots, once it is cleaned.            *)
View(rg, slot) ==
  [age \in 0..(Size - 1) |->
     LET s == slot - age
     IN  IF rg.lastSlot - Size < s /\ s <= rg.lastSlot
         THEN rg.counts[s % Size] ELSE 0]

Window == INSTANCE CallWindow
            WITH recent <- View(ring, now), durable <- View(saved, now)

(* On a clock that is never set back the lazily cleaned ring is exactly    *)
(* the window of the last Size slots: nothing is forgotten early, nothing  *)
(* is kept late, across any pause, save and restart.                       *)
ImplementsWindow == Window!Spec

(* Types, and the order of the three clocks: the saved row is never ahead  *)
(* of the counter, nor the counter ahead of the wall clock.                *)
TypeOK ==
  /\ now \in Nat /\ ring \in Ring /\ saved \in Ring
  /\ saved.lastSlot <= ring.lastSlot /\ ring.lastSlot <= now
=============================================================================
