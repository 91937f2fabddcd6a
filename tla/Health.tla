------------------------------- MODULE Health -------------------------------
(***************************************************************************)
(* The health record kept for every provider, key and model                *)
(* (src/app/core/health.py).  The code stores the monotonic instant        *)
(* cooldown_until and only ever compares it with the clock, so the model   *)
(* keeps what those comparisons see: the seconds left of the cooldown,     *)
(* which Elapse counts down.                                               *)
(***************************************************************************)
EXTENDS ErrorPolicy

HealthState ==
  [failures : Nat, cooldown : Nat, reason : ErrorCategory \cup {"none"}]

Untouched == [failures |-> 0, cooldown |-> 0, reason |-> "none"]

RecordFailure(h, category, seconds, threshold) ==
  [failures |-> h.failures + 1,
   reason   |-> category,
   cooldown |-> IF h.failures + 1 >= threshold THEN seconds ELSE h.cooldown]

RecordCooldown(h, seconds) ==
  [h EXCEPT !.cooldown = IF seconds > @ THEN seconds ELSE @]

(* last_failure_reason survives a success.                                 *)
RecordSuccess(h) == [h EXCEPT !.failures = 0, !.cooldown = 0]

InCooldown(h) == h.cooldown > 0

ElapseMutant(h) == [h EXCEPT !.cooldown = @ - 1]
Elapse(h) == [h EXCEPT !.cooldown = IF @ = 0 THEN 0 ELSE @ - 1]

(* Cooldown of a model, doubling with each consecutive failure, capped.    *)
ModelCooldown(base, max, failures) ==
  LET doubled == base * 2^failures
  IN  IF doubled \in 0..max THEN doubled ELSE max
=============================================================================
