------------------------------ MODULE MCLimits ------------------------------
(***************************************************************************)
(* Requests live through edits between limits of the provider alone and    *)
(* limits that a key partly has of its own.                                *)
(***************************************************************************)
EXTENDS Limits

CONSTANTS r1, r2, r3

Declared(most, requests, tokens) ==
  [concurrent_requests |-> most,
   window |-> [f \in Fields |-> IF f \in RequestFields THEN requests ELSE tokens]]

(* The token window is in every configuration, the request window in two;  *)
(* one configuration has no limit on requests in flight.                   *)
Edits ==
  {EffectiveKeyLimits(Declared(2, 0, 3), own) :
     own \in {Declared(0, 0, 0), Declared(1, 3, 2)}} \cup
  {EffectiveKeyLimits(Declared(0, 2, 0), Declared(0, 0, 2))}
=============================================================================
