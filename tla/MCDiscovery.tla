---------------------------- MODULE MCDiscovery ----------------------------
(***************************************************************************)
(* Two requests and an admin share one provider with two models.           *)
(***************************************************************************)
EXTENDS Discovery

CONSTANTS r1, r2, a1, m1, m2

(* One model is in every list that names any, the other comes and goes;    *)
(* an upstream may also answer with no chat model at all.                  *)
SomeLists == {{}, {m1}, {m1, m2}}
=============================================================================
