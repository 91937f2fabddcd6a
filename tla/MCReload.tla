------------------------------ MODULE MCReload ------------------------------
(***************************************************************************)
(* Requests do not meet here, so one at a time lives through the reloads;  *)
(* the monitor checks two keys.                                            *)
(***************************************************************************)
EXTENDS Reload

CONSTANTS r1, k1, k2
=============================================================================
