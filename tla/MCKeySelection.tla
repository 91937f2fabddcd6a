--------------------------- MODULE MCKeySelection ---------------------------
(* Three keys, so that a name of two models skips one and a name of three  *)
(* comes round within one request.                                         *)
EXTENDS KeySelection

CONSTANTS k1, k2, k3

KeysInOrder == <<k1, k2, k3>>

None == [k \in Keys |-> 0]
Same(window) == [k \in Keys |-> window]
Sizes(first, second, third) == (k1 :> first) @@ (k2 :> second) @@ (k3 :> third)

(* Nothing is ruled out: every policy, names of one to three models; keys  *)
(* without windows, with equal ones, with different ones of one kind or of *)
(* both.                                                                   *)
Calm ==
  {[policy |-> p, models |-> m, headers |-> FALSE, disturbed |-> FALSE,
    limit |-> w[1], budget |-> w[2], arrivals |-> 6] :
     p \in Policies, m \in 1..MaxModels,
     w \in {<<None, None>>, <<Same(3), None>>, <<Sizes(2, 3, 0), None>>,
            <<Sizes(0, 3, 2), Sizes(2, 0, 3)>>}}

(* The upstream announces budgets, beside windows or alone.                *)
Announced ==
  {[policy |-> "smart", models |-> 2, headers |-> TRUE, disturbed |-> FALSE,
    limit |-> w, budget |-> None, arrivals |-> 5] : w \in {None, Same(3)}}

(* Calls fail, and keys and models are ruled out and in again.             *)
Disturbed ==
  {[policy |-> p, models |-> 1, headers |-> FALSE, disturbed |-> TRUE,
    limit |-> w, budget |-> None, arrivals |-> 4] :
     p \in {"smart", "round_robin"}, w \in {None, Sizes(2, 3, 0)}}

(* With several models, fewer requests.                                    *)
SkippedModels ==
  {[policy |-> "smart", models |-> 2, headers |-> FALSE, disturbed |-> TRUE,
    limit |-> Sizes(2, 3, 0), budget |-> None, arrivals |-> 2]}

(* A budget that is used up, or a key ruled out while it is called.        *)
UsedUp ==
  {[policy |-> "smart", models |-> 1, headers |-> TRUE, disturbed |-> TRUE,
    limit |-> None, budget |-> Sizes(2, 0, 0), arrivals |-> 2]}

SettingsSeen == Calm \union Announced \union Disturbed \union SkippedModels \union UsedUp

RequestSymmetry == Permutations(Requests)
=============================================================================
