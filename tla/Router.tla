------------------------------- MODULE Router -------------------------------
(***************************************************************************)
(* The shared routing state of the gateway - health records and local      *)
(* limits - and the candidate list a request takes from it                 *)
(* (src/app/core/router.py, with LimitState of src/app/core/limits.py).    *)
(*                                                                         *)
(* A request names a model, an alias or "auto".  What that name stands for *)
(* depends on the configuration and the discovered models alone, so it is  *)
(* the constant Route[r]: the (provider, model) pairs in the order of the  *)
(* final stable sort by (provider priority, model priority), each marked   *)
(* dynamic when resolve_dynamic adds it.  A pair may occur twice, as the   *)
(* same target may be listed twice in an alias.  Without a configured pair *)
(* of the capability there is none: resolve() then ends early, and what    *)
(* resolve_dynamic adds all the same execute() does not look at.           *)
(*                                                                         *)
(* Within one pair the order of the keys comes from the key-selection      *)
(* policy, which follows a cursor and counters every other request moves.  *)
(* Here it is left open: any order may be the one the policy produced.     *)
(***************************************************************************)
EXTENDS Health, Sequences, FiniteSets

CONSTANTS
  Providers, Models, KeyNames,
  KeysOf,          \* provider -> its enabled keys
  HealthCfg,       \* provider -> its health settings
  ProviderLimits,  \* provider -> its total_limits
  KeyLimits,       \* key -> its effective limits
  Requests,        \* the client requests of the run
  Route            \* request -> the pairs its model name stands for

NoLimit == -1      \* a limit the operator left out (None in the code)

Key  == {pk \in Providers \X KeyNames : pk[2] \in KeysOf[pk[1]]}
Pair == Providers \X Models

Limit == [concurrent : Nat \cup {NoLimit}, requests : Nat \cup {NoLimit}]
RouteEntry == [provider : Providers, model : Models, dynamic : BOOLEAN]
HealthConfig ==
  [threshold : Nat \ {0}, cooldown : Nat \ {0}, longCooldown : Nat \ {0},
   modelCooldown : Nat \ {0}, modelMaxCooldown : Nat \ {0}]

ASSUME FiniteRequests == IsFiniteSet(Requests)
ASSUME ConfigTypes ==
  /\ KeysOf \in [Providers -> SUBSET KeyNames]
  /\ HealthCfg \in [Providers -> HealthConfig]
  /\ ProviderLimits \in [Providers -> Limit]
  /\ KeyLimits \in [Key -> Limit]
ASSUME RouteType ==
  /\ DOMAIN Route = Requests
  /\ \A r \in Requests : Route[r] \in Seq(RouteEntry)
  /\ \A r \in Requests : Route[r] # <<>> =>
       \E i \in DOMAIN Route[r] : ~Route[r][i].dynamic

VARIABLES
  providerHealth, keyHealth, modelHealth,
  providerLoad, keyLoad   \* LimitState: calls in flight, calls in the window

healthVars == <<providerHealth, keyHealth, modelHealth>>
loadVars   == <<providerLoad, keyLoad>>

-----------------------------------------------------------------------------
(* Local limits.  "sent" counts the calls of one request window; the       *)
(* window is longer than a run of this model, so nothing slides out of it. *)
LoadState == [inFlight : Nat, sent : Nat]

RequestStart(load, target) ==
  [load EXCEPT ![target] = [inFlight |-> @.inFlight + 1, sent |-> @.sent + 1]]

RequestEnd(load, target) ==
  [load EXCEPT ![target].inFlight = IF @ = 0 THEN 0 ELSE @ - 1]

HasRequestBudgetMutant(state, limit) ==
  /\ limit.concurrent = NoLimit \/ state.inFlight <= limit.concurrent
  /\ limit.requests = NoLimit \/ state.sent + 1 <= limit.requests
HasRequestBudget(state, limit) ==
  /\ limit.concurrent = NoLimit \/ state.inFlight < limit.concurrent
  /\ limit.requests = NoLimit \/ state.sent + 1 <= limit.requests

-----------------------------------------------------------------------------
(* Resolution: which candidates a request may try, from the state now.     *)
KeyOf(c)    == <<c.provider, c.key>>
PairOf(c)   == <<c.provider, c.model>>
TargetOf(c) == <<c.provider, c.model, c.key>>

Candidate ==
  {c \in [place : Nat, provider : Providers, model : Models, key : KeyNames,
          dynamic : BOOLEAN] : KeyOf(c) \in Key}

(* A dynamic pair is added by resolve_dynamic after resolve() returned: it *)
(* meets the model's cooldown and the key checks, not the provider's.      *)
PairOpen(c) ==
  /\ ~InCooldown(modelHealth[PairOf(c)])
  /\ \/ c.dynamic
     \/ /\ ~InCooldown(providerHealth[c.provider])
        /\ HasRequestBudget(providerLoad[c.provider], ProviderLimits[c.provider])

KeyOpen(c) ==
  /\ ~InCooldown(keyHealth[KeyOf(c)])
  /\ HasRequestBudget(keyLoad[KeyOf(c)], KeyLimits[KeyOf(c)])

Places(route) ==
  {[place |-> i, provider |-> route[i].provider, model |-> route[i].model,
    key |-> k, dynamic |-> route[i].dynamic] : i \in DOMAIN route, k \in KeyNames}

Resolve(route) ==
  {c \in Places(route) : KeyOf(c) \in Key /\ PairOpen(c) /\ KeyOpen(c)}
=============================================================================
