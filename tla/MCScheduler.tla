---------------------------- MODULE MCScheduler ----------------------------
(***************************************************************************)
(* Instances of Scheduler for TLC: small configurations, the answers an    *)
(* upstream may give in each of them, and the constants of the cfgs.       *)
(***************************************************************************)
EXTENDS Scheduler, TLC

CONSTANTS p1, p2, k1, k2, m1, m2, r1, r2, r3

Entry(p, m) == [provider |-> p, model |-> m, dynamic |-> FALSE]
Found(p, m) == [provider |-> p, model |-> m, dynamic |-> TRUE]

Answered(status, body, retryAfter, reset) ==
  [status |-> status, body |-> body, exception |-> "none",
   retryAfter |-> retryAfter, reset |-> reset]
Raised(kind) ==
  [status |-> 0, body |-> {}, exception |-> kind,
   retryAfter |-> NoValue, reset |-> NoValue]

Unauthorized   == Answered(401, {}, NoValue, NoValue)
Throttled      == Answered(429, {}, 2, NoValue)
QuotaSpent     == Answered(429, {"quota"}, NoValue, 2)
NotFound       == Answered(404, {}, NoValue, NoValue)
NotEntitled    == Answered(403, {"entitlement"}, NoValue, NoValue)
BadRequest     == Answered(400, {}, NoValue, NoValue)
ServerError    == Answered(500, {}, NoValue, NoValue)
Overloaded     == Answered(529, {}, 1, NoValue)
ReadTimeout    == Raised("timeout")
NetworkError   == Raised("network")

NoLimits == [concurrent |-> NoLimit, requests |-> NoLimit]
AtMost(n) == [concurrent |-> n, requests |-> NoLimit]
Total(n)  == [concurrent |-> NoLimit, requests |-> n]

SmallHealth == [threshold |-> 2, cooldown |-> 1, longCooldown |-> 2,
                modelCooldown |-> 1, modelMaxCooldown |-> 2]
OnP(x) == [p \in {p1} |-> x]
OnBoth(x, y) == (p1 :> x) @@ (p2 :> y)

-----------------------------------------------------------------------------
(* failover: one request after another through an alias that reaches both  *)
(* providers and lists its first target twice.                             *)
FailoverKeys == OnBoth({k1, k2}, {k1})
FailoverHealth == OnBoth([SmallHealth EXCEPT !.threshold = 1], SmallHealth)
FailoverProviderLimits == OnBoth(NoLimits, NoLimits)
FailoverKeyLimits == [k \in {<<p1, k1>>, <<p1, k2>>, <<p2, k1>>} |-> NoLimits]
AliasRoute == <<Entry(p1, m1), Entry(p1, m2), Entry(p1, m1), Entry(p2, m1)>>
FailoverRoute == (r1 :> AliasRoute) @@ (r2 :> <<>>)
NoResets == {NoValue}
ExhaustedReset == {NoValue, 2}
FailoverFailures == {Unauthorized, Throttled, QuotaSpent, NotFound, BadRequest,
                     ServerError, Overloaded, ReadTimeout, NetworkError}

-----------------------------------------------------------------------------
(* concurrent: three requests, one of them a stream, meet on one provider  *)
(* that takes two calls at a time, one per key.                            *)
SharedKeys == OnP({k1, k2})
SharedHealth == OnP(SmallHealth)
SharedProviderLimits == OnP(AtMost(2))
SharedKeyLimits == (<<p1, k1>> :> AtMost(1)) @@ (<<p1, k2>> :> NoLimits)
SharedRoute == [r \in {r1, r2, r3} |-> <<Entry(p1, m1)>>]
SharedFailures == {Unauthorized, Throttled, NetworkError}
PlainRequests == Permutations({r1, r2})

(* auto: two requests for "auto" at once, each provider with a configured  *)
(* and a discovered model; keys are refused, models are missing, servers   *)
(* fail.                                                                   *)
AutoKeys == OnBoth({k1, k2}, {k1})
AutoHealth == OnBoth(SmallHealth, [SmallHealth EXCEPT !.threshold = 1])
AutoProviderLimits == OnBoth(NoLimits, NoLimits)
AutoKeyLimits == [k \in {<<p1, k1>>, <<p1, k2>>, <<p2, k1>>} |-> NoLimits]
AutoRoute ==
  [r \in {r1, r2} |-> <<Entry(p1, m1), Found(p1, m2), Found(p2, m2)>>]
AutoFailures == {Unauthorized, NotEntitled, ServerError}
=============================================================================
