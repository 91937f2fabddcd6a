---------------------------- MODULE ErrorPolicy ----------------------------
(***************************************************************************)
(* How an upstream failure is classified and what each class of failure    *)
(* entitles the scheduler to do (src/app/core/errors.py).  The module has  *)
(* no state: the scheduler consults it once per failed attempt.            *)
(***************************************************************************)
EXTENDS Integers

AuthErrors      == {"authentication_error", "authorization_error"}
ThrottleErrors  == {"rate_limited", "quota_exceeded"}
ClientErrors    == {"invalid_request", "context_length_exceeded"}
TransientErrors == {"server_error", "timeout", "connection_error",
                    "service_unavailable", "overloaded"}

ErrorCategory ==
  AuthErrors \cup ThrottleErrors \cup ClientErrors \cup TransientErrors
             \cup {"model_not_found", "unknown"}

(* The columns of _DECISIONS the scheduler reads.  RetryableMutant, like    *)
(* every operator whose name ends so, is a faulty variant of the definition*)
(* after it, which a run's properties must tell from the real one.         *)
RetryableMutant(category) == category # "context_length_exceeded"
Retryable(category)    == category \notin ClientErrors
Cooldown(category)     == category \notin ClientErrors \cup {"model_not_found"}
LongCooldown(category) == category = "quota_exceeded"

MarkUnhealthy(category) ==
  CASE category \in AuthErrors      -> "key"
    [] category \in TransientErrors -> "provider"
    [] OTHER                        -> "none"

DecisionScopeMutant(category) == IF category \in AuthErrors THEN "key" ELSE "request"
DecisionScope(category) ==
  CASE category \in AuthErrors         -> "key"
    [] category = "model_not_found"    -> "model"
    [] OTHER                           -> "request"

(***************************************************************************)
(* What the adapter hands back for a failed attempt: an HTTP status with   *)
(* the body patterns that matched, or status 0 and the class of the        *)
(* exception raised before any response arrived.                           *)
(***************************************************************************)
BodyPattern == {"context_length", "model_not_found", "entitlement", "quota"}
ExceptionKind == {"none", "timeout", "network", "other"}

ClassifyHttpStatus(status, body) ==
  CASE status = 401 -> "authentication_error"
    [] status = 403 -> IF "entitlement" \in body THEN "model_not_found"
                                                 ELSE "authorization_error"
    [] status = 404 -> "model_not_found"
    [] status = 408 -> "timeout"
    [] status = 429 -> IF "quota" \in body THEN "quota_exceeded"
                                           ELSE "rate_limited"
    [] status \in {400, 422} ->
         IF "context_length" \in body THEN "context_length_exceeded"
         ELSE IF "model_not_found" \in body THEN "model_not_found"
         ELSE "invalid_request"
    [] status = 409 -> "invalid_request"
    [] status = 503 -> "service_unavailable"
    [] status = 529 -> "overloaded"
    [] status \in (500..599) \ {503, 529} -> "server_error"
    [] OTHER -> "unknown"

ClassifyException(kind) ==
  CASE kind = "timeout" -> "timeout"
    [] kind = "network" -> "connection_error"
    [] OTHER            -> "unknown"

Category(failure) ==
  IF failure.status = 0 THEN ClassifyException(failure.exception)
                        ELSE ClassifyHttpStatus(failure.status, failure.body)
=============================================================================
