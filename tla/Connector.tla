------------------------------ MODULE Connector ------------------------------
(***************************************************************************)
(* services/catalog-connector: one requested sync is fetched from its      *)
(* platform.  Which exception comes out decides whether the request is     *)
(* acknowledged or delivered again.  The publisher passes data= and always *)
(* raises TypeError, also where a failure is to be announced; that leaves  *)
(* nothing of the paging but its first page.                               *)
(***************************************************************************)
EXTENDS Requests

VARIABLES settled   \* how each request's last run ended

connectorVars == <<settled>>

\* as: the platform.
Fetches == {w \in Work : w.service = "connector"}

ConnectorTypeOK == settled \in [Fetches -> {None, "ack", "nak"}]
ConnectorInit == settled = [w \in Fetches |-> None]

\* What can come out of a call, and the exceptions of adapter and client.
TokenCall == {"token", "not found", "unauthorized", "down", "empty", "timeout"}
PageCall == {"page", "unauthorized", "rate limit", "client error", "timeout", "malformed"}

\* get_shopify_token's errors meet "except NotFoundError", a name shopify.py
\* does not import: every one of them turns into a NameError.
TokenError(platform, outcome) ==
  CASE platform = "shopify" -> "NameError"
    [] outcome = "not found" -> "UnauthorizedError"
    [] outcome \in {"unauthorized", "down", "empty"} -> "InfrastructureError"
    [] outcome = "timeout" -> "TimeoutError"

PageError(platform, outcome) ==
  CASE outcome = "unauthorized" -> "UnauthorizedError"
    [] outcome \in {"rate limit", "client error"} -> "InfrastructureError"
    [] outcome = "timeout" -> IF platform = "shopify" THEN "InfrastructureError" ELSE "TimeoutError"
    [] outcome = "malformed" -> "KeyError"

\* process_sync_request: a retryable error goes through; every other one is
\* to be announced first, which raises TypeError instead.
Raised(error) == IF error = "InfrastructureError" THEN error ELSE "TypeError"

\* Mutant of Settles: the run goes round again.
SettlesNever(t, error) == /\ Goes(t, "fetch", None)
                          /\ UNCHANGED settled

\* The listener delivers again what is retryable and acknowledges the rest.
Settles(t, error) ==
  /\ Ends(t)
  /\ settled' = [settled EXCEPT ![open[t]] =
                   IF Raised(error) = "InfrastructureError" THEN "nak" ELSE "ack"]

Authenticate(t) ==
  /\ At(t, "fetch")
  /\ \/ open[t].as \notin {"shopify", "woocommerce"} /\ Settles(t, "NotFoundError")
     \/ /\ open[t].as \in {"shopify", "woocommerce"}
        /\ \/ Goes(t, "page", None) /\ UNCHANGED settled
           \/ \E o \in TokenCall \ {"token"} : Settles(t, TokenError(open[t].as, o))

\* A page is published, which raises: it was the last.
FetchPage(t) ==
  /\ At(t, "page")
  /\ \/ Settles(t, "TypeError")
     \/ \E o \in PageCall \ {"page"} : Settles(t, PageError(open[t].as, o))

ConnectorStep(t) == Authenticate(t) \/ FetchPage(t)
=============================================================================
