----------------------------- MODULE PaymentLife -----------------------------
(***************************************************************************)
(* What billing-service promises about the status of a payment, whatever   *)
(* webhooks, redeliveries and expiry jobs overlap: a payment leaves        *)
(* PENDING for good, only a decision taken while it was PENDING completes  *)
(* or fails it, and only a payment that is PENDING expires.                *)
(***************************************************************************)
CONSTANTS Payments,
          Handlers        \* handlers that may be deciding on a payment

VARIABLES status,     \* payments.status
          deciding    \* the payments each handler has seen PENDING

lifeVars == <<status, deciding>>

Statuses == {"pending", "completed", "failed", "expired", "refunded"}

LifeInit == /\ status \in [Payments -> Statuses]
            /\ deciding = [r \in Handlers |-> {}]

Look(r, p) == /\ status[p] = "pending"
              /\ deciding' = [deciding EXCEPT ![r] = {p}]
              /\ UNCHANGED status

\* The handler gives up, or is done.
Leave(r) == /\ deciding' = [deciding EXCEPT ![r] = {}]
            /\ UNCHANGED status

\* The platform's verdict: late if the payment has moved on since the look.
Decide(r, p) == /\ p \in deciding[r]
                /\ \E s \in {"completed", "failed"} : status' = [status EXCEPT ![p] = s]
                /\ deciding' = [deciding EXCEPT ![r] = {}]

RefundIt(p) == /\ status' = [status EXCEPT ![p] = "refunded"]
               /\ UNCHANGED deciding

ExpireAll(P) == /\ \A p \in P : status[p] = "pending"
                /\ status' = [p \in Payments |-> IF p \in P THEN "expired" ELSE status[p]]
                /\ UNCHANGED deciding

LifeNext == \/ \E r \in Handlers : Leave(r) \/ \E p \in Payments : Look(r, p) \/ Decide(r, p)
            \/ \E p \in Payments : RefundIt(p)
            \/ \E P \in SUBSET Payments : ExpireAll(P)

LifeSpec == LifeInit /\ [][LifeNext]_lifeVars
=============================================================================
