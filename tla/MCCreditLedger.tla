--------------------------- MODULE MCCreditLedger ---------------------------
(* One merchant's account and one event of each kind, each delivered twice. *)
EXTENDS CreditLedger, TLC

CONSTANTS m1, p1, k1, t0, t1, t2, t3, t4, t5

MCKinds == {"record", "trial", "purchase", "refund", "match"}
Event(kind, ref, credits) == [kind |-> kind, merchant |-> m1, ref |-> ref, credits |-> credits]

\* The refund asks for more credits than were bought.
MCEvents == {Event("record", p1, 0), Event("trial", p1, 1), Event("purchase", p1, 1),
             Event("refund", p1, 2), Event("match", k1, 0)}

\* A poll task per subject, and a second process's for consumptions.
MCSubject == (t0 :> "record") @@ (t1 :> "trial") @@ (t2 :> "purchase") @@
             (t3 :> "refund") @@ (t4 :> "match") @@ (t5 :> "match")
MatchTasks == Permutations({t4, t5})
=============================================================================
