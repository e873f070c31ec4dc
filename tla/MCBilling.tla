------------------------------ MODULE MCBilling ------------------------------
(* One merchant, two payments, one that can expire, and a charge nobody knows: two  *)
(* coroutines at a time work off any choice of MaxWork things to do.        *)
EXTENDS Billing, TLC

CONSTANTS m1, p1, p2, stray

Item(kind, of, good) == [kind |-> kind, of |-> of, good |-> good]
MCWork == {Item("record", m1, TRUE), Item("trial", m1, TRUE), Item("trial", m1, FALSE),
           Item("charge", m1, TRUE), Item("update", p1, TRUE), Item("update", p1, FALSE), Item("update", p2, TRUE),
           Item("update", stray, TRUE), Item("refund", p1, TRUE), Item("expire", None, TRUE)}
MCOwner == p1 :> m1 @@ p2 :> m1
MCAmount == p1 :> 1 @@ p2 :> 2
=============================================================================
