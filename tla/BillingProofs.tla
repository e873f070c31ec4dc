---------------------------- MODULE BillingProofs ----------------------------
(***************************************************************************)
(* Proofs about Billing.tla, for any merchants, payments and coroutines.   *)
(***************************************************************************)
EXTENDS Billing, TLAPS

\* Where a run is tells what it works on and what it has seen of it; what it
\* has seen of the tables does not become undone.
AtWork(t) ==
  /\ pc[t] = "idle" <=> open[t] = None
  /\ pc[t] \in Kinds => open[t].kind = pc[t]
  /\ pc[t] = "insert" => open[t].kind = "record"
  /\ pc[t] = "activate" => open[t].kind = "trial" /\ Exists(Of(t))
  /\ pc[t] \in {"complete", "tally", "count"} => open[t].kind = "update" /\ Of(t) \in Payments
  /\ pc[t] = "count" => Exists(Owner[Of(t)])
  /\ pc[t] = "fail" => open[t].kind = "update" /\ Of(t) \in Payments
  /\ pc[t] = "mark" => open[t].kind = "refund" /\ Of(t) \in Payments

\* The cause of an event, or of one a run is about to publish.
Caused(kind, of) ==
  /\ kind = "record" => Exists(of)
  /\ kind = "trial" => Exists(of) /\ ~account[of].trial /\ acts[of] > 0
  /\ kind = "update" => of \in Payments /\ status[of] # "pending"

HasCause(t) == pc[t] = "publish" => Caused(open[t].kind, Of(t))

LooksInTime(t) == pc[t] \in {"activate", "complete", "tally", "count"} => atLook[t] = 0

RunInv(t) == AtWork(t) /\ HasCause(t) /\ LooksInTime(t)

\* What was done can be seen to have been done.
ActsShow == /\ \A m \in Merchants : acts[m] > 0 => Exists(m) /\ ~account[m].trial
            /\ \A p \in Payments : acts[p] > 0 => status[p] # "pending"

\* As long as no two runs held a merchant's total, one may hold it, unchanged.
Total(m) == /\ ~Exists(m) => tallied[m].sum = 0
            /\ ~tallied[m].raced =>
                 /\ Exists(m) => account[m].spend = tallied[m].sum
                 /\ \A t \in Reading(m) : read[t] = account[m].spend
                 /\ \A t, u \in Reading(m) : t = u
Totals == \A m \in Merchants : Total(m)

EventKinds == {"record", "trial", "update"}
Causes == \A e \in published : e.kind \in EventKinds /\ Caused(e.kind, e.of)

\* The inductive invariant.
IInv == /\ TypeOK
        /\ \A t \in Tasks : RunInv(t)
        /\ ActsShow
        /\ Totals
        /\ Causes

-----------------------------------------------------------------------------
(* The tables.                                                             *)

LEMMA AccountExists ==
  ASSUME NEW a \in Accounts
  PROVE  a # NoAccount
  <1>1. DOMAIN a = {"trial", "spend"} /\ DOMAIN NoAccount = {"trial"}
    BY DEF Accounts, NoAccount
  <1>2. "spend" \in DOMAIN a /\ "spend" \notin DOMAIN NoAccount
    BY <1>1
  <1> QED
    BY <1>2

LEMMA AccountType ==
  ASSUME TypeOK, NEW m \in Merchants, Exists(m)
  PROVE  account[m] \in Accounts
  BY DEF TypeOK, Exists

\* A run has its work.
LEMMA RunWork ==
  ASSUME TypeOK, NEW t \in Tasks, AtWork(t), pc[t] # "idle"
  PROVE  /\ open[t] \in Work /\ open[t].kind \in Kinds /\ open[t].good \in BOOLEAN
         /\ open[t].kind \in {"record", "trial", "charge"} => Of(t) \in Merchants
  <1>1. open[t] \in Work
    BY DEF TypeOK, AtWork, Runs!RunsTypeOK
  <1> QED
    BY <1>1, WorkAssumption DEF Of

\* Nothing that causes an event or lets a run go on is taken back.
Kept == /\ \A m \in Merchants : Exists(m) =>
             Exists(m)' /\ (~account[m].trial => ~account'[m].trial)
        /\ \A p \in Payments : status[p] # "pending" => status'[p] # "pending"
        /\ \A x \in Merchants \cup Payments : acts[x] > 0 => acts'[x] > 0

Others(t) == /\ \A u \in Tasks \ {t} : /\ pc'[u] = pc[u] /\ open'[u] = open[u]
                                      /\ atLook'[u] = atLook[u] /\ read'[u] = read[u]

LEMMA CauseKept ==
  ASSUME Kept, NEW kind, NEW of, Caused(kind, of), kind \in {"record", "trial"} => of \in Merchants
  PROVE  Caused(kind, of)'
  BY DEF Kept, Caused

LEMMA OthersKept ==
  ASSUME TypeOK, NEW t \in Tasks, NEW u \in Tasks \ {t}, RunInv(u), Kept, Others(t)
  PROVE  RunInv(u)'
  <1>1. pc[u] # "idle" => /\ open[u].kind \in {"record", "trial", "charge"} => Of(u) \in Merchants
    BY RunWork DEF RunInv
  <1>2. Of(u)' = Of(u) /\ pc'[u] = pc[u] /\ open'[u] = open[u] /\ atLook'[u] = atLook[u]
    BY DEF Others, Of
  <1>3. AtWork(u)'
    BY <1>1, <1>2, PaymentsAssumption DEF RunInv, AtWork, Kept
  <1>4. HasCause(u)'
    <2>1. CASE pc[u] = "publish"
      <3>1. PICK w \in Work : open[u] = w
        BY <2>1, RunWork DEF RunInv
      <3>2. Caused(w.kind, w.of) /\ (w.kind \in {"record", "trial"} => w.of \in Merchants)
        BY <2>1, <3>1, <1>1 DEF RunInv, HasCause, Of
      <3>3. Caused(w.kind, w.of)'
        BY <3>2, CauseKept
      <3> QED
        BY <1>2, <3>1, <3>3 DEF HasCause, Of
    <2>2. CASE pc[u] # "publish"
      BY <1>2, <2>2 DEF HasCause
    <2> QED
      BY <2>1, <2>2
  <1>5. LooksInTime(u)'
    BY <1>2 DEF RunInv, LooksInTime
  <1> QED
    BY <1>3, <1>4, <1>5 DEF RunInv

LEMMA CausesKept ==
  ASSUME TypeOK, Causes, Kept, published' = published
  PROVE  Causes'
  <1> SUFFICES ASSUME NEW e \in published
               PROVE  e.kind \in EventKinds /\ Caused(e.kind, e.of)'
    BY DEF Causes
  <1>1. e.kind \in EventKinds /\ Caused(e.kind, e.of)
    BY DEF Causes
  <1>2. e.kind \in {"record", "trial"} => e.of \in Merchants
    <2>1. PICK w \in Work : e = Event(w)
      BY DEF TypeOK
    <2>2. e.kind = w.kind /\ e.of = w.of
      BY <2>1 DEF Event
    <2> QED
      BY <2>2, WorkAssumption
  <1> QED
    BY <1>1, <1>2, CauseKept

-----------------------------------------------------------------------------
(* What steps have in common.                                              *)

Places == Kinds \cup {"idle", "insert", "activate", "complete", "fail",
                     "tally", "count", "mark", "publish"}
RunTypes == /\ Runs!RunsTypeOK
            /\ pc \in [Tasks -> Places]
            /\ read \in [Tasks -> Nat]
            /\ atLook \in [Tasks -> Nat]
TableTypes == /\ account \in [Merchants -> Accounts \cup {NoAccount}]
              /\ status \in [Payments -> Statuses]
              /\ published \subseteq {Event(w) : w \in Work}
              /\ acts \in [Merchants \cup Payments -> Nat]
              /\ tallied \in [Merchants -> [sum : Nat, raced : BOOLEAN]]

LEMMA TypeParts == TypeOK <=> RunTypes /\ TableTypes
  BY DEF TypeOK, RunTypes, TableTypes, Places

LEMMA TypePartsNext == TypeOK' <=> RunTypes' /\ TableTypes'
  BY DEF TypeOK, RunTypes, TableTypes, Places

LEMMA EndsRun ==
  ASSUME TypeOK, NEW t \in Tasks, Ends(t)
  PROVE  RunTypes' /\ Others(t) /\ RunInv(t)' /\ pc'[t] = "idle"
  <1> USE DEF TypeOK, Ends, Runs!End, Goto
  <1>1. RunTypes'
    BY DEF RunTypes, Runs!RunsTypeOK, Places
  <1>2. Others(t)
    BY DEF Others, Runs!RunsTypeOK
  <1>3. pc'[t] = "idle" /\ open'[t] = None
    BY DEF Runs!RunsTypeOK
  <1>4. RunInv(t)'
    BY <1>3, KindsAssumption DEF RunInv, AtWork, HasCause, LooksInTime
  <1> QED
    BY <1>1, <1>2, <1>3, <1>4

\* A run moves on in its code.
Moves(t, where) == /\ pc' = [pc EXCEPT ![t] = where]
                   /\ UNCHANGED <<begun, open>>

LEMMA MovesRun ==
  ASSUME TypeOK, NEW t \in Tasks, NEW where \in Places, Moves(t, where),
         read' = read \/ \E x \in Nat : read' = [read EXCEPT ![t] = x],
         atLook' = atLook \/ \E x \in Nat : atLook' = [atLook EXCEPT ![t] = x]
  PROVE  RunTypes' /\ Others(t) /\ pc'[t] = where /\ open'[t] = open[t] /\ Of(t)' = Of(t)
  <1> USE DEF TypeOK, Moves, Places
  <1>1. RunTypes'
    BY DEF RunTypes, Runs!RunsTypeOK
  <1>2. Others(t)
    BY DEF Others
  <1> QED
    BY <1>1, <1>2 DEF Of

\* Tables that stay are still sound, and so are totals nobody picks up.
LEMMA TablesStay ==
  ASSUME IInv, UNCHANGED <<account, status, published, acts>>
  PROVE  Kept /\ ActsShow' /\ Causes'
  <1>1. Kept
    BY DEF Kept, Exists
  <1>2. ActsShow'
    BY DEF IInv, ActsShow, Exists
  <1> QED
    BY <1>1, <1>2, CausesKept DEF IInv

LEMMA TotalsStay ==
  ASSUME TypeOK, Totals, NEW t \in Tasks, Others(t), pc'[t] # "count",
         UNCHANGED <<account, tallied>>
  PROVE  Totals'
  <1>1. \A m \in Merchants : Reading(m)' \subseteq Reading(m)
    BY DEF Reading, Others, Of
  <1>2. \A u \in Tasks : pc'[u] = "count" => read'[u] = read[u]
    BY DEF Others
  <1> QED
    BY <1>1, <1>2 DEF Totals, Total, Exists, Reading

LEMMA NextInv ==
  ASSUME IInv, NEW t \in Tasks, Kept, Others(t), RunTypes', TableTypes', RunInv(t)',
         ActsShow', Totals', Causes'
  PROVE  IInv'
  <1>1. \A u \in Tasks : RunInv(u)'
    BY OthersKept DEF IInv
  <1> QED
    BY <1>1, TypePartsNext DEF IInv

\* A run that ends without a trace.
LEMMA EndKeepsInv ==
  ASSUME IInv, NEW t \in Tasks, Ends(t), UNCHANGED <<tables, published, acts, tallied>>
  PROVE  IInv'
  <1>1. RunTypes' /\ Others(t) /\ RunInv(t)' /\ pc'[t] = "idle"
    BY EndsRun DEF IInv
  <1>2. Kept /\ ActsShow' /\ Causes' /\ Totals'
    BY <1>1, TablesStay, TotalsStay DEF IInv, tables
  <1>3. TableTypes'
    BY DEF IInv, TypeOK, TableTypes, tables
  <1> QED
    BY <1>1, <1>2, <1>3, NextInv

\* A run that goes on without a trace, and not with a total.
LEMMA MoveKeepsInv ==
  ASSUME IInv, NEW t \in Tasks, NEW where \in Places, Moves(t, where), where # "count",
         read' = read,
         atLook' = atLook \/ \E x \in Nat : atLook' = [atLook EXCEPT ![t] = x],
         UNCHANGED <<tables, published, acts, tallied>>, RunInv(t)'
  PROVE  IInv'
  <1>1. RunTypes' /\ Others(t) /\ pc'[t] = where
    BY MovesRun DEF IInv
  <1>2. Kept /\ ActsShow' /\ Causes' /\ Totals'
    BY <1>1, TablesStay, TotalsStay DEF IInv, tables
  <1>3. TableTypes'
    BY DEF IInv, TypeOK, TableTypes, tables
  <1> QED
    BY <1>1, <1>2, <1>3, NextInv

-----------------------------------------------------------------------------
LEMMA InitInv == Init => IInv
  <1> SUFFICES ASSUME Init PROVE IInv
    OBVIOUS
  <1> USE DEF Init
  <1>1. TypeOK
    <2>1. RunTypes
      BY DeliverAssumption DEF RunTypes, Runs!RunsTypeOK, Runs!RunsInit, Places
    <2>2. status \in [Payments -> Statuses]
      BY PaymentsAssumption DEF Statuses
    <2>3. tallied \in [Merchants -> [sum : Nat, raced : BOOLEAN]]
      OBVIOUS
    <2> QED
      BY <2>1, <2>2, <2>3, TypeParts DEF TableTypes
  <1>2. \A t \in Tasks : RunInv(t)
    BY KindsAssumption DEF RunInv, AtWork, HasCause, LooksInTime, Runs!RunsInit
  <1>3. ActsShow /\ Causes
    BY DEF ActsShow, Causes
  <1>4. Totals
    BY DEF Totals, Total, Exists, Reading
  <1> QED
    BY <1>1, <1>2, <1>3, <1>4 DEF IInv

-----------------------------------------------------------------------------
(* The steps of a run, in the order of Billing.                            *)

LEMMA StartStep == ASSUME IInv, NEW t \in Tasks, Start(t) PROVE IInv'
  <1>1. PICK w \in Work : Runs!Begin(t, w) /\ Goto(t, w.kind)
    BY DEF Start
  <1>2. w.kind \in Kinds /\ w # None
    BY WorkAssumption, BillingNone
  <1> USE DEF Runs!Begin, Goto
  <1>3. RunTypes'
    BY <1>1, <1>2, DeliverAssumption DEF Start, history, IInv, TypeOK, RunTypes, Runs!RunsTypeOK, Places
  <1>4. Others(t)
    BY <1>1 DEF Start, history, Others, IInv, TypeOK, Runs!RunsTypeOK
  <1>5. pc'[t] = w.kind /\ open'[t] = w
    BY <1>1 DEF IInv, TypeOK, Runs!RunsTypeOK
  <1>6. RunInv(t)'
    BY <1>2, <1>5, KindsAssumption DEF RunInv, AtWork, HasCause, LooksInTime
  <1>7. Kept /\ ActsShow' /\ Causes'
    BY TablesStay DEF Start, tables, history
  <1>8. Totals'
    BY <1>2, <1>4, <1>5, TotalsStay, KindsAssumption DEF IInv, Start, tables, history
  <1>9. TableTypes'
    BY DEF IInv, TypeOK, TableTypes, Start, tables, history
  <1> QED
    BY <1>3, <1>4, <1>6, <1>7, <1>8, <1>9, NextInv

LEMMA FindRecordStep == ASSUME IInv, NEW t \in Tasks, FindRecord(t) PROVE IInv'
  <1>1. CASE Exists(Of(t))
    BY <1>1, EndKeepsInv DEF FindRecord, Returns
  <1>2. CASE ~Exists(Of(t))
    <2>1. Moves(t, "insert") /\ UNCHANGED <<read, atLook, tables, published, acts, tallied>>
      BY <1>2 DEF FindRecord, Continues, Stays, Goto, Moves, runVars
    <2>2. pc'[t] = "insert" /\ open'[t] = open[t] /\ open[t].kind = "record"
      BY <2>1, KindsAssumption DEF FindRecord, IInv, RunInv, AtWork, Moves, TypeOK
    <2>3. open[t] # None
      BY DEF FindRecord, IInv, RunInv, AtWork
    <2>4. RunInv(t)'
      BY <2>2, <2>3, KindsAssumption DEF RunInv, AtWork, HasCause, LooksInTime
    <2> QED
      BY <2>1, <2>4, MoveKeepsInv DEF Places
  <1> QED
    BY <1>1, <1>2

LEMMA LookAtTrialStep == ASSUME IInv, NEW t \in Tasks, LookAtTrial(t) PROVE IInv'
  <1>1. CASE TrialRefused(open[t])
    BY <1>1, EndKeepsInv DEF LookAtTrial, Raises
  <1>2. CASE ~TrialRefused(open[t])
    <2>1. /\ open[t].kind = "trial" /\ open[t] # None /\ Of(t) \in Merchants
      BY RunWork, KindsAssumption DEF LookAtTrial, IInv, RunInv, AtWork
    <2>2. Exists(Of(t)) /\ account[Of(t)].trial
      BY <1>2 DEF TrialRefused, Of
    <2>3. acts[Of(t)] = 0
      BY <2>1, <2>2 DEF IInv, ActsShow, TypeOK
    <2>4. /\ Moves(t, "activate") /\ UNCHANGED <<read, tables, published, acts, tallied>>
          /\ atLook' = [atLook EXCEPT ![t] = 0]
      BY <1>2, <2>3 DEF LookAtTrial, Looks, Stays, Goto, Moves, runVars
    <2>5. pc'[t] = "activate" /\ open'[t] = open[t] /\ atLook'[t] = 0
      BY <2>4 DEF IInv, Moves, TypeOK
    <2>6. RunInv(t)'
      BY <2>1, <2>2, <2>4, <2>5, KindsAssumption DEF RunInv, AtWork, HasCause, LooksInTime, Exists, Of, tables
    <2> QED
      BY <2>4, <2>6, MoveKeepsInv DEF Places
  <1> QED
    BY <1>1, <1>2

LEMMA FindChargeStep == ASSUME IInv, NEW t \in Tasks, FindCharge(t) PROVE IInv'
  <1>1. CASE Of(t) \notin Payments \/ Decided(Of(t))
    BY <1>1, EndKeepsInv DEF FindCharge, Returns
  <1>2. CASE ~(Of(t) \notin Payments \/ Decided(Of(t)))
    <2>1. open[t].kind = "update" /\ open[t] # None
      BY KindsAssumption DEF FindCharge, IInv, RunInv, AtWork
    <2>2. acts[Of(t)] = 0
      BY <1>2 DEF Decided, IInv, ActsShow, TypeOK
    <2>3. PICK where \in {"complete", "fail"} : Looks(t, where)
      BY <1>2 DEF FindCharge
    <2>4. /\ Moves(t, where) /\ UNCHANGED <<read, tables, published, acts, tallied>>
          /\ atLook' = [atLook EXCEPT ![t] = 0]
      BY <2>2, <2>3 DEF FindCharge, Looks, Stays, Goto, Moves, runVars
    <2>5. pc'[t] = where /\ open'[t] = open[t] /\ atLook'[t] = 0
      BY <2>4 DEF IInv, Moves, TypeOK
    <2>6. RunInv(t)'
      BY <1>2, <2>1, <2>5, KindsAssumption DEF RunInv, AtWork, HasCause, LooksInTime, Of
    <2> QED
      BY <2>4, <2>6, MoveKeepsInv DEF Places
  <1> QED
    BY <1>1, <1>2

LEMMA FindRefundStep == ASSUME IInv, NEW t \in Tasks, FindRefund(t) PROVE IInv'
  <1>1. CASE Of(t) \notin Payments
    BY <1>1, EndKeepsInv DEF FindRefund, Returns
  <1>2. CASE Of(t) \in Payments
    <2>1. Moves(t, "mark") /\ UNCHANGED <<read, atLook, tables, published, acts, tallied>>
      BY <1>2 DEF FindRefund, Continues, Stays, Goto, Moves, runVars
    <2>2. open[t].kind = "refund" /\ open[t] # None
      BY KindsAssumption DEF FindRefund, IInv, RunInv, AtWork
    <2>3. pc'[t] = "mark" /\ open'[t] = open[t]
      BY <2>1 DEF IInv, Moves, TypeOK
    <2>4. RunInv(t)'
      BY <1>2, <2>2, <2>3, KindsAssumption DEF RunInv, AtWork, HasCause, LooksInTime, Of
    <2> QED
      BY <2>1, <2>4, MoveKeepsInv DEF Places
  <1> QED
    BY <1>1, <1>2

LEMMA MarkCompletedStep == ASSUME IInv, NEW t \in Tasks, MarkCompleted(t) PROVE IInv'
  <1>1. Moves(t, "tally") /\ UNCHANGED <<read, atLook, tables, published, acts, tallied>>
    BY DEF MarkCompleted, Continues, Stays, Goto, Moves, runVars
  <1>2. pc'[t] = "tally" /\ open'[t] = open[t] /\ atLook'[t] = atLook[t]
    BY <1>1 DEF IInv, Moves, TypeOK
  <1>3. RunInv(t)'
    BY <1>2, KindsAssumption DEF MarkCompleted, IInv, RunInv, AtWork, HasCause, LooksInTime, Of
  <1> QED
    BY <1>1, <1>3, MoveKeepsInv DEF Places

LEMMA QuietEndStep == ASSUME IInv, NEW t \in Tasks, CreateCharge(t) \/ Dies(t) PROVE IInv'
  BY EndKeepsInv DEF CreateCharge, Dies, Raises

LEMMA InsertAccountStep == ASSUME IInv, NEW t \in Tasks, InsertAccount(t) PROVE IInv'
  <1>1. open[t].kind = "record" /\ open[t] # None /\ Of(t) \in Merchants
    BY RunWork, KindsAssumption DEF InsertAccount, IInv, RunInv, AtWork
  <1>2. CASE Exists(Of(t))
    BY <1>2, EndKeepsInv DEF InsertAccount, Raises, tables
  <1>3. CASE ~Exists(Of(t))
    <2> DEFINE m == Of(t)
               a == [trial |-> TRUE, spend |-> 0]
    <2>1. /\ Moves(t, "publish") /\ UNCHANGED <<read, atLook, status, published, acts, tallied>>
          /\ account' = [account EXCEPT ![m] = a]
      BY <1>3 DEF InsertAccount, Continues, Stays, Goto, Moves, runVars
    <2>2. a \in Accounts /\ a # NoAccount
      BY AccountExists DEF Accounts
    <2>3. /\ RunTypes' /\ Others(t) /\ pc'[t] = "publish"
          /\ open'[t] = open[t] /\ Of(t)' = Of(t)
      BY <2>1, MovesRun DEF IInv, Places
    <2>4. /\ account'[m] = a /\ \A n \in Merchants \ {m} : account'[n] = account[n]
          /\ account' \in [Merchants -> Accounts \cup {NoAccount}]
      BY <1>1, <2>1, <2>2 DEF IInv, TypeOK
    <2>5. TableTypes'
      BY <2>1, <2>4 DEF IInv, TypeOK, TableTypes
    <2>6. Kept
      BY <1>3, <2>1, <2>4 DEF Kept, Exists
    <2>7. RunInv(t)'
      BY <1>1, <2>2, <2>3, <2>4, KindsAssumption DEF RunInv, AtWork, HasCause, LooksInTime, Caused, Exists
    <2>8. ActsShow'
      BY <1>3, <2>1, <2>4 DEF IInv, ActsShow, Exists
    <2>9. Causes'
      BY <2>1, <2>6, CausesKept DEF IInv
    <2>10. Totals'
      <3> SUFFICES ASSUME NEW n \in Merchants PROVE Total(n)'
        BY DEF Totals
      <3>1. Reading(n)' = Reading(n) /\ \A u \in Reading(n) : read'[u] = read[u]
        BY <2>1, <2>3 DEF Reading, Others, Of, InsertAccount
      <3>2. CASE n = m
        <4>1. Reading(m) = {}
          BY <1>3 DEF Reading, IInv, RunInv, AtWork
        <4> QED
          BY <1>3, <2>1, <2>2, <2>4, <3>1, <3>2, <4>1 DEF IInv, Totals, Total, Exists
      <3>3. CASE n # m
        BY <2>1, <2>4, <3>1, <3>3 DEF IInv, Totals, Total, Exists
      <3> QED
        BY <3>2, <3>3
    <2> QED
      BY <2>3, <2>5, <2>6, <2>7, <2>8, <2>9, <2>10, NextInv
  <1> QED
    BY <1>2, <1>3

LEMMA ActivateTrialStep == ASSUME IInv, NEW t \in Tasks, ActivateTrial(t) PROVE IInv'
  <1> DEFINE m == Of(t)
  <1>1. open[t].kind = "trial" /\ open[t] # None /\ m \in Merchants /\ Exists(m)
    BY RunWork, KindsAssumption DEF ActivateTrial, IInv, RunInv, AtWork
  <1>2. /\ Moves(t, "publish") /\ UNCHANGED <<read, atLook, status, published, tallied>>
        /\ account' = [account EXCEPT ![m].trial = FALSE]
        /\ acts' = [acts EXCEPT ![m] = @ + 1]
    BY DEF ActivateTrial, Acts, Goto, Moves, runVars
  <1>3. /\ RunTypes' /\ Others(t) /\ pc'[t] = "publish"
        /\ open'[t] = open[t] /\ Of(t)' = Of(t)
    BY <1>2, MovesRun DEF IInv, Places
  <1>4. account[m] \in Accounts
    BY <1>1, AccountType DEF IInv
  <1>5. /\ account'[m] = [account[m] EXCEPT !.trial = FALSE] /\ account'[m] \in Accounts
        /\ account'[m].trial = FALSE /\ account'[m].spend = account[m].spend
        /\ \A n \in Merchants \ {m} : account'[n] = account[n]
        /\ account' \in [Merchants -> Accounts \cup {NoAccount}]
    BY <1>1, <1>2, <1>4 DEF IInv, TypeOK, Accounts
  <1>6. /\ acts' \in [Merchants \cup Payments -> Nat] /\ acts'[m] = acts[m] + 1
        /\ \A x \in (Merchants \cup Payments) \ {m} : acts'[x] = acts[x]
    BY <1>1, <1>2 DEF IInv, TypeOK
  <1>7. acts[m] \in Nat /\ m \notin Payments
    BY <1>1, SubjectsAssumption DEF IInv, TypeOK
  <1>8. \A n \in Merchants : Exists(n)' <=> Exists(n)
    BY <1>1, <1>5, AccountExists DEF Exists
  <1>9. TableTypes'
    BY <1>2, <1>5, <1>6 DEF IInv, TypeOK, TableTypes
  <1>10. Kept
    BY <1>2, <1>5, <1>6, <1>7, <1>8 DEF Kept
  <1>11. RunInv(t)'
    BY <1>1, <1>3, <1>5, <1>6, <1>7, <1>8, KindsAssumption
    DEF RunInv, AtWork, HasCause, LooksInTime, Caused
  <1>12. ActsShow'
    BY <1>1, <1>2, <1>5, <1>6, <1>7, <1>8 DEF IInv, ActsShow
  <1>13. Causes'
    BY <1>2, <1>10, CausesKept DEF IInv
  <1>14. Totals'
    <2> SUFFICES ASSUME NEW n \in Merchants PROVE Total(n)'
      BY DEF Totals
    <2>1. Reading(n)' = Reading(n) /\ \A u \in Reading(n) : read'[u] = read[u]
      BY <1>2, <1>3 DEF Reading, Others, Of, ActivateTrial
    <2>2. account'[n].spend = account[n].spend /\ tallied' = tallied
      BY <1>2, <1>5
    <2> QED
      BY <1>8, <2>1, <2>2 DEF IInv, Totals, Total
  <1> QED
    BY <1>3, <1>9, <1>10, <1>11, <1>12, <1>13, <1>14, NextInv

\* A verdict, a refund or an expiry: statuses move, none of them to PENDING.
LEMMA StatusesMove ==
  ASSUME IInv, NEW t \in Tasks, Others(t), RunTypes', RunInv(t)', pc'[t] # "count",
         status' \in [Payments -> Statuses],
         \A p \in Payments : status[p] # "pending" => status'[p] # "pending",
         UNCHANGED <<account, published, acts, tallied>>
  PROVE  IInv'
  <1>1. TableTypes'
    BY DEF IInv, TypeOK, TableTypes
  <1>2. Kept
    BY DEF Kept, Exists
  <1>3. ActsShow'
    BY DEF IInv, ActsShow, Exists
  <1>4. Causes' /\ Totals'
    BY <1>2, CausesKept, TotalsStay DEF IInv
  <1> QED
    BY <1>1, <1>2, <1>3, <1>4, NextInv

LEMMA MarkStep == ASSUME IInv, NEW t \in Tasks, MarkFailed(t) \/ MarkRefunded(t) PROVE IInv'
  <1>1. PICK s \in {"failed", "refunded"} :
          /\ Moves(t, "publish") /\ UNCHANGED <<read, atLook, account, published, acts, tallied>>
          /\ status' = [status EXCEPT ![Of(t)] = s]
    BY DEF MarkFailed, MarkRefunded, Continues, Stays, Goto, Moves, runVars
  <1>2. open[t].kind \in {"update", "refund"} /\ open[t] # None /\ Of(t) \in Payments
    BY KindsAssumption DEF MarkFailed, MarkRefunded, IInv, RunInv, AtWork
  <1>3. /\ RunTypes' /\ Others(t) /\ pc'[t] = "publish"
        /\ open'[t] = open[t] /\ Of(t)' = Of(t)
    BY <1>1, MovesRun DEF IInv, Places
  <1>4. /\ status' \in [Payments -> Statuses] /\ status'[Of(t)] = s
        /\ \A p \in Payments \ {Of(t)} : status'[p] = status[p]
    BY <1>1, <1>2 DEF IInv, TypeOK, Statuses
  <1>5. RunInv(t)'
    BY <1>2, <1>3, <1>4, KindsAssumption DEF RunInv, AtWork, HasCause, LooksInTime, Caused
  <1> QED
    BY <1>1, <1>3, <1>4, <1>5, StatusesMove

LEMMA ExpireStep == ASSUME IInv, NEW t \in Tasks, Expire(t) PROVE IInv'
  <1>1. PICK P \in SUBSET Expiring :
          status' = [p \in Payments |-> IF p \in Due(P) THEN "expired" ELSE status[p]]
    BY DEF Expire
  <1>2. Ends(t) /\ UNCHANGED <<account, published, acts, tallied>>
    BY DEF Expire, Returns
  <1>3. RunTypes' /\ Others(t) /\ RunInv(t)' /\ pc'[t] = "idle"
    BY <1>2, EndsRun DEF IInv
  <1>4. /\ status' \in [Payments -> Statuses]
        /\ \A p \in Payments : status[p] # "pending" => status'[p] # "pending"
    BY <1>1 DEF IInv, TypeOK, Statuses, Due
  <1> QED
    BY <1>2, <1>3, <1>4, StatusesMove

LEMMA PublishStep == ASSUME IInv, NEW t \in Tasks, Publish(t) PROVE IInv'
  <1>1. Ends(t) /\ UNCHANGED <<account, status, acts, tallied>>
    BY DEF Publish, tables
  <1>2. RunTypes' /\ Others(t) /\ RunInv(t)' /\ pc'[t] = "idle"
    BY <1>1, EndsRun DEF IInv
  <1>3. open[t] \in Work
    BY RunWork DEF IInv, RunInv, Publish, Announces
  <1>4. \/ published' = published
        \/ Serializable(open[t]) /\ published' = published \cup {Event(open[t])}
    BY DEF Publish
  <1>5. TableTypes'
    BY <1>1, <1>3, <1>4 DEF IInv, TypeOK, TableTypes
  <1>6. Kept /\ ActsShow'
    BY <1>1 DEF IInv, Kept, ActsShow, Exists
  <1>7. Causes'
    <2>1. Caused(open[t].kind, open[t].of)
      BY DEF Publish, Announces, IInv, RunInv, HasCause, Of
    <2>2. \A e \in published' : e \in published \/ (Serializable(open[t]) /\ e = Event(open[t]))
      BY <1>4
    <2>3. Event(open[t]).kind = open[t].kind /\ Event(open[t]).of = open[t].of
      BY DEF Event
    <2>4. Serializable(open[t]) => open[t].kind \in EventKinds
      BY DEF Serializable, EventKinds
    <2>5. \A e \in published' : e.kind \in EventKinds /\ Caused(e.kind, e.of)
      BY <2>1, <2>2, <2>3, <2>4 DEF IInv, Causes
    <2> QED
      BY <1>1, <2>5 DEF Causes, Caused, Exists
  <1>8. Totals'
    BY <1>1, <1>2, TotalsStay DEF IInv
  <1> QED
    BY <1>2, <1>5, <1>6, <1>7, <1>8, NextInv

LEMMA ReadSpendStep == ASSUME IInv, NEW t \in Tasks, ReadSpend(t) PROVE IInv'
  <1> DEFINE m == Owner[Of(t)]
  <1>1. /\ open[t].kind = "update" /\ open[t] # None /\ Of(t) \in Payments /\ m \in Merchants
        /\ atLook[t] = 0
    BY PaymentsAssumption, KindsAssumption DEF ReadSpend, IInv, RunInv, AtWork, LooksInTime
  <1>2. CASE ~Exists(m)
    BY <1>2, EndKeepsInv DEF ReadSpend, Raises
  <1>3. CASE Exists(m)
    <2>1. /\ Moves(t, "count") /\ UNCHANGED <<atLook, account, status, published, acts>>
          /\ read' = [read EXCEPT ![t] = account[m].spend]
          /\ tallied' = [tallied EXCEPT ![m].raced = @ \/ Reading(m) # {}]
      BY <1>3 DEF ReadSpend, Goto, Moves, runVars, tables
    <2>2. account[m].spend \in Nat
      BY <1>1, <1>3, AccountType DEF IInv, Accounts
    <2>3. /\ RunTypes' /\ Others(t) /\ pc'[t] = "count"
          /\ open'[t] = open[t] /\ Of(t)' = Of(t)
      BY <2>1, <2>2, MovesRun DEF IInv, Places
    <2>4. read'[t] = account[m].spend /\ atLook'[t] = 0
      BY <1>1, <2>1 DEF IInv, TypeOK
    <2>5. /\ tallied[m] \in [sum : Nat, raced : BOOLEAN]
          /\ tallied'[m].sum = tallied[m].sum
          /\ tallied'[m].raced = (tallied[m].raced \/ Reading(m) # {})
          /\ \A n \in Merchants \ {m} : tallied'[n] = tallied[n]
          /\ tallied' \in [Merchants -> [sum : Nat, raced : BOOLEAN]]
      <3>1. tallied[m] \in [sum : Nat, raced : BOOLEAN]
        BY <1>1 DEF IInv, TypeOK
      <3>2. tallied'[m] = [tallied[m] EXCEPT !.raced = @ \/ Reading(m) # {}]
        BY <1>1, <2>1 DEF IInv, TypeOK
      <3>3. tallied'[m] \in [sum : Nat, raced : BOOLEAN]
        BY <3>1, <3>2
      <3> QED
        BY <1>1, <2>1, <3>1, <3>2, <3>3 DEF IInv, TypeOK
    <2>6. TableTypes'
      BY <2>1, <2>5 DEF IInv, TypeOK, TableTypes
    <2>7. RunInv(t)'
      BY <1>1, <1>3, <2>1, <2>3, <2>4, KindsAssumption
      DEF RunInv, AtWork, HasCause, LooksInTime, Exists
    <2>8. Kept /\ ActsShow' /\ Causes'
      BY <2>1, TablesStay
    <2>9. Totals'
      <3> SUFFICES ASSUME NEW n \in Merchants PROVE Total(n)'
        BY DEF Totals
      <3>1. pc[t] # "count"
        BY DEF ReadSpend
      <3>2. CASE n = m
        <4>1. Reading(n)' = Reading(n) \cup {t}
          BY <1>1, <2>3, <3>1, <3>2 DEF Reading, Others, Of
        <4>2. ASSUME ~tallied'[m].raced
              PROVE  ~tallied[m].raced /\ Reading(m) = {}
          BY <2>5, <4>2
        <4>3. /\ Exists(n)' /\ account' = account
              /\ Reading(n)' = Reading(n) \cup {t} /\ read'[t] = account[n].spend
              /\ tallied'[n].sum = tallied[n].sum
          BY <1>3, <2>1, <2>4, <2>5, <3>2, <4>1 DEF Exists
        <4>4. Total(n)
          BY DEF IInv, Totals
        <4>5. ASSUME ~tallied'[n].raced
              PROVE  Reading(n)' = {t} /\ account[n].spend = tallied[n].sum
          BY <1>3, <3>2, <4>2, <4>3, <4>4, <4>5 DEF Total
        <4> QED
          BY <4>3, <4>5 DEF Total
      <3>3. CASE n # m
        <4>1. Reading(n)' = Reading(n) /\ \A u \in Reading(n) : read'[u] = read[u]
          BY <2>3, <3>1, <3>3 DEF Reading, Others, Of
        <4> QED
          BY <2>1, <2>5, <3>3, <4>1 DEF IInv, Totals, Total, Exists
      <3> QED
        BY <3>2, <3>3
    <2> QED
      BY <2>3, <2>6, <2>7, <2>8, <2>9, NextInv
  <1> QED
    BY <1>2, <1>3

LEMMA CountAndCommitStep == ASSUME IInv, NEW t \in Tasks, CountAndCommit(t) PROVE IInv'
  <1> DEFINE p == Of(t)
             m == Owner[p]
  <1>1. /\ open[t].kind = "update" /\ open[t] # None /\ p \in Payments /\ m \in Merchants
        /\ Exists(m) /\ Amount[p] \in Nat /\ read[t] \in Nat /\ pc[t] = "count"
    BY PaymentsAssumption, KindsAssumption DEF CountAndCommit, IInv, RunInv, AtWork, TypeOK
  <1>2. /\ Moves(t, "publish") /\ UNCHANGED <<read, atLook, published>>
        /\ account' = [account EXCEPT ![m].spend = read[t] + Amount[p]]
        /\ status' = [status EXCEPT ![p] = "completed"]
        /\ tallied' = [tallied EXCEPT ![m].sum = @ + Amount[p]]
        /\ acts' = [acts EXCEPT ![p] = @ + 1]
    BY DEF CountAndCommit, Acts, Goto, Moves, runVars
  <1>3. /\ RunTypes' /\ Others(t) /\ pc'[t] = "publish"
        /\ open'[t] = open[t] /\ Of(t)' = p
    BY <1>2, MovesRun DEF IInv, Places
  <1>4. account[m] \in Accounts
    BY <1>1, AccountType DEF IInv
  <1>5. /\ account'[m] = [account[m] EXCEPT !.spend = read[t] + Amount[p]]
        /\ account'[m] \in Accounts
        /\ account'[m].trial = account[m].trial /\ account'[m].spend = read[t] + Amount[p]
        /\ \A n \in Merchants \ {m} : account'[n] = account[n]
        /\ account' \in [Merchants -> Accounts \cup {NoAccount}]
    BY <1>1, <1>2, <1>4 DEF IInv, TypeOK, Accounts
  <1>6. /\ acts' \in [Merchants \cup Payments -> Nat] /\ acts'[p] = acts[p] + 1
        /\ \A x \in (Merchants \cup Payments) \ {p} : acts'[x] = acts[x]
        /\ acts[p] \in Nat /\ p \notin Merchants
    BY <1>1, <1>2, SubjectsAssumption DEF IInv, TypeOK
  <1>7. /\ status' \in [Payments -> Statuses] /\ status'[p] = "completed"
        /\ \A q \in Payments \ {p} : status'[q] = status[q]
    BY <1>1, <1>2 DEF IInv, TypeOK, Statuses
  <1>8. /\ tallied[m] \in [sum : Nat, raced : BOOLEAN]
        /\ tallied'[m].sum = tallied[m].sum + Amount[p]
        /\ tallied'[m].raced = tallied[m].raced
        /\ \A n \in Merchants \ {m} : tallied'[n] = tallied[n]
        /\ tallied' \in [Merchants -> [sum : Nat, raced : BOOLEAN]]
    <2>1. tallied[m] \in [sum : Nat, raced : BOOLEAN]
      BY <1>1 DEF IInv, TypeOK
    <2>2. tallied'[m] = [tallied[m] EXCEPT !.sum = @ + Amount[p]]
      BY <1>1, <1>2 DEF IInv, TypeOK
    <2> QED
      BY <1>1, <1>2, <2>1, <2>2 DEF IInv, TypeOK
  <1>9. \A n \in Merchants : Exists(n)' <=> Exists(n)
    BY <1>1, <1>5, AccountExists DEF Exists
  <1>10. TableTypes'
    BY <1>2, <1>5, <1>6, <1>7, <1>8 DEF IInv, TypeOK, TableTypes
  <1>11. Kept
    <2>1. \A n \in Merchants : account'[n].trial = account[n].trial
      BY <1>5
    <2>2. \A q \in Payments : status[q] # "pending" => status'[q] # "pending"
      BY <1>7
    <2>3. \A x \in Merchants \cup Payments : acts[x] > 0 => acts'[x] > 0
      BY <1>6
    <2> QED
      BY <1>9, <2>1, <2>2, <2>3 DEF Kept
  <1>12. RunInv(t)'
    BY <1>1, <1>3, <1>7, KindsAssumption DEF RunInv, AtWork, HasCause, LooksInTime, Caused
  <1>13. ActsShow'
    BY <1>1, <1>5, <1>6, <1>7, <1>9 DEF IInv, ActsShow
  <1>14. Causes'
    BY <1>2, <1>11, CausesKept DEF IInv
  <1>15. Totals'
    <2> SUFFICES ASSUME NEW n \in Merchants PROVE Total(n)'
      BY DEF Totals
    <2>1. Reading(n)' = Reading(n) \ {t} /\ \A u \in Tasks : read'[u] = read[u]
      BY <1>2, <1>3 DEF Reading, Others, Of
    <2>2. CASE n = m
      <3>1. t \in Reading(n) /\ Exists(n) /\ Total(n)
        BY <1>1, <2>2 DEF Reading, IInv, Totals
      <3>2. /\ account'[n].spend = read[t] + Amount[p]
            /\ tallied'[n].sum = tallied[n].sum + Amount[p]
            /\ tallied'[n].raced = tallied[n].raced
        BY <1>5, <1>8, <2>2
      <3>3. ASSUME ~tallied[n].raced
            PROVE  Reading(n)' = {} /\ account'[n].spend = tallied'[n].sum
        <4>1. read[t] = tallied[n].sum
          BY <3>1, <3>3 DEF Total
        <4>2. \A u \in Reading(n) : u = t
          BY <3>1, <3>3 DEF Total
        <4> QED
          BY <2>1, <3>2, <4>1, <4>2
      <3>4. Exists(n)'
        BY <1>9, <3>1
      <3> QED
        BY <3>2, <3>3, <3>4 DEF Total
    <2>3. CASE n # m
      <3>1. Reading(n)' = Reading(n)
        BY <1>1, <2>1, <2>3 DEF Reading
      <3> QED
        BY <1>5, <1>8, <1>9, <2>1, <2>3, <3>1 DEF IInv, Totals, Total, Reading
    <2> QED
      BY <2>2, <2>3
  <1> QED
    BY <1>3, <1>10, <1>11, <1>12, <1>13, <1>14, <1>15, NextInv

LEMMA StepInv == IInv /\ [Next]_vars => IInv'
  <1> SUFFICES ASSUME IInv, [Next]_vars PROVE IInv'
    OBVIOUS
  <1>1. ASSUME NEW t \in Tasks, Start(t) \/ Step(t) \/ Dies(t)
        PROVE  IInv'
    BY <1>1, StartStep, FindRecordStep, InsertAccountStep, LookAtTrialStep, ActivateTrialStep,
       QuietEndStep, FindChargeStep, MarkCompletedStep, ReadSpendStep, CountAndCommitStep,
       MarkStep, FindRefundStep, ExpireStep, PublishStep DEF Step
  <1>2. CASE UNCHANGED vars
    BY <1>2, TypePartsNext DEF vars, runVars, history, tables, IInv, RunInv, AtWork, HasCause, LooksInTime, ActsShow,
       Totals, Total, Causes, Caused, Exists, Reading, Of, TypeOK, Runs!RunsTypeOK
  <1> QED
    BY <1>1, <1>2 DEF Next

LEMMA InvariantHolds == Spec => []IInv
  BY InitInv, StepInv, PTL DEF Spec

\* Type correctness of accounts, payments and the runs over them.
THEOREM TypeCorrect == Spec => []TypeOK
  BY InvariantHolds, PTL DEF IInv

\* activate_trial and handle_purchase_updated repeat what they did only if
\* two runs overlap.
THEOREM RepeatsOverlap == Spec => []RepeatsNeedOverlap
  <1>1. IInv => RepeatsNeedOverlap
    BY DEF IInv, RunInv, LooksInTime, RepeatsNeedOverlap
  <1> QED
    BY <1>1, InvariantHolds, PTL

\* update_spend's total is exact as long as no two purchases of a merchant
\* hold it at one time.
THEOREM SpendIsExact == Spec => []SpendExactUnlessRaced
  <1>1. IInv => SpendExactUnlessRaced
    BY DEF IInv, Totals, Total, SpendExactUnlessRaced
  <1> QED
    BY <1>1, InvariantHolds, PTL

\* What BillingEventPublisher has published stays true of the tables.
THEOREM EventsAreCaused == Spec => []EventsHaveCauses
  <1>1. IInv => EventsHaveCauses
    <2> SUFFICES ASSUME IInv, NEW e \in published
                 PROVE  CASE e.kind = "record" -> Exists(e.of)
                          [] e.kind = "trial"  -> Exists(e.of) /\ ~account[e.of].trial /\ acts[e.of] > 0
                          [] e.kind = "update" -> status[e.of] # "pending"
      BY DEF EventsHaveCauses
    <2> QED
      BY DEF IInv, Causes, Caused, EventKinds
  <1> QED
    BY <1>1, InvariantHolds, PTL

-----------------------------------------------------------------------------
(* The statuses move as PaymentLife says.                                  *)

Decisions == [t \in Tasks |-> Deciding(t)]
Deciders == {"complete", "fail", "tally", "count"}

\* What a step of t does to what the runs are deciding on.
LEMMA DecisionsMove ==
  ASSUME NEW t \in Tasks, Others(t)
  PROVE  Decisions' = [Decisions EXCEPT ![t] = Deciding(t)']
  <1>1. \A u \in Tasks \ {t} : Deciding(u)' = Deciding(u)
    BY DEF Others, Deciding, Of
  <1> QED
    BY <1>1 DEF Decisions

LEMMA LifeStays ==
  ASSUME NEW t \in Tasks, Others(t), Deciding(t)' = Deciding(t), status' = status
  PROVE  UNCHANGED <<status, Decisions>>
  BY DecisionsMove DEF Decisions

LEMMA LifeLeaves ==
  ASSUME NEW t \in Tasks, Others(t), pc'[t] = "idle", status' = status
  PROVE  Life!Leave(t)
  <1>1. Deciding(t)' = {}
    BY DEF Deciding
  <1> QED
    BY <1>1, DecisionsMove DEF Life!Leave, Decisions

LifeStep == [Life!LifeNext]_(Life!lifeVars)

LEMMA StepLife == IInv /\ IInv' /\ [Next]_vars => LifeStep
  <1> SUFFICES ASSUME IInv, IInv', [Next]_vars PROVE LifeStep
    OBVIOUS
  <1> USE DEF Life!LifeNext, Life!lifeVars, LifeStep
  <1>1. ASSUME NEW t \in Tasks, Start(t) PROVE LifeStep
    <2>1. PICK w \in Work : Runs!Begin(t, w) /\ Goto(t, w.kind)
      BY <1>1 DEF Start
    <2>2. Others(t) /\ pc[t] = "idle" /\ pc'[t] = w.kind
      BY <1>1, <2>1 DEF Start, history, Others, IInv, RunInv, AtWork, TypeOK, Runs!RunsTypeOK, Runs!Begin, Goto
    <2>3. Deciding(t)' = Deciding(t)
      BY <2>2, WorkAssumption, KindsAssumption DEF Deciding
    <2> QED
      BY <1>1, <2>2, <2>3, LifeStays DEF Start, tables, Decisions
  <1>2. ASSUME NEW t \in Tasks, Ends(t), status' = status PROVE LifeStep
    BY <1>2, EndsRun, LifeLeaves DEF IInv
  <1>3. ASSUME NEW t \in Tasks, FindCharge(t) PROVE LifeStep
    <2>1. CASE Of(t) \notin Payments \/ Decided(Of(t))
      BY <1>2, <1>3, <2>1 DEF FindCharge, Returns, tables
    <2>2. CASE ~(Of(t) \notin Payments \/ Decided(Of(t)))
      <3>1. PICK where \in {"complete", "fail"} : Looks(t, where) /\ status' = status
        BY <1>3, <2>2 DEF FindCharge, tables
      <3>2. /\ Moves(t, where) /\ read' = read /\ atLook' = [atLook EXCEPT ![t] = acts[Of(t)]]
            /\ acts[Of(t)] \in Nat
        BY <2>2, <3>1 DEF Looks, Stays, Goto, Moves, runVars, IInv, TypeOK
      <3>3. Others(t) /\ pc'[t] = where /\ Of(t)' = Of(t)
        BY <3>2, MovesRun DEF IInv, Places
      <3>4. Deciding(t)' = {Of(t)}
        BY <3>3 DEF Deciding
      <3>5. Life!Look(t, Of(t))
        BY <2>2, <3>1, <3>3, <3>4, DecisionsMove DEF Decided, Life!Look, Decisions
      <3> QED
        BY <2>2, <3>5
    <2> QED
      BY <2>1, <2>2
  <1>4. ASSUME NEW t \in Tasks, NEW where \in Places, Moves(t, where), status' = status,
               read' = read \/ \E x \in Nat : read' = [read EXCEPT ![t] = x],
               atLook' = atLook,
               (pc[t] \in Deciders) <=> (where \in Deciders)
        PROVE  LifeStep
    <2>1. Others(t) /\ pc'[t] = where /\ Of(t)' = Of(t)
      BY <1>4, MovesRun DEF IInv
    <2>2. Deciding(t)' = Deciding(t)
      BY <1>4, <2>1 DEF Deciding, Deciders
    <2> QED
      BY <1>4, <2>1, <2>2, LifeStays DEF Decisions
  <1>5. ASSUME NEW t \in Tasks, FindRecord(t) \/ InsertAccount(t) PROVE LifeStep
    <2>1. CASE Ends(t)
      BY <1>2, <1>5, <2>1 DEF FindRecord, InsertAccount, tables
    <2>2. CASE ~Ends(t)
      <3>1. PICK where \in {"insert", "publish"} : Continues(t, where)
        BY <1>5, <2>2 DEF FindRecord, InsertAccount, Returns, Raises
      <3> QED
        BY <1>4, <1>5, <3>1, KindsAssumption
        DEF FindRecord, InsertAccount, Continues, Stays, Goto, Moves, runVars, tables, Places, Deciders
    <2> QED
      BY <2>1, <2>2
  <1>6. ASSUME NEW t \in Tasks, LookAtTrial(t) PROVE LifeStep
    <2>1. CASE TrialRefused(open[t])
      BY <1>2, <1>6, <2>1 DEF LookAtTrial, Raises, tables
    <2>2. CASE ~TrialRefused(open[t])
      <3>1. Looks(t, "activate") /\ status' = status
        BY <1>6, <2>2 DEF LookAtTrial, tables
      <3>2. /\ Moves(t, "activate") /\ read' = read
            /\ atLook' = [atLook EXCEPT ![t] = acts[Of(t)]] /\ acts[Of(t)] \in Nat
        <4>1. Of(t) \in Merchants
          BY <1>6, RunWork, KindsAssumption DEF LookAtTrial, IInv, RunInv, AtWork
        <4> QED
          BY <3>1, <4>1 DEF Looks, Stays, Goto, Moves, runVars, IInv, TypeOK
      <3>3. Others(t) /\ pc'[t] = "activate"
        BY <3>2, MovesRun DEF IInv, Places
      <3>4. Deciding(t)' = Deciding(t)
        BY <1>6, <3>3 DEF LookAtTrial, Deciding
      <3> QED
        BY <3>1, <3>3, <3>4, LifeStays DEF Decisions
    <2> QED
      BY <2>1, <2>2
  <1>7. ASSUME NEW t \in Tasks, ActivateTrial(t) \/ MarkCompleted(t) PROVE LifeStep
    <2>1. PICK where \in {"publish", "tally"} :
            /\ Moves(t, where) /\ UNCHANGED <<status, read, atLook>>
            /\ (pc[t] \in Deciders) <=> (where \in Deciders)
      BY <1>7 DEF ActivateTrial, MarkCompleted, Acts, Continues, Stays, Goto, Moves, runVars, tables, Deciders
    <2> QED
      BY <1>4, <2>1 DEF Places
  <1>8. ASSUME NEW t \in Tasks, ReadSpend(t) PROVE LifeStep
    <2>1. CASE Exists(Owner[Of(t)])
      <3>1. account[Owner[Of(t)]].spend \in Nat
        BY <1>8, <2>1, AccountType, PaymentsAssumption DEF ReadSpend, IInv, RunInv, AtWork, Accounts
      <3> QED
        BY <1>4, <1>8, <2>1, <3>1 DEF ReadSpend, Goto, Moves, runVars, tables, Places, Deciders
    <2>2. CASE ~Exists(Owner[Of(t)])
      BY <1>2, <1>8, <2>2 DEF ReadSpend, Raises, tables
    <2> QED
      BY <2>1, <2>2
  <1>9. ASSUME NEW t \in Tasks, CountAndCommit(t) \/ MarkFailed(t) PROVE LifeStep
    <2>1. PICK s \in {"completed", "failed"} :
            /\ Moves(t, "publish") /\ UNCHANGED <<read, atLook>>
            /\ status' = [status EXCEPT ![Of(t)] = s]
      BY <1>9 DEF CountAndCommit, MarkFailed, Acts, Continues, Stays, Goto, Moves, runVars
    <2>2. Of(t) \in Payments /\ Deciding(t) = {Of(t)}
      BY <1>9 DEF CountAndCommit, MarkFailed, IInv, RunInv, AtWork, Deciding
    <2>3. Others(t) /\ pc'[t] = "publish"
      BY <2>1, MovesRun DEF IInv, Places
    <2>4. Deciding(t)' = {}
      BY <2>3 DEF Deciding
    <2>5. Life!Decide(t, Of(t))
      BY <2>1, <2>2, <2>3, <2>4, DecisionsMove DEF Life!Decide, Decisions
    <2> QED
      BY <2>2, <2>5
  <1>10. ASSUME NEW t \in Tasks, FindRefund(t) PROVE LifeStep
    <2>1. CASE Of(t) \in Payments
      BY <1>4, <1>10, <2>1 DEF FindRefund, Continues, Stays, Goto, Moves, runVars, tables, Places, Deciders
    <2>2. CASE Of(t) \notin Payments
      BY <1>2, <1>10, <2>2 DEF FindRefund, Returns, tables
    <2> QED
      BY <2>1, <2>2
  <1>11. ASSUME NEW t \in Tasks, MarkRefunded(t) PROVE LifeStep
    <2>1. /\ Moves(t, "publish") /\ UNCHANGED <<read, atLook>>
          /\ status' = [status EXCEPT ![Of(t)] = "refunded"]
      BY <1>11 DEF MarkRefunded, Continues, Stays, Goto, Moves, runVars
    <2>2. Of(t) \in Payments
      BY <1>11 DEF MarkRefunded, IInv, RunInv, AtWork
    <2>3. Others(t) /\ pc'[t] = "publish"
      BY <2>1, MovesRun DEF IInv, Places
    <2>4. Deciding(t)' = Deciding(t)
      BY <1>11, <2>3 DEF MarkRefunded, Deciding
    <2>5. Life!RefundIt(Of(t))
      BY <2>1, <2>3, <2>4, DecisionsMove DEF Life!RefundIt, Decisions
    <2> QED
      BY <2>2, <2>5
  <1>12. ASSUME NEW t \in Tasks, Expire(t) PROVE LifeStep
    <2>1. PICK P \in SUBSET Expiring :
            status' = [p \in Payments |-> IF p \in Due(P) THEN "expired" ELSE status[p]]
      BY <1>12 DEF Expire
    <2>2. Others(t) /\ pc'[t] = "idle"
      BY <1>12, EndsRun DEF Expire, Returns, IInv
    <2>3. Deciding(t)' = Deciding(t)
      BY <1>12, <2>2 DEF Expire, Deciding
    <2>4. Life!ExpireAll(Due(P))
      BY <2>1, <2>2, <2>3, DecisionsMove DEF Life!ExpireAll, Decisions, Due
    <2>5. Due(P) \in SUBSET Payments
      BY PaymentsAssumption DEF Due
    <2> QED
      BY <2>4, <2>5
  <1>13. ASSUME NEW t \in Tasks, CreateCharge(t) \/ Publish(t) \/ Dies(t) PROVE LifeStep
    BY <1>2, <1>13 DEF CreateCharge, Publish, Dies, Raises, tables
  <1>14. CASE UNCHANGED vars
    BY <1>14 DEF vars, tables, runVars, Deciding, Of
  <1> QED
    BY <1>1, <1>3, <1>5, <1>6, <1>7, <1>8, <1>9, <1>10, <1>11, <1>12, <1>13, <1>14 DEF Next, Step

\* A payment leaves PENDING for good, is completed or failed only by a run
\* that saw it PENDING, and expires only then, whatever overlaps.
THEOREM BillingImplementsPaymentLife == Spec => ImplementsPaymentLife
  <1>1. Init => Life!LifeInit
    BY PaymentsAssumption DEF Init, Life!LifeInit, Life!Statuses, Deciding
  <1> QED
    BY <1>1, InvariantHolds, StepLife, PTL DEF Spec, ImplementsPaymentLife, Life!LifeSpec, LifeStep
=============================================================================
