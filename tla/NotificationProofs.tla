-------------------------- MODULE NotificationProofs --------------------------
(***************************************************************************)
(* Proofs about Notification.tla, for any events, instances and limits.    *)
(***************************************************************************)
EXTENDS Notification, TLAPS

Places == {"idle", "find", "bump", "create", "refind", "send", "mark", "fail",
           "finish", "raise", "publish", "return"}

\* A run has an event, and nothing is left of it when it ends.
IdleBetweenRuns == \A i \in Instances :
  /\ pc[i] = "idle" <=> open[i] = None
  /\ pc[i] = "idle" => snap[i] = NoRow

\* A row is locked by a retry on its way to the update that waits for it.
LocksOfRetries == \A e \in Msgs, i \in Instances :
  lock[e] = i => open[i] = e /\ pc[i] \in {"send", "mark", "fail"}

\* What a run has seen or is about to write was accepted by the provider.
ReceiptsOfRuns == \A i \in Instances :
  (snap[i].delivered \/ pc[i] = "mark") => open[i] \in Msgs /\ accepted[open[i]] > 0

\* Events whose emails can be accounted for: one run at a time worked on
\* them, and every acceptance is on record.
Clear(e) == e \notin overlap \cup unrecorded

OneRun == \A i, j \in Instances : open[i] # None /\ open[i] = open[j] => i = j \/ open[i] \in overlap

\* A run that may still send has not been preceded by an accepted email ...
NotSentBefore == \A i \in Instances :
  pc[i] \in {"bump", "create", "refind", "send", "fail"} /\ Clear(open[i]) => accepted[open[i]] = 0

\* ... since that would be on record, or about to be.
OnRecord == \A e \in Msgs : Clear(e) /\ accepted[e] > 0 =>
  row[e].status = "SENT" \/ \E i \in Instances : open[i] = e /\ pc[i] = "mark"

\* What is being retried exists.
RetriedRows == /\ \A i \in Instances : pc[i] = "bump" => row[open[i]] # NoRow
               /\ \A e \in Msgs : lock[e] # None => row[e] # NoRow

IInv == /\ TypeOK
        /\ IdleBetweenRuns
        /\ LocksOfRetries
        /\ ReceiptsOfRuns
        /\ RetriedRows
        /\ OneRun
        /\ NotSentBefore
        /\ OnRecord
        /\ NoFalseReceipt
        /\ DuplicateNeedsCause

-----------------------------------------------------------------------------
\* A row with another status, and perhaps delivered, is a row.
LEMMA StatusSet ==
  ASSUME NEW x \in Rows \cup {NoRow}, NEW s \in Status
  PROVE  /\ [x EXCEPT !.status = s] \in Rows
         /\ [x EXCEPT !.status = s].status = s
         /\ [x EXCEPT !.status = s].delivered = x.delivered
         /\ [x EXCEPT !.status = s, !.delivered = TRUE] \in Rows
         /\ [x EXCEPT !.status = s, !.delivered = TRUE].status = s
  <1>1. x \in [status : Status \cup {"none"}, attempts : Nat, delivered : BOOLEAN]
    <2>1. NoRow \in [status : Status \cup {"none"}, attempts : Nat, delivered : BOOLEAN]
      BY DEF NoRow
    <2>2. Rows \subseteq [status : Status \cup {"none"}, attempts : Nat, delivered : BOOLEAN]
      BY DEF Rows
    <2> QED
      BY <2>1, <2>2
  <1>2. [x EXCEPT !.status = s] \in Rows /\ [x EXCEPT !.status = s].status = s
    BY <1>1 DEF Rows
  <1>3. [x EXCEPT !.status = s].delivered = x.delivered
    BY <1>1
  <1>4. /\ [x EXCEPT !.status = s, !.delivered = TRUE] \in Rows
        /\ [x EXCEPT !.status = s, !.delivered = TRUE].status = s
    BY <1>1 DEF Rows
  <1> QED
    BY <1>2, <1>3, <1>4

LEMMA RowsExist == \A x \in Rows : x # NoRow
  BY DEF Rows, NoRow, Status

\* A run is about an event.
LEMMA RunEvent ==
  ASSUME TypeOK, IdleBetweenRuns, NEW i \in Instances, pc[i] # "idle"
  PROVE  Ev(i) \in Msgs /\ open[i] = Ev(i) /\ open[i] # None
  BY NoneIsNoEvent DEF TypeOK, IdleBetweenRuns, Runs!RunsTypeOK, Ev

\* The other runs stay where they are.
Others(i) == \A j \in Instances \ {i} :
  pc'[j] = pc[j] /\ open'[j] = open[j] /\ snap'[j] = snap[j]

RunTypes == /\ Runs!RunsTypeOK
            /\ pc \in [Instances -> Places]
            /\ snap \in [Instances -> Rows \cup {NoRow}]
TableTypes == /\ row \in [Msgs -> Rows \cup {NoRow}]
              /\ lock \in [Msgs -> Instances \cup {None}]
              /\ accepted \in [Msgs -> Nat]
              /\ announced \in SUBSET Msgs
              /\ overlap \in SUBSET Msgs
              /\ unrecorded \in SUBSET Msgs

LEMMA TypePartsNext == TypeOK' <=> RunTypes' /\ TableTypes'
  BY DEF TypeOK, RunTypes, TableTypes, Places

\* A run moves on in its code, perhaps with another copy of its row.
Moves(i, where, copy) == /\ pc' = [pc EXCEPT ![i] = where]
                         /\ snap' = [snap EXCEPT ![i] = copy]
                         /\ UNCHANGED <<begun, open>>

LEMMA MovesRun ==
  ASSUME TypeOK, NEW i \in Instances, NEW where \in Places, NEW copy \in Rows \cup {NoRow},
         Moves(i, where, copy)
  PROVE  /\ RunTypes' /\ Others(i) /\ pc'[i] = where /\ snap'[i] = copy
         /\ open' = open /\ Ev(i)' = Ev(i)
  <1> USE DEF TypeOK, Moves, Places
  <1>1. RunTypes'
    BY DEF RunTypes, Runs!RunsTypeOK
  <1>2. Others(i)
    BY DEF Others
  <1> QED
    BY <1>1, <1>2 DEF Ev

LEMMA EndsRun ==
  ASSUME TypeOK, NEW i \in Instances, RunEnds(i)
  PROVE  RunTypes' /\ Others(i) /\ pc'[i] = "idle" /\ snap'[i] = NoRow /\ open'[i] = None
  <1> USE DEF TypeOK, RunEnds, Runs!End, Goto
  <1>1. RunTypes'
    BY DEF RunTypes, Runs!RunsTypeOK, Places
  <1>2. Others(i)
    BY DEF Others, Runs!RunsTypeOK
  <1> QED
    BY <1>1, <1>2 DEF Runs!RunsTypeOK

\* A place where a run will not send again.
Past == {"find", "mark", "finish", "raise", "publish", "return"}

\* Steps of one run that change neither tables nor history.
LEMMA QuietMove ==
  ASSUME IInv, NEW i \in Instances, NEW where \in Places \ {"idle", "mark"},
         NEW copy \in Rows \cup {NoRow}, Moves(i, where, copy), pc[i] \notin {"idle", "mark"},
         copy.delivered => accepted[Ev(i)] > 0,
         where \in Past \/ (Clear(Ev(i)) => accepted[Ev(i)] = 0),
         \A e \in Msgs : lock[e] = i => where \in {"send", "fail"},
         where = "bump" => row[Ev(i)] # NoRow,
         UNCHANGED <<row, lock, history>>
  PROVE  IInv'
  <1>1. /\ RunTypes' /\ Others(i) /\ pc'[i] = where /\ snap'[i] = copy
        /\ open' = open /\ Ev(i)' = Ev(i)
    BY MovesRun DEF IInv
  <1>2. Ev(i) \in Msgs /\ open[i] = Ev(i) /\ open[i] # None
    BY RunEvent DEF IInv
  <1>3. TypeOK'
    BY <1>1, TypePartsNext DEF IInv, TypeOK, TableTypes, history
  <1>4. IdleBetweenRuns'
    BY <1>1, <1>2 DEF IInv, IdleBetweenRuns, Others
  <1>5. LocksOfRetries'
    BY <1>1, <1>2 DEF IInv, LocksOfRetries, Others
  <1>6. ReceiptsOfRuns'
    BY <1>1, <1>2 DEF IInv, ReceiptsOfRuns, Others, history
  <1>7. OneRun'
    BY <1>1 DEF IInv, OneRun, history
  <1>8. NotSentBefore'
    BY <1>1, <1>2 DEF IInv, NotSentBefore, Others, Clear, Past, history
  <1>9. OnRecord'
    BY <1>1, <1>2 DEF IInv, OnRecord, Others, Clear, history
  <1>10. NoFalseReceipt' /\ DuplicateNeedsCause'
    BY DEF IInv, NoFalseReceipt, DuplicateNeedsCause, history
  <1>11. RetriedRows'
    BY <1>1, <1>2 DEF IInv, RetriedRows, Others
  <1> QED
    BY <1>3, <1>4, <1>5, <1>6, <1>7, <1>8, <1>9, <1>10, <1>11 DEF IInv

LEMMA InitInv == Init => IInv
  <1> SUFFICES ASSUME Init PROVE IInv
    OBVIOUS
  <1> USE NoneIsNoEvent, NoneIsNoInstance, MaxDeliverPositive DEF Init, Runs!RunsInit
  <1>1. TypeOK
    BY DEF TypeOK, Runs!RunsTypeOK
  <1>2. IdleBetweenRuns /\ LocksOfRetries /\ RetriedRows /\ OneRun /\ NotSentBefore
    BY DEF IdleBetweenRuns, LocksOfRetries, RetriedRows, OneRun, NotSentBefore
  <1>3. ReceiptsOfRuns /\ OnRecord /\ NoFalseReceipt /\ DuplicateNeedsCause
    BY DEF ReceiptsOfRuns, OnRecord, NoFalseReceipt, DuplicateNeedsCause, NoRow
  <1> QED
    BY <1>1, <1>2, <1>3 DEF IInv

-----------------------------------------------------------------------------
(* The steps, in the order of Notification.                                *)

\* What an ended run leaves behind: nothing but the tables.
LEMMA EndKeepsInv ==
  ASSUME IInv, NEW i \in Instances, RunEnds(i), row' = row, accepted' = accepted,
         overlap' = overlap, pc[i] # "idle",
         lock' = [e \in Msgs |-> IF lock[e] = i THEN None ELSE lock[e]],
         announced' \in SUBSET Msgs, \A e \in announced' : accepted[e] > 0,
         unrecorded' = unrecorded \cup (IF pc[i] = "mark" THEN {Ev(i)} ELSE {})
  PROVE  IInv'
  <1>1. RunTypes' /\ Others(i) /\ pc'[i] = "idle" /\ snap'[i] = NoRow /\ open'[i] = None
    BY EndsRun DEF IInv
  <1>2. Ev(i) \in Msgs /\ open[i] = Ev(i) /\ open[i] # None
    BY RunEvent DEF IInv
  <1>3. TypeOK'
    BY <1>1, <1>2, TypePartsNext DEF IInv, TypeOK, TableTypes
  <1>4. IdleBetweenRuns'
    BY <1>1 DEF IInv, IdleBetweenRuns, Others
  <1>5. LocksOfRetries'
    BY <1>1, NoneIsNoInstance DEF IInv, LocksOfRetries, Others
  <1>6. ReceiptsOfRuns'
    BY <1>1 DEF IInv, ReceiptsOfRuns, Others, NoRow
  <1>7. OneRun'
    BY <1>1 DEF IInv, OneRun, Others
  <1>8. NotSentBefore'
    BY <1>1 DEF IInv, NotSentBefore, Others, Clear
  <1>9. OnRecord'
    <2> SUFFICES ASSUME NEW e \in Msgs, Clear(e)', accepted[e] > 0, row[e].status # "SENT"
                 PROVE  \E j \in Instances : open'[j] = e /\ pc'[j] = "mark"
      BY DEF OnRecord
    <2>1. PICK j \in Instances : open[j] = e /\ pc[j] = "mark"
      BY DEF IInv, OnRecord, Clear
    <2>2. j # i
      BY <1>2, <2>1 DEF Clear
    <2> QED
      BY <1>1, <2>1, <2>2 DEF Others
  <1>10. NoFalseReceipt' /\ DuplicateNeedsCause'
    BY DEF IInv, NoFalseReceipt, DuplicateNeedsCause
  <1>11. RetriedRows'
    BY <1>1 DEF IInv, RetriedRows, Others
  <1> QED
    BY <1>3, <1>4, <1>5, <1>6, <1>7, <1>8, <1>9, <1>10, <1>11 DEF IInv

LEMMA StartStep == ASSUME IInv, NEW i \in Instances, Start(i) PROVE IInv'
  <1>1. PICK m \in Msgs : Runs!Begin(i, m) /\ Goto(i, Entry(m))
    BY DEF Start
  <1>0. Entry(m) \in {"find", "return", "raise"}
    BY DEF Entry, Merchant, MerchantEntry, CreditEntry, BillingEntry, CatalogEntry
  <1> USE DEF Runs!Begin, Goto
  <1>2. /\ pc[i] = "idle" /\ pc'[i] \in {"find", "return", "raise"} /\ open[i] = None /\ open'[i] = m /\ m # None
        /\ snap' = snap
    BY <1>0, <1>1, NoneIsNoEvent DEF Start, IInv, IdleBetweenRuns, TypeOK, Runs!RunsTypeOK
  <1>3. Others(i)
    BY <1>1 DEF Start, Others, IInv, TypeOK, Runs!RunsTypeOK
  <1>4. /\ overlap \subseteq overlap' /\ overlap' \in SUBSET Msgs
        /\ \A j \in Instances \ {i} : open[j] = m => m \in overlap'
    BY <1>2 DEF Start, IInv, TypeOK
  <1>5. RunTypes'
    BY <1>0, <1>1, MaxDeliverPositive DEF Start, IInv, TypeOK, RunTypes, Runs!RunsTypeOK, Places
  <1>6. TypeOK'
    BY <1>4, <1>5, TypePartsNext DEF Start, IInv, TypeOK, TableTypes
  <1>7. IdleBetweenRuns'
    BY <1>2, <1>3 DEF IInv, IdleBetweenRuns, Others
  <1>8. LocksOfRetries'
    BY <1>2, <1>3 DEF Start, IInv, LocksOfRetries, Others
  <1>9. ReceiptsOfRuns'
    BY <1>2, <1>3 DEF Start, IInv, ReceiptsOfRuns, Others, IdleBetweenRuns, NoRow
  <1>10. OneRun'
    <2> SUFFICES ASSUME NEW j \in Instances, NEW k \in Instances,
                        open'[j] # None, open'[j] = open'[k], j # k
                 PROVE  open'[j] \in overlap'
      BY DEF OneRun
    <2>1. CASE j # i /\ k # i
      BY <1>3, <1>4, <2>1 DEF IInv, OneRun, Others
    <2>2. CASE j = i \/ k = i
      BY <1>2, <1>3, <1>4, <2>2 DEF Others
    <2> QED
      BY <2>1, <2>2
  <1>11. NotSentBefore'
    BY <1>2, <1>3, <1>4 DEF Start, IInv, NotSentBefore, Others, Clear
  <1>12. OnRecord'
    <2> SUFFICES ASSUME NEW e \in Msgs, Clear(e)', accepted[e] > 0, row[e].status # "SENT"
                 PROVE  \E j \in Instances : open'[j] = e /\ pc'[j] = "mark"
      BY DEF OnRecord, Start
    <2>1. PICK j \in Instances : open[j] = e /\ pc[j] = "mark"
      BY <1>4 DEF IInv, OnRecord, Clear, Start
    <2> QED
      BY <1>2, <1>3, <2>1 DEF Others
  <1>13. NoFalseReceipt' /\ DuplicateNeedsCause'
    BY <1>4 DEF Start, IInv, NoFalseReceipt, DuplicateNeedsCause
  <1>14. RetriedRows'
    BY <1>2, <1>3 DEF Start, IInv, RetriedRows, Others
  <1> QED
    BY <1>6, <1>7, <1>8, <1>9, <1>10, <1>11, <1>12, <1>13, <1>14 DEF IInv

\* Nobody else is at the event of a run that is clear.
LEMMA Alone ==
  ASSUME IInv, NEW i \in Instances, pc[i] # "idle", Clear(Ev(i)),
         NEW j \in Instances, open[j] = Ev(i)
  PROVE  j = i
  BY RunEvent DEF IInv, OneRun, Clear

\* What a run may read of its row.
LEMMA ReadsRow ==
  ASSUME IInv, NEW i \in Instances, pc[i] # "idle"
  PROVE  /\ row[Ev(i)] \in Rows \cup {NoRow}
         /\ row[Ev(i)].delivered => accepted[Ev(i)] > 0
  BY RunEvent DEF IInv, TypeOK, NoFalseReceipt

LEMMA FindStep == ASSUME IInv, NEW i \in Instances, Find(i) PROVE IInv'
  <1>1. PICK where \in {"publish", "bump", "create"} :
          /\ Moves(i, where, row[Ev(i)])
          /\ where \in {"bump", "create"} => row[Ev(i)].status # "SENT"
          /\ where = "bump" => row[Ev(i)] # NoRow
    BY DEF Find, Read, Goto, Moves, NoRow
  <1>2. pc[i] = "find" /\ Ev(i) \in Msgs /\ UNCHANGED <<row, lock, history>>
    BY RunEvent DEF Find, IInv
  <1>3. where \in {"bump", "create"} /\ Clear(Ev(i)) => accepted[Ev(i)] = 0
    BY <1>1, <1>2, Alone DEF IInv, OnRecord, TypeOK
  <1>4. \A e \in Msgs : lock[e] # i
    BY <1>2 DEF IInv, LocksOfRetries
  <1> QED
    BY <1>1, <1>2, <1>3, <1>4, ReadsRow, QuietMove DEF Places, Past

LEMMA RefindStep == ASSUME IInv, NEW i \in Instances, Refind(i) PROVE IInv'
  <1>1. PICK where \in {"publish", "send"} : Moves(i, where, row[Ev(i)])
    BY DEF Refind, Read, Goto, Moves
  <1>2. pc[i] = "refind" /\ Ev(i) \in Msgs /\ open[i] = Ev(i) /\ UNCHANGED <<row, lock, history>>
    BY RunEvent DEF Refind, IInv
  <1>3. Clear(Ev(i)) => accepted[Ev(i)] = 0
    BY <1>2 DEF IInv, NotSentBefore
  <1>4. \A e \in Msgs : lock[e] # i
    BY <1>2 DEF IInv, LocksOfRetries
  <1> QED
    BY <1>1, <1>2, <1>3, <1>4, ReadsRow, QuietMove DEF Places, Past

\* A move keeps what is about runs only.
LEMMA MoveKeepsRuns ==
  ASSUME IInv, NEW i \in Instances, NEW where \in Places \ {"idle"}, NEW copy \in Rows \cup {NoRow},
         Moves(i, where, copy), pc[i] # "idle", overlap' = overlap
  PROVE  /\ RunTypes' /\ Others(i) /\ pc'[i] = where /\ snap'[i] = copy
         /\ open' = open /\ Ev(i)' = Ev(i) /\ Ev(i) \in Msgs /\ open[i] = Ev(i)
         /\ IdleBetweenRuns' /\ OneRun'
  <1>1. /\ RunTypes' /\ Others(i) /\ pc'[i] = where /\ snap'[i] = copy
        /\ open' = open /\ Ev(i)' = Ev(i)
    BY MovesRun DEF IInv
  <1>2. Ev(i) \in Msgs /\ open[i] = Ev(i) /\ open[i] # None
    BY RunEvent DEF IInv
  <1>3. IdleBetweenRuns'
    BY <1>1, <1>2 DEF IInv, IdleBetweenRuns, Others
  <1>4. OneRun'
    BY <1>1 DEF IInv, OneRun
  <1> QED
    BY <1>1, <1>2, <1>3, <1>4

\* The row of a run is changed, to SENT or from another status, or from SENT
\* with a note that this acceptance is no longer on record.
LEMMA RowWritten ==
  ASSUME IInv, NEW i \in Instances, NEW where \in Past \cup {"send", "fail"}, where # "mark",
         NEW copy \in Rows \cup {NoRow}, Moves(i, where, copy), pc[i] # "idle",
         copy.delivered => accepted[Ev(i)] > 0,
         NEW r \in Rows \cup {NoRow}, row' = [row EXCEPT ![Ev(i)] = r],
         r = NoRow => row[Ev(i)] = NoRow,
         r.status = "SENT" \/ r.delivered => accepted[Ev(i)] > 0,
         unrecorded' = unrecorded \/ unrecorded' = unrecorded \cup {Ev(i)},
         Clear(Ev(i))' /\ accepted[Ev(i)] > 0 =>
           r.status = "SENT" /\ where \in Past,
         lock' = [e \in Msgs |-> IF lock[e] = i /\ where \in Past THEN None ELSE lock[e]],
         UNCHANGED <<accepted, announced, overlap>>
  PROVE  IInv'
  <1>1. /\ RunTypes' /\ Others(i) /\ pc'[i] = where /\ snap'[i] = copy
        /\ open' = open /\ Ev(i)' = Ev(i) /\ Ev(i) \in Msgs /\ open[i] = Ev(i)
        /\ IdleBetweenRuns' /\ OneRun'
    BY MoveKeepsRuns DEF Past, Places
  <1>2. /\ row'[Ev(i)] = r /\ \A e \in Msgs \ {Ev(i)} : row'[e] = row[e]
        /\ row' \in [Msgs -> Rows \cup {NoRow}]
    BY <1>1 DEF IInv, TypeOK
  <1>3. unrecorded \subseteq unrecorded' /\ unrecorded' \in SUBSET Msgs
        /\ \A e \in Msgs \ {Ev(i)} : Clear(e)' <=> Clear(e)
    BY <1>1 DEF IInv, TypeOK, Clear
  <1>4. lock' \in [Msgs -> Instances \cup {None}]
    BY DEF IInv, TypeOK
  <1>5. TypeOK'
    BY <1>1, <1>2, <1>3, <1>4, TypePartsNext DEF IInv, TypeOK, TableTypes
  <1>6. LocksOfRetries'
    BY <1>1, NoneIsNoInstance DEF IInv, LocksOfRetries, Others, Past
  <1>7. ReceiptsOfRuns'
    BY <1>1 DEF IInv, ReceiptsOfRuns, Others
  <1>8. NotSentBefore'
    <2>1. Clear(Ev(i))' /\ where \in {"send", "fail"} => accepted[Ev(i)] = 0
      BY <1>1 DEF Past, IInv, TypeOK
    <2>2. \A e \in Msgs : Clear(e)' => Clear(e)
      BY <1>3 DEF Clear
    <2>3. \A j \in Instances : pc[j] # "idle" => open[j] \in Msgs
      BY RunEvent DEF IInv
    <2> QED
      BY <1>1, <2>1, <2>2, <2>3 DEF IInv, NotSentBefore, Others, Past
  <1>9. OnRecord'
    <2> SUFFICES ASSUME NEW e \in Msgs, Clear(e)', accepted[e] > 0, row'[e].status # "SENT"
                 PROVE  \E j \in Instances : open'[j] = e /\ pc'[j] = "mark"
      BY DEF OnRecord
    <2>1. e # Ev(i)
      BY <1>1, <1>2 DEF Clear
    <2>2. PICK j \in Instances : open[j] = e /\ pc[j] = "mark"
      BY <1>2, <1>3, <2>1 DEF IInv, OnRecord
    <2> QED
      BY <1>1, <2>1, <2>2 DEF Others
  <1>10. NoFalseReceipt'
    BY <1>2 DEF IInv, NoFalseReceipt
  <1>11. DuplicateNeedsCause'
    BY <1>3 DEF IInv, DuplicateNeedsCause
  <1>12. RetriedRows'
    <2>1. \A j \in Instances : pc'[j] = "bump" => pc[j] = "bump"
      BY <1>1 DEF Others, Past
    <2>2. \A j \in Instances : pc[j] = "bump" => open[j] \in Msgs
      BY RunEvent DEF IInv
    <2>3. \A e \in Msgs : row[e] # NoRow => row'[e] # NoRow
      BY <1>2
    <2> QED
      BY <1>1, <2>1, <2>2, <2>3 DEF IInv, RetriedRows
  <1> QED
    BY <1>1, <1>5, <1>6, <1>7, <1>8, <1>9, <1>10, <1>11, <1>12 DEF IInv

LEMMA KeepsCopy ==
  ASSUME TypeOK, NEW i \in Instances
  PROVE  snap = [snap EXCEPT ![i] = snap[i]] /\ snap[i] \in Rows \cup {NoRow}
  BY DEF TypeOK

\* At these places no lock is held; lock' in RowWritten is lock then.
LEMMA HoldsNoLock ==
  ASSUME IInv, NEW i \in Instances,
         pc[i] \notin {"send", "mark", "fail"} \/ RowFree(i)
  PROVE  /\ \A e \in Msgs : lock[e] # i
         /\ \A where : lock = [e \in Msgs |-> IF lock[e] = i /\ where THEN None ELSE lock[e]]
  <1>1. \A e \in Msgs : lock[e] # i
    BY NoneIsNoInstance DEF IInv, LocksOfRetries, RowFree, Ev
  <1> QED
    BY <1>1 DEF IInv, TypeOK

LEMMA BumpStep == ASSUME IInv, NEW i \in Instances, Bump(i) PROVE IInv'
  <1>1. Moves(i, "send", snap[i]) /\ UNCHANGED <<row, history>>
    BY KeepsCopy DEF Bump, Goto, Moves, IInv
  <1>2. /\ RunTypes' /\ Others(i) /\ pc'[i] = "send" /\ snap'[i] = snap[i]
        /\ open' = open /\ Ev(i)' = Ev(i) /\ Ev(i) \in Msgs /\ open[i] = Ev(i)
        /\ IdleBetweenRuns' /\ OneRun'
    BY <1>1, MoveKeepsRuns, KeepsCopy DEF Places, history, Bump, IInv
  <1>3. lock'[Ev(i)] = i /\ \A e \in Msgs \ {Ev(i)} : lock'[e] = lock[e]
    BY <1>2 DEF Bump, IInv, TypeOK
  <1>4. TypeOK'
    BY <1>1, <1>2, TypePartsNext DEF Bump, IInv, TypeOK, TableTypes, history
  <1>5. LocksOfRetries'
    BY <1>2, <1>3 DEF Bump, IInv, LocksOfRetries, Others
  <1>6. ReceiptsOfRuns' /\ NotSentBefore'
    BY <1>1, <1>2 DEF Bump, IInv, ReceiptsOfRuns, NotSentBefore, Others, Clear, history
  <1>7. OnRecord'
    BY <1>1, <1>2 DEF Bump, IInv, OnRecord, Others, Clear, history
  <1>8. NoFalseReceipt' /\ DuplicateNeedsCause'
    BY <1>1 DEF IInv, NoFalseReceipt, DuplicateNeedsCause, history
  <1>9. RetriedRows'
    BY <1>1, <1>2, <1>3 DEF Bump, IInv, RetriedRows, Others
  <1> QED
    BY <1>2, <1>4, <1>5, <1>6, <1>7, <1>8, <1>9 DEF IInv

LEMMA CreateStep == ASSUME IInv, NEW i \in Instances, Create(i) PROVE IInv'
  <1>1. /\ pc[i] = "create" /\ Ev(i) \in Msgs /\ open[i] = Ev(i)
        /\ Clear(Ev(i)) => accepted[Ev(i)] = 0
    BY RunEvent DEF Create, IInv, NotSentBefore
  <1>2. CASE row[Ev(i)] = NoRow
    <2> DEFINE r == [status |-> "PENDING", attempts |-> 1, delivered |-> FALSE]
    <2>1. /\ Moves(i, "send", r) /\ row' = [row EXCEPT ![Ev(i)] = r]
          /\ UNCHANGED <<lock, history>>
      BY <1>2 DEF Create, Goto, Moves
    <2>2. r \in Rows /\ r.status # "SENT" /\ r.delivered = FALSE
      BY DEF Rows, Status
    <2>3. Clear(Ev(i))' => accepted[Ev(i)] = 0
      BY <1>1, <2>1 DEF Clear, history, Moves, Ev
    <2>4. lock' = [e \in Msgs |-> IF lock[e] = i /\ "send" \in Past THEN None ELSE lock[e]]
      BY <1>1, <2>1, HoldsNoLock
    <2> HIDE DEF r
    <2>5. ~(Clear(Ev(i))' /\ accepted[Ev(i)] > 0)
      BY <2>3
    <2>6. UNCHANGED <<accepted, announced, overlap>> /\ unrecorded' = unrecorded
      BY <2>1 DEF history
    <2>7. "send" \in Past \cup {"send", "fail"} /\ r \in Rows \cup {NoRow} /\ pc[i] # "idle"
      BY <1>1, <2>2
    <2>8. r # NoRow
      BY <2>2, RowsExist
    <2> QED
      BY <2>1, <2>2, <2>4, <2>5, <2>6, <2>7, <2>8, RowWritten
  <1>3. CASE row[Ev(i)] # NoRow
    <2>1. Moves(i, "refind", snap[i]) /\ UNCHANGED <<row, lock, history>>
      BY <1>3, KeepsCopy DEF Create, Goto, Moves, IInv
    <2>2. snap[i].delivered => accepted[Ev(i)] > 0
      BY <1>1 DEF IInv, ReceiptsOfRuns
    <2> QED
      BY <1>1, <2>1, <2>2, KeepsCopy, HoldsNoLock, QuietMove DEF Places, Past, IInv
  <1> QED
    BY <1>2, <1>3

\* The provider takes the email of a run, and the run knows or does not.
LEMMA Accepted ==
  ASSUME IInv, NEW i \in Instances, pc[i] = "send", NEW where \in {"mark", "fail"},
         Moves(i, where, snap[i]), accepted' = [accepted EXCEPT ![Ev(i)] = @ + 1],
         unrecorded' = unrecorded \cup (IF where = "fail" THEN {Ev(i)} ELSE {}),
         UNCHANGED <<row, lock, announced, overlap>>
  PROVE  IInv'
  <1>1. /\ RunTypes' /\ Others(i) /\ pc'[i] = where /\ snap'[i] = snap[i]
        /\ open' = open /\ Ev(i)' = Ev(i) /\ Ev(i) \in Msgs /\ open[i] = Ev(i)
        /\ IdleBetweenRuns' /\ OneRun'
    BY MoveKeepsRuns, KeepsCopy DEF Places, IInv
  <1>2. /\ accepted'[Ev(i)] = accepted[Ev(i)] + 1 /\ accepted[Ev(i)] \in Nat
        /\ \A e \in Msgs \ {Ev(i)} : accepted'[e] = accepted[e]
        /\ accepted' \in [Msgs -> Nat]
    BY <1>1 DEF IInv, TypeOK
  <1>3. /\ unrecorded \subseteq unrecorded' /\ unrecorded' \in SUBSET Msgs
        /\ \A e \in Msgs \ {Ev(i)} : Clear(e)' <=> Clear(e)
        /\ Clear(Ev(i)) => accepted[Ev(i)] = 0
    BY <1>1 DEF IInv, TypeOK, Clear, NotSentBefore
  <1>4. TypeOK'
    BY <1>1, <1>2, <1>3, TypePartsNext DEF IInv, TypeOK, TableTypes
  <1>5. LocksOfRetries'
    BY <1>1 DEF IInv, LocksOfRetries, Others
  <1>6. \A e \in Msgs : accepted[e] > 0 => accepted'[e] > 0
    BY <1>2 DEF IInv, TypeOK
  <1>7. ReceiptsOfRuns'
    BY <1>1, <1>2, <1>6 DEF IInv, ReceiptsOfRuns, Others
  <1>8. NotSentBefore'
    <2> SUFFICES ASSUME NEW j \in Instances, Clear(open[j])',
                        pc'[j] \in {"bump", "create", "refind", "send", "fail"}
                 PROVE  accepted'[open[j]] = 0
      BY <1>1 DEF NotSentBefore
    <2>1. j # i
      BY <1>1 DEF Clear
    <2>2. pc[j] = pc'[j] /\ open[j] \in Msgs /\ open[j] # None
      BY <1>1, <2>1, RunEvent DEF Others, IInv
    <2>3. Clear(open[j])
      BY <1>1, <1>3 DEF Clear
    <2>4. open[j] # Ev(i)
      BY <1>1, <2>1, <2>2, <2>3 DEF IInv, OneRun, Clear
    <2> QED
      BY <1>1, <1>2, <2>2, <2>3, <2>4 DEF IInv, NotSentBefore
  <1>9. OnRecord'
    <2> SUFFICES ASSUME NEW e \in Msgs, Clear(e)', accepted'[e] > 0, row[e].status # "SENT"
                 PROVE  \E j \in Instances : open'[j] = e /\ pc'[j] = "mark"
      BY DEF OnRecord
    <2>1. CASE e = Ev(i)
      BY <1>1, <2>1 DEF Clear
    <2>2. CASE e # Ev(i)
      <3>1. PICK j \in Instances : open[j] = e /\ pc[j] = "mark"
        BY <1>2, <1>3, <2>2 DEF IInv, OnRecord
      <3> QED
        BY <1>1, <2>2, <3>1 DEF Others
    <2> QED
      BY <2>1, <2>2
  <1>10. NoFalseReceipt'
    BY <1>6 DEF IInv, NoFalseReceipt
  <1>11. DuplicateNeedsCause'
    <2> SUFFICES ASSUME NEW e \in Msgs, accepted'[e] > 1, Clear(e)'
                 PROVE  FALSE
      BY DEF DuplicateNeedsCause, Clear
    <2>1. Clear(e) /\ accepted[e] <= 1
      BY <1>3 DEF IInv, TypeOK, Clear, DuplicateNeedsCause
    <2> QED
      BY <1>2, <1>3, <2>1
  <1>12. RetriedRows'
    BY <1>1 DEF IInv, RetriedRows, Others
  <1> QED
    BY <1>1, <1>4, <1>5, <1>7, <1>8, <1>9, <1>10, <1>11, <1>12 DEF IInv

LEMMA SendStep == ASSUME IInv, NEW i \in Instances, SendOk(i) \/ SendFails(i) PROVE IInv'
  <1>1. pc[i] = "send" /\ Ev(i) \in Msgs /\ open[i] = Ev(i)
    BY RunEvent DEF SendOk, SendFails, IInv
  <1>2. PICK where \in {"mark", "fail"} :
          Moves(i, where, snap[i]) /\ UNCHANGED <<row, lock, announced, overlap>>
          /\ (accepted' = accepted => where = "fail")
          /\ \/ UNCHANGED <<accepted, unrecorded>>
             \/ /\ accepted' = [accepted EXCEPT ![Ev(i)] = @ + 1]
                /\ unrecorded' = unrecorded \cup (IF where = "fail" THEN {Ev(i)} ELSE {})
    <2>1. CASE SendOk(i)
      <3>1. accepted' # accepted
        BY <1>1, <2>1 DEF SendOk, IInv, TypeOK
      <3> QED
        BY <2>1, <3>1, KeepsCopy DEF SendOk, Goto, Moves, IInv
    <2>2. CASE SendFails(i)
      BY <2>2, KeepsCopy DEF SendFails, Goto, Moves, IInv
    <2> QED
      BY <2>1, <2>2
  <1>3. CASE UNCHANGED <<accepted, unrecorded>>
    <2>1. snap[i].delivered => accepted[Ev(i)] > 0
      BY <1>1 DEF IInv, ReceiptsOfRuns
    <2>2. Clear(Ev(i)) => accepted[Ev(i)] = 0
      BY <1>1 DEF IInv, NotSentBefore
    <2> QED
      BY <1>1, <1>2, <1>3, <2>1, <2>2, KeepsCopy, QuietMove DEF Places, Past, IInv, history
  <1>4. CASE ~UNCHANGED <<accepted, unrecorded>>
    BY <1>1, <1>2, <1>4, Accepted
  <1> QED
    BY <1>3, <1>4

LEMMA SentRowParts ==
  ASSUME IInv, NEW i \in Instances, Ev(i) \in Msgs
  PROVE  LET r == [row[Ev(i)] EXCEPT !.status = "SENT", !.delivered = TRUE] IN
         /\ r \in Rows /\ r # NoRow /\ r.status = "SENT"
         /\ SentRow(Ev(i)) = [row EXCEPT ![Ev(i)] = r]
  <1> DEFINE r == [row[Ev(i)] EXCEPT !.status = "SENT", !.delivered = TRUE]
  <1>1. row[Ev(i)] \in Rows \cup {NoRow}
    BY DEF IInv, TypeOK
  <1>2. r \in Rows /\ r.status = "SENT"
    BY <1>1, StatusSet DEF Status
  <1>3. SentRow(Ev(i)) = [row EXCEPT ![Ev(i)] = r]
    BY DEF SentRow, IInv, TypeOK
  <1> QED
    BY <1>2, <1>3, RowsExist

LEMMA MarkSentStep == ASSUME IInv, NEW i \in Instances, MarkSent(i) PROVE IInv'
  <1> DEFINE r == [row[Ev(i)] EXCEPT !.status = "SENT", !.delivered = TRUE]
  <1>1. pc[i] = "mark" /\ Ev(i) \in Msgs /\ open[i] = Ev(i) /\ accepted[Ev(i)] > 0
    BY RunEvent DEF MarkSent, IInv, ReceiptsOfRuns
  <1>2. /\ r \in Rows \cup {NoRow} /\ r # NoRow /\ r.status = "SENT"
        /\ row' = [row EXCEPT ![Ev(i)] = r]
    BY <1>1, SentRowParts DEF MarkSent
  <1>3. Moves(i, "finish", snap[i]) /\ lock' = lock
        /\ UNCHANGED <<accepted, announced, overlap>> /\ unrecorded' = unrecorded
    BY KeepsCopy DEF MarkSent, Goto, Moves, IInv, history
  <1>4. lock' = [e \in Msgs |-> IF lock[e] = i /\ "finish" \in Past THEN None ELSE lock[e]]
    BY <1>3, HoldsNoLock DEF MarkSent
  <1>5. "finish" \in Past /\ snap[i] \in Rows \cup {NoRow}
    BY KeepsCopy DEF Past, IInv
  <1> HIDE DEF r
  <1> QED
    BY <1>1, <1>2, <1>3, <1>4, <1>5, RowWritten

LEMMA MarkRaisesStep == ASSUME IInv, NEW i \in Instances, MarkRaises(i) PROVE IInv'
  <1>1. pc[i] = "mark" /\ Ev(i) \in Msgs /\ open[i] = Ev(i) /\ accepted[Ev(i)] > 0
    BY RunEvent DEF MarkRaises, IInv, ReceiptsOfRuns
  <1>2. PICK r \in Rows \cup {NoRow} : /\ row' = [row EXCEPT ![Ev(i)] = r]
                                       /\ r = NoRow => row[Ev(i)] = NoRow
    <2>1. row = [row EXCEPT ![Ev(i)] = row[Ev(i)]] /\ row[Ev(i)] \in Rows \cup {NoRow}
      BY <1>1 DEF IInv, TypeOK
    <2>2. CASE row' = row
      BY <2>1, <2>2
    <2>3. CASE row' = SentRow(Ev(i))
      BY <1>1, <2>3, SentRowParts
    <2> QED
      BY <2>2, <2>3 DEF MarkRaises
  <1>3. Moves(i, "fail", snap[i]) /\ lock' = lock
        /\ UNCHANGED <<accepted, announced, overlap>> /\ unrecorded' = unrecorded \cup {Ev(i)}
    BY KeepsCopy DEF MarkRaises, Goto, Moves, IInv
  <1>4. lock' = [e \in Msgs |-> IF lock[e] = i /\ "fail" \in Past THEN None ELSE lock[e]]
    BY <1>3, HoldsNoLock DEF MarkRaises
  <1>5. ~Clear(Ev(i))'
    BY <1>3 DEF Clear, Moves, Ev
  <1>6. "fail" \in Past \cup {"send", "fail"} /\ snap[i] \in Rows \cup {NoRow}
    BY KeepsCopy DEF IInv
  <1> QED
    BY <1>1, <1>2, <1>3, <1>4, <1>5, <1>6, RowWritten

LEMMA MarkFailedStep == ASSUME IInv, NEW i \in Instances, MarkFailed(i) PROVE IInv'
  <1>1. /\ pc[i] = "fail" /\ Ev(i) \in Msgs /\ open[i] = Ev(i)
        /\ snap[i].delivered => accepted[Ev(i)] > 0
        /\ Clear(Ev(i)) => accepted[Ev(i)] = 0
    BY RunEvent DEF MarkFailed, IInv, ReceiptsOfRuns, NotSentBefore
  <1>2. PICK s \in {"FAILED", "PENDING"}, where \in {"finish", "raise"} :
          row' = [row EXCEPT ![Ev(i)].status = s] /\ Goto(i, where)
    BY DEF MarkFailed
  <1> DEFINE r == [row[Ev(i)] EXCEPT !.status = s]
  <1>3. /\ r \in Rows \cup {NoRow} /\ r # NoRow /\ r.status # "SENT"
        /\ r.delivered => accepted[Ev(i)] > 0
        /\ row' = [row EXCEPT ![Ev(i)] = r]
    <2>1. row[Ev(i)] \in Rows \cup {NoRow} /\ (row[Ev(i)].delivered => accepted[Ev(i)] > 0)
      BY <1>1 DEF IInv, TypeOK, NoFalseReceipt
    <2>2. s \in Status
      BY DEF Status
    <2>3. r \in Rows /\ r.status = s
      BY <2>1, <2>2, StatusSet
    <2>4. r.delivered = row[Ev(i)].delivered
      BY <2>1, <2>2, StatusSet
    <2>5. r # NoRow
      BY <2>3, RowsExist
    <2> QED
      BY <1>2, <2>1, <2>3, <2>4, <2>5
  <1>4. /\ Moves(i, where, snap[i]) /\ lock' = lock
        /\ UNCHANGED <<accepted, announced, overlap>>
        /\ unrecorded' = unrecorded \/ unrecorded' = unrecorded \cup {Ev(i)}
    BY <1>2, KeepsCopy DEF MarkFailed, Goto, Moves, IInv
  <1>5. ~(Clear(Ev(i))' /\ accepted[Ev(i)] > 0)
    <2>1. Clear(Ev(i))' => Clear(Ev(i))
      BY <1>4 DEF Clear, Moves, Ev
    <2> QED
      BY <1>1, <2>1 DEF IInv, TypeOK
  <1>6. lock' = [e \in Msgs |-> IF lock[e] = i /\ where \in Past THEN None ELSE lock[e]]
    BY <1>4, HoldsNoLock DEF MarkFailed
  <1>7. where \in Past /\ where # "mark" /\ snap[i] \in Rows \cup {NoRow}
    BY KeepsCopy DEF Past, IInv
  <1> HIDE DEF r
  <1> QED
    BY <1>1, <1>3, <1>4, <1>5, <1>6, <1>7, RowWritten

\* A retry never gets as far as the commit that would store its count.
LEMMA FinishStep == ASSUME IInv, NEW i \in Instances, Finish(i) PROVE IInv'
  <1>1. pc[i] = "finish" /\ Ev(i) \in Msgs /\ open[i] = Ev(i)
    BY RunEvent DEF Finish, IInv
  <1>2. \A e \in Msgs : lock[e] # i
    BY <1>1, HoldsNoLock
  <1>3. UNCHANGED <<row, lock, history>> /\ Moves(i, "publish", row[Ev(i)])
    BY <1>1, <1>2 DEF Finish, Goto, Moves, Ev
  <1>4. "publish" \in Places \ {"idle", "mark"} /\ "publish" \in Past
    BY DEF Places, Past
  <1> QED
    BY <1>1, <1>2, <1>3, <1>4, ReadsRow, QuietMove

LEMMA EndStep == ASSUME IInv, NEW i \in Instances, Announce(i) \/ Raises(i) \/ Returns(i) PROVE IInv'
  <1>1. /\ pc[i] \in {"raise", "publish", "return"} /\ Ev(i) \in Msgs /\ open[i] = Ev(i) /\ RunEnds(i)
        /\ UNCHANGED <<row, lock, accepted, overlap, unrecorded>>
    BY RunEvent DEF Announce, Raises, Returns, IInv, history
  <1>2. announced' \in SUBSET Msgs /\ \A e \in announced' : accepted[e] > 0
    BY <1>1 DEF Announce, Raises, Returns, IInv, TypeOK, NoFalseReceipt, ReceiptsOfRuns, history
  <1>3. lock' = [e \in Msgs |-> IF lock[e] = i THEN None ELSE lock[e]]
    BY <1>1, HoldsNoLock DEF IInv, TypeOK
  <1> QED
    BY <1>1, <1>2, <1>3, EndKeepsInv

LEMMA DiesStep == ASSUME IInv, NEW i \in Instances, Dies(i) PROVE IInv'
  <1>1. pc[i] # "idle"
    BY DEF Dies, IInv, IdleBetweenRuns
  <1>2. announced' \in SUBSET Msgs /\ \A e \in announced' : accepted[e] > 0
    BY DEF Dies, IInv, TypeOK, NoFalseReceipt
  <1> QED
    BY <1>1, <1>2, EndKeepsInv DEF Dies

LEMMA StepInv == IInv /\ [Next]_vars => IInv'
  <1> SUFFICES ASSUME IInv, [Next]_vars PROVE IInv'
    OBVIOUS
  <1>1. ASSUME NEW i \in Instances, Start(i) \/ Step(i) \/ Dies(i)
        PROVE  IInv'
    BY <1>1, StartStep, FindStep, BumpStep, CreateStep, RefindStep, SendStep, MarkSentStep,
       MarkRaisesStep, MarkFailedStep, FinishStep, EndStep, DiesStep DEF Step
  <1>2. CASE UNCHANGED vars
    BY <1>2 DEF vars, IInv, TypeOK, Runs!RunsTypeOK, IdleBetweenRuns, LocksOfRetries,
       ReceiptsOfRuns, RetriedRows, OneRun, NotSentBefore, OnRecord, NoFalseReceipt, DuplicateNeedsCause, Clear
  <1> QED
    BY <1>1, <1>2 DEF Next

LEMMA InvariantHolds == Spec => []IInv
  BY InitInv, StepInv, PTL DEF Spec

\* Type correctness of the notifications table and of the runs over it.
THEOREM TypeCorrect == Spec => []TypeOK
  BY InvariantHolds, PTL DEF IInv

\* process_event and email_sent claim no email the provider did not take.
THEOREM ReceiptsAreTrue == Spec => []NoFalseReceipt
  BY InvariantHolds, PTL DEF IInv

\* The idempotency key and the look at SENT keep redelivery alone from
\* repeating an email.
THEOREM DuplicatesHaveCauses == Spec => []DuplicateNeedsCause
  BY InvariantHolds, PTL DEF IInv

-----------------------------------------------------------------------------
RowFrozen == \A e \in Msgs : lock[e] # None =>
  /\ row'[e] = row[e]
  /\ lock'[e] # lock[e] => open'[lock[e]] = None

LEMMA StepFreezes == IInv /\ [Next]_vars => RowFrozen \/ UNCHANGED vars
  <1> SUFFICES ASSUME IInv, Next, NEW e \in Msgs, lock[e] # None
               PROVE  row'[e] = row[e] /\ (lock'[e] # lock[e] => open'[lock[e]] = None)
    BY DEF RowFrozen
  <1>1. PICK i \in Instances : Start(i) \/ Step(i) \/ Dies(i)
    BY DEF Next
  <1>2. CASE Start(i)
    BY <1>2 DEF Start
  <1>3. CASE Dies(i)
    <2>1. open'[i] = None
      BY <1>3, EndsRun DEF Dies, IInv
    <2> QED
      BY <1>3, <2>1 DEF Dies, IInv, TypeOK
  <1>4. CASE Find(i) \/ Refind(i) \/ SendOk(i) \/ SendFails(i) \/ Announce(i) \/ Raises(i) \/ Returns(i)
    BY <1>4 DEF Find, Refind, SendOk, SendFails, Announce, Raises, Returns
  <1>5. CASE Bump(i) \/ MarkSent(i) \/ MarkRaises(i) \/ MarkFailed(i)
    <2>1. Ev(i) # e
      BY <1>5 DEF Bump, MarkSent, MarkRaises, MarkFailed, RowFree
    <2> QED
      BY <1>5, <2>1 DEF Bump, MarkSent, MarkRaises, MarkFailed, SentRow, IInv, TypeOK
  <1>6. CASE Create(i)
    <2>1. CASE Ev(i) = e
      <3>1. row[e] # NoRow
        BY <2>1 DEF IInv, RetriedRows
      <3> QED
        BY <1>6, <2>1, <3>1 DEF Create
    <2>2. CASE Ev(i) # e
      BY <1>6, <2>2 DEF Create, IInv, TypeOK
    <2> QED
      BY <2>1, <2>2
  <1>7. CASE Finish(i)
    <2>1. lock[Ev(i)] # i
      <3>1. Ev(i) \in Msgs
        BY <1>7, RunEvent DEF Finish, IInv
      <3> QED
        BY <1>7, <3>1, HoldsNoLock DEF Finish
    <2> QED
      BY <1>7, <2>1 DEF Finish
  <1> QED
    BY <1>1, <1>2, <1>3, <1>4, <1>5, <1>6, <1>7 DEF Step

\* While a retry's flushed attempt_count holds a row, the row stays as it is
\* - also for the retry's own second session - until that run is over.
THEOREM RetriesFreezeRows == Spec => RetryFreezesRow
  <1>1. IInv /\ [Next]_vars => [RowFrozen]_vars
    BY StepFreezes
  <1> QED
    BY <1>1, InvariantHolds, PTL DEF Spec, RetryFreezesRow, RowFrozen
=============================================================================
