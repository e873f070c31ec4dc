---------------------------- MODULE Notification ----------------------------
(***************************************************************************)
(* services/notification-service: what on_message of its four listeners    *)
(* does with one event - the branch and the validation it goes through,    *)
(* NotificationService.process_event with its two database sessions,       *)
(* _send_email, and the email_sent event published afterwards.  Runs of    *)
(* the handler come from HandlerRuns, so two instances may work on one     *)
(* event and a run may die anywhere.                                       *)
(*                                                                         *)
(* The database is PostgreSQL at READ COMMITTED.  A statement and the      *)
(* commit right behind it are one step; a transaction that stays open      *)
(* across an await shows as the row lock it holds.                         *)
(***************************************************************************)
EXTENDS Naturals

CONSTANTS Msgs,         \* events; the idempotency key is one per event
          Credit,       \* events of CreditEventsListener,
          Billing,      \* of BillingEventsListener and
          Catalog,      \* of CatalogEventsListener; the rest are merchant's
          Other,        \* events of a type their listener has no branch for
          Malformed,    \* events whose payload does not validate
          NoRecipient,  \* events without a template or a recipient address
          Instances,    \* notification-service processes
          MaxDeliver,   \* Listener.max_deliver
          FinalAttempt, \* the attempt_count _send_email takes for the last
          None

ASSUME ListenersAssumption ==
  /\ Credit \subseteq Msgs /\ Billing \subseteq Msgs /\ Catalog \subseteq Msgs
  /\ Credit \cap Billing = {} /\ Credit \cap Catalog = {} /\ Billing \cap Catalog = {}
ASSUME NoRecipientAssumption == NoRecipient \subseteq Msgs
ASSUME FinalAttemptAssumption == FinalAttempt \in Nat \ {0}
ASSUME MaxDeliverPositive == MaxDeliver \in Nat \ {0}
ASSUME NoneIsNoEvent == None \notin Msgs
ASSUME NoneIsNoInstance == None \notin Instances

VARIABLES
  begun, open,  \* HandlerRuns
  pc,             \* where each instance's run is
  snap,           \* the NotificationOut the run works with
  row,            \* the notifications table, by idempotency_key
  lock,           \* the instance whose outer session holds the row's lock
  \* What happened, for the properties only.
  accepted,       \* emails the provider took, per event
  announced,      \* events for which notification.email.sent was published
  overlap,        \* events two runs worked on at the same time
  unrecorded      \* events with an accepted email not (or no longer) recorded

vars == <<begun, open, pc, snap, row, lock, accepted, announced, overlap, unrecorded>>

Runs == INSTANCE HandlerRuns

Status == {"PENDING", "SENT", "FAILED"}
Rows == [status : Status, attempts : Nat, delivered : BOOLEAN]
NoRow == [status |-> "none", attempts |-> 0, delivered |-> FALSE]

Ev(i) == open[i]

Init == /\ Runs!RunsInit
        /\ pc = [i \in Instances |-> "idle"]
        /\ snap = [i \in Instances |-> NoRow]
        /\ row = [e \in Msgs |-> NoRow]
        /\ lock = [e \in Msgs |-> None]
        /\ accepted = [e \in Msgs |-> 0]
        /\ announced = {}
        /\ overlap = {}
        /\ unrecorded = {}

history == <<accepted, announced, overlap, unrecorded>>
Goto(i, where) == pc' = [pc EXCEPT ![i] = where]
Read(i) == snap' = [snap EXCEPT ![i] = row[Ev(i)]]

\* Mutant of RowFree: updates that do not wait for the row.
RowFreeAlways(i) == Ev(i) \in Msgs

\* Only an instance's own uncommitted UPDATE keeps other sessions waiting -
\* and its own second session with them.
RowFree(i) == lock[Ev(i)] = None

-----------------------------------------------------------------------------
(* on_message, up to process_event.                                        *)

Merchant == Msgs \ (Credit \cup Billing \cup Catalog)

\* MerchantEventsListener: any other event is ignored, bad data is logged.
MerchantEntry(e) == IF e \in Other \cup Malformed THEN "return" ELSE "find"

\* CreditEventsListener: its handlers expect another ValidationError than
\* the one model_validate raises, so bad data leaves on_message as well.
CreditEntry(e) == IF e \in Other THEN "return"
                  ELSE IF e \in Malformed THEN "raise" ELSE "find"

\* The other two take the envelope for a dict: its get() does not exist.
BillingEntry == "raise"
CatalogEntry == "raise"

Entry(e) == CASE e \in Merchant -> MerchantEntry(e)
              [] e \in Credit   -> CreditEntry(e)
              [] e \in Billing  -> BillingEntry
              [] e \in Catalog  -> CatalogEntry

\* on_message is called; a second run of the same event may be under way.
Start(i) == /\ \E e \in Msgs : Runs!Begin(i, e) /\ Goto(i, Entry(e))
            /\ overlap' = overlap \cup
                 {e \in Msgs : e = open'[i] /\ \E j \in Instances \ {i} : open[j] = e}
            /\ UNCHANGED <<snap, row, lock, accepted, announced, unrecorded>>

-----------------------------------------------------------------------------
(* process_event.                                                          *)

\* Mutant of Find: a SENT row is retried like any other.
FindIgnoresSent(i) ==
  LET r == row[Ev(i)] IN
  /\ pc[i] = "find"
  /\ Read(i)
  /\ Goto(i, IF r # NoRow THEN "bump"
             ELSE IF Ev(i) \in NoRecipient THEN "publish" ELSE "create")
  /\ UNCHANGED <<begun, open, row, lock, history>>

\* find_by_idempotency_key: return a SENT row, retry another, or go on.
Find(i) ==
  LET r == row[Ev(i)] IN
  /\ pc[i] = "find"
  /\ Read(i)
  /\ Goto(i, IF r.status = "SENT" THEN "publish"
             ELSE IF r # NoRow THEN "bump"
             ELSE IF Ev(i) \in NoRecipient THEN "publish" ELSE "create")
  /\ UNCHANGED <<begun, open, row, lock, history>>

\* The retry path's attempt_count + 1: flushed, so the row is locked, and
\* not committed.  The run goes on with the row it read before.
Bump(i) == /\ pc[i] = "bump"
           /\ RowFree(i)
           /\ lock' = [lock EXCEPT ![Ev(i)] = i]
           /\ Goto(i, "send")
           /\ UNCHANGED <<begun, open, snap, row, history>>

\* repo.create and commit; the unique key decides between racing runs.
Create(i) ==
  /\ pc[i] = "create"
  /\ IF row[Ev(i)] = NoRow
       THEN LET r == [status |-> "PENDING", attempts |-> 1, delivered |-> FALSE] IN
            /\ row' = [row EXCEPT ![Ev(i)] = r]
            /\ snap' = [snap EXCEPT ![i] = r]
            /\ Goto(i, "send")
       ELSE /\ Goto(i, "refind")
            /\ UNCHANGED <<row, snap>>
  /\ UNCHANGED <<begun, open, lock, history>>

\* IntegrityError: another run created the row; return it if it is SENT,
\* send as well if it is not.
Refind(i) == /\ pc[i] = "refind"
             /\ Read(i)
             /\ Goto(i, IF row[Ev(i)].status = "SENT" THEN "publish" ELSE "send")
             /\ UNCHANGED <<begun, open, row, lock, history>>

-----------------------------------------------------------------------------
(* _send_email: a second session.                                          *)

\* The provider takes the email and says so.
SendOk(i) == /\ pc[i] = "send"
             /\ accepted' = [accepted EXCEPT ![Ev(i)] = @ + 1]
             /\ Goto(i, "mark")
             /\ UNCHANGED <<begun, open, snap, row, lock, announced, overlap, unrecorded>>

\* Mutant of SendFails: the provider's exception is swallowed.
SendFailsSilently(i) == /\ pc[i] = "send"
                        /\ Goto(i, "mark")
                        /\ UNCHANGED <<begun, open, snap, row, lock, history>>

\* Rendering or the provider fails, or the provider took the email and the
\* answer is lost to a timeout.
SendFails(i) == /\ pc[i] = "send"
                /\ Goto(i, "fail")
                /\ \/ UNCHANGED <<accepted, unrecorded>>
                   \/ /\ accepted' = [accepted EXCEPT ![Ev(i)] = @ + 1]
                      /\ unrecorded' = unrecorded \cup {Ev(i)}
                /\ UNCHANGED <<begun, open, snap, row, lock, announced, overlap>>

SentRow(e) == [row EXCEPT ![e].status = "SENT", ![e].delivered = TRUE]

\* status = SENT, delivered_at = now, commit.
MarkSent(i) == /\ pc[i] = "mark"
               /\ RowFree(i)
               /\ row' = SentRow(Ev(i))
               /\ Goto(i, "finish")
               /\ UNCHANGED <<begun, open, snap, lock, history>>

\* The commit raises, having taken effect or not: the same except clause as
\* for a failed send.
MarkRaises(i) == /\ pc[i] = "mark"
                 /\ RowFree(i)
                 /\ row' \in {row, SentRow(Ev(i))}
                 /\ Goto(i, "fail")
                 /\ unrecorded' = unrecorded \cup {Ev(i)}
                 /\ UNCHANGED <<begun, open, snap, lock, accepted, announced, overlap>>

Final(i) == snap[i].attempts >= FinalAttempt

\* Mutant of MarkFailed: a status the model does not know.
MarkFailedRetrying(i) ==
  /\ pc[i] = "fail"
  /\ RowFree(i)
  /\ row' = [row EXCEPT ![Ev(i)].status = "RETRYING"]
  /\ Goto(i, "raise")
  /\ UNCHANGED <<begun, open, snap, lock, history>>

\* The except clause: FAILED on the final attempt, else PENDING, whatever
\* the row says by now; re-raise unless final.
MarkFailed(i) ==
  /\ pc[i] = "fail"
  /\ RowFree(i)
  /\ row' = [row EXCEPT ![Ev(i)].status = IF Final(i) THEN "FAILED" ELSE "PENDING"]
  /\ IF Final(i) THEN Goto(i, "finish") ELSE Goto(i, "raise")
  /\ unrecorded' = IF row[Ev(i)].status = "SENT" THEN unrecorded \cup {Ev(i)} ELSE unrecorded
  /\ UNCHANGED <<begun, open, snap, lock, accepted, announced, overlap>>

-----------------------------------------------------------------------------
(* The end of process_event, and of on_message.                            *)

\* Mutant of Finish: the end of a retry only.
FinishOfRetry(i) ==
  /\ pc[i] = "finish"
  /\ lock[Ev(i)] = i
  /\ lock' = [lock EXCEPT ![Ev(i)] = None]
  /\ snap' = [snap EXCEPT ![i] = row[Ev(i)]]
  /\ Goto(i, "publish")
  /\ UNCHANGED <<begun, open, row, history>>

\* find_by_id and the outer session's commit, which would store a retry's
\* attempt_count and free the row.
Finish(i) ==
  LET held == lock[Ev(i)] = i IN
  /\ pc[i] = "finish"
  /\ row' = IF held THEN [row EXCEPT ![Ev(i)].attempts = snap[i].attempts + 1] ELSE row
  /\ lock' = IF held THEN [lock EXCEPT ![Ev(i)] = None] ELSE lock
  /\ snap' = [snap EXCEPT ![i] = row'[Ev(i)]]
  /\ Goto(i, "publish")
  /\ UNCHANGED <<begun, open, history>>

RunEnds(i) == /\ Runs!End(i)
              /\ Goto(i, "idle")
              /\ snap' = [snap EXCEPT ![i] = NoRow]

\* email_sent: needs a notification with a delivered_at, else it raises.
Announce(i) == /\ pc[i] = "publish"
               /\ snap[i].delivered
               /\ announced' = announced \cup {Ev(i)}
               /\ RunEnds(i)
               /\ UNCHANGED <<row, lock, accepted, overlap, unrecorded>>

\* The exception leaves on_message: _send_email's, or email_sent's.
Raises(i) == /\ pc[i] \in {"raise", "publish"}
             /\ RunEnds(i)
             /\ UNCHANGED <<row, lock, history>>

\* on_message had nothing to do.
Returns(i) == /\ pc[i] = "return"
              /\ RunEnds(i)
              /\ UNCHANGED <<row, lock, history>>

\* A database error, or the end of the process, while the run awaits: its
\* sessions are closed and their open transactions rolled back.
Dies(i) == /\ open[i] # None
           /\ RunEnds(i)
           /\ lock' = [e \in Msgs |-> IF lock[e] = i THEN None ELSE lock[e]]
           /\ unrecorded' = IF pc[i] = "mark" THEN unrecorded \cup {Ev(i)} ELSE unrecorded
           /\ UNCHANGED <<row, accepted, announced, overlap>>

-----------------------------------------------------------------------------
Step(i) == \/ Find(i) \/ Bump(i) \/ Create(i) \/ Refind(i)
           \/ SendOk(i) \/ SendFails(i) \/ MarkSent(i) \/ MarkRaises(i) \/ MarkFailed(i)
           \/ Finish(i) \/ Announce(i) \/ Raises(i) \/ Returns(i)

Next == \E i \in Instances : Start(i) \/ Step(i) \/ Dies(i)

Spec == Init /\ [][Next]_vars

\* The event loop resumes a run whose await has completed.
FairSpec == Spec /\ \A i \in Instances : WF_vars(Step(i))

-----------------------------------------------------------------------------
TypeOK ==
  /\ Runs!RunsTypeOK
  /\ pc \in [Instances -> {"idle", "find", "bump", "create", "refind", "send", "mark",
                           "fail", "finish", "raise", "publish", "return"}]
  /\ snap \in [Instances -> Rows \cup {NoRow}]
  /\ row \in [Msgs -> Rows \cup {NoRow}]
  /\ lock \in [Msgs -> Instances \cup {None}]
  /\ accepted \in [Msgs -> Nat]
  /\ announced \in SUBSET Msgs
  /\ overlap \in SUBSET Msgs
  /\ unrecorded \in SUBSET Msgs

\* No receipt without a delivery: a row is SENT or has a delivered_at, and
\* notification.email.sent is published, only for an email the provider took.
NoFalseReceipt == \A e \in Msgs :
  (row[e].status = "SENT" \/ row[e].delivered \/ e \in announced) => accepted[e] > 0

\* A redelivery alone never repeats an email: the provider takes a second one
\* only if two runs worked on the event at once, or an acceptance was not on
\* record (answer lost, run died before the commit, SENT overwritten).
DuplicateNeedsCause == \A e \in Msgs :
  accepted[e] > 1 => e \in overlap \cup unrecorded

\* Once a retry holds a row, nobody changes that row - not the second session
\* of the retry itself - and only the end of that run gives it back.
RetryFreezesRow ==
  [][\A e \in Msgs : lock[e] # None =>
       /\ row'[e] = row[e]
       /\ lock'[e] # lock[e] => open'[lock[e]] = None]_vars

Blocked(i) == pc[i] \in {"bump", "mark", "fail"} /\ ~RowFree(i)

\* A run ends, or waits for a row some retry holds; nothing else stops it.
RunsEndOrBlock == \A i \in Instances :
  open[i] # None ~> (open[i] = None \/ Blocked(i))

\* "NATS will retry this entire function up to 3 times": a retry, like any
\* run of process_event, comes to an end.
EveryRunEnds == \A i \in Instances : open[i] # None ~> open[i] = None
=============================================================================
