------------------------------- MODULE Billing -------------------------------
(***************************************************************************)
(* services/billing-service: BillingService over billing_accounts and      *)
(* payments.  The listeners' handlers run over HandlerRuns; API requests   *)
(* and the hourly expiry are runs of the same kind, repeated as often as   *)
(* a client or the clock repeats them.                                     *)
(*                                                                         *)
(* The database is PostgreSQL at READ COMMITTED, nothing is read FOR       *)
(* UPDATE.  A flush and the commit right behind it are one step; the       *)
(* flushed payment of mark_completed stays locked until its commit.        *)
(*                                                                         *)
(* No code stores platform_charge_id, so the payments a webhook can find   *)
(* are rows that came with the table; they are in any status at first.     *)
(* Handlers are handed the payload as BillingService's signatures say (see *)
(* the README on the listeners).                                           *)
(***************************************************************************)
EXTENDS Integers, FiniteSets

CONSTANTS Merchants,
          Payments,    \* rows of payments that carry a platform charge
          Owner,       \* payments.merchant_id
          Amount,      \* payments.amount
          Found,       \* the statuses those rows came in
          Expiring,    \* payments with an expires_at, which may pass any time
          Kinds,       \* what there is to do, see KindsAssumption
          Work,        \* events, requests and the job, as they are submitted
          Tasks,       \* coroutines
          MaxDeliver,  \* deliveries of an event, submissions of a request
          MaxWork,     \* a bound: how many different things are submitted
          TRIAL_CREDITS,
          None

ASSUME KindsAssumption ==
  Kinds = {"record",   \* evt.merchant.created
           "update",   \* evt.webhook.app.purchase_updated
           "refund",   \* evt.webhook.app.purchase_refunded
           "trial",    \* POST /billing/trial
           "charge",   \* POST /billing/charges
           "expire"}   \* the hourly job

\* of: the merchant or charge; good: the webhook's status is "accepted", the
\* request's scope is the BFF's.
ASSUME WorkAssumption == \A w \in Work : /\ w.kind \in Kinds
                                         /\ w.good \in BOOLEAN
                                         /\ w.kind \in {"record", "trial", "charge"} => w.of \in Merchants
ASSUME PaymentsAssumption == /\ Owner \in [Payments -> Merchants]
                             /\ Amount \in [Payments -> Nat]
                             /\ Expiring \subseteq Payments
                             /\ Found \subseteq {"pending", "completed", "failed", "expired", "refunded"}
ASSUME SubjectsAssumption == Merchants \cap Payments = {}   \* ids of two tables
ASSUME BillingNone == None \notin Work
ASSUME DeliverAssumption == MaxDeliver \in Nat /\ MaxWork \in Nat
ASSUME CreditsAssumption == TRIAL_CREDITS \in Nat \ {0}

VARIABLES
  begun, open,   \* HandlerRuns
  pc,              \* where each task's run is
  read,            \* the total_spend_usd its session has read
  account,         \* billing_accounts by merchant_id (unique)
  status,          \* payments.status
  published,       \* events of billing on the stream
  acts,            \* history: how often each trial was activated and each
                   \* payment counted
  atLook,          \* history: acts of the run's subject when it looked
  tallied          \* history: what each merchant's purchases add up to, and
                   \* whether two of them read the total at a time

runVars == <<begun, open>>
tables == <<account, status>>
history == <<acts, atLook, tallied>>
vars == <<begun, open, pc, read, account, status, published, acts, atLook, tallied>>

Runs == INSTANCE HandlerRuns WITH Msgs <- Work, Instances <- Tasks

Statuses == {"pending", "completed", "failed", "expired", "refunded"}
Accounts == [trial : BOOLEAN, spend : Nat]
NoAccount == [trial |-> None]
Exists(m) == account[m] # NoAccount

Of(t) == open[t].of
Goto(t, where) == pc' = [pc EXCEPT ![t] = where]

Init == /\ Runs!RunsInit
        /\ pc = [t \in Tasks |-> "idle"]
        /\ read = [t \in Tasks |-> 0]
        /\ account = [m \in Merchants |-> NoAccount]
        /\ status \in [Payments -> Found]
        /\ published = {}
        /\ acts = [x \in Merchants \cup Payments |-> 0]
        /\ atLook = [t \in Tasks |-> 0]
        /\ tallied = [m \in Merchants |-> [sum |-> 0, raced |-> FALSE]]

\* The end of a run, in a response, an ack, a nak or an error.
Ends(t) == /\ Runs!End(t)
           /\ Goto(t, "idle")
           /\ read' = [read EXCEPT ![t] = 0]
           /\ atLook' = [atLook EXCEPT ![t] = 0]
Returns(t) == Ends(t) /\ UNCHANGED <<acts, tallied>>
Raises(t) == Ends(t) /\ UNCHANGED <<acts, tallied>>

Stays(t, where) == Goto(t, where) /\ UNCHANGED <<runVars, read, acts, tallied>>
Continues(t, where) == Stays(t, where) /\ UNCHANGED atLook

\* A check that passed: remember how often the thing was done by then.
Looks(t, where) == Stays(t, where) /\ atLook' = [atLook EXCEPT ![t] = acts[Of(t)]]

\* Commit of something that should happen once.
Acts(t, x) == /\ acts' = [acts EXCEPT ![x] = @ + 1]
              /\ Goto(t, "publish")
              /\ UNCHANGED <<runVars, read, atLook>>

Start(t) == /\ \E w \in Work : /\ Cardinality({v \in Work : begun[v] > 0} \cup {w}) <= MaxWork
                               /\ Runs!Begin(t, w)
                               /\ Goto(t, w.kind)
            /\ UNCHANGED <<read, tables, published, history>>

-----------------------------------------------------------------------------
(* handle_merchant_created and activate_trial.                             *)

FindRecord(t) ==
  /\ pc[t] = "record"
  /\ IF Exists(Of(t)) THEN Returns(t) ELSE Continues(t, "insert")
  /\ UNCHANGED <<tables, published>>

\* The unique key on merchant_id decides between two runs.
InsertAccount(t) ==
  LET m == Of(t) IN
  /\ pc[t] = "insert"
  /\ IF Exists(m)
       THEN Raises(t) /\ UNCHANGED account
       ELSE /\ account' = [account EXCEPT ![m] = [trial |-> TRUE, spend |-> 0]]
            /\ Continues(t, "publish")
  /\ UNCHANGED <<status, published>>

\* Mutant of TrialRefused: trial_available is not looked at.
TrialRefusedUnlooked(w) == ~w.good \/ ~Exists(w.of)

\* 403, 404 and 409 end the request.
TrialRefused(w) == ~w.good \/ ~Exists(w.of) \/ ~account[w.of].trial

LookAtTrial(t) ==
  /\ pc[t] = "trial"
  /\ IF TrialRefused(open[t])
       THEN Raises(t)
       ELSE Looks(t, "activate")
  /\ UNCHANGED <<tables, published>>

ActivateTrial(t) ==
  /\ pc[t] = "activate"
  /\ account' = [account EXCEPT ![Of(t)].trial = FALSE]
  /\ Acts(t, Of(t))
  /\ UNCHANGED <<status, published, tallied>>

\* 403, 404 (account, product), 409, 400 - or, past all checks, the TypeError
\* of product.metadata['credits'], before anything is written.
CreateCharge(t) == /\ pc[t] = "charge"
                   /\ Raises(t)
                   /\ UNCHANGED <<tables, published>>

-----------------------------------------------------------------------------
(* handle_purchase_updated.                                                *)

\* Mutant of Unlocked: the run's own wait counts as a lock.
UnlockedByAll(p) == \A t \in Tasks : pc[t] \in {"complete", "tally", "count"} => Of(t) # p

\* A payment some run has flushed and not committed is locked.
Unlocked(p) == \A t \in Tasks : pc[t] \in {"tally", "count"} => Of(t) # p

\* "Already processed?"
Decided(p) == status[p] # "pending"

FindCharge(t) ==
  /\ pc[t] = "update"
  /\ IF Of(t) \notin Payments \/ Decided(Of(t))
       THEN Returns(t)
       ELSE Looks(t, IF open[t].good THEN "complete" ELSE "fail")
  /\ UNCHANGED <<tables, published>>

\* mark_completed: a flush, which waits for the row and then holds it.
MarkCompleted(t) == /\ pc[t] = "complete"
                    /\ Unlocked(Of(t))
                    /\ Continues(t, "tally")
                    /\ UNCHANGED <<tables, published>>

\* The runs that have read m's total and not written it yet.
Reading(m) == {t \in Tasks : pc[t] = "count" /\ Owner[Of(t)] = m}

\* update_spend reads the account ...
ReadSpend(t) ==
  /\ pc[t] = "tally"
  /\ IF Exists(Owner[Of(t)])
       THEN /\ read' = [read EXCEPT ![t] = account[Owner[Of(t)]].spend]
            /\ Goto(t, "count")
            /\ tallied' = [tallied EXCEPT ![Owner[Of(t)]].raced = @ \/ Reading(Owner[Of(t)]) # {}]
            /\ UNCHANGED <<runVars, acts, atLook>>
       ELSE Raises(t)
  /\ UNCHANGED <<tables, published>>

\* Mutant of CountAndCommit: the total it read is not in the sum.
CountFromZero(t) ==
  LET p == Of(t) IN
  /\ pc[t] = "count"
  /\ account' = [account EXCEPT ![Owner[p]].spend = Amount[p]]
  /\ status' = [status EXCEPT ![p] = "completed"]
  /\ tallied' = [tallied EXCEPT ![Owner[p]].sum = @ + Amount[p]]
  /\ Acts(t, p)
  /\ UNCHANGED published

\* ... and writes back what it added up, whatever the row says by now.
CountAndCommit(t) ==
  LET p == Of(t) IN
  /\ pc[t] = "count"
  /\ account' = [account EXCEPT ![Owner[p]].spend = read[t] + Amount[p]]
  /\ status' = [status EXCEPT ![p] = "completed"]
  /\ tallied' = [tallied EXCEPT ![Owner[p]].sum = @ + Amount[p]]
  /\ Acts(t, p)
  /\ UNCHANGED published

\* Mutant of MarkFailed: the platform's word for the status.
MarkDeclined(t) == /\ pc[t] = "fail"
                   /\ Unlocked(Of(t))
                   /\ status' = [status EXCEPT ![Of(t)] = "declined"]
                   /\ Continues(t, "publish")
                   /\ UNCHANGED <<account, published>>

MarkFailed(t) == /\ pc[t] = "fail"
                 /\ Unlocked(Of(t))
                 /\ status' = [status EXCEPT ![Of(t)] = "failed"]
                 /\ Continues(t, "publish")
                 /\ UNCHANGED <<account, published>>

-----------------------------------------------------------------------------
(* handle_purchase_refunded, which does not look at the status, and the    *)
(* expiry job, whose UPDATE does.                                          *)

FindRefund(t) ==
  /\ pc[t] = "refund"
  /\ IF Of(t) \in Payments THEN Continues(t, "mark") ELSE Returns(t)
  /\ UNCHANGED <<tables, published>>

MarkRefunded(t) == /\ pc[t] = "mark"
                   /\ Unlocked(Of(t))
                   /\ status' = [status EXCEPT ![Of(t)] = "refunded"]
                   /\ Continues(t, "publish")
                   /\ UNCHANGED <<account, published>>

\* Mutant of Due: everything past its time.
DueInAnyStatus(P) == P

\* WHERE status = 'pending', evaluated again on rows it had to wait for.
Due(P) == {p \in P : status[p] = "pending"}

Expire(t) == /\ pc[t] = "expire"
             /\ \E P \in SUBSET Expiring :
                  /\ \A p \in P : Unlocked(p)
                  /\ status' = [p \in Payments |-> IF p \in Due(P) THEN "expired" ELSE status[p]]
             /\ Returns(t)
             /\ UNCHANGED <<account, published>>

-----------------------------------------------------------------------------
\* Mutant of Announces: the trial's event before its commit.
AnnouncesEarly(t) == pc[t] \in {"publish", "activate"}

Announces(t) == pc[t] = "publish"

Event(w) == [kind |-> w.kind, of |-> w.of,
             credits |-> IF w.kind = "trial" THEN TRIAL_CREDITS ELSE 0]

\* purchase.completed and purchase.refunded carry payment.metadata, which is
\* SQLAlchemy's MetaData and no JSON: these two always raise.
Serializable(w) == w.kind \in {"record", "trial"} \/ (w.kind = "update" /\ ~w.good)

\* Publishing may raise before or after the server has the event.
Publish(t) ==
  /\ Announces(t)
  /\ published' \in {published} \cup
       {published \cup {Event(w)} : w \in {w \in {open[t]} : Serializable(w)}}
  /\ Ends(t)
  /\ UNCHANGED <<tables, acts, tallied>>

\* A database error or the end of the process.
Dies(t) == Raises(t) /\ UNCHANGED <<tables, published>>

Step(t) == \/ FindRecord(t) \/ InsertAccount(t) \/ LookAtTrial(t) \/ ActivateTrial(t)
           \/ CreateCharge(t) \/ FindCharge(t) \/ MarkCompleted(t) \/ ReadSpend(t)
           \/ CountAndCommit(t) \/ MarkFailed(t) \/ FindRefund(t) \/ MarkRefunded(t)
           \/ Expire(t) \/ Publish(t)

Next == \E t \in Tasks : Start(t) \/ Step(t) \/ Dies(t)

Spec == Init /\ [][Next]_vars
FairSpec == Spec /\ \A t \in Tasks : WF_vars(Step(t))

-----------------------------------------------------------------------------
TypeOK ==
  /\ Runs!RunsTypeOK
  /\ pc \in [Tasks -> Kinds \cup {"idle", "insert", "activate", "complete", "fail",
                                  "tally", "count", "mark", "publish"}]
  /\ read \in [Tasks -> Nat]
  /\ account \in [Merchants -> Accounts \cup {NoAccount}]
  /\ status \in [Payments -> Statuses]
  /\ published \subseteq {Event(w) : w \in Work}
  /\ acts \in [Merchants \cup Payments -> Nat]
  /\ atLook \in [Tasks -> Nat]
  /\ tallied \in [Merchants -> [sum : Nat, raced : BOOLEAN]]

\* The status of a payment moves as PaymentLife says: late verdicts and
\* refunds may overwrite anything, but nothing returns to PENDING and expiry
\* never takes back a decision.
Deciding(t) == IF pc[t] \in {"complete", "fail", "tally", "count"} THEN {Of(t)} ELSE {}
Life == INSTANCE PaymentLife WITH Handlers <- Tasks, deciding <- [t \in Tasks |-> Deciding(t)]
ImplementsPaymentLife == Life!LifeSpec

\* A run that goes on to activate a trial or to count a payment looked at it
\* before that had ever been done: doing it twice takes two runs that
\* overlap, redelivery or a repeated request alone is not enough.
RepeatsNeedOverlap == \A t \in Tasks :
  pc[t] \in {"activate", "complete", "tally", "count"} => atLook[t] = 0

\* total_spend_usd is what the purchases add up to, unless two purchases of
\* the merchant held it at one time: nothing else loses or repeats an amount.
SpendExactUnlessRaced == \A m \in Merchants : Exists(m) =>
  tallied[m].raced \/ account[m].spend = tallied[m].sum

\* Every event on the stream has its cause in the tables, whatever was
\* written since: credits are granted for an activated trial only.
EventsHaveCauses == \A e \in published :
  CASE e.kind = "record" -> Exists(e.of)
    [] e.kind = "trial"  -> Exists(e.of) /\ ~account[e.of].trial /\ acts[e.of] > 0
    [] e.kind = "update" -> status[e.of] # "pending"

\* Every run ends: no two of them wait for each other's rows.
RunsEnd == \A t \in Tasks : open[t] # None ~> open[t] = None
=============================================================================
