---------------------------- MODULE CreditLedger ----------------------------
(***************************************************************************)
(* services/credit-service: the five handlers of CreditService over the    *)
(* tables credit_accounts and credit_transactions.  Each poll task of each *)
(* process runs the handler of one subject (HandlerRuns); handlers of      *)
(* different subjects, or of one subject in two processes, interleave at   *)
(* their awaits.                                                           *)
(*                                                                         *)
(* The database is PostgreSQL at READ COMMITTED.  A flush and the commit   *)
(* right behind it are one step; SELECT ... FOR UPDATE shows as the lock   *)
(* it holds until the transaction ends.                                    *)
(*                                                                         *)
(* Here a handler is handed the payload of its event, as CreditService's   *)
(* signatures say.  (Its listeners unpack the EventEnvelope they are given *)
(* as if it were that dict, which fails before CreditService is reached;   *)
(* the README says more.)                                                  *)
(***************************************************************************)
EXTENDS Integers, FiniteSets

CONSTANTS Merchants,
          Uuids,       \* what the primary key of an account is drawn from
          Kinds,       \* the five subjects, named for what they do
          Refs,        \* payment and match ids
          Events,      \* the events billing and recommendation publish
          Tasks,       \* poll tasks: one per process and subject
          Subject,     \* the subject of each poll task
          MaxDeliver,  \* Listener.max_deliver
          None

ASSUME KindsAssumption == Kinds = {"record", "trial", "purchase", "refund", "match"}
ASSUME EventsAssumption ==
  Events \subseteq [kind : Kinds, merchant : Merchants, ref : Refs, credits : Int]
ASSUME SubjectAssumption == Subject \in [Tasks -> Kinds]
ASSUME NoneAssumption == /\ None \notin Events \cup Tasks
                         /\ None \notin Merchants \cup Uuids
ASSUME MaxDeliverAssumption == MaxDeliver \in Nat

\* BillingService publishes trial.activated with TRIAL_CREDITS.
ASSUME TrialAssumption == \A e \in Events : e.kind = "trial" => e.credits > 0

VARIABLES
  begun, open,  \* HandlerRuns
  pc,             \* where each task's run is
  found,          \* the merchant whose account row the run loaded
  snap,           \* that account as the run's session knows it
  account,        \* credit_accounts, by merchant_id (unique)
  txs,            \* credit_transactions
  lock            \* the task whose transaction holds the account FOR UPDATE

vars == <<begun, open, pc, found, snap, account, txs, lock>>

Runs == INSTANCE HandlerRuns WITH Msgs <- Events, Instances <- Tasks

Accounts == [id : Uuids, trial : Int, purchased : Int, balance : Int,
             granted : Int, consumed : Int, used : Int]
NoAccount == [id |-> None]

Ev(t) == open[t]
Owner(t) == Ev(t).merchant

\* reference_type and reference_id: one trial per merchant, one purchase and
\* one refund per payment, one consumption per match.
Key(e) == <<e.kind, IF e.kind = "trial" THEN e.merchant ELSE e.ref>>
Recorded(e) == \E x \in txs : x.key = Key(e)

\* Mutant of Tx: the kind of event where the pool of credits belongs.
TxOfKind(e, m, source, amount) == [key |-> Key(e), merchant |-> m, source |-> e.kind, amount |-> amount]

Tx(e, m, source, amount) == [key |-> Key(e), merchant |-> m, source |-> source, amount |-> amount]

Exists(m) == account[m] # NoAccount

Init == /\ Runs!RunsInit
        /\ pc = [t \in Tasks |-> "idle"]
        /\ found = [t \in Tasks |-> None]
        /\ snap = [t \in Tasks |-> NoAccount]
        /\ account = [m \in Merchants |-> NoAccount]
        /\ txs = {}
        /\ lock = [m \in Merchants |-> None]

runVars == <<begun, open>>
session == <<found, snap>>
tables == <<account, txs>>

Goto(t, where) == pc' = [pc EXCEPT ![t] = where]
RowFree(m) == lock[m] = None

\* Mutant of NoLock: a transaction nobody ends.
NoLockKept(t) == [m \in Merchants |-> lock[m]]

\* The row locks without those of t's transaction.
NoLock(t) == [m \in Merchants |-> IF lock[m] = t THEN None ELSE lock[m]]

Loads(t, m) == /\ found' = [found EXCEPT ![t] = m]
               /\ snap' = [snap EXCEPT ![t] = account[m]]
Forgets(t) == /\ found' = [found EXCEPT ![t] = None]
              /\ snap' = [snap EXCEPT ![t] = NoAccount]

\* The run is over; its session is closed and what it held is released.
Over(t) == /\ Runs!End(t)
           /\ Goto(t, "idle")
           /\ Forgets(t)
           /\ lock' = NoLock(t)

\* Either way; the listener acknowledges the one and has the other redelivered.
Returns(t) == Over(t)
Raises(t) == Over(t)

-----------------------------------------------------------------------------
\* on_message: billing's events but refunds go through get_account, the
\* others through get_account_for_update.
Start(t) == /\ \E e \in Events : e.kind = Subject[t] /\ Runs!Begin(t, e)
            /\ Goto(t, IF Subject[t] \in {"refund", "match"} THEN "lock" ELSE "get")
            /\ UNCHANGED <<session, tables, lock>>

-----------------------------------------------------------------------------
(* get_account and what follows it without a lock.                         *)

\* session.get looks merchant_id up as a primary key.
HasPk(m, u) == Exists(m) /\ account[m].id = u

\* A purchase whose metadata has no positive number of credits is dropped.
Void(e) == e.kind \in {"purchase", "refund"} /\ e.credits <= 0

\* create_account returns if get_account finds the row, the grants if not.
Get(t) ==
  /\ pc[t] = "get"
  /\ \/ /\ \E m \in Merchants : HasPk(m, Owner(t))
        /\ IF Ev(t).kind = "record" \/ Void(Ev(t))
             THEN Returns(t)
             ELSE /\ \E m \in Merchants : HasPk(m, Owner(t)) /\ Loads(t, m)
                  /\ Goto(t, "check")
                  /\ UNCHANGED <<runVars, lock>>
     \/ /\ \A m \in Merchants : ~HasPk(m, Owner(t))
        /\ IF Ev(t).kind # "record"
             THEN Returns(t)
             ELSE /\ Goto(t, "insert")
                  /\ UNCHANGED <<runVars, session, lock>>
  /\ UNCHANGED tables

\* repo.create_account and commit, under a fresh uuid4 and two unique keys.
Insert(t) ==
  /\ pc[t] = "insert"
  /\ \/ /\ ~Exists(Owner(t))
        /\ \E u \in Uuids :
             /\ \A m \in Merchants : ~HasPk(m, u)
             /\ account' = [account EXCEPT ![Owner(t)] =
                  [id |-> u, trial |-> 0, purchased |-> 0, balance |-> 0,
                   granted |-> 0, consumed |-> 0, used |-> 0]]
        /\ Returns(t)
     \/ /\ Exists(Owner(t))  \* IntegrityError
        /\ Raises(t)
        /\ UNCHANGED account
  /\ UNCHANGED txs

\* transaction_exists.
Check(t) == /\ pc[t] = "check"
            /\ IF Recorded(Ev(t))
                 THEN Returns(t)
                 ELSE /\ Goto(t, "grant")
                      /\ UNCHANGED <<runVars, session, lock>>
            /\ UNCHANGED tables

\* UPDATE writes the columns the session changed, with the session's values.
Dirty(now, old, new) == IF new = old THEN now ELSE new
Written(now, old, new) ==
  [id |-> now.id,
   trial     |-> Dirty(now.trial, old.trial, new.trial),
   purchased |-> Dirty(now.purchased, old.purchased, new.purchased),
   balance   |-> Dirty(now.balance, old.balance, new.balance),
   granted   |-> Dirty(now.granted, old.granted, new.granted),
   consumed  |-> Dirty(now.consumed, old.consumed, new.consumed),
   used      |-> Dirty(now.used, old.used, new.used)]

GrantTrial(a, n) == [a EXCEPT !.trial = @ + n,
                              !.balance = a.trial + n + a.purchased,
                              !.granted = @ + n]
GrantPurchase(a, n) == [a EXCEPT !.purchased = @ + n,
                                 !.balance = a.trial + a.purchased + n,
                                 !.granted = @ + n]
Granted(a, e) == IF e.kind = "trial" THEN GrantTrial(a, e.credits)
                                     ELSE GrantPurchase(a, e.credits)

\* The UPDATE waits for a row held FOR UPDATE; the unique key of
\* credit_transactions decides between two runs of one event.
Grant(t) ==
  LET m == found[t]  e == Ev(t) IN
  /\ pc[t] = "grant"
  /\ RowFree(m)
  /\ IF Recorded(e)
       THEN Raises(t) /\ UNCHANGED tables
       ELSE /\ account' = [account EXCEPT ![m] = Written(@, snap[t], Granted(snap[t], e))]
            /\ txs' = txs \cup {Tx(e, m, e.kind, e.credits)}
            /\ Forgets(t)
            /\ Goto(t, "publish")
            /\ UNCHANGED <<runVars, lock>>

-----------------------------------------------------------------------------
(* get_account_for_update and what follows it under the row's lock.        *)

Lock(t) == /\ pc[t] = "lock"
           /\ RowFree(Owner(t))
           /\ IF Exists(Owner(t))
                THEN /\ lock' = [lock EXCEPT ![Owner(t)] = t]
                     /\ Loads(t, Owner(t))
                     /\ Goto(t, "locked")
                     /\ UNCHANGED runVars
                ELSE Returns(t)
           /\ UNCHANGED tables

\* Write the account and the transaction, and commit: the lock goes.
Commit(t, new, source, amount) ==
  LET m == found[t] IN
  /\ ~Recorded(Ev(t))
  /\ account' = [account EXCEPT ![m] = Written(@, snap[t], new)]
  /\ txs' = txs \cup {Tx(Ev(t), m, source, amount)}
  /\ lock' = NoLock(t)
  /\ Forgets(t)
  /\ Goto(t, "publish")
  /\ UNCHANGED runVars

\* Mutant of Least: the refund in full.
LeastAll(a, b) == a

Least(a, b) == IF a < b THEN a ELSE b

\* refund_purchased_credits: deduct from purchased only, bounded at 0.
Refund(t) ==
  LET a == snap[t]
      n == Least(Ev(t).credits, a.purchased) IN
  /\ pc[t] = "locked"
  /\ Ev(t).kind = "refund"
  /\ IF Void(Ev(t)) \/ Recorded(Ev(t))
       THEN Returns(t) /\ UNCHANGED tables
       ELSE Commit(t, [a EXCEPT !.purchased = @ - n, !.balance = a.trial + a.purchased - n],
                   "refund", n)

\* Mutant of Spend: trial_credits_used counted outside its branch.
SpendAlwaysTrialUsed(a) ==
  LET b == IF a.trial > 0 THEN [a EXCEPT !.trial = @ - 1]
                          ELSE [a EXCEPT !.purchased = @ - 1]
  IN [b EXCEPT !.balance = b.trial + b.purchased, !.consumed = @ + 1, !.used = @ + 1]

\* One credit off the trial if there is any, else off the purchased ones.
Spend(a) == LET b == IF a.trial > 0 THEN [a EXCEPT !.trial = @ - 1, !.used = @ + 1]
                                    ELSE [a EXCEPT !.purchased = @ - 1]
            IN [b EXCEPT !.balance = b.trial + b.purchased, !.consumed = @ + 1]

\* Mutant of Consume: no look at the balance.
ConsumeUnchecked(t) ==
  /\ pc[t] = "locked"
  /\ Ev(t).kind = "match"
  /\ IF Recorded(Ev(t))
       THEN Returns(t) /\ UNCHANGED tables
       ELSE Commit(t, Spend(snap[t]), IF snap[t].trial > 0 THEN "trial" ELSE "purchase", 1)

\* consume_credit.  The balance is looked at before the reference, and the
\* publisher's insufficient raises inside the transaction.
Consume(t) ==
  LET a == snap[t] IN
  /\ pc[t] = "locked"
  /\ Ev(t).kind = "match"
  /\ IF a.balance <= 0
       THEN Raises(t) /\ UNCHANGED tables
       ELSE IF Recorded(Ev(t))
         THEN Returns(t) /\ UNCHANGED tables
         ELSE Commit(t, Spend(a), IF a.trial > 0 THEN "trial" ELSE "purchase", 1)

-----------------------------------------------------------------------------
\* Every publisher method builds MerchantIdentifiers(id=...), which is no
\* valid MerchantIdentifiers: what was committed stays, the handler raises.
Publish(t) == pc[t] = "publish" /\ Raises(t) /\ UNCHANGED tables

\* A database error, or the end of the process: open transactions roll back.
Dies(t) == Raises(t) /\ UNCHANGED tables

Step(t) == \/ Get(t) \/ Insert(t) \/ Check(t) \/ Grant(t)
           \/ Lock(t) \/ Refund(t) \/ Consume(t) \/ Publish(t)

Next == \E t \in Tasks : Start(t) \/ Step(t) \/ Dies(t)

Spec == Init /\ [][Next]_vars

-----------------------------------------------------------------------------
TypeOK ==
  /\ Runs!RunsTypeOK
  /\ pc \in [Tasks -> {"idle", "get", "insert", "check", "grant", "lock", "locked", "publish"}]
  /\ found \in [Tasks -> Merchants \cup {None}]
  /\ snap \in [Tasks -> Accounts \cup {NoAccount}]
  /\ account \in [Merchants -> Accounts \cup {NoAccount}]
  /\ txs \in SUBSET [key : Kinds \X (Refs \cup Merchants), merchant : Merchants,
                     source : {"trial", "purchase", "refund"}, amount : Int]
  /\ lock \in [Merchants -> Tasks \cup {None}]

\* "Current balances (never negative)": although the grants write back what
\* they read without a lock, no interleaving with consumptions and refunds
\* takes a balance below zero.
NeverNegative == \A m \in Merchants : Exists(m) =>
  LET a == account[m] IN a.trial >= 0 /\ a.purchased >= 0 /\ a.balance >= 0

Matches(m) == {x \in txs : x.merchant = m /\ x.key[1] = "match"}

\* The consumption counters agree with the transactions, however often an
\* event is delivered and whatever the grants overwrite: no match is paid
\* twice, none is paid without a record.
ConsumptionOnLedger == \A m \in Merchants : Exists(m) =>
  /\ account[m].consumed = Cardinality(Matches(m))
  /\ account[m].used = Cardinality({x \in Matches(m) : x.source = "trial"})

\* A match that is on the ledger was taken out of a balance some grant on the
\* ledger provided.
SpendsNeedGrants == \A m \in Merchants :
  Matches(m) # {} => \E x \in txs : x.merchant = m /\ x.key[1] \in {"trial", "purchase"}

\* Nobody waits for an account forever: a run that waits for a row waits for
\* a run that holds that one row, is past all waiting and only has to commit.
WaitsAreShort == \A m \in Merchants : lock[m] # None =>
  /\ pc[lock[m]] = "locked"
  /\ found[lock[m]] = m
  /\ \A n \in Merchants : lock[n] = lock[m] => n = m

\* "amount always positive".
AmountsPositive == \A x \in txs : x.amount > 0

\* "Handle evt.billing.trial.activated - grant trial credits": a grant's event
\* is not dropped when the merchant has an account.
GrantsReachAccounts ==
  [][\A t \in Tasks :
       (Get(t) /\ Ev(t).kind = "trial" /\ Exists(Owner(t))) => open'[t] # None]_vars
=============================================================================
