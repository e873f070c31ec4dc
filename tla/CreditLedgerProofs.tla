------------------------- MODULE CreditLedgerProofs -------------------------
(***************************************************************************)
(* Proofs about CreditLedger.tla, for any merchants, events and poll tasks.*)
(***************************************************************************)
EXTENDS CreditLedger, FiniteSetTheorems, TLAPS

\* A poll task is idle between runs, and only then.
IdleBetweenRuns == \A t \in Tasks : pc[t] = "idle" <=> open[t] = None

\* What a run has loaded, and where it is with it.
Loading == {"check", "grant", "locked"}
LoadedRow == \A t \in Tasks :
  pc[t] \in Loading => found[t] \in Merchants /\ Exists(found[t]) /\ snap[t] \in Accounts

\* Runs without a lock are no refunds or consumptions, and past get_account
\* they are grants of some credits ...
GrantRuns == \A t \in Tasks :
  /\ pc[t] = "get" => Ev(t).kind \in {"record", "trial", "purchase"}
  /\ pc[t] \in {"check", "grant"} => Ev(t).kind \in {"trial", "purchase"} /\ Ev(t).credits > 0

\* ... and runs with one see the row as it is.
LockedRuns == \A t \in Tasks : pc[t] = "locked" =>
  /\ lock[found[t]] = t
  /\ snap[t] = account[found[t]]

\* Both pools are non-negative, and empty together only with the balance.
Sound(a) == /\ a.trial >= 0 /\ a.purchased >= 0 /\ a.balance >= 0
            /\ a.balance > 0 => a.trial > 0 \/ a.purchased > 0
SoundRows == \A m \in Merchants : Exists(m) => Sound(account[m])
SoundSnaps == \A t \in Tasks : pc[t] \in Loading => Sound(snap[t])

\* Transactions belong to accounts, and there are finitely many.
OwnedTxs == IsFiniteSet(txs) /\ \A x \in txs : Exists(x.merchant)

\* Credits only come from grants.
Funded == \A m \in Merchants :
  (Exists(m) /\ (account[m].trial > 0 \/ account[m].purchased > 0)) =>
    \E x \in txs : x.merchant = m /\ x.key[1] \in {"trial", "purchase"}

\* The inductive invariant.
IInv == /\ TypeOK
        /\ IdleBetweenRuns
        /\ LoadedRow
        /\ GrantRuns
        /\ LockedRuns
        /\ SoundRows
        /\ SoundSnaps
        /\ OwnedTxs
        /\ Funded
        /\ ConsumptionOnLedger
        /\ SpendsNeedGrants
        /\ WaitsAreShort

-----------------------------------------------------------------------------
(* Rows, keys and transactions.                                            *)

LEMMA RowExists ==
  ASSUME NEW a \in Accounts
  PROVE  a # NoAccount
  <1>1. a.id \in Uuids /\ NoAccount.id = None
    BY DEF Accounts, NoAccount
  <1> QED
    BY <1>1, NoneAssumption

LEMMA RowType ==
  ASSUME TypeOK, NEW m \in Merchants, Exists(m)
  PROVE  account[m] \in Accounts
  BY DEF TypeOK, Exists

LEMMA EventParts ==
  ASSUME NEW e \in Events
  PROVE  /\ e.kind \in Kinds /\ e.merchant \in Merchants /\ e.ref \in Refs
         /\ e.credits \in Int /\ e # None
  BY EventsAssumption, NoneAssumption

\* A run has its event.
LEMMA RunEvent ==
  ASSUME TypeOK, IdleBetweenRuns, NEW t \in Tasks, pc[t] # "idle"
  PROVE  Ev(t) \in Events /\ Owner(t) \in Merchants
  <1>1. Ev(t) \in Events
    BY DEF TypeOK, IdleBetweenRuns, Runs!RunsTypeOK, Ev
  <1> QED
    BY <1>1, EventParts DEF Owner

LEMMA KeyParts ==
  ASSUME NEW e \in Events
  PROVE  Key(e) \in Kinds \X (Refs \cup Merchants) /\ Key(e)[1] = e.kind
  BY EventParts DEF Key

TxSet == [key : Kinds \X (Refs \cup Merchants), merchant : Merchants,
          source : {"trial", "purchase", "refund"}, amount : Int]

LEMMA TxParts ==
  ASSUME NEW e \in Events, NEW m \in Merchants,
         NEW source \in {"trial", "purchase", "refund"}, NEW amount \in Int
  PROVE  /\ Tx(e, m, source, amount) \in TxSet
         /\ Tx(e, m, source, amount).key = Key(e)
         /\ Tx(e, m, source, amount).key[1] = e.kind
         /\ Tx(e, m, source, amount).merchant = m
         /\ Tx(e, m, source, amount).source = source
         /\ ~Recorded(e) => Tx(e, m, source, amount) \notin txs
  BY KeyParts DEF Tx, Recorded, TxSet

TrialMatches(m) == {x \in Matches(m) : x.source = "trial"}

\* A transaction that is no consumption leaves the consumptions alone.
LEMMA OtherTx ==
  ASSUME NEW x, x.key[1] # "match", txs' = txs \cup {x}
  PROVE  \A m \in Merchants : Matches(m)' = Matches(m) /\ TrialMatches(m)' = TrialMatches(m)
  BY DEF Matches, TrialMatches

\* One that is counts once, for its account and its pool.
LEMMA MatchTx ==
  ASSUME NEW m \in Merchants, NEW x, IsFiniteSet(txs), x \notin txs,
         x.merchant = m, x.key[1] = "match", txs' = txs \cup {x}
  PROVE  /\ Cardinality(Matches(m)') = Cardinality(Matches(m)) + 1
         /\ x.source = "trial" =>
              Cardinality(TrialMatches(m)') = Cardinality(TrialMatches(m)) + 1
         /\ x.source # "trial" => TrialMatches(m)' = TrialMatches(m)
         /\ \A k \in Merchants \ {m} :
              Matches(k)' = Matches(k) /\ TrialMatches(k)' = TrialMatches(k)
  <1>1. /\ Matches(m)' = Matches(m) \cup {x} /\ x \notin Matches(m)
        /\ IsFiniteSet(Matches(m))
    <2>1. Matches(m) \subseteq txs
      BY DEF Matches
    <2>2. IsFiniteSet(Matches(m))
      BY <2>1, FS_Subset
    <2> QED
      BY <2>1, <2>2 DEF Matches
  <1>2. Cardinality(Matches(m)') = Cardinality(Matches(m)) + 1
    BY <1>1, FS_AddElement
  <1>3. IsFiniteSet(TrialMatches(m)) /\ x \notin TrialMatches(m)
    <2>1. TrialMatches(m) \subseteq Matches(m)
      BY DEF TrialMatches
    <2> QED
      BY <1>1, <2>1, FS_Subset
  <1>4. ASSUME x.source = "trial"
        PROVE  Cardinality(TrialMatches(m)') = Cardinality(TrialMatches(m)) + 1
    <2>1. TrialMatches(m)' = TrialMatches(m) \cup {x}
      BY <1>1, <1>4 DEF TrialMatches
    <2> QED
      BY <1>3, <2>1, FS_AddElement
  <1>5. x.source # "trial" => TrialMatches(m)' = TrialMatches(m)
    BY <1>1 DEF TrialMatches
  <1>6. \A k \in Merchants \ {m} :
          Matches(k)' = Matches(k) /\ TrialMatches(k)' = TrialMatches(k)
    BY DEF Matches, TrialMatches
  <1> QED
    BY <1>2, <1>4, <1>5, <1>6

-----------------------------------------------------------------------------
(* What the handlers compute.                                              *)

\* A grant written over a row that has changed since: the counters of
\* consumption survive, the pools stay sound.
LEMMA GrantedRow ==
  ASSUME NEW a \in Accounts, Sound(a), NEW s \in Accounts, Sound(s),
         NEW e \in Events, e.kind \in {"trial", "purchase"}, e.credits > 0
  PROVE  LET w == Written(a, s, Granted(s, e)) IN
         w \in Accounts /\ Sound(w) /\ w.consumed = a.consumed /\ w.used = a.used
  <1> DEFINE n == e.credits
             g == Granted(s, e)
             w == Written(a, s, g)
  <1>1. n \in Int /\ n > 0
    BY EventParts
  <1>2. /\ g.trial \in Int /\ g.purchased \in Int /\ g.balance \in Int
        /\ g.granted \in Int /\ g.consumed = s.consumed /\ g.used = s.used
        /\ g.balance > 0
        /\ \/ g.trial = s.trial + n /\ g.purchased = s.purchased
           \/ g.trial = s.trial /\ g.purchased = s.purchased + n
    BY <1>1 DEF Granted, GrantTrial, GrantPurchase, Accounts, Sound
  <1> HIDE DEF g
  <1>3. /\ w.id = a.id /\ w.consumed = a.consumed /\ w.used = a.used
        /\ w.trial = Dirty(a.trial, s.trial, g.trial)
        /\ w.purchased = Dirty(a.purchased, s.purchased, g.purchased)
        /\ w.balance = Dirty(a.balance, s.balance, g.balance)
    BY <1>2 DEF Written, Dirty
  <1>4. w \in Accounts
    BY <1>2 DEF Written, Dirty, Accounts
  <1> HIDE DEF w
  <1>5. Sound(w)
    BY <1>1, <1>2, <1>3 DEF Sound, Dirty, Accounts
  <1> QED
    BY <1>3, <1>4, <1>5 DEF w, g

\* Under the lock the row becomes what the handler computed.
LEMMA LockedWrite ==
  ASSUME NEW a \in Accounts, NEW b \in Accounts, b.id = a.id
  PROVE  Written(a, a, b) = b
  BY DEF Written, Dirty, Accounts

LEMMA Columns ==
  ASSUME NEW a \in Accounts
  PROVE  /\ a.id \in Uuids /\ a.trial \in Int /\ a.purchased \in Int /\ a.balance \in Int
         /\ a.granted \in Int /\ a.consumed \in Int /\ a.used \in Int
  BY DEF Accounts

LEMMA RefundedRow ==
  ASSUME NEW a \in Accounts, Sound(a), NEW c \in Int, c > 0
  PROVE  LET n == Least(c, a.purchased)
             b == [a EXCEPT !.purchased = @ - n, !.balance = a.trial + a.purchased - n] IN
         /\ b \in Accounts /\ b.id = a.id /\ Sound(b) /\ n \in Int
         /\ b.consumed = a.consumed /\ b.used = a.used
         /\ b.trial = a.trial /\ b.purchased <= a.purchased
  <1> DEFINE n == Least(c, a.purchased)
             i == a.purchased - n
             j == a.trial + a.purchased - n
             b == [a EXCEPT !.purchased = i, !.balance = j]
  <1>1. /\ a.trial \in Int /\ a.purchased \in Int /\ a.trial >= 0 /\ a.purchased >= 0
        /\ n \in Int /\ 0 <= n /\ n <= a.purchased
    BY Columns DEF Sound, Least
  <1>2. i \in Int /\ j \in Int /\ i >= 0 /\ i <= a.purchased /\ j = a.trial + i
    BY <1>1
  <1>3. /\ b \in Accounts /\ b.purchased = i /\ b.balance = j /\ b.id = a.id
        /\ b.trial = a.trial /\ b.consumed = a.consumed /\ b.used = a.used
    <2> HIDE DEF i, j
    <2> QED
      BY <1>2 DEF Accounts
  <1>4. Sound(b)
    <2> HIDE DEF b
    <2>1. b.trial >= 0 /\ b.purchased >= 0 /\ b.balance >= 0
      BY <1>1, <1>2, <1>3
    <2>2. b.balance > 0 => b.trial > 0 \/ b.purchased > 0
      BY <1>1, <1>2, <1>3
    <2> QED
      BY <2>1, <2>2 DEF Sound
  <1>5. n \in Int /\ b.purchased <= a.purchased
    <2> HIDE DEF b, n, i
    <2> QED
      BY <1>1, <1>2, <1>3
  <1> HIDE DEF n
  <1> QED
    BY <1>3, <1>4, <1>5 DEF n

LEMMA SpentRow ==
  ASSUME NEW a \in Accounts, Sound(a), a.balance > 0
  PROVE  /\ Spend(a) \in Accounts /\ Spend(a).id = a.id /\ Sound(Spend(a))
         /\ Spend(a).consumed = a.consumed + 1
         /\ Spend(a).used = IF a.trial > 0 THEN a.used + 1 ELSE a.used
  <1> DEFINE b == IF a.trial > 0 THEN [a EXCEPT !.trial = @ - 1, !.used = @ + 1]
                                 ELSE [a EXCEPT !.purchased = @ - 1]
             i == b.trial + b.purchased
             j == b.consumed + 1
             d == [b EXCEPT !.balance = i, !.consumed = j]
  <1>1. /\ a.trial \in Int /\ a.purchased \in Int /\ a.trial >= 0 /\ a.purchased >= 0
        /\ a.consumed \in Int /\ a.used \in Int
        /\ a.trial > 0 \/ a.purchased > 0
    BY Columns DEF Sound
  <1>2. /\ b \in Accounts /\ b.id = a.id /\ b.consumed = a.consumed
        /\ b.trial >= 0 /\ b.purchased >= 0
        /\ b.used = IF a.trial > 0 THEN a.used + 1 ELSE a.used
    <2>1. CASE a.trial > 0
      <3> DEFINE k == a.trial - 1
                 u == a.used + 1
      <3>1. k \in Int /\ u \in Int /\ k >= 0
        BY <1>1, <2>1
      <3>2. b = [a EXCEPT !.trial = k, !.used = u]
        BY <2>1
      <3> HIDE DEF k
      <3>3. /\ b \in Accounts /\ b.trial = k /\ b.used = u /\ b.id = a.id
            /\ b.purchased = a.purchased /\ b.consumed = a.consumed
        <4> HIDE DEF u, b
        <4> QED
          BY <3>1, <3>2 DEF Accounts
      <3> HIDE DEF b
      <3> QED
        BY <1>1, <2>1, <3>1, <3>3
    <2>2. CASE ~(a.trial > 0)
      <3> DEFINE k == a.purchased - 1
      <3>1. k \in Int /\ k >= 0
        BY <1>1, <2>2
      <3>2. b = [a EXCEPT !.purchased = k]
        BY <2>2
      <3>3. /\ b \in Accounts /\ b.purchased = k /\ b.id = a.id
            /\ b.trial = a.trial /\ b.consumed = a.consumed /\ b.used = a.used
        <4> HIDE DEF k, b
        <4> QED
          BY <3>1, <3>2 DEF Accounts
      <3> HIDE DEF b, k
      <3> QED
        BY <1>1, <2>2, <3>1, <3>3
    <2> QED
      BY <2>1, <2>2
  <1>3. Spend(a) = d
    BY DEF Spend
  <1> HIDE DEF b
  <1>4. i \in Int /\ j \in Int /\ i >= 0 /\ j = a.consumed + 1
    BY <1>1, <1>2, Columns
  <1>5. /\ d \in Accounts /\ d.balance = i /\ d.consumed = j /\ d.id = b.id
        /\ d.trial = b.trial /\ d.purchased = b.purchased /\ d.used = b.used
    <2> HIDE DEF i, j
    <2> QED
      BY <1>2, <1>4 DEF Accounts
  <1> HIDE DEF d
  <1>6. Sound(d)
    BY <1>2, <1>4, <1>5, Columns DEF Sound
  <1> QED
    BY <1>2, <1>3, <1>4, <1>5, <1>6

-----------------------------------------------------------------------------
(* The parts of the invariant that the steps disturb together.             *)

RunTypes ==
  /\ Runs!RunsTypeOK
  /\ pc \in [Tasks -> {"idle", "get", "insert", "check", "grant", "lock", "locked", "publish"}]
  /\ found \in [Tasks -> Merchants \cup {None}]
  /\ snap \in [Tasks -> Accounts \cup {NoAccount}]
  /\ lock \in [Merchants -> Tasks \cup {None}]

\* The runs, without what they loaded.
RunInv == RunTypes /\ IdleBetweenRuns /\ GrantRuns /\ WaitsAreShort

\* What they loaded.
LoadInv == LoadedRow /\ LockedRuns /\ SoundSnaps

\* The tables.
LedgerInv == /\ account \in [Merchants -> Accounts \cup {NoAccount}]
             /\ txs \in SUBSET TxSet
             /\ SoundRows /\ OwnedTxs /\ Funded
             /\ ConsumptionOnLedger /\ SpendsNeedGrants

LEMMA Parts == IInv <=> RunInv /\ LoadInv /\ LedgerInv
  BY DEF IInv, RunInv, LoadInv, LedgerInv, RunTypes, TypeOK, TxSet

\* The same, for a step.
LEMMA PartsNext ==
  ASSUME RunInv', LoadInv', LedgerInv', NEW t
  PROVE  IInv'
  BY DEF IInv, RunInv, LoadInv, LedgerInv, RunTypes, TypeOK, TxSet

\* t's step leaves the other runs alone.
Others(t) == \A s \in Tasks \ {t} :
  /\ pc'[s] = pc[s] /\ found'[s] = found[s] /\ snap'[s] = snap[s] /\ open'[s] = open[s]

LEMMA TablesKept ==
  ASSUME LedgerInv, UNCHANGED tables, NEW t
  PROVE  LedgerInv'
  BY DEF LedgerInv, tables, SoundRows, OwnedTxs, Funded, ConsumptionOnLedger,
         SpendsNeedGrants, Exists, Matches

\* A run keeps what it loaded while another run steps.
LEMMA LoadsKept ==
  ASSUME RunInv, LoadInv, NEW t \in Tasks, Others(t),
         pc'[t] \in Loading =>
           /\ found'[t] \in Merchants /\ account'[found'[t]] # NoAccount
           /\ snap'[t] \in Accounts /\ Sound(snap'[t]),
         pc'[t] = "locked" => lock'[found'[t]] = t /\ snap'[t] = account'[found'[t]],
         \A m \in Merchants : Exists(m) => Exists(m)',
         \A m \in Merchants : \A s \in Tasks \ {t} :
           lock[m] = s => lock'[m] = s /\ account'[m] = account[m]
  PROVE  LoadInv'
  <1>1. LoadedRow'
    BY DEF LoadInv, LoadedRow, Others, Exists
  <1>2. LockedRuns'
    BY DEF LoadInv, LoadedRow, LockedRuns, Others, Loading
  <1>3. SoundSnaps'
    BY DEF LoadInv, SoundSnaps, Others
  <1> QED
    BY <1>1, <1>2, <1>3 DEF LoadInv

\* The end of a run.
LEMMA OverStep ==
  ASSUME RunInv, NEW t \in Tasks, Over(t)
  PROVE  /\ RunInv' /\ Others(t) /\ pc'[t] = "idle"
         /\ \A m \in Merchants : \A s \in Tasks \ {t} : lock[m] = s => lock'[m] = s
  <1> USE DEF RunInv, RunTypes, Over, Runs!End, Goto, Forgets, NoLock
  <1>1. RunTypes'
    BY DEF Runs!RunsTypeOK
  <1>2. Others(t) /\ pc'[t] = "idle"
    BY DEF Others, Runs!RunsTypeOK
  <1>3. IdleBetweenRuns'
    BY DEF IdleBetweenRuns, Runs!RunsTypeOK
  <1>4. GrantRuns'
    BY DEF GrantRuns, Ev, Runs!RunsTypeOK
  <1>5. WaitsAreShort'
    BY NoneAssumption DEF WaitsAreShort
  <1>6. \A m \in Merchants : \A s \in Tasks \ {t} : lock[m] = s => lock'[m] = s
    OBVIOUS
  <1> QED
    BY <1>1, <1>2, <1>3, <1>4, <1>5, <1>6

\* A run that ends without touching the tables.
LEMMA OverInv ==
  ASSUME IInv, NEW t \in Tasks, Over(t), UNCHANGED tables
  PROVE  IInv'
  <1>1. RunInv /\ LoadInv /\ LedgerInv
    BY Parts
  <1>2. /\ RunInv' /\ Others(t) /\ pc'[t] = "idle"
        /\ \A m \in Merchants : \A s \in Tasks \ {t} : lock[m] = s => lock'[m] = s
    BY <1>1, OverStep
  <1>3. LedgerInv'
    BY <1>1, TablesKept
  <1>4. /\ \A m \in Merchants : Exists(m) => Exists(m)'
        /\ \A m \in Merchants : account'[m] = account[m]
    BY DEF tables, Exists
  <1>5. LoadInv'
    BY <1>1, <1>2, <1>4, LoadsKept DEF Loading
  <1> QED
    BY <1>2, <1>3, <1>5, PartsNext

\* A run that goes on, holding no lock before or after.
LEMMA GotoStep ==
  ASSUME RunInv, NEW t \in Tasks,
         NEW where \in {"insert", "check", "grant", "publish"},
         pc[t] \notin {"idle", "locked"}, Goto(t, where), UNCHANGED <<runVars, lock>>,
         where \in {"check", "grant"} => Ev(t).kind \in {"trial", "purchase"} /\ Ev(t).credits > 0,
         NEW m \in Merchants \cup {None}, NEW a \in Accounts \cup {NoAccount},
         \/ UNCHANGED session
         \/ found' = [found EXCEPT ![t] = m] /\ snap' = [snap EXCEPT ![t] = a]
  PROVE  RunInv' /\ Others(t) /\ pc'[t] = where
  <1> USE DEF RunInv, RunTypes, Goto, runVars, session
  <1>1. RunTypes'
    BY DEF Runs!RunsTypeOK
  <1>2. Others(t) /\ pc'[t] = where
    BY DEF Others
  <1>3. IdleBetweenRuns'
    BY DEF IdleBetweenRuns
  <1>4. GrantRuns'
    BY DEF GrantRuns, Ev
  <1>5. WaitsAreShort'
    BY NoneAssumption DEF WaitsAreShort
  <1> QED
    BY <1>1, <1>2, <1>3, <1>4, <1>5

-----------------------------------------------------------------------------
(* Writing an account together with a transaction.                         *)

Grants(m) == {x \in txs : x.merchant = m /\ x.key[1] \in {"trial", "purchase"}}

LEMMA LedgerWrite ==
  ASSUME LedgerInv, NEW m \in Merchants, Exists(m),
         NEW w \in Accounts, Sound(w),
         NEW x \in TxSet, x \notin txs, x.merchant = m,
         account' = [account EXCEPT ![m] = w], txs' = txs \cup {x},
         w.consumed = IF x.key[1] = "match" THEN account[m].consumed + 1
                                            ELSE account[m].consumed,
         w.used = IF x.key[1] = "match" /\ x.source = "trial" THEN account[m].used + 1
                                                              ELSE account[m].used,
         \/ x.key[1] \in {"trial", "purchase"}
         \/ Grants(m) # {}
         \/ w.trial = 0 /\ w.purchased = 0 /\ x.key[1] # "match"
  PROVE  LedgerInv'
  <1> USE DEF LedgerInv
  <1>1. /\ account' \in [Merchants -> Accounts \cup {NoAccount}]
        /\ txs' \in SUBSET TxSet
        /\ account'[m] = w /\ w # NoAccount
        /\ \A k \in Merchants \ {m} : account'[k] = account[k]
    BY RowExists
  <1>2. SoundRows'
    BY <1>1 DEF SoundRows, Exists
  <1>3. OwnedTxs'
    <2>1. IsFiniteSet(txs')
      BY FS_AddElement DEF OwnedTxs
    <2>2. \A y \in txs : y.merchant \in Merchants
      BY DEF TxSet
    <2>3. \A y \in txs' : account'[y.merchant] # NoAccount
      BY <1>1, <2>2 DEF OwnedTxs, Exists
    <2> QED
      BY <2>1, <2>3 DEF OwnedTxs, Exists
  <1>4. Funded'
    <2>1. ASSUME NEW k \in Merchants, k # m, Exists(k)',
                 account'[k].trial > 0 \/ account'[k].purchased > 0
          PROVE  \E y \in txs' : y.merchant = k /\ y.key[1] \in {"trial", "purchase"}
      BY <1>1, <2>1 DEF Funded, Exists
    <2>2. ASSUME w.trial > 0 \/ w.purchased > 0
          PROVE  \E y \in txs' : y.merchant = m /\ y.key[1] \in {"trial", "purchase"}
      BY <2>2, Columns DEF Grants
    <2> QED
      BY <1>1, <2>1, <2>2 DEF Funded
  <1>5. SpendsNeedGrants'
    BY DEF SpendsNeedGrants, Matches, Grants
  <1>6. ConsumptionOnLedger'
    <2>1. \A k \in Merchants : Exists(k) =>
            /\ account[k].consumed = Cardinality(Matches(k))
            /\ account[k].used = Cardinality(TrialMatches(k))
      BY DEF ConsumptionOnLedger, TrialMatches
    <2>2. ASSUME NEW k \in Merchants, Exists(k)'
          PROVE  /\ account'[k].consumed = Cardinality(Matches(k)')
                 /\ account'[k].used = Cardinality(TrialMatches(k)')
      <3>1. CASE x.key[1] # "match"
        <4>1. Matches(k)' = Matches(k) /\ TrialMatches(k)' = TrialMatches(k)
          BY <3>1, OtherTx
        <4>2. /\ account'[k].consumed = account[k].consumed
              /\ account'[k].used = account[k].used
              /\ Exists(k)
          BY <1>1, <2>2, <3>1 DEF Exists
        <4> QED
          BY <2>1, <4>1, <4>2
      <3>2. CASE x.key[1] = "match"
        <4>1. /\ Cardinality(Matches(m)') = Cardinality(Matches(m)) + 1
              /\ x.source = "trial" =>
                   Cardinality(TrialMatches(m)') = Cardinality(TrialMatches(m)) + 1
              /\ x.source # "trial" => TrialMatches(m)' = TrialMatches(m)
              /\ \A j \in Merchants \ {m} :
                   Matches(j)' = Matches(j) /\ TrialMatches(j)' = TrialMatches(j)
          BY <3>2, MatchTx DEF OwnedTxs
        <4>2. CASE k = m
          BY <1>1, <2>1, <3>2, <4>1, <4>2
        <4>3. CASE k # m
          BY <1>1, <2>1, <2>2, <4>1, <4>3 DEF Exists
        <4> QED
          BY <4>2, <4>3
      <3> QED
        BY <3>1, <3>2
    <2>3. \A k \in Merchants : TrialMatches(k)' = {y \in Matches(k)' : y.source = "trial"}
      BY DEF TrialMatches
    <2> QED
      BY <2>2, <2>3 DEF ConsumptionOnLedger
  <1> QED
    BY <1>1, <1>2, <1>3, <1>4, <1>5, <1>6

-----------------------------------------------------------------------------
(* The invariant is inductive: one lemma per action that is not just the   *)
(* end of a run.                                                           *)

LEMMA InitInv == Init => IInv
  <1> SUFFICES ASSUME Init PROVE IInv
    OBVIOUS
  <1> USE DEF Init, NoAccount
  <1>1. RunTypes
    BY MaxDeliverAssumption DEF RunTypes, Runs!RunsInit, Runs!RunsTypeOK
  <1>2. IdleBetweenRuns /\ GrantRuns /\ WaitsAreShort
    BY NoneAssumption DEF IdleBetweenRuns, GrantRuns, WaitsAreShort, Runs!RunsInit
  <1>3. LoadInv
    BY DEF LoadInv, LoadedRow, LockedRuns, SoundSnaps, Loading
  <1>4. \A m \in Merchants : ~Exists(m)
    BY DEF Exists
  <1>5. LedgerInv
    BY <1>4, FS_EmptySet DEF LedgerInv, SoundRows, OwnedTxs, Funded, ConsumptionOnLedger,
       SpendsNeedGrants, Matches
  <1> QED
    BY <1>1, <1>2, <1>3, <1>5, Parts DEF RunInv

LEMMA StartInv ==
  ASSUME IInv, NEW t \in Tasks, Start(t)
  PROVE  IInv'
  <1> USE DEF RunInv, RunTypes
  <1>1. RunInv /\ LoadInv /\ LedgerInv
    BY Parts
  <1>2. PICK e \in Events : e.kind = Subject[t] /\ Runs!Begin(t, e)
    BY DEF Start
  <1>3. /\ open[t] = None /\ begun[e] < MaxDeliver
        /\ begun' = [begun EXCEPT ![e] = @ + 1]
        /\ open' = [open EXCEPT ![t] = e]
    BY <1>2 DEF Runs!Begin
  <1>4. /\ pc' = [pc EXCEPT ![t] = IF Subject[t] \in {"refund", "match"} THEN "lock" ELSE "get"]
        /\ UNCHANGED <<session, tables, lock>>
        /\ pc[t] = "idle"
    BY <1>1, <1>3 DEF Start, Goto, IdleBetweenRuns
  <1>5. RunTypes'
    BY <1>1, <1>3, <1>4, MaxDeliverAssumption DEF Runs!RunsTypeOK, session
  <1>6. IdleBetweenRuns'
    BY <1>1, <1>3, <1>4, EventParts DEF IdleBetweenRuns, Runs!RunsTypeOK
  <1>7. GrantRuns'
    BY <1>1, <1>2, <1>3, <1>4, EventParts, KindsAssumption
    DEF GrantRuns, Ev, Runs!RunsTypeOK
  <1>8. WaitsAreShort'
    BY <1>1, <1>4, NoneAssumption DEF WaitsAreShort, session
  <1>9. Others(t) /\ pc'[t] \notin Loading
    BY <1>1, <1>3, <1>4 DEF Others, Loading, session, Runs!RunsTypeOK
  <1>10. LoadInv'
    BY <1>1, <1>4, <1>9, LoadsKept DEF Loading, Exists, tables
  <1>11. LedgerInv'
    BY <1>1, <1>4, TablesKept
  <1> QED
    BY <1>5, <1>6, <1>7, <1>8, <1>10, <1>11, PartsNext

\* A run that goes on without a lock, whatever it has loaded.
LEMMA GotoInv ==
  ASSUME IInv, NEW t \in Tasks,
         NEW where \in {"insert", "check", "grant"},
         pc[t] \notin {"idle", "locked"}, Goto(t, where), UNCHANGED <<runVars, lock, tables>>,
         where \in {"check", "grant"} => Ev(t).kind \in {"trial", "purchase"} /\ Ev(t).credits > 0,
         NEW m \in Merchants,
         \/ UNCHANGED session /\ (where = "insert" \/ pc[t] = "check")
         \/ Exists(m) /\ Loads(t, m)
  PROVE  IInv'
  <1>1. RunInv /\ LoadInv /\ LedgerInv
    BY Parts
  <1>2. Exists(m) => account[m] \in Accounts
    BY RowType DEF IInv
  <1>3. \E k \in Merchants \cup {None} : \E a \in Accounts \cup {NoAccount} :
          \/ UNCHANGED session
          \/ found' = [found EXCEPT ![t] = k] /\ snap' = [snap EXCEPT ![t] = a]
    BY <1>2 DEF Loads
  <1>4. RunInv' /\ Others(t) /\ pc'[t] = where
    BY <1>1, <1>3, GotoStep
  <1>5. pc'[t] \in Loading =>
          /\ found'[t] \in Merchants /\ account'[found'[t]] # NoAccount
          /\ snap'[t] \in Accounts /\ Sound(snap'[t])
    <2>1. CASE UNCHANGED session /\ (where = "insert" \/ pc[t] = "check")
      BY <1>1, <1>4, <2>1
      DEF LoadInv, LoadedRow, SoundSnaps, Loading, session, tables, Exists
    <2>2. CASE Exists(m) /\ Loads(t, m)
      BY <1>1, <1>2, <2>2
      DEF Loads, LedgerInv, SoundRows, RunInv, RunTypes, tables, Exists
    <2> QED
      BY <2>1, <2>2
  <1>6. LoadInv'
    BY <1>1, <1>4, <1>5, LoadsKept DEF tables, Exists
  <1>7. LedgerInv'
    BY <1>1, TablesKept
  <1> QED
    BY <1>4, <1>6, <1>7, PartsNext

LEMMA GetInv ==
  ASSUME IInv, NEW t \in Tasks, Get(t)
  PROVE  IInv'
  <1>1. pc[t] = "get" /\ UNCHANGED tables
    BY DEF Get
  <1>2. /\ Ev(t) \in Events /\ Owner(t) \in Merchants
        /\ Ev(t).kind \in {"record", "trial", "purchase"}
    BY <1>1, RunEvent DEF IInv, GrantRuns
  <1>3. CASE Over(t)
    BY <1>1, <1>3, OverInv
  <1>4. ASSUME NEW m \in Merchants, HasPk(m, Owner(t)), Loads(t, m), Goto(t, "check"),
               UNCHANGED <<runVars, lock>>, Ev(t).kind # "record", ~Void(Ev(t))
        PROVE  IInv'
    <2>1. Ev(t).kind \in {"trial", "purchase"} /\ Ev(t).credits > 0
      BY <1>2, <1>4, TrialAssumption, EventParts DEF Void
    <2> QED
      BY <1>1, <1>4, <2>1, GotoInv DEF HasPk
  <1>5. ASSUME Goto(t, "insert"), UNCHANGED <<runVars, found, snap, lock>>
        PROVE  IInv'
    BY <1>1, <1>2, <1>5, GotoInv DEF session
  <1> QED
    BY <1>3, <1>4, <1>5 DEF Get, Returns, session

LEMMA InsertInv ==
  ASSUME IInv, NEW t \in Tasks, Insert(t)
  PROVE  IInv'
  <1>1. CASE Raises(t) /\ UNCHANGED tables
    BY <1>1, OverInv DEF Raises
  <1>2. ASSUME ~Exists(Owner(t)), Over(t), UNCHANGED txs,
               NEW u \in Uuids,
               account' = [account EXCEPT ![Owner(t)] =
                  [id |-> u, trial |-> 0, purchased |-> 0, balance |-> 0,
                   granted |-> 0, consumed |-> 0, used |-> 0]]
        PROVE  IInv'
    <2> DEFINE m == Owner(t)
               a == [id |-> u, trial |-> 0, purchased |-> 0, balance |-> 0,
                     granted |-> 0, consumed |-> 0, used |-> 0]
    <2>1. RunInv /\ LoadInv /\ LedgerInv
      BY Parts
    <2>2. m \in Merchants
      BY RunEvent DEF IInv, Insert
    <2>3. a \in Accounts /\ a # NoAccount /\ Sound(a)
      <3>1. a \in Accounts /\ Sound(a)
        BY DEF Accounts, Sound
      <3> QED
        BY <3>1, RowExists
    <2>4. /\ account' \in [Merchants -> Accounts \cup {NoAccount}]
          /\ account'[m] = a
          /\ \A k \in Merchants \ {m} : account'[k] = account[k]
      BY <1>2, <2>1, <2>2, <2>3 DEF LedgerInv
    <2>5. /\ RunInv' /\ Others(t) /\ pc'[t] = "idle"
          /\ \A k \in Merchants : \A s \in Tasks \ {t} : lock[k] = s => lock'[k] = s
      BY <1>2, <2>1, OverStep
    <2>6. \A k \in Merchants : \A s \in Tasks \ {t} : lock[k] = s => k # m
      BY <1>2, <2>1, NoneAssumption
      DEF RunInv, WaitsAreShort, LoadInv, LoadedRow, Loading
    <2>7. LoadInv'
      BY <2>1, <2>2, <2>3, <2>4, <2>5, <2>6, LoadsKept DEF Loading, Exists
    <2>8. Matches(m) = {}
      BY <1>2, <2>1 DEF LedgerInv, OwnedTxs, Matches
    <2>9. \A k \in Merchants : Matches(k)' = Matches(k)
      BY <1>2 DEF Matches
    <2>10. /\ a.trial = 0 /\ a.purchased = 0 /\ a.consumed = 0 /\ a.used = 0
      OBVIOUS
    <2> HIDE DEF a, m
    <2>11. SoundRows' /\ OwnedTxs' /\ SpendsNeedGrants'
      BY <1>2, <2>1, <2>3, <2>4, <2>9
      DEF LedgerInv, SoundRows, OwnedTxs, SpendsNeedGrants, Exists
    <2>12. Funded'
      BY <1>2, <2>1, <2>4, <2>10 DEF LedgerInv, Funded, Exists
    <2>13. ConsumptionOnLedger'
      <3>1. Cardinality(Matches(m)) = 0 /\ Cardinality({x \in Matches(m) : x.source = "trial"}) = 0
        BY <2>8, FS_EmptySet
      <3>2. ASSUME NEW k \in Merchants, account'[k] # NoAccount
            PROVE  /\ account'[k].consumed = Cardinality(Matches(k))
                   /\ account'[k].used = Cardinality({x \in Matches(k) : x.source = "trial"})
        BY <2>1, <2>4, <2>10, <3>1, <3>2 DEF LedgerInv, ConsumptionOnLedger, Exists
      <3> QED
        BY <2>9, <3>2 DEF ConsumptionOnLedger, Exists
    <2>14. LedgerInv'
      BY <1>2, <2>1, <2>4, <2>11, <2>12, <2>13 DEF LedgerInv
    <2> QED
      BY <2>5, <2>7, <2>14, PartsNext
  <1> QED
    BY <1>1, <1>2 DEF Insert, Returns, tables

LEMMA CheckInv ==
  ASSUME IInv, NEW t \in Tasks, Check(t)
  PROVE  IInv'
  <1>1. CASE Over(t)
    BY <1>1, OverInv DEF Check
  <1>2. ASSUME Goto(t, "grant"), UNCHANGED <<runVars, session, lock>>
        PROVE  IInv'
    <2>1. /\ Ev(t).kind \in {"trial", "purchase"} /\ Ev(t).credits > 0
          /\ pc[t] = "check" /\ UNCHANGED tables
      BY DEF Check, IInv, GrantRuns
    <2>2. Owner(t) \in Merchants
      BY <2>1, RunEvent DEF IInv
    <2> QED
      BY <1>2, <2>1, <2>2, GotoInv
  <1> QED
    BY <1>1, <1>2 DEF Check, Returns

LEMMA GrantInv ==
  ASSUME IInv, NEW t \in Tasks, Grant(t)
  PROVE  IInv'
  <1>1. CASE Raises(t) /\ UNCHANGED tables
    BY <1>1, OverInv DEF Raises
  <1>2. CASE ~Recorded(Ev(t))
    <2> DEFINE m == found[t]
               e == Ev(t)
               w == Written(account[m], snap[t], Granted(snap[t], e))
               x == Tx(e, m, e.kind, e.credits)
    <2>1. RunInv /\ LoadInv /\ LedgerInv
      BY Parts
    <2>2. /\ pc[t] = "grant" /\ lock[m] = None
          /\ account' = [account EXCEPT ![m] = w]
          /\ txs' = txs \cup {x}
          /\ found' = [found EXCEPT ![t] = None]
          /\ snap' = [snap EXCEPT ![t] = NoAccount]
          /\ Goto(t, "publish") /\ UNCHANGED <<runVars, lock>>
      BY <1>2 DEF Grant, RowFree, Forgets
    <2>3. e \in Events /\ e.kind \in {"trial", "purchase"} /\ e.credits > 0 /\ e.credits \in Int
      BY <2>1, <2>2, RunEvent, EventParts DEF RunInv, GrantRuns, IInv
    <2>4. m \in Merchants /\ Exists(m) /\ snap[t] \in Accounts /\ Sound(snap[t])
      BY <2>1, <2>2 DEF LoadInv, LoadedRow, SoundSnaps, Loading
    <2>5. account[m] \in Accounts /\ Sound(account[m])
      BY <2>1, <2>4, RowType DEF LedgerInv, SoundRows, IInv
    <2>6. w \in Accounts /\ Sound(w) /\ w.consumed = account[m].consumed /\ w.used = account[m].used
      BY <2>3, <2>4, <2>5, GrantedRow
    <2>7. /\ x \in TxSet /\ x \notin txs /\ x.merchant = m /\ x.key[1] = e.kind
      <3> DEFINE n == e.credits
      <3>1. /\ e.kind \in {"trial", "purchase", "refund"} /\ ~Recorded(e)
            /\ n \in Int /\ x = Tx(e, m, e.kind, n)
        BY <1>2, <2>3
      <3> HIDE DEF m, e, n, x
      <3>2. x \in TxSet
        BY <2>3, <2>4, <3>1, TxParts
      <3>3. x \notin txs
        BY <2>3, <2>4, <3>1, TxParts
      <3>4. x.merchant = m /\ x.key[1] = e.kind
        BY <2>3, <2>4, <3>1, TxParts
      <3> QED
        BY <3>2, <3>3, <3>4
    <2> HIDE DEF w, x
    <2>8. LedgerInv'
      BY <2>1, <2>2, <2>3, <2>4, <2>6, <2>7, LedgerWrite
    <2>9. RunInv' /\ Others(t) /\ pc'[t] = "publish"
      BY <2>1, <2>2, GotoStep
    <2>10. /\ account'[m] = w /\ w # NoAccount
           /\ \A k \in Merchants \ {m} : account'[k] = account[k]
      BY <2>1, <2>2, <2>4, <2>6, RowExists DEF LedgerInv
    <2>11. \A k \in Merchants : Exists(k) => Exists(k)'
      BY <2>10 DEF Exists
    <2>12. \A k \in Merchants : \A s \in Tasks \ {t} :
             lock[k] = s => lock'[k] = s /\ account'[k] = account[k]
      BY <2>2, <2>10, NoneAssumption
    <2>13. LoadInv'
      BY <2>1, <2>9, <2>11, <2>12, LoadsKept DEF Loading
    <2> QED
      BY <2>8, <2>9, <2>13, PartsNext
  <1> QED
    BY <1>1, <1>2 DEF Grant

LEMMA LockInv ==
  ASSUME IInv, NEW t \in Tasks, Lock(t)
  PROVE  IInv'
  <1>1. pc[t] = "lock" /\ lock[Owner(t)] = None /\ UNCHANGED tables
    BY DEF Lock, RowFree
  <1>2. CASE Over(t)
    BY <1>1, <1>2, OverInv
  <1>3. ASSUME Exists(Owner(t)), lock' = [lock EXCEPT ![Owner(t)] = t], Loads(t, Owner(t)),
               Goto(t, "locked"), UNCHANGED runVars
        PROVE  IInv'
    <2> DEFINE m == Owner(t)
    <2>1. RunInv /\ LoadInv /\ LedgerInv
      BY Parts
    <2>2. m \in Merchants
      BY <1>1, RunEvent DEF IInv
    <2>3. account[m] \in Accounts /\ Sound(account[m]) /\ account[m] # NoAccount
      BY <1>3, <2>1, <2>2, RowType, RowExists DEF LedgerInv, SoundRows, IInv
    <2>4. /\ pc' = [pc EXCEPT ![t] = "locked"]
          /\ found' = [found EXCEPT ![t] = m]
          /\ snap' = [snap EXCEPT ![t] = account[m]]
          /\ begun' = begun /\ open' = open
      BY <1>3 DEF Loads, Goto, runVars
    <2> HIDE DEF m
    <2>5. RunTypes'
      BY <1>3, <2>1, <2>2, <2>3, <2>4 DEF RunInv, RunTypes, Runs!RunsTypeOK, m
    <2>6. Others(t) /\ pc'[t] = "locked" /\ found'[t] = m /\ snap'[t] = account[m]
      BY <2>1, <2>4 DEF Others, RunInv, RunTypes
    <2>7. IdleBetweenRuns'
      BY <1>1, <2>1, <2>4 DEF IdleBetweenRuns, RunInv, RunTypes
    <2>8. GrantRuns'
      BY <2>1, <2>4 DEF GrantRuns, Ev, RunInv, RunTypes
    <2>9. \A k \in Merchants : lock[k] # t
      BY <1>1, <2>1, NoneAssumption DEF RunInv, WaitsAreShort, RunTypes
    <2>10. lock'[m] = t /\ \A k \in Merchants \ {m} : lock'[k] = lock[k]
      BY <1>3, <2>1, <2>2 DEF RunInv, RunTypes, m
    <2>11. WaitsAreShort'
      <3>1. ASSUME NEW k \in Merchants, lock'[k] # None
            PROVE  /\ pc'[lock'[k]] = "locked" /\ found'[lock'[k]] = k
                   /\ \A n \in Merchants : lock'[n] = lock'[k] => n = k
        <4>1. CASE k = m
          BY <2>6, <2>9, <2>10, <4>1
        <4>2. CASE k # m
          BY <2>1, <2>6, <2>9, <2>10, <3>1, <4>2 DEF RunInv, RunTypes, WaitsAreShort, Others
        <4> QED
          BY <4>1, <4>2
      <3> QED
        BY <3>1 DEF WaitsAreShort
    <2>12. \A k \in Merchants : \A s \in Tasks \ {t} :
             lock[k] = s => lock'[k] = s /\ account'[k] = account[k]
      BY <1>1, <2>10, NoneAssumption DEF m, tables
    <2>13. LoadInv'
      BY <1>1, <2>1, <2>2, <2>3, <2>6, <2>10, <2>12, LoadsKept DEF tables, Exists
    <2>14. LedgerInv'
      BY <1>1, <2>1, TablesKept
    <2> QED
      BY <2>5, <2>7, <2>8, <2>11, <2>13, <2>14, PartsNext DEF RunInv
  <1> QED
    BY <1>2, <1>3 DEF Lock, Returns

\* What a locked run knows.
LEMMA LockedFacts ==
  ASSUME IInv, NEW t \in Tasks, pc[t] = "locked"
  PROVE  /\ Ev(t) \in Events
         /\ found[t] \in Merchants /\ Exists(found[t]) /\ lock[found[t]] = t
         /\ snap[t] = account[found[t]] /\ snap[t] \in Accounts /\ Sound(snap[t])
  BY RunEvent DEF IInv, LoadedRow, LockedRuns, SoundSnaps, Loading

LEMMA CommitInv ==
  ASSUME IInv, NEW t \in Tasks, pc[t] = "locked",
         NEW new \in Accounts, new.id = snap[t].id, Sound(new),
         NEW source \in {"trial", "purchase", "refund"}, NEW amount \in Int,
         Commit(t, new, source, amount),
         new.consumed = IF Ev(t).kind = "match" THEN snap[t].consumed + 1 ELSE snap[t].consumed,
         new.used = IF Ev(t).kind = "match" /\ source = "trial" THEN snap[t].used + 1
                                                               ELSE snap[t].used,
         \/ Grants(found[t]) # {}
         \/ new.trial = 0 /\ new.purchased = 0 /\ Ev(t).kind # "match"
  PROVE  IInv'
  <1> DEFINE m == found[t]
             x == Tx(Ev(t), m, source, amount)
  <1>1. RunInv /\ LoadInv /\ LedgerInv
    BY Parts
  <1>2. /\ Ev(t) \in Events /\ m \in Merchants /\ Exists(m) /\ lock[m] = t
        /\ snap[t] = account[m] /\ snap[t] \in Accounts
    BY LockedFacts
  <1>3. Written(account[m], snap[t], new) = new
    BY <1>2, LockedWrite
  <1>4. /\ ~Recorded(Ev(t))
        /\ account' = [account EXCEPT ![m] = new]
        /\ txs' = txs \cup {x}
        /\ lock' = NoLock(t)
        /\ pc' = [pc EXCEPT ![t] = "publish"]
        /\ found' = [found EXCEPT ![t] = None]
        /\ snap' = [snap EXCEPT ![t] = NoAccount]
        /\ begun' = begun /\ open' = open
    BY <1>3 DEF Commit, Forgets, Goto, runVars
  <1>5. /\ x \in TxSet /\ x \notin txs /\ x.merchant = m /\ x.key[1] = Ev(t).kind
        /\ x.source = source
    <2> DEFINE e == Ev(t)
    <2>1. e \in Events /\ m \in Merchants /\ ~Recorded(e) /\ x = Tx(e, m, source, amount)
      BY <1>2, <1>4
    <2> HIDE DEF m, e, x
    <2>2. x \in TxSet
      BY <2>1, TxParts
    <2>3. x \notin txs
      BY <2>1, TxParts
    <2>4. x.merchant = m /\ x.key[1] = e.kind /\ x.source = source
      BY <2>1, TxParts
    <2> QED
      BY <2>2, <2>3, <2>4 DEF e
  <1> HIDE DEF x
  <1>6. LedgerInv'
    BY <1>1, <1>2, <1>4, <1>5, LedgerWrite
  <1>7. Others(t) /\ pc'[t] = "publish"
    BY <1>1, <1>4 DEF Others, RunInv, RunTypes
  <1>8. /\ lock' \in [Merchants -> Tasks \cup {None}]
        /\ \A k \in Merchants : lock'[k] = IF lock[k] = t THEN None ELSE lock[k]
    BY <1>1, <1>4 DEF NoLock, RunInv, RunTypes
  <1>9. RunTypes'
    BY <1>1, <1>4, <1>8 DEF RunInv, RunTypes, Runs!RunsTypeOK
  <1>10. IdleBetweenRuns'
    BY <1>1, <1>4 DEF IdleBetweenRuns, RunInv, RunTypes
  <1>11. GrantRuns'
    BY <1>1, <1>4 DEF GrantRuns, Ev, RunInv, RunTypes
  <1>12. WaitsAreShort'
    BY <1>1, <1>7, <1>8, NoneAssumption DEF WaitsAreShort, RunInv, RunTypes, Others
  <1>13. /\ account'[m] = new /\ new # NoAccount
         /\ \A k \in Merchants \ {m} : account'[k] = account[k]
    BY <1>1, <1>2, <1>4, RowExists DEF LedgerInv
  <1>14. \A k \in Merchants : Exists(k) => Exists(k)'
    BY <1>13 DEF Exists
  <1>15. \A k \in Merchants : \A s \in Tasks \ {t} :
           lock[k] = s => lock'[k] = s /\ account'[k] = account[k]
    BY <1>2, <1>8, <1>13
  <1>16. LoadInv'
    BY <1>1, <1>7, <1>14, <1>15, LoadsKept DEF Loading
  <1> QED
    BY <1>6, <1>9, <1>10, <1>11, <1>12, <1>16, PartsNext DEF RunInv

LEMMA RefundInv ==
  ASSUME IInv, NEW t \in Tasks, Refund(t)
  PROVE  IInv'
  <1> DEFINE a == snap[t]
             c == Ev(t).credits
             n == Least(c, a.purchased)
             b == [a EXCEPT !.purchased = @ - n, !.balance = a.trial + a.purchased - n]
  <1>1. CASE Over(t) /\ UNCHANGED tables
    BY <1>1, OverInv
  <1>2. CASE ~Void(Ev(t)) /\ Commit(t, b, "refund", n)
    <2>1. pc[t] = "locked" /\ Ev(t).kind = "refund"
      BY DEF Refund
    <2>2. /\ Ev(t) \in Events /\ found[t] \in Merchants /\ Exists(found[t])
          /\ a = account[found[t]] /\ a \in Accounts /\ Sound(a)
      BY <2>1, LockedFacts
    <2>3. c \in Int /\ c > 0
      BY <1>2, <2>1, <2>2, EventParts DEF Void
    <2>4. /\ b \in Accounts /\ b.id = a.id /\ Sound(b) /\ n \in Int
          /\ b.consumed = a.consumed /\ b.used = a.used
          /\ b.trial = a.trial /\ b.purchased <= a.purchased
      BY <2>2, <2>3, RefundedRow
    <2>5. \/ Grants(found[t]) # {}
          \/ a.trial <= 0 /\ a.purchased <= 0
      BY <2>2, Columns DEF IInv, Funded, Grants
    <2> HIDE DEF b, n
    <2>6. \/ Grants(found[t]) # {}
          \/ b.trial = 0 /\ b.purchased = 0
      BY <2>2, <2>4, <2>5, Columns DEF Sound
    <2> QED
      BY <1>2, <2>1, <2>4, <2>6, CommitInv
  <1> QED
    BY <1>1, <1>2 DEF Refund, Returns

LEMMA ConsumeInv ==
  ASSUME IInv, NEW t \in Tasks, Consume(t)
  PROVE  IInv'
  <1> DEFINE a == snap[t]
             source == IF a.trial > 0 THEN "trial" ELSE "purchase"
  <1>1. CASE Over(t) /\ UNCHANGED tables
    BY <1>1, OverInv
  <1>2. CASE a.balance > 0 /\ Commit(t, Spend(a), source, 1)
    <2>1. pc[t] = "locked" /\ Ev(t).kind = "match"
      BY DEF Consume
    <2>2. /\ Ev(t) \in Events /\ found[t] \in Merchants /\ Exists(found[t])
          /\ a = account[found[t]] /\ a \in Accounts /\ Sound(a)
      BY <2>1, LockedFacts
    <2>3. /\ Spend(a) \in Accounts /\ Spend(a).id = a.id /\ Sound(Spend(a))
          /\ Spend(a).consumed = a.consumed + 1
          /\ Spend(a).used = IF a.trial > 0 THEN a.used + 1 ELSE a.used
      BY <1>2, <2>2, SpentRow
    <2>4. Grants(found[t]) # {}
      BY <1>2, <2>2 DEF IInv, Funded, Sound, Grants
    <2>5. source \in {"trial", "purchase", "refund"} /\ (source = "trial" <=> a.trial > 0)
      OBVIOUS
    <2> HIDE DEF source
    <2> QED
      BY <1>2, <2>1, <2>3, <2>4, <2>5, CommitInv
  <1>3. a.balance > 0 \/ a.balance <= 0
    BY LockedFacts, Columns DEF Consume
  <1> QED
    BY <1>1, <1>2, <1>3 DEF Consume, Returns, Raises

LEMMA StepInv == IInv /\ [Next]_vars => IInv'
  <1> SUFFICES ASSUME IInv, [Next]_vars PROVE IInv'
    OBVIOUS
  <1>1. ASSUME NEW t \in Tasks, Start(t) PROVE IInv'
    BY <1>1, StartInv
  <1>2. ASSUME NEW t \in Tasks, Get(t) PROVE IInv'
    BY <1>2, GetInv
  <1>3. ASSUME NEW t \in Tasks, Insert(t) PROVE IInv'
    BY <1>3, InsertInv
  <1>4. ASSUME NEW t \in Tasks, Check(t) PROVE IInv'
    BY <1>4, CheckInv
  <1>5. ASSUME NEW t \in Tasks, Grant(t) PROVE IInv'
    BY <1>5, GrantInv
  <1>6. ASSUME NEW t \in Tasks, Lock(t) PROVE IInv'
    BY <1>6, LockInv
  <1>7. ASSUME NEW t \in Tasks, Refund(t) PROVE IInv'
    BY <1>7, RefundInv
  <1>8. ASSUME NEW t \in Tasks, Consume(t) PROVE IInv'
    BY <1>8, ConsumeInv
  <1>9. ASSUME NEW t \in Tasks, Publish(t) \/ Dies(t) PROVE IInv'
    BY <1>9, OverInv DEF Publish, Dies, Raises
  <1>10. CASE UNCHANGED vars
    <2>1. RunInv /\ LoadInv /\ LedgerInv
      BY Parts
    <2>2. UNCHANGED <<begun, open, pc, found, snap, lock>> /\ UNCHANGED tables
      BY <1>10 DEF vars, tables
    <2>3. RunTypes'
      BY <2>1, <2>2 DEF RunInv, RunTypes, Runs!RunsTypeOK
    <2>4. IdleBetweenRuns' /\ GrantRuns' /\ WaitsAreShort'
      BY <2>1, <2>2 DEF RunInv, IdleBetweenRuns, GrantRuns, WaitsAreShort, Ev
    <2>5. LoadInv'
      BY <2>1, <2>2 DEF LoadInv, LoadedRow, LockedRuns, SoundSnaps, Loading, Exists, tables
    <2>6. LedgerInv'
      BY <2>1, <2>2, TablesKept
    <2> QED
      BY <2>3, <2>4, <2>5, <2>6, PartsNext, NoneAssumption DEF RunInv
  <1> QED
    BY <1>1, <1>2, <1>3, <1>4, <1>5, <1>6, <1>7, <1>8, <1>9, <1>10 DEF Next, Step

-----------------------------------------------------------------------------
LEMMA InvariantHolds == Spec => []IInv
  BY InitInv, StepInv, PTL DEF Spec

\* Type correctness of the credit tables and of the runs over them.
THEOREM TypeCorrect == Spec => []TypeOK
  BY InvariantHolds, PTL DEF IInv

\* No balance goes below zero, although grant_trial_credits and
\* grant_purchased_credits write back what they read without a lock.
THEOREM BalancesNeverNegative == Spec => []NeverNegative
  <1>1. IInv => NeverNegative
    BY DEF IInv, SoundRows, Sound, NeverNegative
  <1> QED
    BY <1>1, InvariantHolds, PTL

\* consume_credit's counters agree with its transactions.
THEOREM CountersMatchLedger == Spec => []ConsumptionOnLedger
  BY InvariantHolds, PTL DEF IInv

\* consume_credit pays for matches with granted credits only.
THEOREM NoCreditFromNothing == Spec => []SpendsNeedGrants
  BY InvariantHolds, PTL DEF IInv

\* get_account_for_update's locks are held by runs that only have to commit.
THEOREM LocksAreReleased == Spec => []WaitsAreShort
  BY InvariantHolds, PTL DEF IInv
=============================================================================
