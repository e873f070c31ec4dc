---------------------------- MODULE RequestsProofs ----------------------------
(***************************************************************************)
(* What every service's proofs use of Requests.tla: how a step of one      *)
(* coroutine leaves the bookkeeping of the coroutines.                     *)
(***************************************************************************)
EXTENDS Requests, FiniteSetTheorems, TLAPS

\* Work is submitted under its kind, and no kind is called "idle".
NoIdleKind == \A w \in Work : w.kind # "idle"

\* Coroutines are idle between their runs, and only then.
Frame == /\ Runs!RunsTypeOK
         /\ pc = [t \in Tasks |-> pc[t]]
         /\ mem = [t \in Tasks |-> mem[t]]
         /\ \A t \in Tasks : pc[t] = "idle" <=> open[t] = None

\* The other coroutines stay where they are.
Others(t) == \A u \in Tasks \ {t} :
  pc'[u] = pc[u] /\ mem'[u] = mem[u] /\ open'[u] = open[u]

LEMMA InitFrame == RequestsInit => Frame /\ \A t \in Tasks : pc[t] = "idle" /\ open[t] = None
  BY RequestsAssumption DEF RequestsInit, Frame, Runs!RunsInit, Runs!RunsTypeOK

LEMMA StayFrame == Frame /\ UNCHANGED reqVars => Frame'
  BY DEF Frame, reqVars, Runs!RunsTypeOK

\* A run is about a piece of work.
LEMMA RunsWork ==
  ASSUME Frame, NEW t \in Tasks, pc[t] # "idle"
  PROVE  open[t] \in Work
  BY DEF Frame, Runs!RunsTypeOK

LEMMA GoesFrame ==
  ASSUME Frame, NEW t \in Tasks, pc[t] # "idle", NEW where, where # "idle", NEW what,
         Goes(t, where, what)
  PROVE  /\ Frame' /\ Others(t) /\ pc'[t] = where /\ mem'[t] = what
         /\ open' = open /\ begun' = begun
  <1> USE DEF Frame, Goes
  <1>1. pc'[t] = where /\ mem'[t] = what /\ open' = open /\ begun' = begun
    OBVIOUS
  <1>2. Others(t)
    BY DEF Others
  <1>3. pc' = [u \in Tasks |-> pc'[u]] /\ mem' = [u \in Tasks |-> mem'[u]]
    OBVIOUS
  <1>4. \A u \in Tasks : pc'[u] = "idle" <=> open'[u] = None
    BY <1>1, <1>2 DEF Others
  <1> QED
    BY <1>1, <1>2, <1>3, <1>4 DEF Runs!RunsTypeOK

LEMMA EndsFrame ==
  ASSUME Frame, NEW t \in Tasks, Ends(t)
  PROVE  /\ Frame' /\ Others(t) /\ pc[t] # "idle" /\ pc'[t] = "idle"
         /\ open'[t] = None /\ begun' = begun
  <1> USE DEF Frame, Ends, Runs!End, Runs!RunsTypeOK
  <1>1. pc'[t] = "idle" /\ open'[t] = None /\ begun' = begun /\ pc[t] # "idle"
    OBVIOUS
  <1>2. Others(t)
    BY DEF Others
  <1>3. pc' = [u \in Tasks |-> pc'[u]] /\ mem' = [u \in Tasks |-> mem'[u]]
    OBVIOUS
  <1>4. \A u \in Tasks : pc'[u] = "idle" <=> open'[u] = None
    BY <1>1, <1>2 DEF Others
  <1>5. open' \in [Tasks -> Work \cup {None}]
    OBVIOUS
  <1> QED
    BY <1>1, <1>2, <1>3, <1>4, <1>5

LEMMA StartFrame ==
  ASSUME Frame, NoIdleKind, NEW t \in Tasks, Start(t)
  PROVE  /\ Frame' /\ Others(t) /\ pc[t] = "idle"
         /\ open'[t] \in Work /\ pc'[t] = open'[t].kind /\ mem' = mem
  <1>1. PICK w \in Work : Runs!Begin(t, w) /\ pc' = [pc EXCEPT ![t] = w.kind] /\ mem' = mem
    BY DEF Start
  <1> USE DEF Frame, Runs!Begin, Runs!RunsTypeOK
  <1>2. pc[t] = "idle" /\ pc'[t] = w.kind /\ open'[t] = w /\ w # None /\ w.kind # "idle"
    BY <1>1, RequestsAssumption DEF NoIdleKind
  <1>3. Others(t)
    BY <1>1 DEF Others
  <1>4. pc' = [u \in Tasks |-> pc'[u]] /\ mem' = [u \in Tasks |-> mem'[u]]
    BY <1>1
  <1>5. \A u \in Tasks : pc'[u] = "idle" <=> open'[u] = None
    BY <1>2, <1>3 DEF Others
  <1>6. begun' \in [Work -> 0 .. MaxDeliver] /\ open' \in [Tasks -> Work \cup {None}]
    BY <1>1, RequestsAssumption
  <1> QED
    BY <1>1, <1>2, <1>3, <1>4, <1>5, <1>6

-----------------------------------------------------------------------------
\* Several runs end at once: their process is gone.
Gone(T) == /\ open' = [t \in Tasks |-> IF t \in T THEN None ELSE open[t]]
           /\ pc' = [t \in Tasks |-> IF t \in T THEN "idle" ELSE pc[t]]
           /\ mem' = [t \in Tasks |-> IF t \in T THEN None ELSE mem[t]]
           /\ UNCHANGED begun

LEMMA GoneFrame ==
  ASSUME Frame, NEW T, Gone(T)
  PROVE  /\ Frame'
         /\ \A t \in Tasks : IF t \in T THEN pc'[t] = "idle" /\ open'[t] = None
                                       ELSE pc'[t] = pc[t] /\ open'[t] = open[t] /\ mem'[t] = mem[t]
  <1> USE DEF Frame, Gone, Runs!RunsTypeOK
  <1>1. \A t \in Tasks : IF t \in T THEN pc'[t] = "idle" /\ open'[t] = None
                                     ELSE pc'[t] = pc[t] /\ open'[t] = open[t] /\ mem'[t] = mem[t]
    OBVIOUS
  <1>2. pc' = [u \in Tasks |-> pc'[u]] /\ mem' = [u \in Tasks |-> mem'[u]]
    OBVIOUS
  <1>3. \A t \in Tasks : pc'[t] = "idle" <=> open'[t] = None
    BY <1>1
  <1>4. begun' \in [Work -> 0 .. MaxDeliver] /\ open' \in [Tasks -> Work \cup {None}]
    OBVIOUS
  <1> QED
    BY <1>1, <1>2, <1>3, <1>4

-----------------------------------------------------------------------------
(* How many coroutines are in some situation, before and after one moves.  *)

LEMMA TasksCount ==
  ASSUME NEW S, S \subseteq Tasks
  PROVE  IsFiniteSet(S) /\ Cardinality(S) \in Nat
  BY FiniteAssumption, FS_Subset, FS_CardinalityType

\* One joins at most.
LEMMA OneJoins ==
  ASSUME NEW S, S \subseteq Tasks, NEW T, NEW t \in Tasks, T \subseteq S \cup {t}
  PROVE  Cardinality(T) <= Cardinality(S) + 1
  <1>1. IsFiniteSet(S \cup {t}) /\ Cardinality(S \cup {t}) <= Cardinality(S) + 1
    BY TasksCount, FS_AddElement
  <1> QED
    BY <1>1, TasksCount, FS_Subset, FS_CardinalityType

\* Nobody joins.
LEMMA NoneJoins ==
  ASSUME NEW S, S \subseteq Tasks, NEW T, T \subseteq S
  PROVE  Cardinality(T) <= Cardinality(S)
  BY TasksCount, FS_Subset

\* One leaves, and nobody joins.
LEMMA OneLeaves ==
  ASSUME NEW S, S \subseteq Tasks, NEW T, NEW t \in S, T \subseteq S \ {t}
  PROVE  Cardinality(T) + 1 <= Cardinality(S)
  <1>1. IsFiniteSet(S \ {t}) /\ Cardinality(S \ {t}) = Cardinality(S) - 1
    BY TasksCount, FS_RemoveElement
  <1> QED
    BY <1>1, TasksCount, FS_Subset, FS_CardinalityType

\* A set that grows, by an element that was not in it if given.
LEMMA MoreWithOne ==
  ASSUME NEW S, NEW T, IsFiniteSet(S), IsFiniteSet(T), S \subseteq T, NEW x, x \notin S
  PROVE  /\ Cardinality(S) \in Nat /\ Cardinality(T) \in Nat /\ Cardinality(S) <= Cardinality(T)
         /\ x \in T => Cardinality(S) + 1 <= Cardinality(T)
  <1>1. Cardinality(S) \in Nat /\ Cardinality(T) \in Nat /\ Cardinality(S) <= Cardinality(T)
    BY FS_CardinalityType, FS_Subset
  <1>2. ASSUME x \in T PROVE Cardinality(S) + 1 <= Cardinality(T)
    <2>1. IsFiniteSet(S \cup {x}) /\ Cardinality(S \cup {x}) = Cardinality(S) + 1
      BY FS_AddElement
    <2> QED
      BY <1>2, <2>1, FS_Subset
  <1> QED
    BY <1>1, <1>2
=============================================================================
