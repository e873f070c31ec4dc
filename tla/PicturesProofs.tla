---------------------------- MODULE PicturesProofs ----------------------------
(***************************************************************************)
(* Proofs about the services that work on pictures, as MCPictures.tla      *)
(* composes them: for any merchants, batches, results, photos, coroutines, *)
(* threads, and numbers of retries.                                        *)
(***************************************************************************)
EXTENDS MCPictures, RequestsProofs

CountingPlaces == {"write progress", "cache progress"}
BatchPlaces == {"batch", "read progress"} \cup CountingPlaces
StartPlaces == {"create sync", "cache start"}

\* Each run is somewhere in the code of the service its work is for.
CatalogPlaces == {"start", "result", "mark", "progress", "find sync"} \cup BatchPlaces \cup StartPlaces
ConnectorPlaces == {"fetch", "page"}
AIPlaces == {"analyze batch", "analyze item", "download", "analyze"}
JobPlaces == {"job", "asking", "store", "mark failed"}
SelfiePlaces == {"create", "insert", "claim"} \cup JobPlaces
AnalyzerPlaces == {"photo", "pipelines"}
Placed == \A t \in Tasks :
  \/ open[t] = None
  \/ open[t].service = "catalog" /\ pc[t] \in CatalogPlaces
  \/ open[t].service = "connector" /\ pc[t] \in ConnectorPlaces
  \/ open[t].service = "ai" /\ pc[t] \in AIPlaces
  \/ open[t].service = "selfie" /\ pc[t] \in SelfiePlaces
  \/ open[t].service = "analyzer" /\ pc[t] \in AnalyzerPlaces

\* A run in process_product_batch has a batch of a sync that is there.
Served(t) == pc[t] \in BatchPlaces =>
  /\ open[t] \in Work /\ open[t].kind = "batch"
  /\ Of(t) \in 1 .. created

Tallies == [sum : Nat, raced : BOOLEAN]

Shapes == /\ created \in 0 .. MaxSyncs
          /\ syncs = [s \in SyncIds |-> syncs[s]]
          /\ cache \in [SyncIds -> Answers \cup {NotCached}]
          /\ tally \in [SyncIds -> Tallies]
          /\ \A s \in 1 .. created : syncs[s] \in SyncRows
          /\ \A s \in SyncIds : s > created =>
               /\ cache[s] = NotCached
               /\ tally[s] = [sum |-> 0, raced |-> FALSE]

\* The one run that has created a sync has it for itself until it has cached
\* its progress.
Fresh(s) == /\ syncs[s].status = "pending" /\ syncs[s].processed = 0 /\ syncs[s].percent = 0
            /\ cache[s] = NotCached
Starting(t) ==
  /\ pc[t] = "create sync" => mem[t] = 0
  /\ pc[t] = "cache start" =>
       /\ mem[t] \in 1 .. created /\ Fresh(mem[t])
       /\ \A u \in Tasks : /\ pc[u] \in BatchPlaces => Of(u) # mem[t]
                           /\ pc[u] = "cache start" /\ u # t => mem[u] # mem[t]

\* One batch at a time counts from what the row says; the cache is never
\* ahead of the row.
Exact(s) == ~tally[s].raced =>
  /\ syncs[s].processed = tally[s].sum
  /\ syncs[s].percent = Percent(syncs[s].processed, 0)
  /\ cache[s] # NotCached =>
       /\ cache[s].processed <= syncs[s].processed
       /\ cache[s].percent <= syncs[s].percent
       /\ cache[s].status = "running" => syncs[s].status = "running"
  /\ \A t \in Counting(s) : /\ mem[t] = syncs[s].processed
                            /\ pc[t] = "cache progress" => syncs[s].status = "running"
                            /\ \A u \in Counting(s) : u = t

SyncInv == /\ Shapes
           /\ \A t \in Tasks : Served(t) /\ Starting(t)
           /\ \A t \in Tasks : pc[t] \in CountingPlaces => mem[t] \in Nat
           /\ \A s \in 1 .. created : Exact(s)

CatalogInv == Frame /\ SyncInv /\ ResultsReachItems

-----------------------------------------------------------------------------
\* Where a run is tells whose it is.
LEMMA ServiceOf ==
  ASSUME Placed, NEW t \in Tasks, open[t] # None
  PROVE  /\ pc[t] \in CatalogPlaces => open[t].service = "catalog"
         /\ pc[t] \in ConnectorPlaces => open[t].service = "connector"
         /\ pc[t] \in AIPlaces => open[t].service = "ai"
         /\ pc[t] \in SelfiePlaces => open[t].service = "selfie"
         /\ pc[t] \in AnalyzerPlaces => open[t].service = "analyzer"
  BY DEF Placed, CatalogPlaces, BatchPlaces, CountingPlaces, StartPlaces, ConnectorPlaces,
         AIPlaces, SelfiePlaces, JobPlaces, AnalyzerPlaces

LEMMA KindsOfWork ==
  ASSUME NEW w \in Work
  PROVE  /\ w.kind \in {"start", "batch", "progress", "result", "fetch", "analyze batch", "analyze item",
                         "create", "job", "claim", "photo"}
         /\ w.kind = "batch" => w.as \in DOMAIN Products
  BY KindsAssumption

LEMMA KindsNotIdle == NoIdleKind
  BY KindsOfWork DEF NoIdleKind

LEMMA BatchSize ==
  ASSUME NEW w \in Work, w.kind = "batch"
  PROVE  Cardinality(Products[w.as]) \in Nat
  BY KindsOfWork, ProductsAssumption, FS_CardinalityType

LEMMA PercentOf ==
  ASSUME NEW n \in Nat
  PROVE  Percent(n, 0) = IF n = 0 THEN 0 ELSE 90
  <1>1. Percent(n, 0) = IF (n * 90) \div 1 < 90 THEN (n * 90) \div 1 ELSE 90
    BY DEF Percent
  <1>2. (n * 90) \div 1 = n * 90
    OBVIOUS
  <1> QED
    BY <1>1, <1>2

LEMMA CachedIsCached ==
  ASSUME NEW row \in Answers
  PROVE  row # NotCached
  <1>1. "percent" \in DOMAIN row
    BY DEF Answers
  <1>2. "percent" \notin DOMAIN NotCached
    BY DEF NotCached
  <1> QED
    BY <1>1, <1>2, Zenon

LEMMA BoundOfSyncs == MaxSyncs \in Nat
  <1> DEFINE starts == {w \in CatalogWork : w.kind = "start"}
  <1>1. starts \subseteq Work
    BY DEF CatalogWork
  <1>2. Cardinality(starts) \in Nat
    BY <1>1, FiniteAssumption, FS_Subset, FS_CardinalityType
  <1> QED
    BY <1>2, RequestsAssumption DEF MaxSyncs

LEMMA Widens ==
  ASSUME NEW n \in Nat
  PROVE  1 .. n \subseteq 1 .. n + 1
  <1> SUFFICES ASSUME NEW i \in 1 .. n PROVE i \in 1 .. n + 1
    OBVIOUS
  <1>1. i \in Int /\ 1 <= i /\ i <= n /\ n \in Int
    OBVIOUS
  <1> QED
    BY <1>1

LEMMA CreatedBound == Shapes => created \in Nat /\ created <= MaxSyncs
  <1> SUFFICES ASSUME Shapes PROVE created \in Nat /\ created <= MaxSyncs
    OBVIOUS
  <1>1. created \in 0 .. MaxSyncs
    BY DEF Shapes
  <1> QED
    BY <1>1, BoundOfSyncs

LEMMA RowsOf ==
  ASSUME Shapes, NEW s \in 1 .. created
  PROVE  /\ s \in SyncIds /\ syncs[s] \in SyncRows /\ tally[s] \in Tallies
         /\ cache[s] # NotCached => cache[s] \in Answers
  <1>1. s \in SyncIds
    BY BoundOfSyncs DEF Shapes, SyncIds
  <1>2. /\ syncs[s] \in SyncRows /\ tally[s] \in Tallies
        /\ cache[s] # NotCached => cache[s] \in Answers
    BY <1>1 DEF Shapes
  <1> QED
    BY <1>1, <1>2

\* What does not depend on what t is doing.
LEMMA SyncsStay ==
  ASSUME SyncInv, NEW t \in Tasks, Others(t),
         pc'[t] \notin BatchPlaces \cup StartPlaces,
         UNCHANGED <<syncs, created, cache, tally>>
  PROVE  SyncInv'
  <1>1. Shapes'
    BY DEF SyncInv, Shapes
  <1>2. \A u \in Tasks : Served(u)'
    BY DEF SyncInv, Served, Others, Of
  <1>3. ASSUME NEW u \in Tasks
        PROVE  Starting(u)'
    <2>1. CASE u = t
      BY <2>1 DEF Starting, StartPlaces
    <2>2. CASE u # t
      <3>1. Starting(u) /\ pc'[u] = pc[u] /\ mem'[u] = mem[u]
        BY <2>2 DEF SyncInv, Others
      <3>2. ASSUME NEW v \in Tasks, pc'[v] \in BatchPlaces \cup StartPlaces
            PROVE  pc'[v] = pc[v] /\ mem'[v] = mem[v] /\ Of(v)' = Of(v)
        BY <3>2 DEF Others, Of
      <3>3. Fresh(mem[u]) => Fresh(mem[u])'
        BY <3>1 DEF Fresh
      <3> QED
        BY <3>1, <3>2, <3>3 DEF Starting, Fresh, StartPlaces
    <2> QED
      BY <2>1, <2>2
  <1>4. \A u \in Tasks : pc'[u] \in CountingPlaces => mem'[u] \in Nat
    BY DEF SyncInv, BatchPlaces, Others
  <1>5. \A s : \A u \in Counting(s)' : u \in Counting(s) /\ mem'[u] = mem[u] /\ pc'[u] = pc[u]
    BY DEF Counting, BatchPlaces, CountingPlaces, Others, Of
  <1>6. ASSUME NEW s \in 1 .. created
        PROVE  Exact(s)'
    <2>1. Exact(s)
      BY DEF SyncInv
    <2>2. Percent(syncs[s].processed, 0)' = Percent(syncs[s].processed, 0)
      BY DEF Percent
    <2> QED
      BY <1>5, <2>1, <2>2 DEF Exact
  <1> QED
    BY <1>1, <1>2, <1>3, <1>4, <1>6 DEF SyncInv

LEMMA ResultsStay ==
  ASSUME ResultsReachItems, NEW t \in Tasks, Others(t), pc[t] # "mark",
         UNCHANGED <<results, analyzed, cut>>
  PROVE  ResultsReachItems'
  <1>1. ASSUME NEW r \in results
        PROVE  r[1] \in analyzed \/ r \in cut
                 \/ \E u \in Tasks : pc'[u] = "mark" /\ ResultOf(u)' = r
    <2>1. CASE \E u \in Tasks : pc[u] = "mark" /\ ResultOf(u) = r
      <3>1. PICK u \in Tasks : pc[u] = "mark" /\ ResultOf(u) = r
        BY <2>1
      <3>2. u # t
        BY <3>1
      <3>3. pc'[u] = "mark" /\ ResultOf(u)' = r
        BY <3>1, <3>2 DEF Others, ResultOf, Of
      <3> QED
        BY <3>3
    <2>2. CASE ~\E u \in Tasks : pc[u] = "mark" /\ ResultOf(u) = r
      BY <2>2 DEF ResultsReachItems, At
    <2> QED
      BY <2>1, <2>2
  <1> QED
    BY <1>1 DEF ResultsReachItems, At

\* A run that ends without a promise to keep.
LEMMA EndStep ==
  ASSUME CatalogInv, NEW t \in Tasks, Ends(t), pc[t] # "mark",
         UNCHANGED <<syncs, created, cache, tally, results, analyzed, cut>>
  PROVE  CatalogInv'
  <1>1. Frame' /\ Others(t) /\ pc'[t] = "idle"
    BY EndsFrame DEF CatalogInv
  <1> QED
    BY <1>1, SyncsStay, ResultsStay DEF CatalogInv, BatchPlaces, CountingPlaces, StartPlaces

\* What a step of t leaves of the runs and syncs it does not touch.
LEMMA StartingKept ==
  ASSUME SyncInv, NEW t \in Tasks, Others(t), NEW u \in Tasks, u # t,
         created' \in {created, created + 1},
         pc[u] = "cache start" => /\ Fresh(mem[u])'
                                  /\ pc'[t] \in BatchPlaces => Of(t)' # mem[u]
                                  /\ pc'[t] = "cache start" => mem'[t] # mem[u]
  PROVE  Starting(u)'
  <1>1. Starting(u) /\ pc'[u] = pc[u] /\ mem'[u] = mem[u]
    BY DEF SyncInv, Others
  <1>2. ASSUME NEW v \in Tasks, v # t
        PROVE  pc'[v] = pc[v] /\ mem'[v] = mem[v] /\ Of(v)' = Of(v)
    BY <1>2 DEF Others, Of
  <1>3. created \in Nat
    BY CreatedBound DEF SyncInv
  <1>4. 1 .. created \subseteq 1 .. created'
    <2>1. CASE created' = created
      BY <1>3, <2>1
    <2>2. CASE created' = created + 1
      <3>1. PICK n \in Nat : n = created
        BY <1>3
      <3>2. 1 .. n \subseteq 1 .. n + 1
        BY Widens
      <3> QED
        BY <2>2, <3>1, <3>2
    <2> QED
      BY <2>1, <2>2
  <1> QED
    BY <1>1, <1>2, <1>4 DEF Starting, Fresh

LEMMA ExactKept ==
  ASSUME NEW t \in Tasks, Others(t), NEW s, Exact(s),
         syncs'[s] = syncs[s], tally'[s] = tally[s], cache'[s] \in {cache[s], NotCached},
         pc'[t] \in CountingPlaces => Of(t)' # s
  PROVE  Exact(s)'
  <1>1. \A u \in Counting(s)' : u \in Counting(s) /\ mem'[u] = mem[u] /\ pc'[u] = pc[u]
    BY DEF Counting, CountingPlaces, Others, Of
  <1>2. Percent(syncs[s].processed, 0)' = Percent(syncs[s].processed, 0)
    BY DEF Percent
  <1> QED
    BY <1>1, <1>2 DEF Exact

-----------------------------------------------------------------------------
\* POST /sync.

LEMMA CheckRunningInv ==
  ASSUME CatalogInv, NEW t \in Tasks, CheckRunning(t)
  PROVE  CatalogInv'
  <1>0. pc[t] = "start" /\ UNCHANGED <<syncs, created, cache, tally, results, analyzed, cut>>
    BY DEF CheckRunning, At, catalogVars
  <1>1. CASE Ends(t)
    BY <1>0, <1>1, EndStep
  <1>2. CASE Running(Of(t)) = {} /\ Goes(t, "create sync", Cardinality(SyncsOf(Of(t))))
    <2>1. SyncsOf(Of(t)) = {}
      BY <1>2 DEF CatalogInv, SyncInv, Shapes, Running, SyncsOf, SyncRows
    <2>2. Goes(t, "create sync", 0)
      BY <1>2, <2>1, FS_EmptySet
    <2>3. Frame' /\ Others(t) /\ pc'[t] = "create sync" /\ mem'[t] = 0
      BY <1>0, <2>2, GoesFrame DEF CatalogInv
    <2>4. Shapes' /\ \A u \in Tasks : Served(u)'
      BY <1>0, <2>3 DEF CatalogInv, SyncInv, Shapes, Served, Others, Of, BatchPlaces, CountingPlaces
    <2>5. ASSUME NEW u \in Tasks
          PROVE  Starting(u)'
      <3>1. CASE u = t
        BY <2>3, <3>1 DEF Starting
      <3>2. CASE u # t
        <4>1. pc[u] = "cache start" => Fresh(mem[u])'
          BY <1>0, <2>3, <3>2 DEF CatalogInv, SyncInv, Starting, Fresh, Others
        <4>2. pc'[t] \notin BatchPlaces /\ pc'[t] # "cache start"
          BY <2>3 DEF BatchPlaces, CountingPlaces
        <4> QED
          BY <1>0, <2>3, <3>2, <4>1, <4>2, StartingKept DEF CatalogInv
      <3> QED
        BY <3>1, <3>2
    <2>6. \A u \in Tasks : pc'[u] \in CountingPlaces => mem'[u] \in Nat
      BY <2>3 DEF CatalogInv, SyncInv, CountingPlaces, Others
    <2>7. \A s \in 1 .. created' : Exact(s)'
      BY <1>0, <2>3, ExactKept DEF CatalogInv, SyncInv, CountingPlaces
    <2> QED
      BY <1>0, <2>3, <2>4, <2>5, <2>6, <2>7, ResultsStay DEF CatalogInv, SyncInv
  <1> QED
    BY <1>1, <1>2 DEF CheckRunning

LEMMA CreateSyncInv ==
  ASSUME CatalogInv, Placed, NEW t \in Tasks, CreateSync(t)
  PROVE  CatalogInv'
  <1>0. pc[t] = "create sync" /\ UNCHANGED <<cache, tally, results, analyzed, cut>>
    BY DEF CreateSync, At
  <1>1. /\ created \in Nat /\ MaxSyncs \in Nat /\ created < MaxSyncs
        /\ Shapes /\ \A r \in 1 .. created : r \in SyncIds /\ syncs[r] \in SyncRows
    BY CreatedBound, BoundOfSyncs, RowsOf DEF CreateSync, CatalogInv, SyncInv
  <1>2. PICK s : s = created + 1
    OBVIOUS
  <1>3. /\ s \in SyncIds /\ s > created /\ s \in 0 .. MaxSyncs
        /\ 1 .. s = (1 .. created) \cup {s} /\ s \notin 1 .. created
    BY <1>1, <1>2 DEF SyncIds
  <1>4. PICK row : row = [of |-> Of(t), status |-> "pending", processed |-> 0, percent |-> 0]
    OBVIOUS
  <1>5. open[t] \in CatalogWork
    <2>1. open[t] \in Work
      BY <1>0, RunsWork DEF CatalogInv
    <2>2. open[t].service = "catalog"
      BY <1>0, <2>1, ServiceOf, RequestsAssumption DEF CatalogPlaces, StartPlaces
    <2> QED
      BY <2>1, <2>2 DEF CatalogWork
  <1>6. row \in SyncRows /\ row.status = "pending" /\ row.processed = 0 /\ row.percent = 0
    BY <1>4, <1>5 DEF SyncRows, Of
  <1>7. created' = s /\ syncs' = [syncs EXCEPT ![s] = row] /\ Goes(t, "cache start", s)
    BY <1>2, <1>4 DEF CreateSync
  <1>8. /\ Frame' /\ Others(t) /\ pc'[t] = "cache start" /\ mem'[t] = s /\ open' = open
    BY <1>0, <1>7, GoesFrame DEF CatalogInv
  <1>15. \A r \in 1 .. created : r # s /\ syncs'[r] = syncs[r]
    BY <1>3, <1>7, <1>1 DEF Shapes
  <1>16. syncs'[s] = row /\ cache[s] = NotCached /\ tally[s] = [sum |-> 0, raced |-> FALSE]
    BY <1>1, <1>3, <1>7 DEF Shapes
  <1>17. Shapes'
    <2>1. syncs' = [r \in SyncIds |-> syncs'[r]]
      BY <1>1, <1>7 DEF Shapes
    <2>2. \A r \in 1 .. created' : syncs'[r] \in SyncRows
      BY <1>1, <1>3, <1>6, <1>7, <1>15, <1>16
    <2>3. \A r \in SyncIds : r > s => r > created
      BY <1>1, <1>3 DEF SyncIds
    <2> QED
      BY <1>0, <1>1, <1>3, <1>7, <2>1, <2>2, <2>3 DEF Shapes
  <1>9. \A u \in Tasks : Served(u)'
    <2>1. pc'[t] \notin BatchPlaces
      BY <1>8 DEF BatchPlaces, CountingPlaces
    <2>2. 1 .. created \subseteq 1 .. created'
      BY <1>3, <1>7
    <2> QED
      BY <1>8, <2>1, <2>2 DEF CatalogInv, SyncInv, Served, Others, Of
  <1>10. ASSUME NEW u \in Tasks
         PROVE  Starting(u)'
    <2>1. CASE u = t
      <3>1. Fresh(s)'
        BY <1>0, <1>6, <1>16 DEF Fresh
      <3>2. \A v \in Tasks : /\ pc'[v] \in BatchPlaces => Of(v)' # s
                             /\ pc'[v] = "cache start" /\ v # t => mem'[v] # s
        BY <1>3, <1>8 DEF CatalogInv, SyncInv, Served, Starting, Others, Of, BatchPlaces, CountingPlaces
      <3>3. s \in 1 .. created'
        BY <1>3, <1>7
      <3> QED
        BY <1>8, <2>1, <3>1, <3>2, <3>3 DEF Starting, Fresh
    <2>2. CASE u # t
      <3>1. ASSUME pc[u] = "cache start"
            PROVE  Fresh(mem[u])' /\ mem[u] # s
        <4>1. mem[u] \in 1 .. created /\ Fresh(mem[u])
          BY <3>1 DEF CatalogInv, SyncInv, Starting
        <4> QED
          BY <1>0, <1>8, <1>15, <2>2, <4>1 DEF Fresh, Others
      <3>2. pc'[t] \notin BatchPlaces /\ created' \in {created, created + 1}
        BY <1>2, <1>7, <1>8 DEF BatchPlaces, CountingPlaces
      <3> QED
        BY <1>8, <2>2, <3>1, <3>2, StartingKept DEF CatalogInv
    <2> QED
      BY <2>1, <2>2
  <1>11. \A u \in Tasks : pc'[u] \in CountingPlaces => mem'[u] \in Nat
    BY <1>8 DEF CatalogInv, SyncInv, CountingPlaces, Others
  <1>12. Exact(s)'
    <2>1. Counting(s)' = {}
      BY <1>3, <1>8 DEF CatalogInv, SyncInv, Served, Counting, Others, Of, BatchPlaces, CountingPlaces
    <2>2. Percent(0, 0) = 0
      BY PercentOf
    <2>3. syncs'[s].processed = 0 /\ syncs'[s].percent = 0 /\ tally'[s].sum = 0 /\ cache'[s] = NotCached
      <3>1. tally'[s].sum = 0
        <4>1. tally'[s] = tally[s]
          BY <1>0
        <4>2. tally[s].sum = 0
          BY <1>16
        <4> QED
          BY <4>1, <4>2
      <3> QED
        BY <1>0, <1>6, <1>16, <3>1
    <2>4. Percent(syncs'[s].processed, 0) = 0
      BY <2>2, <2>3
    <2> QED
      BY <2>1, <2>3, <2>4 DEF Exact, Percent
  <1>13. \A r \in 1 .. created' : Exact(r)'
    <2>1. ASSUME NEW r \in 1 .. created PROVE Exact(r)'
      <3>1. pc'[t] \notin CountingPlaces /\ Exact(r)
        BY <1>8 DEF CountingPlaces, CatalogInv, SyncInv
      <3> QED
        BY <1>0, <1>8, <1>15, <3>1, ExactKept
    <2> QED
      BY <1>3, <1>7, <1>12, <2>1
  <1> QED
    BY <1>0, <1>8, <1>17, <1>9, <1>10, <1>11, <1>13, ResultsStay DEF CatalogInv, SyncInv

\* The progress is cached, by the run that has the sync for itself.
LEMMA CacheStartInv ==
  ASSUME CatalogInv, NEW t \in Tasks, CacheStart(t)
  PROVE  CatalogInv'
  <1>0. pc[t] = "cache start" /\ UNCHANGED <<syncs, created, tally, results, analyzed, cut>> /\ Ends(t)
    BY DEF CacheStart, At
  <1>1. PICK s \in 1 .. created : s = mem[t] /\ Fresh(s) /\ s \in SyncIds
    BY <1>0, RowsOf DEF CatalogInv, SyncInv, Starting
  <1>2. PICK row : row = [status |-> "pending", processed |-> 0, percent |-> 0]
    OBVIOUS
  <1>3. row \in Answers /\ row.status = "pending" /\ row.processed = 0 /\ row.percent = 0
    BY <1>2 DEF Answers
  <1>4. cache' = [cache EXCEPT ![s] = row]
    BY <1>1, <1>2 DEF CacheStart
  <1>5. Frame' /\ Others(t) /\ pc'[t] = "idle"
    BY <1>0, EndsFrame DEF CatalogInv
  <1>6. cache'[s] = row /\ \A r \in SyncIds : r # s => cache'[r] = cache[r]
    BY <1>1, <1>4 DEF CatalogInv, SyncInv, Shapes
  <1>7. Shapes'
    <2>1. cache' \in [SyncIds -> Answers \cup {NotCached}]
      BY <1>3, <1>4 DEF CatalogInv, SyncInv, Shapes
    <2>2. \A r \in SyncIds : r > created => r # s
      BY <1>1, CreatedBound DEF CatalogInv, SyncInv
    <2> QED
      BY <1>0, <1>6, <2>1, <2>2 DEF CatalogInv, SyncInv, Shapes
  <1>8. \A u \in Tasks : Served(u)'
    BY <1>0, <1>5 DEF CatalogInv, SyncInv, Served, Others, Of, BatchPlaces, CountingPlaces
  <1>9. ASSUME NEW u \in Tasks
        PROVE  Starting(u)'
    <2>1. CASE u = t
      BY <1>5, <2>1 DEF Starting
    <2>2. CASE u # t
      <3>1. ASSUME pc[u] = "cache start"
            PROVE  Fresh(mem[u])'
        <4>1. mem[u] \in 1 .. created /\ Fresh(mem[u]) /\ mem[u] # s /\ mem'[u] = mem[u]
          BY <1>0, <1>1, <1>5, <2>2, <3>1 DEF CatalogInv, SyncInv, Starting, Others
        <4>2. mem[u] \in SyncIds
          BY <4>1, RowsOf DEF CatalogInv, SyncInv
        <4> QED
          BY <1>0, <1>6, <4>1, <4>2 DEF Fresh
      <3>2. pc'[t] \notin BatchPlaces /\ pc'[t] # "cache start"
        BY <1>5 DEF BatchPlaces, CountingPlaces
      <3> QED
        BY <1>0, <1>5, <2>2, <3>1, <3>2, StartingKept DEF CatalogInv
    <2> QED
      BY <2>1, <2>2
  <1>10. \A u \in Tasks : pc'[u] \in CountingPlaces => mem'[u] \in Nat
    BY <1>5 DEF CatalogInv, SyncInv, CountingPlaces, Others
  <1>11. ASSUME NEW r \in 1 .. created
         PROVE  Exact(r)'
    <2>0. pc'[t] \notin CountingPlaces /\ Exact(r) /\ r \in SyncIds
      BY <1>5, RowsOf DEF CountingPlaces, CatalogInv, SyncInv
    <2>1. CASE r # s
      BY <1>0, <1>5, <1>6, <2>0, <2>1, ExactKept
    <2>2. CASE r = s
      <3>1. Counting(s)' = {}
        BY <1>0, <1>1, <1>5 DEF CatalogInv, SyncInv, Starting, Counting, Others, Of, BatchPlaces, CountingPlaces
      <3>2. /\ syncs'[s].processed = syncs[s].processed /\ syncs'[s].percent = syncs[s].percent
            /\ tally'[s] = tally[s] /\ syncs[s].processed = 0 /\ syncs[s].percent = 0
        BY <1>0, <1>1 DEF Fresh
      <3>3. /\ cache'[s].processed = 0 /\ cache'[s].percent = 0 /\ cache'[s].status = "pending"
        BY <1>3, <1>6
      <3>4. Exact(s) /\ Percent(syncs[s].processed, 0)' = Percent(syncs[s].processed, 0)
        BY <1>0, <2>0, <2>2 DEF Percent
      <3>5. ASSUME ~tally'[s].raced
            PROVE  /\ syncs'[s].processed = tally'[s].sum
                   /\ syncs'[s].percent = Percent(syncs[s].processed, 0)'
        BY <3>2, <3>4, <3>5 DEF Exact
      <3>6. cache'[s].processed <= syncs'[s].processed /\ cache'[s].percent <= syncs'[s].percent
        BY <3>2, <3>3
      <3>7. Exact(s)'
        BY <3>1, <3>3, <3>5, <3>6 DEF Exact
      <3> QED
        BY <2>2, <3>7
    <2> QED
      BY <2>1, <2>2
  <1> QED
    BY <1>0, <1>5, <1>7, <1>8, <1>9, <1>10, <1>11, ResultsStay DEF CatalogInv, SyncInv

\* Whatever is cached expires: the row behind it is at least as far.
LEMMA CacheExpiresInv ==
  ASSUME CatalogInv, CacheExpires
  PROVE  CatalogInv'
  <1>1. PICK s \in SyncIds : cache[s] # NotCached /\ cache' = [cache EXCEPT ![s] = NotCached]
    BY DEF CacheExpires
  <1>2. UNCHANGED <<reqVars, syncs, created, tally, results, analyzed, cut>>
    BY DEF CacheExpires
  <1>3. cache'[s] = NotCached /\ \A r \in SyncIds : r # s => cache'[r] = cache[r]
    BY <1>1 DEF CatalogInv, SyncInv, Shapes
  <1>4. Frame'
    BY <1>2, StayFrame DEF CatalogInv
  <1>5. Shapes'
    <2>1. cache' \in [SyncIds -> Answers \cup {NotCached}]
      BY <1>1 DEF CatalogInv, SyncInv, Shapes
    <2> QED
      BY <1>2, <1>3, <2>1 DEF CatalogInv, SyncInv, Shapes
  <1>6. \A u \in Tasks : Served(u)' /\ (pc'[u] \in CountingPlaces => mem'[u] \in Nat)
    BY <1>2 DEF CatalogInv, SyncInv, Served, Of, reqVars
  <1>7. ASSUME NEW u \in Tasks
        PROVE  Starting(u)'
    <2>1. Starting(u)
      BY DEF CatalogInv, SyncInv
    <2>2. ASSUME pc[u] = "cache start"
          PROVE  Fresh(mem[u])'
      <3>1. mem[u] \in SyncIds /\ Fresh(mem[u])
        BY <2>1, <2>2, RowsOf DEF CatalogInv, SyncInv, Starting
      <3> QED
        BY <1>1, <1>2, <1>3, <3>1 DEF Fresh, reqVars
    <2> QED
      BY <1>2, <2>1, <2>2 DEF Starting, Of, reqVars
  <1>8. ASSUME NEW r \in 1 .. created
        PROVE  Exact(r)'
    <2>1. Exact(r) /\ r \in SyncIds
      BY RowsOf DEF CatalogInv, SyncInv
    <2>2. cache'[r] \in {cache[r], NotCached} /\ syncs'[r] = syncs[r] /\ tally'[r] = tally[r]
      BY <1>2, <1>3, <2>1
    <2>3. Counting(r)' = Counting(r) /\ pc' = pc /\ mem' = mem
      BY <1>2 DEF Counting, Of, reqVars
    <2> QED
      BY <2>1, <2>2, <2>3 DEF Exact, Percent
  <1>10. ResultsReachItems'
    BY <1>2 DEF CatalogInv, ResultsReachItems, ResultOf, At, Of, reqVars
  <1> QED
    BY <1>2, <1>4, <1>5, <1>6, <1>7, <1>8, <1>10 DEF CatalogInv, SyncInv

-----------------------------------------------------------------------------
\* process_product_batch.

\* A step of a batch for one sync leaves the others as they are.
LEMMA BatchStep ==
  ASSUME SyncInv, NEW t \in Tasks, Others(t), pc[t] \in BatchPlaces,
         NEW s, s = Of(t), created' = created, Shapes', Exact(s)',
         \A r \in SyncIds \ {s} : syncs'[r] = syncs[r] /\ tally'[r] = tally[r] /\ cache'[r] = cache[r],
         pc'[t] \in {"idle"} \cup BatchPlaces,
         pc'[t] \in BatchPlaces => open'[t] = open[t],
         pc'[t] \in CountingPlaces => mem'[t] \in Nat
  PROVE  SyncInv'
  <1>1. Served(t) /\ s \in 1 .. created
    BY DEF SyncInv, Served
  <1>2. \A r \in 1 .. created : r \in SyncIds /\ Exact(r)
    BY RowsOf DEF SyncInv
  <1>3. pc'[t] \in BatchPlaces => Of(t)' = s
    BY DEF Of
  <1>4. ASSUME NEW u \in Tasks
        PROVE  Served(u)'
    BY <1>1 DEF SyncInv, Served, Others, Of
  <1>5. ASSUME NEW u \in Tasks
        PROVE  Starting(u)'
    <2>1. CASE u = t
      BY <2>1 DEF Starting, BatchPlaces, CountingPlaces
    <2>2. CASE u # t
      <3>1. ASSUME pc[u] = "cache start"
            PROVE  Fresh(mem[u])' /\ mem[u] # s
        <4>1. mem[u] \in 1 .. created /\ Fresh(mem[u]) /\ mem[u] # s /\ mem'[u] = mem[u]
          BY <2>2, <3>1 DEF SyncInv, Starting, Others
        <4> QED
          BY <1>2, <4>1 DEF Fresh
      <3>2. pc'[t] # "cache start"
        BY DEF BatchPlaces, CountingPlaces
      <3> QED
        BY <1>3, <2>2, <3>1, <3>2, StartingKept
    <2> QED
      BY <2>1, <2>2
  <1>6. \A u \in Tasks : pc'[u] \in CountingPlaces => mem'[u] \in Nat
    BY DEF SyncInv, Others
  <1>7. ASSUME NEW r \in 1 .. created
        PROVE  Exact(r)'
    <2>1. CASE r = s
      BY <2>1
    <2>2. CASE r # s
      <3>1. pc'[t] \in CountingPlaces => Of(t)' # r
        BY <1>3, <2>2 DEF BatchPlaces
      <3> QED
        BY <1>2, <2>2, <3>1, ExactKept
    <2> QED
      BY <2>1, <2>2
  <1> QED
    BY <1>4, <1>5, <1>6, <1>7 DEF SyncInv

LEMMA StoreItemsInv ==
  ASSUME CatalogInv, NEW t \in Tasks, StoreItems(t)
  PROVE  CatalogInv'
  <1>0. /\ pc[t] = "batch" /\ Goes(t, "read progress", None)
        /\ UNCHANGED <<syncs, created, cache, tally, results, analyzed, cut>>
    BY DEF StoreItems, At
  <1>1. Frame' /\ Others(t) /\ pc'[t] = "read progress" /\ open' = open
    BY <1>0, GoesFrame DEF CatalogInv
  <1>2. PICK s \in 1 .. created : s = Of(t)
    BY <1>0 DEF CatalogInv, SyncInv, Served, BatchPlaces
  <1>3. pc[t] \in BatchPlaces /\ pc'[t] \in BatchPlaces /\ pc'[t] \notin CountingPlaces
    BY <1>0, <1>1 DEF BatchPlaces, CountingPlaces
  <1>4. Shapes'
    BY <1>0 DEF CatalogInv, SyncInv, Shapes
  <1>5. Exact(s)'
    BY <1>0, <1>1, <1>3, ExactKept DEF CatalogInv, SyncInv
  <1>6. SyncInv'
    BY <1>0, <1>1, <1>2, <1>3, <1>4, <1>5, BatchStep DEF CatalogInv
  <1> QED
    BY <1>0, <1>1, <1>6, ResultsStay DEF CatalogInv

\* Whoever counts alone starts from the row.
LEMMA ReadProgressInv ==
  ASSUME CatalogInv, NEW t \in Tasks, ReadProgress(t)
  PROVE  CatalogInv'
  <1>0. /\ pc[t] = "read progress"
        /\ UNCHANGED <<syncs, created, cache, results, analyzed, cut>>
    BY DEF ReadProgress, At
  <1>1. PICK s \in 1 .. created : s = Of(t) /\ s \in SyncIds
    BY <1>0, RowsOf DEF CatalogInv, SyncInv, Served, BatchPlaces
  <1>2. PICK n \in Nat : n = syncs[s].processed
    BY <1>1 DEF CatalogInv, SyncInv, Shapes, SyncRows
  <1>3. Goes(t, "write progress", n) /\ tally' = [tally EXCEPT ![s].raced = @ \/ Counting(s) # {}]
    BY <1>1, <1>2 DEF ReadProgress
  <1>4. Frame' /\ Others(t) /\ pc'[t] = "write progress" /\ mem'[t] = n /\ open' = open
    BY <1>0, <1>3, GoesFrame DEF CatalogInv
  <1>5. pc[t] \in BatchPlaces /\ pc'[t] \in BatchPlaces
    BY <1>0, <1>4 DEF BatchPlaces, CountingPlaces
  <1>6. tally \in [SyncIds -> Tallies]
    BY DEF CatalogInv, SyncInv, Shapes
  <1>7. /\ tally'[s].sum = tally[s].sum
        /\ tally'[s].raced = (tally[s].raced \/ Counting(s) # {})
        /\ \A r \in SyncIds \ {s} : tally'[r] = tally[r]
    BY <1>1, <1>3, <1>6 DEF Tallies
  <1>8. Shapes'
    <2>1. tally' \in [SyncIds -> Tallies]
      BY <1>1, <1>3, <1>6 DEF Tallies
    <2>2. \A r \in SyncIds : r > created => r # s
      BY <1>1, CreatedBound DEF CatalogInv, SyncInv
    <2> QED
      BY <1>0, <1>7, <2>1, <2>2 DEF CatalogInv, SyncInv, Shapes
  <1>9. Exact(s)'
    <2> SUFFICES ASSUME ~tally[s].raced, Counting(s) = {} PROVE Exact(s)'
      BY <1>7 DEF Exact
    <2>1. Exact(s) /\ Percent(syncs[s].processed, 0)' = Percent(syncs[s].processed, 0)
      BY <1>0 DEF CatalogInv, SyncInv, Percent
    <2>2. \A u \in Counting(s)' : u = t
      BY <1>4 DEF Counting, CountingPlaces, Others, Of
    <2> QED
      BY <1>0, <1>2, <1>4, <1>7, <2>1, <2>2 DEF Exact
  <1>10. SyncInv'
    BY <1>0, <1>1, <1>4, <1>5, <1>7, <1>8, <1>9, BatchStep DEF CatalogInv
  <1> QED
    BY <1>0, <1>4, <1>10, ResultsStay DEF CatalogInv

\* Who writes alone moves the row from the tally to the next.
LEMMA WriteProgressInv ==
  ASSUME CatalogInv, NEW t \in Tasks, WriteProgress(t)
  PROVE  CatalogInv'
  <1>0. /\ pc[t] = "write progress"
        /\ UNCHANGED <<cache, created, results, analyzed, cut>>
    BY DEF WriteProgress, At
  <1>1. PICK s \in 1 .. created : s = Of(t) /\ s \in SyncIds
    BY <1>0, RowsOf DEF CatalogInv, SyncInv, Served, BatchPlaces, CountingPlaces
  <1>2. PICK n \in Nat : n = Cardinality(Products[open[t].as])
    BY <1>0, BatchSize DEF CatalogInv, SyncInv, Served, BatchPlaces, CountingPlaces
  <1>3. PICK k \in Nat : k = mem[t]
    BY <1>0 DEF CatalogInv, SyncInv, CountingPlaces
  <1>4. PICK m \in Nat : m = k + n
    OBVIOUS
  <1>5. PICK p \in 0 .. 90 : p = Percent(m, 0) /\ p = IF m = 0 THEN 0 ELSE 90
    BY PercentOf
  <1>6. /\ Goes(t, "cache progress", m)
        /\ syncs' = [syncs EXCEPT ![s].status = "running", ![s].processed = m, ![s].percent = p]
        /\ tally' = [tally EXCEPT ![s].sum = @ + n]
    BY <1>1, <1>2, <1>3, <1>4, <1>5 DEF WriteProgress
  <1>7. Frame' /\ Others(t) /\ pc'[t] = "cache progress" /\ mem'[t] = m /\ open' = open
    BY <1>0, <1>6, GoesFrame DEF CatalogInv
  <1>8. pc[t] \in BatchPlaces /\ pc'[t] \in BatchPlaces
    BY <1>0, <1>7 DEF BatchPlaces, CountingPlaces
  <1>9. /\ tally \in [SyncIds -> Tallies] /\ syncs[s] \in SyncRows
        /\ syncs = [r \in SyncIds |-> syncs[r]]
    BY DEF CatalogInv, SyncInv, Shapes
  <1>10. /\ tally'[s].sum = tally[s].sum + n /\ tally'[s].raced = tally[s].raced
         /\ tally'[s] \in Tallies /\ \A r \in SyncIds \ {s} : tally'[r] = tally[r]
    <2>1. PICK old \in Tallies : old = tally[s]
      BY <1>1, <1>9
    <2>2. PICK new : new = [old EXCEPT !.sum = @ + n]
      OBVIOUS
    <2>3. new \in Tallies /\ new.sum = old.sum + n /\ new.raced = old.raced
      BY <2>2 DEF Tallies
    <2>4. tally'[s] = new /\ \A r \in SyncIds \ {s} : tally'[r] = tally[r]
      BY <1>1, <1>6, <1>9, <2>1, <2>2
    <2> QED
      BY <2>1, <2>3, <2>4
  <1>11. /\ syncs'[s].processed = m /\ syncs'[s].percent = p /\ syncs'[s].status = "running"
         /\ syncs'[s] \in SyncRows /\ \A r \in SyncIds \ {s} : syncs'[r] = syncs[r]
    BY <1>1, <1>6, <1>9 DEF SyncRows
  <1>12. Shapes'
    <2>1. tally' \in [SyncIds -> Tallies] /\ syncs' = [r \in SyncIds |-> syncs'[r]]
      BY <1>1, <1>6, <1>9, <1>10
    <2>2. \A r \in SyncIds : r > created => r # s
      BY <1>1, CreatedBound DEF CatalogInv, SyncInv
    <2>3. \A r \in 1 .. created : r \in SyncIds /\ syncs[r] \in SyncRows
      BY RowsOf DEF CatalogInv, SyncInv
    <2>4. \A r \in 1 .. created' : syncs'[r] \in SyncRows
      BY <1>0, <1>11, <2>3
    <2> QED
      BY <1>0, <1>10, <2>1, <2>2, <2>4 DEF CatalogInv, SyncInv, Shapes
  <1>13. ~tally[s].raced =>
           /\ syncs[s].processed = k /\ tally[s].sum = k /\ \A u \in Counting(s) : u = t
           /\ syncs[s].percent = Percent(k, 0)
           /\ cache[s] # NotCached => cache[s].processed <= k /\ cache[s].percent <= syncs[s].percent
    <2>1. t \in Counting(s) /\ Exact(s)
      BY <1>0, <1>1 DEF CatalogInv, SyncInv, Counting
    <2> QED
      BY <1>3, <2>1 DEF Exact
  <1>14. ~tally[s].raced => syncs[s].percent <= p
    BY <1>4, <1>5, <1>13, PercentOf
  <1>15. Exact(s)'
    <2> SUFFICES ASSUME ~tally[s].raced PROVE Exact(s)'
      BY <1>10 DEF Exact
    <2>1. syncs'[s].processed = tally'[s].sum
      BY <1>4, <1>10, <1>11, <1>13
    <2>2. syncs'[s].percent = Percent(syncs[s].processed, 0)'
      BY <1>5, <1>11 DEF Percent
    <2>3. cache[s] # NotCached => cache[s].processed <= m /\ cache[s].percent <= p
      <3> SUFFICES ASSUME cache[s] # NotCached PROVE cache[s].processed <= m /\ cache[s].percent <= p
        OBVIOUS
      <3>1. cache[s].processed \in Nat /\ cache[s].percent \in 0 .. 90 /\ syncs[s].percent \in 0 .. 90
        BY <1>9, RowsOf DEF CatalogInv, SyncInv, Answers, SyncRows
      <3>2. cache[s].processed <= k /\ cache[s].percent <= syncs[s].percent
        BY <1>13
      <3>3. PICK a \in Nat : a = cache[s].processed
        BY <3>1
      <3>4. PICK b \in 0 .. 90 : b = cache[s].percent
        BY <3>1
      <3>5. PICK c \in 0 .. 90 : c = syncs[s].percent
        BY <3>1
      <3>6. a <= k /\ b <= c /\ c <= p
        BY <1>14, <3>2, <3>3, <3>4, <3>5
      <3>7. a <= m /\ b <= p
        BY <1>4, <3>6
      <3> QED
        BY <3>3, <3>4, <3>7
    <2>4. \A u \in Counting(s)' : u = t
      BY <1>7, <1>13 DEF Counting, CountingPlaces, Others, Of
    <2> QED
      BY <1>0, <1>7, <1>11, <2>1, <2>2, <2>3, <2>4 DEF Exact
  <1>16. SyncInv'
    BY <1>0, <1>1, <1>7, <1>8, <1>10, <1>11, <1>12, <1>15, BatchStep DEF CatalogInv
  <1> QED
    BY <1>0, <1>7, <1>16, ResultsStay DEF CatalogInv

\* Who has written alone caches what the row says.
LEMMA CacheProgressInv ==
  ASSUME CatalogInv, NEW t \in Tasks, CacheProgress(t)
  PROVE  CatalogInv'
  <1>0. /\ pc[t] = "cache progress" /\ Ends(t)
        /\ UNCHANGED <<syncs, created, tally, results, analyzed, cut>>
    BY DEF CacheProgress, At
  <1>1. PICK s \in 1 .. created : s = Of(t) /\ s \in SyncIds
    BY <1>0, RowsOf DEF CatalogInv, SyncInv, Served, BatchPlaces, CountingPlaces
  <1>2. PICK m \in Nat : m = mem[t]
    BY <1>0 DEF CatalogInv, SyncInv, CountingPlaces
  <1>3. PICK p \in 0 .. 90 : p = Percent(m, 0)
    BY PercentOf
  <1>4. PICK row \in Answers : row.status = "running" /\ row.processed = m /\ row.percent = p
                                  /\ row = [status |-> "running", processed |-> m, percent |-> p]
    BY DEF Answers
  <1>5. cache' = [cache EXCEPT ![s] = row]
    BY <1>1, <1>2, <1>3, <1>4 DEF CacheProgress
  <1>6. Frame' /\ Others(t) /\ pc'[t] = "idle"
    BY <1>0, EndsFrame DEF CatalogInv
  <1>7. pc[t] \in BatchPlaces /\ pc'[t] \notin BatchPlaces /\ pc'[t] \notin CountingPlaces
    BY <1>0, <1>6 DEF BatchPlaces, CountingPlaces
  <1>8. cache'[s] = row /\ \A r \in SyncIds \ {s} : cache'[r] = cache[r]
    BY <1>1, <1>5 DEF CatalogInv, SyncInv, Shapes
  <1>9. Shapes'
    <2>1. cache' \in [SyncIds -> Answers \cup {NotCached}]
      BY <1>1, <1>5 DEF CatalogInv, SyncInv, Shapes
    <2>2. \A r \in SyncIds : r > created => r # s
      BY <1>1, CreatedBound DEF CatalogInv, SyncInv
    <2> QED
      BY <1>0, <1>8, <2>1, <2>2 DEF CatalogInv, SyncInv, Shapes
  <1>10. ~tally[s].raced => /\ syncs[s].processed = m /\ syncs[s].percent = p
                            /\ syncs[s].status = "running" /\ syncs[s].processed = tally[s].sum
                            /\ \A u \in Counting(s) : u = t
                            /\ cache[s] # NotCached =>
                                 cache[s].processed <= m /\ cache[s].percent <= p
    <2>1. t \in Counting(s) /\ Exact(s)
      BY <1>0, <1>1 DEF CatalogInv, SyncInv, Counting
    <2> QED
      BY <1>0, <1>2, <1>3, <2>1 DEF Exact
  <1>11. Exact(s)'
    <2> SUFFICES ASSUME ~tally[s].raced PROVE Exact(s)'
      BY <1>0 DEF Exact
    <2>1. Counting(s)' = {}
      BY <1>6, <1>7, <1>10 DEF Counting, CountingPlaces, Others, Of
    <2>2. syncs'[s].percent = Percent(syncs[s].processed, 0)'
      BY <1>0, <1>3, <1>10 DEF Percent
    <2>3. cache'[s].processed <= syncs'[s].processed /\ cache'[s].percent <= syncs'[s].percent
      <3>1. cache'[s].processed = m /\ cache'[s].percent = p
        BY <1>4, <1>8
      <3>2. syncs'[s].processed = m /\ syncs'[s].percent = p
        BY <1>0, <1>10
      <3>3. m <= m /\ p <= p
        OBVIOUS
      <3> QED
        BY <3>1, <3>2, <3>3
    <2> QED
      BY <1>0, <1>10, <2>1, <2>2, <2>3 DEF Exact
  <1>12. SyncInv'
    BY <1>0, <1>1, <1>6, <1>7, <1>8, <1>9, <1>11, BatchStep DEF CatalogInv
  <1> QED
    BY <1>0, <1>6, <1>12, ResultsStay DEF CatalogInv

-----------------------------------------------------------------------------
\* A poll changes nothing but what it has shown.

LEMMA PollCacheInv ==
  ASSUME CatalogInv, NEW t \in Tasks, PollCache(t)
  PROVE  CatalogInv'
  <1>0. /\ pc[t] = "progress"
        /\ Ends(t) \/ Goes(t, "find sync", None)
        /\ UNCHANGED <<syncs, created, cache, tally, results, analyzed, cut>>
    BY DEF PollCache, At
  <1>1. CASE Ends(t)
    BY <1>0, <1>1, EndStep
  <1>2. CASE Goes(t, "find sync", None)
    <2>1. Frame' /\ Others(t) /\ pc'[t] = "find sync"
      BY <1>0, <1>2, GoesFrame DEF CatalogInv
    <2> QED
      BY <1>0, <2>1, SyncsStay, ResultsStay
         DEF CatalogInv, BatchPlaces, CountingPlaces, StartPlaces
  <1> QED
    BY <1>0, <1>1, <1>2

LEMMA PollRowInv ==
  ASSUME CatalogInv, NEW t \in Tasks, PollRow(t)
  PROVE  CatalogInv'
  BY EndStep DEF PollRow, At

-----------------------------------------------------------------------------
\* The AI's results, and handlers that are cut short.

LEMMA StoreResultInv ==
  ASSUME CatalogInv, NEW t \in Tasks, StoreResult(t)
  PROVE  CatalogInv'
  <1>0. pc[t] = "result" /\ UNCHANGED <<syncs, created, cache, tally, analyzed, cut>>
    BY DEF StoreResult, At
  <1>1. CASE Ends(t) /\ UNCHANGED results
    BY <1>0, <1>1, EndStep
  <1>2. CASE results' = results \cup {ResultOf(t)} /\ Goes(t, "mark", None)
    <2>1. Frame' /\ Others(t) /\ pc'[t] = "mark" /\ open' = open
      BY <1>0, <1>2, GoesFrame DEF CatalogInv
    <2>2. SyncInv'
      BY <1>0, <2>1, SyncsStay DEF CatalogInv, BatchPlaces, CountingPlaces, StartPlaces
    <2>3. ASSUME NEW r \in results, NEW u \in Tasks, pc[u] = "mark", ResultOf(u) = r
          PROVE  pc'[u] = "mark" /\ ResultOf(u)' = r
      BY <1>0, <2>1, <2>3 DEF Others, ResultOf, Of
    <2>4. pc'[t] = "mark" /\ ResultOf(t)' = ResultOf(t)
      BY <2>1 DEF ResultOf, Of
    <2>5. ResultsReachItems'
      BY <1>0, <1>2, <2>3, <2>4 DEF CatalogInv, ResultsReachItems, At
    <2> QED
      BY <2>1, <2>2, <2>5 DEF CatalogInv
  <1> QED
    BY <1>1, <1>2 DEF StoreResult

\* The run that marks an item, or is cut short before it does.
LEMMA LeavesMark ==
  ASSUME CatalogInv, NEW t \in Tasks, Ends(t), pc[t] = "mark",
         UNCHANGED <<syncs, created, cache, tally, results>>,
         analyzed \subseteq analyzed', cut \subseteq cut', Of(t) \in analyzed' \/ ResultOf(t) \in cut'
  PROVE  CatalogInv'
  <1>1. Frame' /\ Others(t) /\ pc'[t] = "idle"
    BY EndsFrame DEF CatalogInv
  <1>2. SyncInv'
    BY <1>1, SyncsStay DEF CatalogInv, BatchPlaces, CountingPlaces, StartPlaces
  <1>3. ASSUME NEW r \in results
        PROVE  r[1] \in analyzed' \/ r \in cut'
                 \/ \E u \in Tasks : pc'[u] = "mark" /\ ResultOf(u)' = r
    <2>0. ResultOf(t)[1] = Of(t)
      BY DEF ResultOf
    <2>1. CASE \E u \in Tasks : pc[u] = "mark" /\ ResultOf(u) = r /\ u # t
      BY <1>1, <2>1 DEF Others, ResultOf, Of
    <2>2. CASE ~\E u \in Tasks : pc[u] = "mark" /\ ResultOf(u) = r /\ u # t
      BY <2>0, <2>2 DEF CatalogInv, ResultsReachItems, At
    <2> QED
      BY <2>1, <2>2
  <1>4. ResultsReachItems'
    BY <1>3 DEF ResultsReachItems, At
  <1> QED
    BY <1>1, <1>2, <1>4 DEF CatalogInv

LEMMA MarkAnalyzedInv ==
  ASSUME CatalogInv, NEW t \in Tasks, MarkAnalyzed(t)
  PROVE  CatalogInv'
  BY LeavesMark DEF MarkAnalyzed, At

LEMMA CatalogDiesInv ==
  ASSUME CatalogInv, NEW t \in Tasks, CatalogDies(t)
  PROVE  CatalogInv'
  <1>1. CASE pc[t] = "mark"
    BY <1>1, LeavesMark DEF CatalogDies, At
  <1>2. CASE pc[t] # "mark"
    <2>1. cut' = cut
      BY <1>2 DEF CatalogDies, At
    <2> QED
      BY <1>2, <2>1, EndStep DEF CatalogDies
  <1> QED
    BY <1>1, <1>2

LEMMA CatalogStepInv ==
  ASSUME CatalogInv, Placed, NEW t \in Tasks, CatalogStep(t)
  PROVE  CatalogInv'
  BY CheckRunningInv, CreateSyncInv, CacheStartInv, StoreItemsInv, ReadProgressInv,
     WriteProgressInv, CacheProgressInv, PollCacheInv, PollRowInv, StoreResultInv,
     MarkAnalyzedInv
     DEF CatalogStep

-----------------------------------------------------------------------------


(* Where a step takes its run: to an end, or on within its service.        *)

Moves(t, P) == /\ Frame' /\ Others(t) /\ begun' = begun
               /\ pc[t] \in P
               /\ \/ pc'[t] = "idle" /\ open'[t] = None
                  \/ pc'[t] \in P /\ open' = open

LEMMA EndsMoves ==
  ASSUME Frame, NEW t \in Tasks, NEW P, pc[t] \in P, Ends(t)
  PROVE  Moves(t, P)
  BY EndsFrame DEF Moves

LEMMA GoesMoves ==
  ASSUME Frame, NEW t \in Tasks, NEW P, pc[t] \in P, "idle" \notin P,
         NEW where \in P, NEW what, Goes(t, where, what)
  PROVE  Moves(t, P) /\ pc'[t] = where /\ mem'[t] = what
  <1>1. pc[t] # "idle" /\ where # "idle"
    OBVIOUS
  <1> QED
    BY <1>1, GoesFrame DEF Moves

LEMMA CatalogMoves ==
  ASSUME Frame, NEW t \in Tasks, CatalogStep(t)
  PROVE  Moves(t, CatalogPlaces) /\ (pc'[t] = "mark" => pc[t] = "result")
  <1> USE DEF CatalogPlaces, BatchPlaces, CountingPlaces, StartPlaces
  <1>1. pc[t] \in CatalogPlaces /\ "idle" \notin CatalogPlaces
    BY DEF CatalogStep, CheckRunning, CreateSync, CacheStart, StoreItems, ReadProgress,
           WriteProgress, CacheProgress, PollCache, PollRow, StoreResult, MarkAnalyzed, At
  <1>2. CASE Ends(t)
    BY <1>1, <1>2, EndsMoves, EndsFrame
  <1>3. ASSUME NEW where \in CatalogPlaces, NEW what, Goes(t, where, what)
        PROVE  Moves(t, CatalogPlaces) /\ pc'[t] = where
    BY <1>1, <1>3, GoesMoves
  <1>4. PICK seen : seen = Cardinality(SyncsOf(Of(t)))
    OBVIOUS
  <1>5. PICK next : next = created + 1
    OBVIOUS
  <1>6. PICK done : done = syncs[Of(t)].processed
    OBVIOUS
  <1>7. PICK more : more = mem[t] + Cardinality(Products[open[t].as])
    OBVIOUS
  <1>8. \/ Ends(t) \/ Goes(t, "create sync", seen) \/ Goes(t, "cache start", next)
        \/ Goes(t, "read progress", None) \/ Goes(t, "write progress", done)
        \/ Goes(t, "cache progress", more) \/ Goes(t, "find sync", None) \/ (Goes(t, "mark", None) /\ pc[t] = "result")
    BY <1>4, <1>5, <1>6, <1>7
       DEF CatalogStep, CheckRunning, CreateSync, CacheStart, StoreItems, ReadProgress,
           WriteProgress, CacheProgress, PollCache, PollRow, StoreResult, MarkAnalyzed, At
  <1>9. Moves(t, CatalogPlaces)
    BY <1>2, <1>3, <1>8
  <1>10. ASSUME pc'[t] = "mark"
         PROVE  pc[t] = "result"
    <2>1. ~Ends(t)
      BY <1>10, EndsFrame
    <2>2. ASSUME NEW where \in CatalogPlaces, NEW what, Goes(t, where, what)
          PROVE  where = "mark"
      BY <1>3, <1>10, <2>2
    <2> QED
      BY <1>8, <2>1, <2>2
  <1> QED
    BY <1>9, <1>10

LEMMA ConnectorMoves ==
  ASSUME Frame, NEW t \in Tasks, ConnectorStep(t)
  PROVE  Moves(t, ConnectorPlaces)
  <1> USE DEF ConnectorPlaces
  <1>1. pc[t] \in ConnectorPlaces /\ "idle" \notin ConnectorPlaces
    BY DEF ConnectorStep, Authenticate, FetchPage, At
  <1>2. CASE Ends(t)
    BY <1>1, <1>2, EndsMoves
  <1>3. CASE Goes(t, "page", None)
    BY <1>1, <1>3, GoesMoves
  <1> QED
    BY <1>2, <1>3 DEF ConnectorStep, Authenticate, FetchPage, Settles

LEMMA AIMoves ==
  ASSUME Frame, NEW t \in Tasks, AIStep(t)
  PROVE  Moves(t, AIPlaces)
  <1> USE DEF AIPlaces
  <1>1. pc[t] \in AIPlaces /\ "idle" \notin AIPlaces
    BY DEF AIStep, RequestAnalysis, Validate, Download, ExtractColours, AskAgain, Answered,
           Gathered, TimesOut, At
  <1>2. CASE Ends(t)
    BY <1>1, <1>2, EndsMoves
  <1>3. ASSUME NEW where \in {"download", "analyze"}, NEW what, Goes(t, where, what)
        PROVE  Moves(t, AIPlaces)
    BY <1>1, <1>3, GoesMoves
  <1>4. PICK next : next = mem[t] + 1
    OBVIOUS
  <1>5. PICK call : call = [mem[t] EXCEPT !.call = @ + 1]
    OBVIOUS
  <1>6. PICK answer : answer = [mem[t] EXCEPT !.call = 0]
    OBVIOUS
  <1>7. PICK found : found = [mem[t] EXCEPT !.colours = "colours"]
    OBVIOUS
  <1>8. PICK none : none = [mem[t] EXCEPT !.colours = "none"]
    OBVIOUS
  <1>9. PICK due : due = [colours |-> "due", call |-> 1]
    OBVIOUS
  <1>10. \/ Ends(t) \/ Goes(t, "download", 1) \/ Goes(t, "download", next)
         \/ Goes(t, "analyze", due) \/ Goes(t, "analyze", found) \/ Goes(t, "analyze", none)
         \/ Goes(t, "analyze", call) \/ Goes(t, "analyze", answer)
    BY <1>4, <1>5, <1>6, <1>7, <1>8, <1>9
       DEF AIStep, RequestAnalysis, Validate, Download, ExtractColours, AskAgain, Answered,
           Gathered, TimesOut, Verdict
  <1> QED
    BY <1>2, <1>3, <1>10

LEMMA SelfieMoves ==
  ASSUME Frame, NEW t \in Tasks, SelfieStep(t)
  PROVE  Moves(t, SelfiePlaces)
  <1> USE DEF SelfiePlaces, JobPlaces
  <1>1. pc[t] \in SelfiePlaces /\ "idle" \notin SelfiePlaces
    BY DEF SelfieStep, FindByHash, CreateAnalysis, ClaimAnalyses, AskAnalyzer, Answer,
           UpdateWithResults, MarkFailed, At
  <1>2. CASE Ends(t)
    BY <1>1, <1>2, EndsMoves
  <1>3. ASSUME NEW where \in SelfiePlaces, Goes(t, where, None)
        PROVE  Moves(t, SelfiePlaces)
    BY <1>1, <1>3, GoesMoves
  <1>4. \/ Ends(t) \/ Goes(t, "insert", None) \/ Goes(t, "asking", None)
        \/ Goes(t, "mark failed", None) \/ Goes(t, "store", None)
    BY DEF SelfieStep, FindByHash, CreateAnalysis, ClaimAnalyses, AskAnalyzer, Answer,
           UpdateWithResults, MarkFailed
  <1> QED
    BY <1>2, <1>3, <1>4

LEMMA AnalyzerMoves ==
  ASSUME Frame, NEW t \in Tasks, AnalyzerStep(t)
  PROVE  Moves(t, AnalyzerPlaces)
  <1> USE DEF AnalyzerPlaces
  <1>1. pc[t] \in AnalyzerPlaces /\ "idle" \notin AnalyzerPlaces
    BY DEF AnalyzerStep, Receive, Finish, TotalTimeout, ThreadTakes, ThreadEnds,
           PipelineTimesOut, At
  <1>2. ASSUME Ends(t)
        PROVE  Moves(t, AnalyzerPlaces)
    BY <1>1, <1>2, EndsMoves
  <1>3. ASSUME NEW what, Goes(t, "pipelines", what)
        PROVE  Moves(t, AnalyzerPlaces)
    BY <1>1, <1>3, GoesMoves
  <1>4. CASE Receive(t)
    <2>1. PICK queued : queued = [p \in Pipelines |-> "queued"]
      OBVIOUS
    <2>2. Ends(t) \/ Goes(t, "pipelines", queued)
      BY <1>4, <2>1 DEF Receive, Leaves
    <2> QED
      BY <1>2, <1>3, <2>2
  <1>5. CASE Finish(t) \/ TotalTimeout(t)
    BY <1>2, <1>5 DEF Finish, TotalTimeout, Leaves
  <1>6. ASSUME NEW p \in Pipelines, ThreadTakes(t, p) \/ ThreadEnds(t, p) \/ PipelineTimesOut(t, p)
        PROVE  Moves(t, AnalyzerPlaces)
    <2>1. PICK running : running = [mem[t] EXCEPT ![p] = "running"]
      OBVIOUS
    <2>2. PICK over : over = [mem[t] EXCEPT ![p] = "over"]
      OBVIOUS
    <2>3. Goes(t, "pipelines", running) \/ Goes(t, "pipelines", over)
      BY <1>6, <2>1, <2>2 DEF ThreadTakes, ThreadEnds, PipelineTimesOut
    <2> QED
      BY <1>3, <2>3
  <1> QED
    BY <1>4, <1>5, <1>6 DEF AnalyzerStep

-----------------------------------------------------------------------------
(* What catalog-service keeps true while others work.                      *)

LEMMA OtherStep ==
  ASSUME CatalogInv, NEW t \in Tasks, NEW P, Moves(t, P),
         P \cap (BatchPlaces \cup StartPlaces \cup {"mark"}) = {}, UNCHANGED catalogVars
  PROVE  CatalogInv'
  <1>1. UNCHANGED <<syncs, created, cache, tally, results, analyzed, cut>>
    BY DEF catalogVars
  <1>2. /\ Frame' /\ Others(t) /\ pc[t] # "mark"
        /\ pc'[t] \notin BatchPlaces \cup StartPlaces
    BY DEF Moves, BatchPlaces, CountingPlaces, StartPlaces
  <1> QED
    BY <1>1, <1>2, SyncsStay, ResultsStay DEF CatalogInv

LEMMA OtherServices ==
  /\ ConnectorPlaces \cap (BatchPlaces \cup StartPlaces \cup {"mark"}) = {}
  /\ AIPlaces \cap (BatchPlaces \cup StartPlaces \cup {"mark"}) = {}
  /\ SelfiePlaces \cap (BatchPlaces \cup StartPlaces \cup {"mark"}) = {}
  /\ AnalyzerPlaces \cap (BatchPlaces \cup StartPlaces \cup {"mark"}) = {}
  BY DEF ConnectorPlaces, AIPlaces, SelfiePlaces, JobPlaces, AnalyzerPlaces,
         BatchPlaces, CountingPlaces, StartPlaces

LEMMA OtherStepInv ==
  ASSUME CatalogInv, NEW t \in Tasks, UNCHANGED catalogVars,
         ConnectorStep(t) \/ AIStep(t) \/ SelfieStep(t) \/ AnalyzerStep(t)
  PROVE  CatalogInv'
  <1>1. \/ Moves(t, ConnectorPlaces) \/ Moves(t, AIPlaces)
        \/ Moves(t, SelfiePlaces) \/ Moves(t, AnalyzerPlaces)
    BY ConnectorMoves, AIMoves, SelfieMoves, AnalyzerMoves DEF CatalogInv
  <1> QED
    BY <1>1, OtherStep, OtherServices

\* The process of another service dies.
LEMMA GoneInv ==
  ASSUME CatalogInv, NEW T, Gone(T), \A t \in Tasks : t \in T => pc[t] # "mark",
         UNCHANGED catalogVars
  PROVE  CatalogInv'
  <1>1. /\ Frame'
        /\ \A t \in Tasks : \/ pc'[t] = "idle" /\ pc[t] # "mark"
                            \/ pc'[t] = pc[t] /\ open'[t] = open[t] /\ mem'[t] = mem[t]
    BY GoneFrame DEF CatalogInv
  <1>2. UNCHANGED <<syncs, created, cache, tally, results, analyzed, cut>>
    BY DEF catalogVars
  <1>3. Shapes' /\ \A t \in Tasks : Served(t)' /\ (pc'[t] \in CountingPlaces => mem'[t] \in Nat)
    BY <1>1, <1>2 DEF CatalogInv, SyncInv, Shapes, Served, Of, BatchPlaces, CountingPlaces
  <1>4. ASSUME NEW t \in Tasks
        PROVE  Starting(t)'
    <2>1. Starting(t)
      BY DEF CatalogInv, SyncInv
    <2>2. ASSUME NEW u \in Tasks, pc'[u] # "idle"
          PROVE  pc'[u] = pc[u] /\ mem'[u] = mem[u] /\ Of(u)' = Of(u)
      BY <1>1, <2>2 DEF Of
    <2> QED
      BY <1>2, <2>1, <2>2 DEF Starting, Fresh, BatchPlaces, CountingPlaces
  <1>5. ASSUME NEW s \in 1 .. created
        PROVE  Exact(s)'
    <2>1. Exact(s)
      BY DEF CatalogInv, SyncInv
    <2>2. \A u \in Counting(s)' : u \in Counting(s) /\ mem'[u] = mem[u] /\ pc'[u] = pc[u]
      BY <1>1 DEF Counting, Of
    <2>3. Percent(syncs[s].processed, 0)' = Percent(syncs[s].processed, 0)
      BY <1>2 DEF Percent
    <2> QED
      BY <1>2, <2>1, <2>2, <2>3 DEF Exact
  <1>7. ASSUME NEW r \in results
        PROVE  r[1] \in analyzed \/ r \in cut
                 \/ \E u \in Tasks : pc'[u] = "mark" /\ ResultOf(u)' = r
    <2>1. CASE \E u \in Tasks : pc[u] = "mark" /\ ResultOf(u) = r
      BY <1>1, <2>1 DEF ResultOf, Of
    <2>2. CASE ~\E u \in Tasks : pc[u] = "mark" /\ ResultOf(u) = r
      BY <2>2 DEF CatalogInv, ResultsReachItems, At
    <2> QED
      BY <2>1, <2>2
  <1>8. ResultsReachItems'
    BY <1>2, <1>7 DEF ResultsReachItems, At
  <1> QED
    BY <1>1, <1>2, <1>3, <1>4, <1>5, <1>8 DEF CatalogInv, SyncInv

\* A batch arrives for a sync that is there and that no start still has for
\* itself.
LEMMA SubmitsInv ==
  ASSUME CatalogInv, NEW t \in Tasks, Submits(t)
  PROVE  CatalogInv'
  <1>0. Start(t) /\ UNCHANGED <<syncs, created, cache, tally, results, analyzed, cut>>
    BY DEF Submits, productVars, catalogVars
  <1>1. /\ Frame' /\ Others(t) /\ pc[t] = "idle" /\ open'[t] \in Work
        /\ pc'[t] = open'[t].kind /\ mem' = mem
    BY <1>0, KindsNotIdle, StartFrame DEF CatalogInv
  <1>2. PICK w \in Work : w = open'[t]
    BY <1>1
  <1>3. ResultsReachItems'
    BY <1>0, <1>1, ResultsStay DEF CatalogInv
  <1>4. CASE w.kind # "batch"
    <2>1. pc'[t] \notin BatchPlaces \cup StartPlaces
      BY <1>1, <1>2, <1>4, KindsOfWork DEF BatchPlaces, CountingPlaces, StartPlaces
    <2> QED
      BY <1>0, <1>1, <1>3, <2>1, SyncsStay DEF CatalogInv
  <1>5. CASE w.kind = "batch"
    <2>1. Announced(w.of)
      BY <1>2, <1>5 DEF Submits
    <2>2. /\ pc'[t] = "batch" /\ Of(t)' = w.of
          /\ w.of \in 1 .. created
          /\ \A u \in Tasks : ~(pc[u] = "cache start" /\ mem[u] = w.of)
      BY <1>1, <1>2, <1>5, <2>1 DEF Announced, At, Of
    <2>3. Shapes'
      BY <1>0 DEF CatalogInv, SyncInv, Shapes
    <2>4. \A u \in Tasks : Served(u)'
      BY <1>0, <1>1, <1>2, <1>5, <2>2 DEF CatalogInv, SyncInv, Served, Others, Of
    <2>5. ASSUME NEW u \in Tasks
          PROVE  Starting(u)'
      <3>1. CASE u = t
        BY <2>2, <3>1 DEF Starting
      <3>2. CASE u # t
        <4>1. pc[u] = "cache start" => Fresh(mem[u])' /\ Of(t)' # mem[u]
          BY <1>0, <1>1, <2>2 DEF CatalogInv, SyncInv, Starting, Fresh
        <4> QED
          BY <1>0, <1>1, <2>2, <3>2, <4>1, StartingKept DEF CatalogInv
      <3> QED
        BY <3>1, <3>2
    <2>6. \A u \in Tasks : pc'[u] \in CountingPlaces => mem'[u] \in Nat
      BY <1>1, <2>2 DEF CatalogInv, SyncInv, CountingPlaces, Others
    <2>7. ASSUME NEW s \in 1 .. created
          PROVE  Exact(s)'
      <3>1. Exact(s) /\ pc'[t] \notin CountingPlaces
        BY <2>2 DEF CatalogInv, SyncInv, CountingPlaces
      <3> QED
        BY <1>0, <1>1, <3>1, ExactKept
    <2> QED
      BY <1>0, <1>1, <1>3, <2>3, <2>4, <2>5, <2>6, <2>7 DEF CatalogInv, SyncInv
  <1> QED
    BY <1>4, <1>5

LEMMA StillInv ==
  ASSUME CatalogInv, UNCHANGED <<reqVars, catalogVars>>
  PROVE  CatalogInv'
  <1>1. UNCHANGED <<reqVars, pc, mem, open, syncs, created, cache, tally, results, analyzed, cut>>
    BY DEF catalogVars, reqVars
  <1>2. Frame'
    BY <1>1, StayFrame DEF CatalogInv
  <1>3. Shapes' /\ \A u \in Tasks : Served(u)' /\ Starting(u)'
    BY <1>1 DEF CatalogInv, SyncInv, Shapes, Served, Starting, Fresh, Of
  <1>4. \A u \in Tasks : pc'[u] \in CountingPlaces => mem'[u] \in Nat
    BY <1>1 DEF CatalogInv, SyncInv
  <1>5. ASSUME NEW s \in 1 .. created
        PROVE  Exact(s)'
    <2>1. Exact(s) /\ Counting(s)' = Counting(s)
      BY <1>1 DEF CatalogInv, SyncInv, Counting, Of
    <2>2. Percent(syncs[s].processed, 0)' = Percent(syncs[s].processed, 0)
      BY <1>1 DEF Percent
    <2> QED
      BY <1>1, <2>1, <2>2 DEF Exact
  <1>6. ResultsReachItems'
    BY <1>1 DEF CatalogInv, ResultsReachItems, ResultOf, At, Of
  <1> QED
    BY <1>1, <1>2, <1>3, <1>4, <1>5, <1>6 DEF CatalogInv, SyncInv

-----------------------------------------------------------------------------
(* Every run keeps to the code of its service.                             *)

LEMMA InitPlaced == Init => Placed
  BY InitFrame DEF Init, Placed

\* A run of another place goes on being placed, and so does the one that
\* moved.
LEMMA MovesPlaced ==
  ASSUME Frame, Placed, NEW t \in Tasks,
         NEW P \in {CatalogPlaces, ConnectorPlaces, AIPlaces, SelfiePlaces, AnalyzerPlaces},
         Moves(t, P)
  PROVE  Placed'
  <1>1. ASSUME NEW u \in Tasks, u # t
        PROVE  pc'[u] = pc[u] /\ open'[u] = open[u]
    BY <1>1 DEF Moves, Others
  <1>2. CASE pc'[t] = "idle" /\ open'[t] = None
    BY <1>1, <1>2 DEF Placed
  <1>3. CASE pc'[t] \in P /\ open' = open
    <2>1. pc[t] \in P /\ pc[t] # "idle"
      BY DEF Moves, CatalogPlaces, BatchPlaces, CountingPlaces, StartPlaces,
             ConnectorPlaces, AIPlaces, SelfiePlaces, JobPlaces, AnalyzerPlaces
    <2>2. open[t] # None
      BY <2>1 DEF Frame
    <2> QED
      BY <1>1, <1>3, <2>1, <2>2, ServiceOf DEF Placed
  <1> QED
    BY <1>2, <1>3 DEF Moves

LEMMA SubmitsPlaced ==
  ASSUME Frame, Placed, NEW t \in Tasks, Submits(t)
  PROVE  Placed'
  <1>1. /\ Others(t) /\ open'[t] \in Work /\ pc'[t] = open'[t].kind
    BY KindsNotIdle, StartFrame DEF Submits
  <1>2. PICK w \in Work : w = open'[t]
    BY <1>1
  <1>3. \/ w.service = "catalog" /\ w.kind \in CatalogPlaces
        \/ w.service = "connector" /\ w.kind \in ConnectorPlaces
        \/ w.service = "ai" /\ w.kind \in AIPlaces
        \/ w.service = "selfie" /\ w.kind \in SelfiePlaces
        \/ w.service = "analyzer" /\ w.kind \in AnalyzerPlaces
    BY KindsAssumption
       DEF CatalogPlaces, BatchPlaces, ConnectorPlaces, AIPlaces, SelfiePlaces, JobPlaces,
           AnalyzerPlaces
  <1> QED
    BY <1>1, <1>2, <1>3 DEF Placed, Others

LEMMA GonePlaced ==
  ASSUME Frame, Placed, NEW T, Gone(T)
  PROVE  Placed'
  <1>1. \A t \in Tasks : \/ open'[t] = None
                         \/ open'[t] = open[t] /\ pc'[t] = pc[t]
    BY GoneFrame
  <1> QED
    BY <1>1 DEF Placed

LEMMA InitCatalogInv == Init => CatalogInv
  <1> SUFFICES ASSUME Init PROVE CatalogInv
    OBVIOUS
  <1>1. Frame /\ \A t \in Tasks : pc[t] = "idle"
    BY InitFrame DEF Init
  <1>2. 1 .. created = {} /\ created \in 0 .. MaxSyncs
    BY BoundOfSyncs DEF Init, CatalogInit
  <1>3. Shapes
    <2>1. [sum |-> 0, raced |-> FALSE] \in Tallies
      BY DEF Tallies
    <2>2. tally \in [SyncIds -> Tallies] /\ cache \in [SyncIds -> Answers \cup {NotCached}]
      BY <2>1 DEF Init, CatalogInit
    <2>3. syncs = [s \in SyncIds |-> syncs[s]]
      BY DEF Init, CatalogInit
    <2>4. \A s \in SyncIds : cache[s] = NotCached /\ tally[s] = [sum |-> 0, raced |-> FALSE]
      BY DEF Init, CatalogInit
    <2> QED
      BY <1>2, <2>2, <2>3, <2>4 DEF Shapes
  <1>4. \A t \in Tasks : Served(t) /\ Starting(t) /\ pc[t] \notin CountingPlaces
    BY <1>1 DEF Served, Starting, BatchPlaces, CountingPlaces
  <1>5. ResultsReachItems
    BY DEF Init, CatalogInit, ResultsReachItems
  <1> QED
    BY <1>1, <1>2, <1>3, <1>4, <1>5 DEF CatalogInv, SyncInv

LEMMA ProductMoves ==
  ASSUME Frame, NEW t \in Tasks, ProductStep(t)
  PROVE  /\ Moves(t, CatalogPlaces) \/ Moves(t, ConnectorPlaces) \/ Moves(t, AIPlaces)
         /\ UNCHANGED photoVars
  BY CatalogMoves, ConnectorMoves, AIMoves DEF ProductStep

LEMMA PhotoMoves ==
  ASSUME Frame, NEW t \in Tasks, PhotoStep(t)
  PROVE  /\ Moves(t, SelfiePlaces) \/ Moves(t, AnalyzerPlaces)
         /\ UNCHANGED productVars
  BY SelfieMoves, AnalyzerMoves DEF PhotoStep

\* Who dies with which process: its runs, and no others.
LEMMA SelfiesGone ==
  ASSUME Frame, Placed, SelfieDies
  PROVE  Gone(Working) /\ \A t \in Working : pc[t] \in SelfiePlaces
  <1>1. Gone(Working)
    BY DEF SelfieDies, Gone
  <1>2. \A t \in Working : t \in Tasks /\ open[t] # None /\ open[t].service = "selfie"
    BY RequestsAssumption DEF Working, SelfieWork
  <1> QED
    BY <1>1, <1>2 DEF Placed

LEMMA AnalyzerGone ==
  ASSUME Frame, Placed, AnalyzerDies
  PROVE  Gone(AtWork) /\ \A t \in AtWork : pc[t] \in AnalyzerPlaces
  <1>1. Gone(AtWork)
    BY DEF AnalyzerDies, Gone
  <1>2. \A t \in AtWork : t \in Tasks /\ open[t] # None /\ open[t].service = "analyzer"
    BY RequestsAssumption DEF AtWork, Photographs
  <1> QED
    BY <1>1, <1>2 DEF Placed

LEMMA DiesMoves ==
  ASSUME Frame, Placed, NEW t \in Tasks, Dies(t)
  PROVE  Moves(t, CatalogPlaces) \/ Moves(t, ConnectorPlaces) \/ Moves(t, AIPlaces)
  <1>1. pc[t] \in CatalogPlaces \/ pc[t] \in ConnectorPlaces \/ pc[t] \in AIPlaces
    BY DEF Dies, OnProducts, Placed
  <1> QED
    BY <1>1, EndsMoves DEF Dies, CatalogDies

\* What the hosts do beside the runs.
LEMMA HostSteps ==
  ASSUME Frame, Placed, Host
  PROVE  \/ UNCHANGED reqVars
         \/ SelfieDies /\ Gone(Working) /\ \A t \in Working : pc[t] \in SelfiePlaces
         \/ AnalyzerDies /\ Gone(AtWork) /\ \A t \in AtWork : pc[t] \in AnalyzerPlaces
  BY SelfiesGone, AnalyzerGone
     DEF Host, SelfieHost, AnalyzerHost, CacheExpires, Time, Sweep, SelfieRestarts, StrayEnds,
         AnalyzerStops, Cleanup, reqVars

LEMMA StepPlaced == Frame /\ Placed /\ [Next]_vars => Frame' /\ Placed'
  <1> SUFFICES ASSUME Frame, Placed, [Next]_vars PROVE Frame' /\ Placed'
    OBVIOUS
  <1>1. ASSUME NEW t \in Tasks, Submits(t) PROVE Frame' /\ Placed'
    BY <1>1, SubmitsPlaced, StartFrame, KindsNotIdle DEF Submits
  <1>2. ASSUME NEW t \in Tasks, ProductStep(t) \/ PhotoStep(t) \/ Dies(t)
        PROVE  Frame' /\ Placed'
    BY <1>2, ProductMoves, PhotoMoves, DiesMoves, MovesPlaced DEF Moves
  <1>3. ASSUME UNCHANGED reqVars PROVE Frame' /\ Placed'
    BY <1>3, StayFrame DEF Placed, reqVars
  <1>4. CASE Host
    BY <1>3, <1>4, HostSteps, GoneFrame, GonePlaced
  <1> QED
    BY <1>1, <1>2, <1>3, <1>4 DEF Next, vars

LEMMA StepInv == CatalogInv /\ Placed /\ [Next]_vars => CatalogInv' /\ Placed'
  <1> SUFFICES ASSUME CatalogInv, Placed, [Next]_vars PROVE CatalogInv'
    BY StepPlaced DEF CatalogInv
  <1>1. ASSUME NEW t \in Tasks, Submits(t) PROVE CatalogInv'
    BY <1>1, SubmitsInv
  <1>2. ASSUME NEW t \in Tasks, ProductStep(t) PROVE CatalogInv'
    BY <1>2, CatalogStepInv, OtherStepInv DEF ProductStep
  <1>3. ASSUME NEW t \in Tasks, PhotoStep(t) PROVE CatalogInv'
    BY <1>3, OtherStepInv DEF PhotoStep, productVars
  <1>4. ASSUME NEW t \in Tasks, Dies(t) PROVE CatalogInv'
    BY <1>4, CatalogDiesInv DEF Dies
  <1>5. ASSUME UNCHANGED <<reqVars, catalogVars>> PROVE CatalogInv'
    BY <1>5, StillInv
  <1>6. CASE Host
    <2>1. CASE CacheExpires
      BY <2>1, CacheExpiresInv
    <2>2. CASE ~CacheExpires
      <3>1. UNCHANGED catalogVars
        BY <1>6, <2>2 DEF Host, SelfieHost, productVars
      <3>2. ASSUME NEW T, Gone(T), \A t \in T : pc[t] \in SelfiePlaces \cup AnalyzerPlaces
            PROVE  CatalogInv'
        BY <3>1, <3>2, GoneInv DEF SelfiePlaces, JobPlaces, AnalyzerPlaces
      <3> QED
        BY <1>5, <1>6, <3>1, <3>2, HostSteps DEF CatalogInv
    <2> QED
      BY <2>1, <2>2
  <1> QED
    BY <1>1, <1>2, <1>3, <1>4, <1>5, <1>6 DEF Next, vars, productVars

\* The inductive invariant of catalog-service: every run keeps to the code of
\* its service, a sync is counted from its row
\* unless two runs count at a time, its cache is never ahead of the row, and
\* a stored result marks its item or was cut short.
THEOREM InvariantHolds == Spec => [](CatalogInv /\ Placed)
  <1>1. Init => CatalogInv /\ Placed
    BY InitCatalogInv, InitPlaced
  <1>2. CatalogInv /\ Placed /\ [Next]_vars => CatalogInv' /\ Placed'
    BY StepInv
  <1> QED
    BY <1>1, <1>2, PTL DEF Spec

\* start_sync creates a second sync of a merchant only when two requests took
\* turns between looking and creating.
THEOREM SecondSyncsOverlap == Spec => []SecondSyncNeedsOverlap
  <1>1. CatalogInv => SecondSyncNeedsOverlap
    BY DEF CatalogInv, SyncInv, Starting, SecondSyncNeedsOverlap, At
  <1> QED
    BY <1>1, InvariantHolds, PTL

\* The processed count of a sync is what its deliveries brought, unless two
\* batches read and wrote it at a time.
THEOREM CountsAreExact == Spec => []CountExactUnlessRaced
  <1>1. CatalogInv => CountExactUnlessRaced
    BY DEF CatalogInv, SyncInv, Exact, CountExactUnlessRaced
  <1> QED
    BY <1>1, InvariantHolds, PTL

\* An analysis result that is stored marks its item, unless its handler was
\* cut short between the two.
THEOREM ResultsMarkItems == Spec => []ResultsReachItems
  <1>1. CatalogInv => ResultsReachItems
    BY DEF CatalogInv
  <1> QED
    BY <1>1, InvariantHolds, PTL

-----------------------------------------------------------------------------
(* What polls have shown: the row and the cache only move on from it.      *)

InOrder(s) == tally[s].raced \/
  /\ ~Behind(syncs[s], shown[s].cache)
  /\ ~Behind(syncs[s], shown[s].row)
  /\ cache[s] # NotCached => ~Behind(cache[s], shown[s].cache)

NothingShown == [cache |-> NothingYet, row |-> NothingYet]

PollsInv == /\ shown \in [SyncIds -> [cache : Answers, row : Answers]]
            /\ \A s \in SyncIds : s > created => shown[s] = NothingShown
            /\ \A s \in 1 .. created : InOrder(s)

\* How far a row or an answer is.
Position(a) == /\ a.status \in {"pending", "running"}
               /\ a.processed \in Nat
               /\ a.percent \in 0 .. 90

LEMMA Positions ==
  /\ \A a \in Answers : Position(a)
  /\ \A a \in SyncRows : Position(a)
  BY DEF Answers, SyncRows, Position

LEMMA NotBehindItself ==
  ASSUME NEW a, Position(a)
  PROVE  ~Behind(a, a)
  <1>1. PICK n \in Nat : n = a.processed
    BY DEF Position
  <1>2. PICK p \in 0 .. 90 : p = a.percent
    BY DEF Position
  <1>3. ~(n < n) /\ ~(p < p)
    OBVIOUS
  <1> QED
    BY <1>1, <1>2, <1>3 DEF Behind

LEMMA NotBehindEither ==
  ASSUME NEW a, NEW b, NEW c, Position(a), Position(b), Position(c),
         ~Behind(a, b), ~Behind(b, c)
  PROVE  ~Behind(a, c)
  <1>1. ~(a.processed < c.processed)
    <2>1. PICK m \in Nat, n \in Nat, k \in Nat :
            m = a.processed /\ n = b.processed /\ k = c.processed
      BY DEF Position
    <2>2. ~(m < n) /\ ~(n < k)
      BY <2>1 DEF Behind
    <2> QED
      BY <2>1, <2>2
  <1>2. ~(a.percent < c.percent)
    <2>1. PICK m \in 0 .. 90, n \in 0 .. 90, k \in 0 .. 90 :
            m = a.percent /\ n = b.percent /\ k = c.percent
      BY DEF Position
    <2>2. ~(m < n) /\ ~(n < k)
      BY <2>1 DEF Behind
    <2> QED
      BY <2>1, <2>2
  <1>3. ~(a.status = "pending" /\ c.status = "running")
    BY DEF Behind, Position
  <1> QED
    BY <1>1, <1>2, <1>3 DEF Behind

\* A sync that a step does not touch.
LEMMA OrderKept ==
  ASSUME NEW s, InOrder(s), syncs'[s] = syncs[s], cache'[s] \in {cache[s], NotCached},
         shown'[s] = shown[s], tally[s].raced => tally'[s].raced
  PROVE  InOrder(s)'
  BY DEF InOrder, Behind

\* A step that touches one.
LEMMA PollsStep ==
  ASSUME Shapes, PollsInv, NEW s \in 1 .. created, created' = created,
         shown' \in [SyncIds -> [cache : Answers, row : Answers]],
         \A r \in SyncIds \ {s} : /\ syncs'[r] = syncs[r] /\ shown'[r] = shown[r]
                                  /\ cache'[r] \in {cache[r], NotCached}
                                  /\ tally[r].raced => tally'[r].raced,
         InOrder(s)'
  PROVE  PollsInv'
  <1>1. \A r \in 1 .. created : r # s => InOrder(r)'
    BY RowsOf, OrderKept DEF PollsInv
  <1>2. created \in Nat
    BY CreatedBound
  <1>3. \A r \in SyncIds : r > created => r # s
    BY <1>2
  <1> QED
    BY <1>1, <1>3 DEF PollsInv

\* And one that touches none.
LEMMA PollsStay ==
  ASSUME Shapes, PollsInv, UNCHANGED <<syncs, created, shown>>,
         \A s \in SyncIds : /\ cache'[s] \in {cache[s], NotCached}
                            /\ tally[s].raced => tally'[s].raced
  PROVE  PollsInv'
  <1>1. \A s \in 1 .. created : InOrder(s)'
    BY RowsOf, OrderKept DEF PollsInv
  <1> QED
    BY <1>1 DEF PollsInv

\* Polls of a sync that nobody has created find nothing.
LEMMA PollCachePolls ==
  ASSUME CatalogInv, PollsInv, NEW t \in Tasks, PollCache(t)
  PROVE  PollsInv'
  <1>1. UNCHANGED <<syncs, created, cache, tally>> /\ Shapes
    BY DEF PollCache, CatalogInv, SyncInv
  <1>2. CASE UNCHANGED shown
    BY <1>1, <1>2, PollsStay
  <1>3. PICK s : s = Of(t)
    OBVIOUS
  <1>4. CASE /\ s \in SyncIds /\ cache[s] # NotCached
             /\ shown' = [shown EXCEPT ![s].cache = cache[s]]
    <2>1. s \in 1 .. created
      <3>1. created \in Nat /\ s \in Nat /\ s >= 1 /\ ~(s > created)
        BY <1>1, <1>4, CreatedBound DEF SyncIds, Shapes
      <3> QED
        BY <3>1
    <2>2. PICK answer \in Answers : answer = cache[s]
      BY <1>1, <1>4, <2>1, RowsOf
    <2>3. /\ shown'[s].cache = answer /\ shown'[s].row = shown[s].row
          /\ shown' \in [SyncIds -> [cache : Answers, row : Answers]]
          /\ \A r \in SyncIds \ {s} : shown'[r] = shown[r]
      BY <1>4, <2>2 DEF PollsInv
    <2>4. InOrder(s)'
      <3> SUFFICES ASSUME ~tally[s].raced PROVE InOrder(s)'
        BY <1>1 DEF InOrder
      <3>1. /\ answer.processed <= syncs[s].processed
            /\ answer.percent <= syncs[s].percent
            /\ answer.status = "running" => syncs[s].status = "running"
        BY <1>4, <2>1, <2>2 DEF CatalogInv, SyncInv, Exact
      <3>2. Position(syncs[s]) /\ Position(answer)
        BY <1>1, <2>1, <2>2, RowsOf, Positions
      <3>3. ~Behind(syncs[s], answer) /\ ~Behind(answer, answer)
        <4>1. PICK m \in Nat, n \in Nat : m = answer.processed /\ n = syncs[s].processed
          BY <3>2 DEF Position
        <4>2. PICK p \in 0 .. 90, q \in 0 .. 90 : p = answer.percent /\ q = syncs[s].percent
          BY <3>2 DEF Position
        <4>3. ~(n < m) /\ ~(q < p)
          BY <3>1, <4>1, <4>2
        <4> QED
          BY <3>1, <3>2, <4>1, <4>2, <4>3, NotBehindItself DEF Behind
      <3>4. ~Behind(syncs[s], shown[s].row)
        BY <2>1 DEF PollsInv, InOrder
      <3>5. /\ ~Behind(syncs'[s], shown'[s].cache) /\ ~Behind(syncs'[s], shown'[s].row)
            /\ ~Behind(cache'[s], shown'[s].cache)
        BY <1>1, <2>2, <2>3, <3>3, <3>4
      <3> QED
        BY <3>5 DEF InOrder, Behind
    <2> QED
      BY <1>1, <2>1, <2>3, <2>4, PollsStep
  <1> QED
    BY <1>2, <1>3, <1>4 DEF PollCache

LEMMA PollRowPolls ==
  ASSUME CatalogInv, PollsInv, NEW t \in Tasks, PollRow(t)
  PROVE  PollsInv'
  <1>1. UNCHANGED <<syncs, created, cache, tally>> /\ Shapes
    BY DEF PollRow, CatalogInv, SyncInv
  <1>2. CASE UNCHANGED shown
    BY <1>1, <1>2, PollsStay
  <1>3. PICK s : s = Of(t)
    OBVIOUS
  <1>4. CASE s \in 1 .. created /\ shown' = [shown EXCEPT ![s].row = Progress(syncs[s])]
    <2>1. s \in SyncIds /\ syncs[s] \in SyncRows
      BY <1>1, <1>4, RowsOf
    <2>2. PICK answer : answer = Progress(syncs[s])
      OBVIOUS
    <2>3. /\ answer \in Answers /\ answer.status = syncs[s].status
          /\ answer.processed = syncs[s].processed /\ answer.percent = syncs[s].percent
      BY <2>1, <2>2 DEF Progress, Answers, SyncRows
    <2>4. /\ shown'[s].row = answer /\ shown'[s].cache = shown[s].cache
          /\ shown' \in [SyncIds -> [cache : Answers, row : Answers]]
          /\ \A r \in SyncIds \ {s} : shown'[r] = shown[r]
      BY <1>4, <2>1, <2>2, <2>3 DEF PollsInv
    <2>5. InOrder(s)'
      <3>1. ~Behind(syncs[s], answer)
        BY <2>1, <2>3, Positions, NotBehindItself DEF Behind
      <3>2. InOrder(s)
        BY <1>4 DEF PollsInv
      <3>3. ~Behind(syncs'[s], shown'[s].row)
        BY <1>1, <2>4, <3>1
      <3> QED
        BY <1>1, <2>4, <3>2, <3>3 DEF InOrder, Behind
    <2> QED
      BY <1>1, <1>4, <2>4, <2>5, PollsStep
  <1> QED
    BY <1>2, <1>3, <1>4 DEF PollRow

\* What is written, and no two batches count at a time, is what has been
\* shown or more.
LEMMA CreateSyncPolls ==
  ASSUME CatalogInv, CatalogInv', PollsInv, NEW t \in Tasks, CreateSync(t)
  PROVE  PollsInv'
  <1>1. /\ created \in Nat /\ MaxSyncs \in Nat /\ created < MaxSyncs /\ Shapes /\ Shapes'
    BY CreatedBound, BoundOfSyncs DEF CreateSync, CatalogInv, SyncInv
  <1>2. PICK s : s = created + 1
    OBVIOUS
  <1>3. /\ s \in SyncIds /\ s > created /\ 1 .. s = (1 .. created) \cup {s}
    BY <1>1, <1>2 DEF SyncIds
  <1>4. PICK row : row = [of |-> Of(t), status |-> "pending", processed |-> 0, percent |-> 0]
    OBVIOUS
  <1>5. /\ created' = s /\ syncs' = [syncs EXCEPT ![s] = row]
        /\ UNCHANGED <<cache, tally, shown>>
    BY <1>2, <1>4 DEF CreateSync
  <1>6. syncs'[s] = row /\ shown[s] = NothingShown /\ cache[s] = NotCached
    BY <1>1, <1>3, <1>5 DEF Shapes, PollsInv
  <1>7. InOrder(s)'
    <2>1. ~Behind(row, NothingYet)
      BY <1>4 DEF Behind, NothingYet
    <2> QED
      BY <1>5, <1>6, <2>1 DEF InOrder, NothingShown, Behind
  <1>8. \A r \in 1 .. created : InOrder(r)'
    <2>1. \A r \in 1 .. created : r \in SyncIds /\ r # s
      BY <1>1, <1>3, RowsOf
    <2>2. \A r \in 1 .. created : syncs'[r] = syncs[r]
      BY <1>1, <1>5, <2>1 DEF Shapes
    <2> QED
      BY <1>5, <2>2, OrderKept DEF PollsInv
  <1>9. \A r \in SyncIds : r > created' => r > created
    BY <1>1, <1>3, <1>5 DEF SyncIds
  <1> QED
    BY <1>3, <1>5, <1>7, <1>8, <1>9 DEF PollsInv

LEMMA CacheStartPolls ==
  ASSUME CatalogInv, PollsInv, NEW t \in Tasks, CacheStart(t)
  PROVE  PollsInv'
  <1>1. pc[t] = "cache start" /\ UNCHANGED <<syncs, created, tally, shown>> /\ Shapes
    BY DEF CacheStart, At, CatalogInv, SyncInv
  <1>2. PICK s \in 1 .. created : s = mem[t] /\ Fresh(s) /\ s \in SyncIds
    BY <1>1, RowsOf DEF CatalogInv, SyncInv, Starting
  <1>3. PICK row : row = [status |-> "pending", processed |-> 0, percent |-> 0]
    OBVIOUS
  <1>4. cache' = [cache EXCEPT ![s] = row]
    BY <1>2, <1>3 DEF CacheStart
  <1>5. cache'[s] = row /\ \A r \in SyncIds \ {s} : cache'[r] = cache[r]
    BY <1>1, <1>2, <1>4 DEF Shapes
  <1>6. /\ row.status = syncs[s].status /\ row.processed = syncs[s].processed
        /\ row.percent = syncs[s].percent
    BY <1>2, <1>3 DEF Fresh
  <1>7. InOrder(s)'
    BY <1>1, <1>5, <1>6 DEF PollsInv, InOrder, Behind
  <1> QED
    BY <1>1, <1>5, <1>7, PollsStep DEF PollsInv

\* The count of who counts alone starts from the row.
LEMMA WriteProgressPolls ==
  ASSUME CatalogInv, PollsInv, NEW t \in Tasks, WriteProgress(t)
  PROVE  PollsInv'
  <1>1. pc[t] = "write progress" /\ UNCHANGED <<cache, created, shown>> /\ Shapes
    BY DEF WriteProgress, At, CatalogInv, SyncInv
  <1>2. PICK s \in 1 .. created : s = Of(t) /\ s \in SyncIds
    BY <1>1, RowsOf DEF CatalogInv, SyncInv, Served, BatchPlaces, CountingPlaces
  <1>3. PICK n \in Nat : n = Cardinality(Products[open[t].as])
    BY <1>1, BatchSize DEF CatalogInv, SyncInv, Served, BatchPlaces, CountingPlaces
  <1>4. PICK k \in Nat : k = mem[t]
    BY <1>1 DEF CatalogInv, SyncInv, CountingPlaces
  <1>5. PICK m \in Nat : m = k + n
    OBVIOUS
  <1>6. PICK p \in 0 .. 90 : p = Percent(m, 0) /\ p = IF m = 0 THEN 0 ELSE 90
    BY PercentOf
  <1>7. /\ syncs' = [syncs EXCEPT ![s].status = "running", ![s].processed = m, ![s].percent = p]
        /\ tally' = [tally EXCEPT ![s].sum = @ + n]
    BY <1>2, <1>3, <1>4, <1>5, <1>6 DEF WriteProgress
  <1>8. /\ tally \in [SyncIds -> Tallies] /\ syncs[s] \in SyncRows
        /\ syncs = [r \in SyncIds |-> syncs[r]]
    BY <1>1 DEF Shapes
  <1>9. tally'[s].raced = tally[s].raced /\ \A r \in SyncIds \ {s} : tally'[r] = tally[r]
    BY <1>2, <1>7, <1>8 DEF Tallies
  <1>10. /\ syncs'[s].processed = m /\ syncs'[s].percent = p /\ syncs'[s].status = "running"
         /\ syncs'[s] \in SyncRows /\ \A r \in SyncIds \ {s} : syncs'[r] = syncs[r]
    BY <1>2, <1>7, <1>8 DEF SyncRows
  <1>11. ASSUME ~tally[s].raced
         PROVE  ~Behind(syncs'[s], syncs[s])
    <2>1. t \in Counting(s) /\ Exact(s)
      BY <1>1, <1>2 DEF CatalogInv, SyncInv, Counting
    <2>2. syncs[s].processed = k /\ syncs[s].percent = IF k = 0 THEN 0 ELSE 90
      BY <1>4, <1>11, <2>1, PercentOf DEF Exact
    <2>3. ~(m < k) /\ ~(p < IF k = 0 THEN 0 ELSE 90)
      BY <1>5, <1>6
    <2> QED
      BY <1>10, <2>2, <2>3 DEF Behind
  <1>12. InOrder(s)'
    <2> SUFFICES ASSUME ~tally[s].raced PROVE InOrder(s)'
      BY <1>9 DEF InOrder
    <2>1. /\ ~Behind(syncs[s], shown[s].cache) /\ ~Behind(syncs[s], shown[s].row)
          /\ cache[s] # NotCached => ~Behind(cache[s], shown[s].cache)
      BY DEF PollsInv, InOrder
    <2>2. /\ Position(syncs'[s]) /\ Position(syncs[s])
          /\ Position(shown[s].cache) /\ Position(shown[s].row)
      BY <1>2, <1>8, <1>10, Positions DEF PollsInv
    <2>3. ~Behind(syncs'[s], shown[s].cache) /\ ~Behind(syncs'[s], shown[s].row)
      BY <1>11, <2>1, <2>2, NotBehindEither
    <2> QED
      BY <1>1, <2>1, <2>3 DEF InOrder, Behind
  <1> QED
    BY <1>1, <1>9, <1>10, <1>12, PollsStep DEF PollsInv

\* And the cache gets what the row then says.
LEMMA CacheProgressPolls ==
  ASSUME CatalogInv, PollsInv, NEW t \in Tasks, CacheProgress(t)
  PROVE  PollsInv'
  <1>1. pc[t] = "cache progress" /\ UNCHANGED <<syncs, created, tally, shown>> /\ Shapes
    BY DEF CacheProgress, At, CatalogInv, SyncInv
  <1>2. PICK s \in 1 .. created : s = Of(t) /\ s \in SyncIds
    BY <1>1, RowsOf DEF CatalogInv, SyncInv, Served, BatchPlaces, CountingPlaces
  <1>3. PICK row : row = [status |-> "running", processed |-> mem[t],
                          percent |-> Percent(mem[t], 0)]
    OBVIOUS
  <1>4. cache' = [cache EXCEPT ![s] = row]
    BY <1>2, <1>3 DEF CacheProgress
  <1>5. cache'[s] = row /\ \A r \in SyncIds \ {s} : cache'[r] = cache[r]
    BY <1>1, <1>2, <1>4 DEF Shapes
  <1>6. InOrder(s)'
    <2> SUFFICES ASSUME ~tally[s].raced PROVE InOrder(s)'
      BY <1>1 DEF InOrder
    <2>1. t \in Counting(s) /\ Exact(s)
      BY <1>1, <1>2 DEF CatalogInv, SyncInv, Counting
    <2>2. /\ row.status = syncs[s].status /\ row.processed = syncs[s].processed
          /\ row.percent = syncs[s].percent
      BY <1>1, <1>3, <2>1 DEF Exact
    <2> QED
      BY <1>1, <1>5, <2>2 DEF PollsInv, InOrder, Behind
  <1> QED
    BY <1>1, <1>5, <1>6, PollsStep DEF PollsInv

LEMMA CatalogStepPolls ==
  ASSUME CatalogInv, CatalogInv', PollsInv, NEW t \in Tasks, CatalogStep(t)
  PROVE  PollsInv'
  <1>1. ASSUME UNCHANGED <<syncs, created, cache, tally, shown>>
        PROVE  PollsInv'
    BY <1>1, PollsStay DEF CatalogInv, SyncInv
  <1>2. CASE CheckRunning(t) \/ StoreItems(t) \/ StoreResult(t) \/ MarkAnalyzed(t)
    BY <1>1, <1>2 DEF CheckRunning, StoreItems, StoreResult, MarkAnalyzed, catalogVars
  <1>3. CASE ReadProgress(t)
    <2>1. /\ UNCHANGED <<syncs, created, cache, shown>>
          /\ tally' = [tally EXCEPT ![Of(t)].raced = @ \/ Counting(Of(t)) # {}]
      BY <1>3 DEF ReadProgress
    <2>2. \A s \in SyncIds : tally[s].raced => tally'[s].raced
      BY <2>1 DEF CatalogInv, SyncInv, Shapes, Tallies
    <2> QED
      BY <2>1, <2>2, PollsStay DEF CatalogInv, SyncInv
  <1> QED
    BY <1>2, <1>3, CreateSyncPolls, CacheStartPolls, WriteProgressPolls, CacheProgressPolls,
       PollCachePolls, PollRowPolls DEF CatalogStep

LEMMA StepPolls ==
  CatalogInv /\ CatalogInv' /\ PollsInv /\ [Next]_vars => PollsInv'
  <1> SUFFICES ASSUME CatalogInv, CatalogInv', PollsInv, [Next]_vars PROVE PollsInv'
    OBVIOUS
  <1>1. CASE UNCHANGED <<syncs, created, cache, tally, shown>>
    BY <1>1, PollsStay DEF CatalogInv, SyncInv
  <1>2. ASSUME NEW t \in Tasks, CatalogStep(t)
        PROVE  PollsInv'
    BY <1>2, CatalogStepPolls
  <1>3. CASE CacheExpires
    <2>1. PICK s \in SyncIds : cache' = [cache EXCEPT ![s] = NotCached]
      BY <1>3 DEF CacheExpires
    <2>2. \A r \in SyncIds : cache'[r] \in {cache[r], NotCached}
      BY <2>1 DEF CatalogInv, SyncInv, Shapes
    <2> QED
      BY <1>3, <2>2, PollsStay DEF CacheExpires, CatalogInv, SyncInv
  <1> QED
    BY <1>1, <1>2, <1>3
       DEF Next, Host, SelfieHost, Submits, ProductStep, PhotoStep, Dies, CatalogDies,
           productVars, catalogVars, vars

LEMMA InitPolls == Init => PollsInv
  <1> SUFFICES ASSUME Init PROVE PollsInv
    OBVIOUS
  <1>1. NothingYet \in Answers
    BY DEF NothingYet, Answers
  <1>2. shown = [s \in SyncIds |-> NothingShown]
    BY DEF Init, CatalogInit, NothingShown
  <1>3. 1 .. created = {}
    BY DEF Init, CatalogInit
  <1> QED
    BY <1>1, <1>2, <1>3 DEF PollsInv, NothingShown

THEOREM PollsInvariantHolds == Spec => []PollsInv
  <1>1. Init => PollsInv
    BY InitPolls
  <1>2. CatalogInv /\ CatalogInv' /\ PollsInv /\ [Next]_vars => PollsInv'
    BY StepPolls
  <1> QED
    BY <1>1, <1>2, InvariantHolds, PTL DEF Spec

\* What a poll is answered is behind nothing an earlier poll was answered,
\* unless it comes from the cache after one that came from the row, or two
\* batches counted at a time.
THEOREM PollsAreOrdered == Spec => []PollsGoBackOnlyToCache
  <1>1. PollsInv => PollsGoBackOnlyToCache
    BY DEF PollsInv, InOrder, PollsGoBackOnlyToCache
  <1> QED
    BY <1>1, PollsInvariantHolds, PTL

-----------------------------------------------------------------------------
(* What the catalogue's tables hold.                                       *)

StoredInv == /\ items \subseteq Variants /\ cut \subseteq Results
             /\ analyzed \subseteq items
             /\ results \subseteq Results /\ \A r \in results : r[1] \in items
             /\ \A t \in Tasks : pc[t] = "mark" => Of(t) \in items
             /\ \A s \in SyncIds : s > created => syncs[s] = NoSync

LEMMA StoredStays ==
  ASSUME StoredInv, UNCHANGED <<items, cut, analyzed, results>>,
         \A t \in Tasks : pc'[t] = "mark" => pc[t] = "mark" /\ Of(t)' = Of(t),
         \A s \in SyncIds : s > created' => s > created /\ syncs'[s] = syncs[s]
  PROVE  StoredInv'
  BY DEF StoredInv

\* A result at hand is of an item, by a model.
LEMMA ResultAtHand ==
  ASSUME Frame, Placed, StoredInv, NEW t \in Tasks, pc[t] \in {"result", "mark"},
         Of(t) \in items
  PROVE  ResultOf(t) \in Results /\ ResultOf(t)[1] = Of(t)
  <1>1. open[t] \in Work /\ open[t].service = "catalog"
    BY RunsWork, ServiceOf, RequestsAssumption DEF CatalogPlaces
  <1>2. open[t].as \in {w.as : w \in CatalogWork}
    BY <1>1 DEF CatalogWork
  <1> QED
    BY <1>2 DEF StoredInv, ResultOf, Results

\* The catalogue's own steps.
LEMMA CatalogStepStored ==
  ASSUME CatalogInv, Placed, StoredInv, NEW t \in Tasks, CatalogStep(t)
  PROVE  StoredInv'
  <1>1. Moves(t, CatalogPlaces) /\ (pc'[t] = "mark" => pc[t] = "result")
    BY CatalogMoves DEF CatalogInv
  <1>2. \A u \in Tasks : pc'[u] = "mark" /\ u # t => pc[u] = "mark" /\ Of(u)' = Of(u)
    BY <1>1 DEF Moves, Others, Of
  <1>3. pc'[t] = "mark" => Of(t)' = Of(t)
    BY <1>1 DEF Moves, Of
  <1>4. created \in Nat
    BY CreatedBound DEF CatalogInv, SyncInv
  <1>5. CASE \/ CheckRunning(t) \/ CacheStart(t) \/ ReadProgress(t) \/ CacheProgress(t)
               \/ PollCache(t) \/ PollRow(t)
    <2>1. pc'[t] # "mark" /\ UNCHANGED <<items, cut, analyzed, results, syncs, created>>
      BY <1>1, <1>5 DEF CheckRunning, CacheStart, ReadProgress, CacheProgress, PollCache,
                        PollRow, catalogVars, At
    <2> QED
      BY <1>2, <2>1, StoredStays
  <1>6. CASE CreateSync(t)
    <2>1. pc'[t] # "mark" /\ UNCHANGED <<items, cut, analyzed, results>> /\ created' = created + 1
      BY <1>1, <1>6 DEF CreateSync, At
    <2>2. PICK row : syncs' = [syncs EXCEPT ![created + 1] = row]
      BY <1>6 DEF CreateSync
    <2>3. ASSUME NEW s \in SyncIds, s > created'
          PROVE  s > created /\ syncs'[s] = syncs[s]
      BY <1>4, <2>1, <2>2, <2>3, BoundOfSyncs DEF CatalogInv, SyncInv, Shapes, SyncIds
    <2> QED
      BY <1>2, <2>1, <2>3, StoredStays
  <1>7. CASE StoreItems(t)
    <2>1. /\ pc'[t] # "mark" /\ items' = items \cup Products[open[t].as]
          /\ UNCHANGED <<cut, analyzed, results, syncs, created>> /\ pc[t] = "batch"
      BY <1>1, <1>7 DEF StoreItems, At
    <2>2. open[t].as \in DOMAIN Products
      BY <2>1, KindsOfWork DEF CatalogInv, SyncInv, Served, BatchPlaces
    <2>3. items' \subseteq Variants
      BY <2>1, <2>2 DEF Variants, StoredInv
    <2> QED
      BY <1>2, <2>1, <2>3 DEF StoredInv
  <1>8. CASE WriteProgress(t)
    <2>1. /\ pc'[t] # "mark" /\ UNCHANGED <<items, cut, analyzed, results, created>>
          /\ pc[t] = "write progress"
      BY <1>1, <1>8 DEF WriteProgress, At
    <2>2. \A s \in SyncIds : s # Of(t) => syncs'[s] = syncs[s]
      BY <1>8 DEF WriteProgress, CatalogInv, SyncInv, Shapes
    <2>3. Of(t) \in 1 .. created
      BY <2>1 DEF CatalogInv, SyncInv, Served, BatchPlaces, CountingPlaces
    <2>4. \A s \in SyncIds : s > created => s # Of(t)
      BY <1>4, <2>3
    <2> QED
      BY <1>2, <2>1, <2>2, <2>4, StoredStays
  <1>9. CASE StoreResult(t)
    <2>1. UNCHANGED <<items, cut, analyzed, syncs, created>> /\ pc[t] = "result"
      BY <1>9 DEF StoreResult, At
    <2>2. \/ results' = results \cup {ResultOf(t)} /\ Of(t) \in items
          \/ results' = results /\ Ends(t)
      BY <1>9 DEF StoreResult
    <2>3. pc'[t] = "mark" => Of(t) \in items
      BY <2>2, EndsFrame DEF CatalogInv
    <2>4. Of(t) \in items => ResultOf(t) \in Results /\ ResultOf(t)[1] = Of(t)
      BY <2>1, ResultAtHand DEF CatalogInv
    <2> QED
      BY <1>2, <1>3, <2>1, <2>2, <2>3, <2>4 DEF StoredInv
  <1>10. CASE MarkAnalyzed(t)
    <2>1. /\ UNCHANGED <<items, cut, results, syncs, created>> /\ pc[t] = "mark"
          /\ analyzed' = analyzed \cup {Of(t)} /\ pc'[t] # "mark"
      BY <1>1, <1>10 DEF MarkAnalyzed, At
    <2> QED
      BY <1>2, <2>1 DEF StoredInv
  <1> QED
    BY <1>5, <1>6, <1>7, <1>8, <1>9, <1>10 DEF CatalogStep

\* Everyone else's: no run comes to mark an item by them.
LEMMA NobodyMarks ==
  ASSUME Frame, Placed, NEW t \in Tasks,
         Submits(t) \/ Dies(t) \/ ConnectorStep(t) \/ AIStep(t) \/ PhotoStep(t)
  PROVE  \A u \in Tasks : pc'[u] = "mark" => pc[u] = "mark" /\ Of(u)' = Of(u)
  <1>1. Others(t) /\ pc'[t] # "mark"
    <2>1. CASE Submits(t)
      <3>1. Others(t) /\ open'[t] \in Work /\ pc'[t] = open'[t].kind
        BY <2>1, KindsNotIdle, StartFrame DEF Submits
      <3>2. PICK w \in Work : w = open'[t]
        BY <3>1
      <3> QED
        BY <2>1, <3>1, <3>2, KindsAssumption
    <2>2. CASE Dies(t)
      BY <2>2, EndsFrame DEF Dies, CatalogDies
    <2>3. CASE ConnectorStep(t) \/ AIStep(t) \/ PhotoStep(t)
      BY <2>3, ConnectorMoves, AIMoves, PhotoMoves, OtherServices
         DEF Moves, ConnectorPlaces, AIPlaces, SelfiePlaces, JobPlaces, AnalyzerPlaces
    <2> QED
      BY <2>1, <2>2, <2>3
  <1> QED
    BY <1>1 DEF Others, Of

LEMMA StepStored ==
  CatalogInv /\ Placed /\ StoredInv /\ [Next]_vars => StoredInv'
  <1> SUFFICES ASSUME CatalogInv, Placed, StoredInv, [Next]_vars PROVE StoredInv'
    OBVIOUS
  <1>1. ASSUME NEW t \in Tasks, CatalogStep(t) PROVE StoredInv'
    BY <1>1, CatalogStepStored
  <1>2. ASSUME NEW t \in Tasks, UNCHANGED catalogVars,
               Submits(t) \/ ConnectorStep(t) \/ AIStep(t) \/ PhotoStep(t)
        PROVE  StoredInv'
    <2>1. UNCHANGED <<items, cut, analyzed, results, syncs, created>>
      BY <1>2 DEF catalogVars
    <2> QED
      BY <1>2, <2>1, NobodyMarks, StoredStays DEF CatalogInv
  <1>3. ASSUME NEW t \in Tasks, Dies(t) PROVE StoredInv'
    <2>1. /\ UNCHANGED <<items, analyzed, results, syncs, created>>
          /\ cut' = cut \/ (cut' = cut \cup {ResultOf(t)} /\ pc[t] = "mark")
      BY <1>3 DEF Dies, CatalogDies, At
    <2>2. cut' \subseteq Results
      BY <2>1, ResultAtHand DEF StoredInv, CatalogInv
    <2> QED
      BY <1>3, <2>1, <2>2, NobodyMarks DEF CatalogInv, StoredInv
  <1>4. CASE Host
    <2>1. UNCHANGED <<items, cut, analyzed, results, syncs, created>>
      BY <1>4 DEF Host, CacheExpires, SelfieHost, productVars, catalogVars
    <2>2. \A u \in Tasks : pc'[u] = "mark" => pc[u] = "mark" /\ Of(u)' = Of(u)
      BY <1>4, HostSteps, GoneFrame DEF CatalogInv, Of, reqVars
    <2> QED
      BY <2>1, <2>2, StoredStays
  <1>5. CASE UNCHANGED vars
    BY <1>5, StoredStays DEF vars, productVars, catalogVars, reqVars, Of
  <1> QED
    BY <1>1, <1>2, <1>3, <1>4, <1>5 DEF Next, ProductStep, PhotoStep, Submits, productVars

\* Init: nothing is stored.
LEMMA InitStored == Init => StoredInv
  <1> SUFFICES ASSUME Init PROVE StoredInv
    OBVIOUS
  <1>1. \A t \in Tasks : pc[t] # "mark"
    BY InitFrame DEF Init
  <1> QED
    BY <1>1 DEF Init, CatalogInit, StoredInv

-----------------------------------------------------------------------------
(* selfie-service: rows are never deleted, and jobs write to those that    *)
(* are there.                                                              *)

JobsHaveRows == \A t \in Tasks : pc[t] \in JobPlaces =>
  Of(t) \in Photos /\ analyses[Of(t)] # NoAnalysis
SelfiesInv == SelfieTypeOK /\ JobsHaveRows

RowsStay == \A p \in Photos : analyses[p] # NoAnalysis => analyses'[p] # NoAnalysis
NobodyTakesAJob == \A t \in Tasks : pc'[t] \in JobPlaces =>
  pc[t] \in JobPlaces /\ Of(t)' = Of(t)

LEMMA RowIsThere ==
  ASSUME NEW row \in Rows
  PROVE  row # NoAnalysis
  <1>1. "age" \in DOMAIN row /\ "age" \notin DOMAIN NoAnalysis
    BY DEF Rows, NoAnalysis
  <1> QED
    BY <1>1, Zenon

LEMMA JobsStay ==
  ASSUME JobsHaveRows, RowsStay, NobodyTakesAJob
  PROVE  JobsHaveRows'
  BY DEF JobsHaveRows, RowsStay, NobodyTakesAJob

\* A photo's row is changed, and not taken away.
LEMMA OneRow ==
  ASSUME SelfieTypeOK, NEW p \in Photos, NEW row \in Rows,
         analyses' = [analyses EXCEPT ![p] = row],
         up' \in BOOLEAN, deaths' \in 0 .. MaxDeaths
  PROVE  SelfieTypeOK' /\ RowsStay
  <1>1. analyses'[p] = row /\ \A q \in Photos : q # p => analyses'[q] = analyses[q]
    BY DEF SelfieTypeOK
  <1>2. row # NoAnalysis
    BY RowIsThere
  <1> QED
    BY <1>1, <1>2 DEF SelfieTypeOK, RowsStay

LEMMA NoRow ==
  ASSUME SelfieTypeOK, UNCHANGED analyses, up' \in BOOLEAN, deaths' \in 0 .. MaxDeaths
  PROVE  SelfieTypeOK' /\ RowsStay
  BY DEF SelfieTypeOK, RowsStay

\* A row changes its status or its age.
LEMMA RowChanges ==
  ASSUME SelfieTypeOK, NEW p \in Photos, analyses[p] # NoAnalysis
  PROVE  /\ analyses[p] \in Rows
         /\ [analyses[p] EXCEPT !.status = "FAILED"] \in Rows
         /\ [analyses[p] EXCEPT !.age = "old"] \in Rows
  BY DEF SelfieTypeOK, Rows, Ages

LEMMA SelfieStepInv ==
  ASSUME Frame, Placed, SelfiesInv, NEW t \in Tasks, SelfieStep(t)
  PROVE  SelfiesInv'
  <1>1. Moves(t, SelfiePlaces)
    BY SelfieMoves
  <1>2. pc'[t] \in JobPlaces => pc[t] \in JobPlaces
    <2>1. CASE pc[t] \in JobPlaces
      BY <2>1
    <2>2. CASE Ends(t)
      BY <2>2, EndsFrame DEF JobPlaces
    <2>3. CASE Goes(t, "insert", None)
      <3>1. pc[t] # "idle"
        BY <1>1 DEF Moves, SelfiePlaces, JobPlaces
      <3>2. pc'[t] = "insert"
        BY <2>3, <3>1, GoesFrame
      <3> QED
        BY <3>2 DEF JobPlaces
    <2> QED
      BY <2>1, <2>2, <2>3
         DEF SelfieStep, FindByHash, CreateAnalysis, ClaimAnalyses, AskAnalyzer, Answer,
             UpdateWithResults, MarkFailed, JobPlaces, At
  <1>3. NobodyTakesAJob
    BY <1>1, <1>2 DEF NobodyTakesAJob, Moves, Others, Of, JobPlaces
  <1>4. Of(t) \in Photos
    <2>1. open[t] # None /\ open[t] \in Work /\ open[t].service = "selfie"
      BY <1>1, ServiceOf, RunsWork, RequestsAssumption
         DEF Moves, SelfiePlaces, JobPlaces, Frame
    <2> QED
      BY <2>1 DEF Of, Photos, SelfieWork
  <1>5. CASE UNCHANGED selfieVars
    BY <1>3, <1>5, NoRow, JobsStay DEF selfieVars, SelfiesInv, SelfieTypeOK
  <1>7. CASE MarkFailed(t)
    <2>1. analyses[Of(t)] # NoAnalysis
      BY <1>7 DEF MarkFailed, At, SelfiesInv, JobsHaveRows, JobPlaces
    <2>2. PICK row : row = [analyses[Of(t)] EXCEPT !.status = "FAILED"]
      OBVIOUS
    <2>3. row \in Rows
      BY <1>4, <2>1, <2>2, RowChanges DEF SelfiesInv
    <2>4. analyses' = [analyses EXCEPT ![Of(t)] = row] /\ UNCHANGED <<up, deaths>>
      BY <1>7, <2>2 DEF MarkFailed
    <2> QED
      BY <1>3, <1>4, <2>3, <2>4, OneRow, JobsStay DEF SelfiesInv, SelfieTypeOK
  <1> QED
    BY <1>5, <1>7
       DEF SelfieStep, FindByHash, CreateAnalysis, ClaimAnalyses, AskAnalyzer, Answer,
           UpdateWithResults

LEMMA TimeInv ==
  ASSUME Frame, SelfiesInv, Time
  PROVE  SelfiesInv'
  <1>1. PICK p \in Photos : /\ analyses[p] # NoAnalysis
                            /\ analyses' = [analyses EXCEPT ![p].age = "old"]
    BY DEF Time
  <1>2. UNCHANGED <<reqVars, up, deaths>>
    BY DEF Time
  <1>3. PICK row : row = [analyses[p] EXCEPT !.age = "old"]
    OBVIOUS
  <1>4. row \in Rows
    BY <1>1, <1>3, RowChanges DEF SelfiesInv
  <1>5. analyses' = [analyses EXCEPT ![p] = row]
    BY <1>1, <1>3
  <1>6. NobodyTakesAJob
    BY <1>2 DEF NobodyTakesAJob, reqVars, Of
  <1> QED
    BY <1>1, <1>2, <1>4, <1>5, <1>6, OneRow, JobsStay DEF SelfiesInv, SelfieTypeOK

LEMMA SweepInv ==
  ASSUME Frame, SelfiesInv, Sweep
  PROVE  SelfiesInv'
  <1>1. UNCHANGED <<reqVars, up, deaths>>
    BY DEF Sweep
  <1>2. analyses' = [p \in Photos |-> IF Stale(analyses[p])
                                        THEN [analyses[p] EXCEPT !.status = "FAILED"]
                                        ELSE analyses[p]]
    BY DEF Sweep
  <1>3. ASSUME NEW p \in Photos
        PROVE  /\ analyses'[p] \in Rows \cup {NoAnalysis}
               /\ (analyses'[p] = NoAnalysis) <=> (analyses[p] = NoAnalysis)
    <2>1. CASE Stale(analyses[p])
      <3>1. analyses[p] # NoAnalysis
        BY <2>1 DEF Stale
      <3>2. analyses'[p] \in Rows
        BY <1>2, <2>1, <3>1, RowChanges DEF SelfiesInv
      <3>3. analyses'[p] # NoAnalysis
        BY <3>2, RowIsThere
      <3> QED
        BY <3>1, <3>2, <3>3
    <2>2. CASE ~Stale(analyses[p])
      BY <1>2, <2>2 DEF SelfiesInv, SelfieTypeOK
    <2> QED
      BY <2>1, <2>2
  <1>4. analyses' \in [Photos -> Rows \cup {NoAnalysis}]
    BY <1>2, <1>3
  <1>5. SelfieTypeOK'
    BY <1>1, <1>3, <1>4 DEF SelfiesInv, SelfieTypeOK
  <1>6. RowsStay
    BY <1>3 DEF RowsStay
  <1>7. NobodyTakesAJob
    BY <1>1 DEF NobodyTakesAJob, reqVars, Of
  <1> QED
    BY <1>5, <1>6, <1>7, JobsStay DEF SelfiesInv

\* The service's process dies, or another service's, or a run of another
\* service moves: rows are left alone, and nobody takes up a job.
LEMMA StaySelfies ==
  ASSUME SelfiesInv, UNCHANGED analyses,
         up' \in BOOLEAN, deaths' \in 0 .. MaxDeaths, NobodyTakesAJob
  PROVE  SelfiesInv'
  BY NoRow, JobsStay DEF SelfiesInv

LEMMA SubmitsSelfies ==
  ASSUME Frame, Placed, SelfiesInv, NEW t \in Tasks, Submits(t)
  PROVE  SelfiesInv'
  <1>1. /\ Others(t) /\ open'[t] \in Work /\ pc'[t] = open'[t].kind /\ UNCHANGED photoVars
        /\ open'[t].kind = "job" => JobDue(open'[t])
    BY KindsNotIdle, StartFrame DEF Submits
  <1>2. PICK w \in Work : w = open'[t]
    BY <1>1
  <1>3. pc'[t] \in JobPlaces => Of(t)' \in Photos /\ analyses[Of(t)'] # NoAnalysis
    <2>1. w.kind \in JobPlaces => w.kind = "job" /\ w.service = "selfie"
      BY KindsAssumption DEF JobPlaces
    <2>2. w.service = "selfie" => w.of \in Photos
      BY DEF Photos, SelfieWork
    <2> QED
      BY <1>1, <1>2, <2>1, <2>2 DEF JobDue, Of
  <1>4. UNCHANGED <<analyses, up, deaths>>
    BY <1>1 DEF photoVars, selfieVars
  <1>5. JobsHaveRows'
    BY <1>1, <1>3, <1>4 DEF SelfiesInv, JobsHaveRows, Others, Of
  <1>6. SelfieTypeOK'
    BY <1>4, NoRow DEF SelfiesInv, SelfieTypeOK
  <1> QED
    BY <1>5, <1>6 DEF SelfiesInv

LEMMA StepSelfies ==
  Frame /\ Placed /\ SelfiesInv /\ [Next]_vars => SelfiesInv'
  <1> SUFFICES ASSUME Frame, Placed, SelfiesInv, [Next]_vars PROVE SelfiesInv'
    OBVIOUS
  <1>0. up \in BOOLEAN /\ deaths \in 0 .. MaxDeaths
    BY DEF SelfiesInv, SelfieTypeOK
  <1>1. ASSUME NEW t \in Tasks, Submits(t) PROVE SelfiesInv'
    BY <1>1, SubmitsSelfies
  <1>2. ASSUME NEW t \in Tasks, SelfieStep(t) PROVE SelfiesInv'
    BY <1>2, SelfieStepInv
  <1>3. ASSUME NEW t \in Tasks, UNCHANGED selfieVars, ProductStep(t) \/ Dies(t) \/ AnalyzerStep(t)
        PROVE  SelfiesInv'
    <2>1. PICK P \in {CatalogPlaces, ConnectorPlaces, AIPlaces, AnalyzerPlaces} : Moves(t, P)
      BY <1>3, ProductMoves, DiesMoves, AnalyzerMoves
    <2>2. pc'[t] \notin JobPlaces
      BY <2>1 DEF Moves, CatalogPlaces, BatchPlaces, CountingPlaces, StartPlaces,
                  ConnectorPlaces, AIPlaces, AnalyzerPlaces, JobPlaces
    <2>3. NobodyTakesAJob
      BY <2>1, <2>2 DEF NobodyTakesAJob, Moves, Others, Of
    <2> QED
      BY <1>0, <1>3, <2>3, StaySelfies DEF selfieVars
  <1>4. CASE Time \/ Sweep
    BY <1>4, TimeInv, SweepInv
  <1>5. CASE Host /\ ~Time /\ ~Sweep
    <2>1. NobodyTakesAJob
      BY <1>5, HostSteps, GoneFrame DEF NobodyTakesAJob, Of, reqVars, JobPlaces
    <2>2. UNCHANGED analyses /\ up' \in BOOLEAN /\ deaths' \in 0 .. MaxDeaths
      <3>1. CASE UNCHANGED <<analyses, up, deaths>>
        BY <1>0, <3>1
      <3>2. CASE SelfieDies
        <4>1. /\ UNCHANGED analyses /\ up' = FALSE
              /\ deaths < MaxDeaths /\ deaths' = deaths + 1
          BY <3>2 DEF SelfieDies
        <4>2. deaths' \in 0 .. MaxDeaths
          BY <1>0, <4>1, DeathsAssumption
        <4> QED
          BY <4>1, <4>2
      <3>3. CASE SelfieRestarts
        BY <1>0, <3>3 DEF SelfieRestarts
      <3> QED
        BY <1>5, <3>1, <3>2, <3>3 DEF Host, SelfieHost, photoVars, selfieVars
    <2> QED
      BY <2>1, <2>2, StaySelfies
  <1>6. CASE UNCHANGED vars
    <2>1. NobodyTakesAJob /\ UNCHANGED <<analyses, up, deaths>>
      BY <1>6 DEF vars, reqVars, photoVars, selfieVars, NobodyTakesAJob, Of
    <2> QED
      BY <1>0, <2>1, StaySelfies
  <1> QED
    BY <1>1, <1>2, <1>3, <1>4, <1>5, <1>6 DEF Next, PhotoStep, ProductStep, Dies, photoVars

LEMMA InitSelfies == Init => SelfiesInv
  <1> SUFFICES ASSUME Init PROVE SelfiesInv
    OBVIOUS
  <1>1. \A t \in Tasks : pc[t] \notin JobPlaces
    BY InitFrame DEF Init, JobPlaces
  <1>2. SelfieTypeOK
    BY DeathsAssumption DEF Init, SelfieInit, SelfieTypeOK
  <1> QED
    BY <1>1, <1>2 DEF SelfiesInv, JobsHaveRows

-----------------------------------------------------------------------------
(* selfie-ai-analyzer: its pool of threads, and its workspaces.            *)

Phases == [Pipelines -> {"queued", "running", "over"}]
PipelinesRun == \A t \in Tasks : pc[t] = "pipelines" => mem[t] \in Phases /\ Of(t) \in Ids
PoolKept == stray + Cardinality(Busy) <= Threads

AnalyzerInv == AnalyzerTypeOK /\ PipelinesRun /\ PoolKept /\ PhotosAreCleared

\* Runs in the pipelines stay there and as they are, and no other joins.
PipelinesStay == \A t \in Tasks :
  (pc[t] = "pipelines" \/ pc'[t] = "pipelines") =>
    pc'[t] = pc[t] /\ mem'[t] = mem[t] /\ Of(t)' = Of(t)

LEMMA Calls ==
  ASSUME NEW S, S \subseteq Tasks \X Pipelines
  PROVE  IsFiniteSet(S) /\ Cardinality(S) \in Nat
  <1>1. IsFiniteSet(Pipelines)
    <2>1. IsFiniteSet({"face_mesh"})
      BY FS_Singleton
    <2>2. IsFiniteSet({"face_mesh"} \cup {"selfie_seg"})
      BY <2>1, FS_AddElement
    <2>3. IsFiniteSet(({"face_mesh"} \cup {"selfie_seg"}) \cup {"demographics"})
      BY <2>2, FS_AddElement
    <2>4. Pipelines = ({"face_mesh"} \cup {"selfie_seg"}) \cup {"demographics"}
      BY DEF Pipelines
    <2> QED
      BY <2>3, <2>4
  <1>2. IsFiniteSet(Tasks \X Pipelines)
    BY <1>1, FiniteAssumption, FS_Product
  <1> QED
    BY <1>2, FS_Subset, FS_CardinalityType

LEMMA BusyCalls == /\ IsFiniteSet(Busy) /\ Cardinality(Busy) \in Nat
                   /\ \A S : S \subseteq Busy => IsFiniteSet(S) /\ Cardinality(S) \in Nat
  <1>1. Busy \subseteq Tasks \X Pipelines
    BY DEF Busy
  <1> QED
    BY <1>1, Calls

\* Nobody takes a thread.
LEMMA NoThread ==
  ASSUME AnalyzerTypeOK, PoolKept, Busy' \subseteq Busy, stray' = stray
  PROVE  stray' \in 0 .. Threads /\ PoolKept'
  <1>1. Cardinality(Busy') <= Cardinality(Busy) /\ Cardinality(Busy') \in Nat /\ Cardinality(Busy) \in Nat
    BY BusyCalls, FS_Subset
  <1>2. stray \in Nat /\ Threads \in Nat
    BY ThreadsAssumption DEF AnalyzerTypeOK
  <1>3. stray + Cardinality(Busy') <= Threads
    BY <1>1, <1>2 DEF PoolKept
  <1> QED
    BY <1>3 DEF PoolKept, AnalyzerTypeOK

LEMMA OneThread ==
  ASSUME AnalyzerTypeOK, NEW c, Busy' \subseteq Busy \cup {c},
         Cardinality(Busy) + stray < Threads, stray' = stray
  PROVE  stray' \in 0 .. Threads /\ PoolKept'
  <1>1. IsFiniteSet(Busy \cup {c}) /\ Cardinality(Busy \cup {c}) <= Cardinality(Busy) + 1
    BY BusyCalls, FS_AddElement
  <1>2. /\ Cardinality(Busy') <= Cardinality(Busy \cup {c})
        /\ Cardinality(Busy') \in Nat /\ Cardinality(Busy \cup {c}) \in Nat
    BY <1>1, FS_Subset, FS_CardinalityType
  <1>3. stray \in Nat /\ Threads \in Nat /\ Cardinality(Busy) \in Nat
    BY ThreadsAssumption, BusyCalls DEF AnalyzerTypeOK
  <1>4. stray + Cardinality(Busy') <= Threads
    BY <1>1, <1>2, <1>3
  <1> QED
    BY <1>4 DEF PoolKept, AnalyzerTypeOK

\* The calls of a run that nobody waits for any more keep their threads.
LEMMA Strays ==
  ASSUME AnalyzerTypeOK, PoolKept, NEW S, S \subseteq Busy, Busy' \subseteq Busy \ S,
         stray' = stray + Cardinality(S)
  PROVE  stray' \in 0 .. Threads /\ PoolKept'
  <1>1. S = Busy \cap S
    OBVIOUS
  <1>2. /\ IsFiniteSet(Busy \ S) /\ Cardinality(Busy \ S) = Cardinality(Busy) - Cardinality(S)
    BY <1>1, BusyCalls, FS_Difference
  <1>3. Cardinality(Busy') <= Cardinality(Busy \ S) /\ Cardinality(Busy') \in Nat
    BY <1>2, FS_Subset, FS_CardinalityType
  <1>4. /\ stray \in Nat /\ Threads \in Nat
        /\ Cardinality(Busy) \in Nat /\ Cardinality(S) \in Nat
    BY ThreadsAssumption, BusyCalls DEF AnalyzerTypeOK
  <1>5. stray + Cardinality(Busy) <= Threads
    BY DEF PoolKept
  <1>6. stray' \in Nat /\ stray' + Cardinality(Busy') <= Threads
    BY <1>2, <1>3, <1>4, <1>5
  <1>7. stray' \in 0 .. Threads
    BY <1>3, <1>4, <1>6
  <1> QED
    BY <1>6, <1>7 DEF PoolKept

LEMMA PhotosStay ==
  ASSUME PhotosAreCleared, UNCHANGED <<dirs, cleanups, abandoned>>,
         \A t \in Tasks : pc[t] = "pipelines" => pc'[t] = "pipelines" /\ Of(t)' = Of(t)
  PROVE  PhotosAreCleared'
  BY DEF PhotosAreCleared, InUse, At

LEMMA StayAnalyzer ==
  ASSUME AnalyzerInv, PipelinesStay, UNCHANGED analyzerVars
  PROVE  AnalyzerInv'
  <1>0. UNCHANGED <<stray, dirs, cleanups, abandoned, shared>>
    BY DEF analyzerVars
  <1>1. Busy' \subseteq Busy
    BY DEF Busy, At, PipelinesStay
  <1>2. stray' \in 0 .. Threads /\ PoolKept'
    BY <1>0, <1>1, NoThread DEF AnalyzerInv
  <1>3. PipelinesRun'
    BY DEF AnalyzerInv, PipelinesRun, PipelinesStay
  <1>4. PhotosAreCleared'
    BY <1>0, PhotosStay DEF AnalyzerInv, PipelinesStay
  <1> QED
    BY <1>0, <1>2, <1>3, <1>4 DEF AnalyzerInv, AnalyzerTypeOK

\* A call of a run in the pipelines goes on.
LEMMA CallInv ==
  ASSUME Frame, AnalyzerInv, NEW t \in Tasks, NEW p \in Pipelines,
         ThreadTakes(t, p) \/ ThreadEnds(t, p) \/ PipelineTimesOut(t, p)
  PROVE  AnalyzerInv'
  <1>1. pc[t] = "pipelines" /\ mem[t] \in Phases /\ Of(t) \in Ids
    BY DEF ThreadTakes, ThreadEnds, PipelineTimesOut, At, AnalyzerInv, PipelinesRun
  <1>2. PICK phase \in {"running", "over"} : Goes(t, "pipelines", [mem[t] EXCEPT ![p] = phase])
    BY DEF ThreadTakes, ThreadEnds, PipelineTimesOut
  <1>3. PICK phases : phases = [mem[t] EXCEPT ![p] = phase]
    OBVIOUS
  <1>4. /\ phases \in Phases /\ phases[p] = phase
        /\ \A q \in Pipelines : q # p => phases[q] = mem[t][q]
    BY <1>1, <1>3 DEF Phases
  <1>5. /\ Others(t) /\ pc'[t] = "pipelines" /\ mem'[t] = phases /\ open' = open
    BY <1>1, <1>2, <1>3, GoesFrame
  <1>6. PipelinesRun'
    BY <1>1, <1>4, <1>5 DEF AnalyzerInv, PipelinesRun, Others, Of
  <1>7. PhotosAreCleared'
    <2>1. UNCHANGED <<dirs, cleanups, abandoned>>
      BY DEF ThreadTakes, ThreadEnds, PipelineTimesOut, analyzerVars
    <2> QED
      BY <1>5, <2>1, PhotosStay DEF AnalyzerInv, Others, Of
  <1>8. UNCHANGED <<dirs, cleanups, abandoned, shared>>
    BY DEF ThreadTakes, ThreadEnds, PipelineTimesOut, analyzerVars
  <1>9. Busy' \subseteq Busy \cup {<<t, p>>} /\ (phase # "running" => Busy' \subseteq Busy \ {<<t, p>>})
    BY <1>1, <1>4, <1>5 DEF Busy, At, Others
  <1>10. stray' \in 0 .. Threads /\ PoolKept'
    <2>1. CASE ThreadTakes(t, p)
      BY <1>9, <2>1, OneThread DEF AnalyzerInv, ThreadTakes, analyzerVars
    <2>2. ASSUME stray' = stray, phase # "running"
          PROVE  stray' \in 0 .. Threads /\ PoolKept'
      BY <1>9, <2>2, NoThread DEF AnalyzerInv
    <2>3. CASE mem[t][p] = "running" /\ stray' = stray + 1 /\ phase # "running"
      <3>1. PICK S : S = {<<t, p>>}
        OBVIOUS
      <3>2. S \subseteq Busy
        BY <1>1, <2>3, <3>1 DEF Busy, At
      <3>3. Cardinality(S) = 1
        BY <3>1, FS_Singleton
      <3> QED
        BY <1>9, <2>3, <3>1, <3>2, <3>3, Strays DEF AnalyzerInv
    <2>4. ThreadEnds(t, p) \/ PipelineTimesOut(t, p) => phase = "over"
      <3>1. ThreadEnds(t, p) \/ PipelineTimesOut(t, p) =>
              Goes(t, "pipelines", [mem[t] EXCEPT ![p] = "over"])
        BY DEF ThreadEnds, PipelineTimesOut
      <3> QED
        BY <1>1, <1>4, <1>5, <3>1 DEF Goes, Frame, Phases
    <2>5. CASE ThreadEnds(t, p)
      BY <2>2, <2>4, <2>5 DEF ThreadEnds, analyzerVars
    <2>6. CASE PipelineTimesOut(t, p)
      BY <2>2, <2>3, <2>4, <2>6 DEF PipelineTimesOut
    <2> QED
      BY <2>1, <2>5, <2>6
  <1> QED
    BY <1>6, <1>7, <1>8, <1>10 DEF AnalyzerInv, AnalyzerTypeOK

\* A run leaves a workspace behind, and with it a cleanup that is due.
LEMMA LeavesInv ==
  ASSUME Frame, AnalyzerInv, NEW t \in Tasks, Of(t) \in Ids, Leaves(t),
         dirs' \subseteq dirs \cup {Of(t)}, abandoned' \in {abandoned, abandoned \ {Of(t)}},
         shared' \subseteq Ids,
         stray' = stray + Cardinality(RunsOf(t)) \/ stray' = stray
  PROVE  AnalyzerInv'
  <1>1. Others(t) /\ pc'[t] = "idle"
    BY EndsFrame DEF Leaves
  <1>2. PICK i \in Ids : i = Of(t)
    OBVIOUS
  <1>3. cleanups' = [cleanups EXCEPT ![i] = @ + 1]
    BY <1>2 DEF Leaves
  <1>4. /\ cleanups' \in [Ids -> Nat] /\ cleanups'[i] > 0
        /\ \A j \in Ids : j # i => cleanups'[j] = cleanups[j]
    BY <1>2, <1>3 DEF AnalyzerInv, AnalyzerTypeOK
  <1>5. PipelinesRun'
    BY <1>1 DEF AnalyzerInv, PipelinesRun, Others, Of
  <1>6. Busy' \subseteq Busy \ RunsOf(t) /\ RunsOf(t) \subseteq Busy
    BY <1>1 DEF Busy, RunsOf, At, Others
  <1>7. stray' \in 0 .. Threads /\ PoolKept'
    BY <1>6, NoThread, Strays DEF AnalyzerInv
  <1>8. ASSUME NEW j \in dirs', j # i
        PROVE  \/ cleanups'[j] > 0 \/ j \in abandoned'
               \/ \E u \in Tasks : pc'[u] = "pipelines" /\ Of(u)' = j
    <2>1. j \in dirs /\ j \in Ids
      BY <1>2, <1>8 DEF AnalyzerInv, AnalyzerTypeOK
    <2>2. CASE \E u \in Tasks : pc[u] = "pipelines" /\ Of(u) = j
      BY <1>1, <1>2, <1>8, <2>2 DEF Others, Of
    <2>3. CASE ~\E u \in Tasks : pc[u] = "pipelines" /\ Of(u) = j
      BY <1>2, <1>4, <1>8, <2>1, <2>3 DEF AnalyzerInv, PhotosAreCleared, InUse, At
    <2> QED
      BY <2>2, <2>3
  <1>9. PhotosAreCleared'
    BY <1>4, <1>8 DEF PhotosAreCleared, InUse, At
  <1>10. dirs' \subseteq Ids /\ abandoned' \subseteq Ids
    BY DEF AnalyzerInv, AnalyzerTypeOK
  <1> QED
    BY <1>4, <1>5, <1>7, <1>9, <1>10 DEF AnalyzerInv, AnalyzerTypeOK

LEMMA ReceiveInv ==
  ASSUME Frame, AnalyzerInv, NEW t \in Tasks, Of(t) \in Ids, Receive(t)
  PROVE  AnalyzerInv'
  <1>1. pc[t] = "photo" /\ stray' = stray
    BY DEF Receive, At
  <1>2. CASE Ends(t) /\ UNCHANGED <<dirs, cleanups, abandoned, shared>>
    <2>1. PipelinesStay
      BY <1>1, <1>2, EndsFrame DEF PipelinesStay, Others, Of
    <2> QED
      BY <1>1, <1>2, <2>1, StayAnalyzer DEF analyzerVars
  <1>5. ASSUME shared' = IF InUse(Of(t)) THEN shared \cup {Of(t)} ELSE shared \ {Of(t)}
        PROVE  shared' \subseteq Ids
    BY <1>5 DEF AnalyzerInv, AnalyzerTypeOK
  <1>3. CASE /\ dirs' = dirs \cup {Of(t)} /\ abandoned' = abandoned \ {Of(t)}
             /\ shared' \subseteq Ids /\ Leaves(t)
    BY <1>1, <1>3, LeavesInv
  <1>4. CASE /\ dirs' = dirs \cup {Of(t)} /\ abandoned' = abandoned \ {Of(t)}
             /\ shared' \subseteq Ids /\ UNCHANGED cleanups
             /\ Goes(t, "pipelines", [p \in Pipelines |-> "queued"])
    <2>1. PICK phases : phases = [p \in Pipelines |-> "queued"]
      OBVIOUS
    <2>2. phases \in Phases /\ \A p \in Pipelines : phases[p] # "running"
      BY <2>1 DEF Phases
    <2>3. Others(t) /\ pc'[t] = "pipelines" /\ mem'[t] = phases /\ open' = open
      BY <1>1, <1>4, <2>1, GoesFrame
    <2>4. PipelinesRun'
      BY <2>2, <2>3 DEF AnalyzerInv, PipelinesRun, Others, Of
    <2>5. Busy' \subseteq Busy
      BY <2>2, <2>3 DEF Busy, At, Others
    <2>6. stray' \in 0 .. Threads /\ PoolKept'
      BY <1>1, <2>5, NoThread DEF AnalyzerInv
    <2>7. \A u \in Tasks : pc[u] = "pipelines" => pc'[u] = "pipelines" /\ Of(u)' = Of(u)
      BY <1>1, <2>3 DEF Others, Of
    <2>8. Of(t)' = Of(t)
      BY <2>3 DEF Of
    <2>9. PhotosAreCleared'
      BY <1>1, <1>4, <2>3, <2>7, <2>8 DEF AnalyzerInv, PhotosAreCleared, InUse, At
    <2> QED
      BY <1>1, <1>4, <2>4, <2>6, <2>9 DEF AnalyzerInv, AnalyzerTypeOK
  <1> QED
    BY <1>2, <1>3, <1>4, <1>5 DEF Receive

LEMMA AnalyzerStepInv ==
  ASSUME Frame, Placed, AnalyzerInv, NEW t \in Tasks, AnalyzerStep(t)
  PROVE  AnalyzerInv'
  <1>1. Of(t) \in Ids
    <2>1. pc[t] \in AnalyzerPlaces /\ pc[t] # "idle"
      BY AnalyzerMoves DEF Moves, AnalyzerPlaces
    <2>2. open[t] # None /\ open[t] \in Work
      BY <2>1, RunsWork DEF Frame
    <2>3. open[t].service = "analyzer"
      BY <2>1, <2>2, ServiceOf
    <2> QED
      BY <2>2, <2>3 DEF Of, Ids, Photographs
  <1>2. CASE Receive(t)
    BY <1>1, <1>2, ReceiveInv
  <1>3. CASE Finish(t)
    <2>1. Leaves(t) /\ stray' = stray /\ dirs' \subseteq dirs \cup {Of(t)}
          /\ abandoned' = abandoned /\ shared' \subseteq Ids
      BY <1>3 DEF Finish, AnalyzerInv, AnalyzerTypeOK
    <2> QED
      BY <1>1, <2>1, LeavesInv
  <1>4. CASE TotalTimeout(t)
    <2>1. /\ Leaves(t) /\ stray' = stray + Cardinality(RunsOf(t))
          /\ dirs' \subseteq dirs \cup {Of(t)}
          /\ abandoned' = abandoned /\ shared' \subseteq Ids
      BY <1>4 DEF TotalTimeout, AnalyzerInv, AnalyzerTypeOK
    <2> QED
      BY <1>1, <2>1, LeavesInv
  <1>5. ASSUME NEW p \in Pipelines, ThreadTakes(t, p) \/ ThreadEnds(t, p) \/ PipelineTimesOut(t, p)
        PROVE  AnalyzerInv'
    BY <1>5, CallInv
  <1> QED
    BY <1>2, <1>3, <1>4, <1>5 DEF AnalyzerStep

\* With the last run, or with the process, its threads are gone too.
LEMMA AllGone ==
  ASSUME AnalyzerInv, \A t \in Tasks : pc'[t] # "pipelines", stray' = 0,
         cleanups' = [i \in Ids |-> 0], dirs' \subseteq dirs,
         abandoned' \subseteq Ids, dirs' \subseteq abandoned', shared' = shared
  PROVE  AnalyzerInv'
  <1>1. Busy' = {}
    BY DEF Busy, At
  <1>2. Cardinality(Busy') = 0 /\ Threads \in Nat
    BY <1>1, FS_EmptySet, ThreadsAssumption
  <1>3. PoolKept' /\ stray' \in 0 .. Threads
    BY <1>2 DEF PoolKept
  <1> QED
    BY <1>3 DEF AnalyzerInv, AnalyzerTypeOK, PipelinesRun, PhotosAreCleared

LEMMA AnalyzerHostInv ==
  ASSUME Frame, Placed, AnalyzerInv, AnalyzerHost
  PROVE  AnalyzerInv'
  <1>0. ASSUME NEW t \in Tasks, pc[t] = "pipelines"
        PROVE  t \in AtWork
    <2>1. open[t] # None /\ open[t] \in Work
      BY <1>0, RunsWork DEF Frame
    <2>2. open[t].service = "analyzer"
      BY <1>0, <2>1, ServiceOf DEF AnalyzerPlaces
    <2> QED
      BY <2>1, <2>2 DEF AtWork, Photographs
  <1>1. CASE StrayEnds
    <2>1. stray' = stray - 1 /\ stray > 0 /\ UNCHANGED <<reqVars, dirs, cleanups, abandoned, shared>>
      BY <1>1 DEF StrayEnds
    <2>2. Busy' = Busy /\ PipelinesRun' /\ PhotosAreCleared'
      BY <2>1 DEF Busy, At, PipelinesRun, PhotosAreCleared, InUse, Of, reqVars, AnalyzerInv
    <2>3. stray \in 0 .. Threads /\ Threads \in Nat /\ Cardinality(Busy) \in Nat
      BY ThreadsAssumption, BusyCalls DEF AnalyzerInv, AnalyzerTypeOK
    <2>4. stray + Cardinality(Busy) <= Threads
      BY DEF AnalyzerInv, PoolKept
    <2>5. stray' \in 0 .. Threads /\ stray' + Cardinality(Busy) <= Threads
      BY <2>1, <2>3, <2>4
    <2> QED
      BY <2>1, <2>2, <2>5 DEF AnalyzerInv, AnalyzerTypeOK, PoolKept
  <1>2. CASE AnalyzerStops
    <2>1. \A t \in Tasks : pc'[t] # "pipelines"
      BY <1>0, <1>2 DEF AnalyzerStops, reqVars
    <2> QED
      BY <1>2, <2>1, AllGone DEF AnalyzerStops, AnalyzerInv, AnalyzerTypeOK
  <1>3. CASE AnalyzerDies
    <2>1. \A t \in Tasks : pc'[t] # "pipelines"
      BY <1>0, <1>3 DEF AnalyzerDies
    <2> QED
      BY <1>3, <2>1, AllGone DEF AnalyzerDies, AnalyzerInv, AnalyzerTypeOK
  <1>4. ASSUME NEW i \in Ids, Cleanup(i)
        PROVE  AnalyzerInv'
    <2>1. /\ cleanups[i] > 0 /\ cleanups' = [cleanups EXCEPT ![i] = @ - 1]
          /\ \/ dirs' = dirs \ {i} /\ abandoned' = abandoned
             \/ dirs' = dirs /\ abandoned' = abandoned \cup ({i} \cap dirs)
          /\ UNCHANGED <<reqVars, stray, shared>>
      BY <1>4 DEF Cleanup
    <2>2. /\ cleanups' \in [Ids -> Nat]
          /\ \A j \in Ids : j # i => cleanups'[j] = cleanups[j]
      BY <2>1 DEF AnalyzerInv, AnalyzerTypeOK
    <2>3. Busy' = Busy /\ PipelinesRun'
      BY <2>1 DEF Busy, At, PipelinesRun, Of, reqVars, AnalyzerInv
    <2>4. /\ \A j \in dirs' : j \in dirs /\ j \in Ids /\ (j # i \/ j \in abandoned')
          /\ abandoned \subseteq abandoned' /\ abandoned' \subseteq Ids
      BY <2>1 DEF AnalyzerInv, AnalyzerTypeOK
    <2>5. PhotosAreCleared'
      BY <2>1, <2>2, <2>4 DEF AnalyzerInv, PhotosAreCleared, InUse, At, Of, reqVars
    <2> QED
      BY <2>1, <2>2, <2>3, <2>4, <2>5 DEF AnalyzerInv, AnalyzerTypeOK, PoolKept
  <1> QED
    BY <1>1, <1>2, <1>3, <1>4 DEF AnalyzerHost

LEMMA StepAnalyzer ==
  Frame /\ Placed /\ AnalyzerInv /\ [Next]_vars => AnalyzerInv'
  <1> SUFFICES ASSUME Frame, Placed, AnalyzerInv, [Next]_vars PROVE AnalyzerInv'
    OBVIOUS
  <1>1. ASSUME NEW t \in Tasks, Others(t), pc[t] # "pipelines", pc'[t] # "pipelines"
        PROVE  PipelinesStay
    BY <1>1 DEF PipelinesStay, Others, Of
  <1>2. ASSUME UNCHANGED analyzerVars, PipelinesStay PROVE AnalyzerInv'
    BY <1>2, StayAnalyzer
  <1>3. ASSUME NEW t \in Tasks, Submits(t) PROVE AnalyzerInv'
    <2>1. /\ Others(t) /\ pc[t] = "idle" /\ open'[t] \in Work /\ pc'[t] = open'[t].kind
          /\ UNCHANGED analyzerVars
      BY <1>3, KindsNotIdle, StartFrame DEF Submits, photoVars
    <2>2. PICK w \in Work : w = open'[t]
      BY <2>1
    <2>3. pc'[t] # "pipelines"
      BY <2>1, <2>2, KindsAssumption
    <2> QED
      BY <1>1, <1>2, <2>1, <2>3
  <1>4. ASSUME NEW t \in Tasks, AnalyzerStep(t) PROVE AnalyzerInv'
    BY <1>4, AnalyzerStepInv
  <1>5. ASSUME NEW t \in Tasks, UNCHANGED analyzerVars, ProductStep(t) \/ Dies(t) \/ SelfieStep(t)
        PROVE  AnalyzerInv'
    <2>1. PICK P \in {CatalogPlaces, ConnectorPlaces, AIPlaces, SelfiePlaces} : Moves(t, P)
      BY <1>5, ProductMoves, DiesMoves, SelfieMoves
    <2>2. Others(t) /\ pc[t] # "pipelines" /\ pc'[t] # "pipelines"
      BY <2>1 DEF Moves, CatalogPlaces, BatchPlaces, CountingPlaces, StartPlaces,
                  ConnectorPlaces, AIPlaces, SelfiePlaces, JobPlaces
    <2> QED
      BY <1>1, <1>2, <1>5, <2>2
  <1>6. CASE AnalyzerHost
    BY <1>6, AnalyzerHostInv
  <1>7. CASE Host /\ ~AnalyzerHost
    <2>1. UNCHANGED analyzerVars
      BY <1>7 DEF Host, SelfieHost, photoVars
    <2>2. \/ UNCHANGED reqVars
          \/ Gone(Working) /\ \A t \in Working : pc[t] \in SelfiePlaces
      BY <1>7, HostSteps DEF AnalyzerHost
    <2>3. PipelinesStay
      BY <2>2, GoneFrame DEF PipelinesStay, reqVars, Of, SelfiePlaces, JobPlaces
    <2> QED
      BY <1>2, <2>1, <2>3
  <1>8. CASE UNCHANGED vars
    BY <1>2, <1>8 DEF vars, photoVars, reqVars, PipelinesStay, Of
  <1> QED
    BY <1>3, <1>4, <1>5, <1>6, <1>7, <1>8 DEF Next, PhotoStep, ProductStep, Dies, photoVars

LEMMA InitAnalyzer == Init => AnalyzerInv
  <1> SUFFICES ASSUME Init PROVE AnalyzerInv
    OBVIOUS
  <1>1. \A t \in Tasks : pc[t] # "pipelines"
    BY InitFrame DEF Init
  <1>2. Busy = {}
    BY <1>1 DEF Busy, At
  <1>3. Cardinality(Busy) = 0 /\ Threads \in Nat
    BY <1>2, FS_EmptySet, ThreadsAssumption
  <1> QED
    BY <1>1, <1>3 DEF Init, AnalyzerInit, AnalyzerInv, AnalyzerTypeOK, PipelinesRun, PoolKept,
                      PhotosAreCleared

-----------------------------------------------------------------------------
\* The inductive invariants of selfie-service, of the analyzer and of what the
\* catalogue holds, beside that of its syncs.
THEOREM PhotosInvariantHolds == Spec => [](StoredInv /\ SelfiesInv /\ AnalyzerInv)
  <1>1. Init => StoredInv /\ SelfiesInv /\ AnalyzerInv
    BY InitStored, InitSelfies, InitAnalyzer
  <1>2. CatalogInv /\ Placed /\ StoredInv /\ SelfiesInv /\ AnalyzerInv /\ [Next]_vars
          => (StoredInv /\ SelfiesInv /\ AnalyzerInv)'
    BY StepStored, StepSelfies, StepAnalyzer DEF CatalogInv
  <1> QED
    BY <1>1, <1>2, InvariantHolds, PTL DEF Spec

\* A photo on disk has a run at work on it or a cleanup that is due, unless
\* the process was killed, or a removal failed, since it was last sent.
THEOREM PhotosGetCleared == Spec => []PhotosAreCleared
  <1>1. AnalyzerInv => PhotosAreCleared
    BY DEF AnalyzerInv
  <1> QED
    BY <1>1, PhotosInvariantHolds, PTL

\* The calls that runs wait for and the stray ones together never exceed the
\* thread pool, however runs are cut short.
THEOREM PoolNeverOverfull == Spec => [](stray + Cardinality(Busy) <= Threads)
  <1>1. AnalyzerInv => stray + Cardinality(Busy) <= Threads
    BY DEF AnalyzerInv, PoolKept
  <1> QED
    BY <1>1, PhotosInvariantHolds, PTL

-----------------------------------------------------------------------------
(* A run that has its workspace for itself finds it there to the end.      *)

Alone(i) == i \notin shared => \A t \in Tasks : At(t, "pipelines") /\ Of(t) = i =>
  /\ i \in dirs /\ cleanups[i] = 0
  /\ \A u \in Tasks : At(u, "pipelines") /\ Of(u) = i => u = t

WorkspacesInv == \A i \in Ids : Alone(i)

\* Nobody joins a run in its workspace, and nobody is there who was not.
LEMMA AloneKept ==
  ASSUME NEW i, Alone(i), shared' = shared, i \in dirs => i \in dirs',
         cleanups'[i] = cleanups[i],
         \A t \in Tasks : pc'[t] = "pipelines" => pc[t] = "pipelines" /\ Of(t)' = Of(t)
  PROVE  Alone(i)'
  BY DEF Alone, At

LEMMA WorkspacesStay ==
  ASSUME WorkspacesInv, UNCHANGED <<dirs, cleanups, shared>>,
         \A t \in Tasks : pc'[t] = "pipelines" => pc[t] = "pipelines" /\ Of(t)' = Of(t)
  PROVE  WorkspacesInv'
  BY AloneKept DEF WorkspacesInv

LEMMA ReceiveAlone ==
  ASSUME Frame, AnalyzerInv, WorkspacesInv, NEW t \in Tasks, Of(t) \in Ids, Receive(t)
  PROVE  WorkspacesInv'
  <1>1. pc[t] = "photo"
    BY DEF Receive, At
  <1>2. PICK i \in Ids : i = Of(t)
    OBVIOUS
  <1>3. PICK phases : phases = [p \in Pipelines |-> "queued"]
    OBVIOUS
  <1>4. Ends(t) \/ Goes(t, "pipelines", phases)
    BY <1>3 DEF Receive, Leaves
  <1>5. /\ Others(t)
        /\ pc'[t] = "idle" \/ (pc'[t] = "pipelines" /\ Of(t)' = i /\ Goes(t, "pipelines", phases))
    BY <1>1, <1>2, <1>4, EndsFrame, GoesFrame DEF Of
  <1>6. ASSUME NEW u \in Tasks, u # t
        PROVE  pc'[u] = pc[u] /\ Of(u)' = Of(u)
    BY <1>5, <1>6 DEF Others, Of
  <1>7. CASE UNCHANGED <<dirs, cleanups, abandoned, shared>> /\ Ends(t)
    BY <1>5, <1>6, <1>7, EndsFrame, WorkspacesStay
  <1>8. CASE /\ dirs' = dirs \cup {i}
             /\ shared' = IF InUse(i) THEN shared \cup {i} ELSE shared \ {i}
             /\ \/ Goes(t, "pipelines", phases) /\ UNCHANGED cleanups
                \/ Leaves(t)
    <2>1. ASSUME NEW j \in Ids, j # i
          PROVE  Alone(j)'
      <3>1. cleanups'[j] = cleanups[j]
        BY <1>2, <1>8, <2>1 DEF Leaves, AnalyzerInv, AnalyzerTypeOK
      <3>2. Alone(j) /\ (j \in shared' <=> j \in shared) /\ (j \in dirs => j \in dirs')
        BY <1>8, <2>1 DEF WorkspacesInv
      <3>3. \A u \in Tasks : pc'[u] = "pipelines" /\ Of(u)' = j =>
                               u # t /\ pc[u] = "pipelines" /\ Of(u) = j
        BY <1>5, <1>6, <2>1
      <3> QED
        BY <3>1, <3>2, <3>3 DEF Alone, At
    <2>2. CASE InUse(i)
      BY <1>8, <2>1, <2>2 DEF WorkspacesInv, Alone
    <2>3. CASE ~InUse(i)
      <3>1. cleanups[i] = 0 /\ \A u \in Tasks : ~(pc[u] = "pipelines" /\ Of(u) = i)
        BY <2>3 DEF InUse, At, AnalyzerInv, AnalyzerTypeOK
      <3>2. \A u \in Tasks : pc'[u] = "pipelines" /\ Of(u)' = i =>
                               u = t /\ Goes(t, "pipelines", phases)
        BY <1>5, <1>6, <3>1
      <3>3. Goes(t, "pipelines", phases) => ~Leaves(t)
        BY <1>1, EndsFrame, GoesFrame DEF Leaves
      <3>4. Alone(i)'
        BY <1>8, <3>1, <3>2, <3>3 DEF Alone, At
      <3> QED
        BY <2>1, <3>4 DEF WorkspacesInv
    <2> QED
      BY <2>2, <2>3
  <1> QED
    BY <1>2, <1>3, <1>7, <1>8 DEF Receive

LEMMA LeavesAlone ==
  ASSUME Frame, AnalyzerInv, WorkspacesInv, NEW t \in Tasks, Of(t) \in Ids,
         pc[t] = "pipelines", Leaves(t), UNCHANGED <<dirs, shared>>
  PROVE  WorkspacesInv'
  <1>1. Others(t) /\ pc'[t] = "idle"
    BY EndsFrame DEF Leaves
  <1>2. \A u \in Tasks : pc'[u] = "pipelines" => u # t /\ pc[u] = "pipelines" /\ Of(u)' = Of(u)
    BY <1>1 DEF Others, Of
  <1>3. PICK i \in Ids : i = Of(t)
    OBVIOUS
  <1>4. ASSUME NEW j \in Ids, j # i
        PROVE  Alone(j)'
    <2>1. cleanups'[j] = cleanups[j] /\ Alone(j)
      BY <1>3, <1>4 DEF Leaves, AnalyzerInv, AnalyzerTypeOK, WorkspacesInv
    <2> QED
      BY <1>2, <2>1, AloneKept
  <1>5. Alone(i)'
    <2>1. i \notin shared => \A u \in Tasks : ~(pc'[u] = "pipelines" /\ Of(u)' = i)
      BY <1>2, <1>3 DEF WorkspacesInv, Alone, At
    <2> QED
      BY <2>1 DEF Alone, At
  <1> QED
    BY <1>4, <1>5 DEF WorkspacesInv

LEMMA AnalyzerStepAlone ==
  ASSUME Frame, Placed, AnalyzerInv, WorkspacesInv, NEW t \in Tasks, AnalyzerStep(t)
  PROVE  WorkspacesInv'
  <1>1. Of(t) \in Ids
    <2>1. pc[t] \in AnalyzerPlaces /\ pc[t] # "idle"
      BY AnalyzerMoves DEF Moves, AnalyzerPlaces
    <2>2. open[t] # None /\ open[t] \in Work
      BY <2>1, RunsWork DEF Frame
    <2>3. open[t].service = "analyzer"
      BY <2>1, <2>2, ServiceOf
    <2> QED
      BY <2>2, <2>3 DEF Of, Ids, Photographs
  <1>2. CASE Receive(t)
    BY <1>1, <1>2, ReceiveAlone
  <1>3. CASE Finish(t) \/ TotalTimeout(t)
    BY <1>1, <1>3, LeavesAlone DEF Finish, TotalTimeout, At
  <1>4. ASSUME NEW p \in Pipelines, ThreadTakes(t, p) \/ ThreadEnds(t, p) \/ PipelineTimesOut(t, p)
        PROVE  WorkspacesInv'
    <2>1. PICK phase : Goes(t, "pipelines", phase)
      BY <1>4 DEF ThreadTakes, ThreadEnds, PipelineTimesOut
    <2>2. pc[t] = "pipelines" /\ UNCHANGED <<dirs, cleanups, shared>>
      BY <1>4 DEF ThreadTakes, ThreadEnds, PipelineTimesOut, At, analyzerVars
    <2>3. Others(t) /\ open' = open
      BY <2>1, <2>2, GoesFrame
    <2> QED
      BY <2>2, <2>3, WorkspacesStay DEF Others, Of
  <1> QED
    BY <1>2, <1>3, <1>4 DEF AnalyzerStep

\* A cleanup comes to a workspace nobody is alone in; with the process its
\* runs end.
LEMMA AnalyzerHostAlone ==
  ASSUME Frame, Placed, AnalyzerInv, WorkspacesInv, AnalyzerHost
  PROVE  WorkspacesInv'
  <1>1. CASE StrayEnds
    BY <1>1, WorkspacesStay DEF StrayEnds, reqVars, Of
  <1>2. CASE AnalyzerStops \/ AnalyzerDies
    <2>1. ASSUME NEW t \in Tasks, pc[t] = "pipelines"
          PROVE  t \in AtWork
      <3>1. open[t] # None /\ open[t] \in Work
        BY <2>1, RunsWork DEF Frame
      <3>2. open[t].service = "analyzer"
        BY <2>1, <3>1, ServiceOf DEF AnalyzerPlaces
      <3> QED
        BY <3>1, <3>2 DEF AtWork, Photographs
    <2>2. \A t \in Tasks : pc'[t] # "pipelines"
      BY <1>2, <2>1 DEF AnalyzerStops, AnalyzerDies, reqVars
    <2> QED
      BY <2>2 DEF WorkspacesInv, Alone, At
  <1>3. ASSUME NEW i \in Ids, Cleanup(i)
        PROVE  WorkspacesInv'
    <2>1. /\ cleanups[i] > 0 /\ cleanups' = [cleanups EXCEPT ![i] = @ - 1]
          /\ dirs \ {i} \subseteq dirs' /\ UNCHANGED <<reqVars, shared>>
      BY <1>3 DEF Cleanup
    <2>2. \A t \in Tasks : pc'[t] = pc[t] /\ Of(t)' = Of(t)
      BY <2>1 DEF reqVars, Of
    <2>3. ASSUME NEW j \in Ids, j # i
          PROVE  Alone(j)'
      <3>1. cleanups'[j] = cleanups[j] /\ (j \in dirs => j \in dirs') /\ Alone(j)
        BY <2>1, <2>3 DEF AnalyzerInv, AnalyzerTypeOK, WorkspacesInv
      <3> QED
        BY <2>1, <2>2, <3>1, AloneKept
    <2>4. Alone(i)'
      <3>1. i \notin shared => \A t \in Tasks : ~(pc[t] = "pipelines" /\ Of(t) = i)
        BY <2>1 DEF WorkspacesInv, Alone, At
      <3> QED
        BY <2>1, <2>2, <3>1 DEF Alone, At
    <2> QED
      BY <2>3, <2>4 DEF WorkspacesInv
  <1> QED
    BY <1>1, <1>2, <1>3 DEF AnalyzerHost

LEMMA StepWorkspaces ==
  Frame /\ Placed /\ AnalyzerInv /\ WorkspacesInv /\ [Next]_vars => WorkspacesInv'
  <1> SUFFICES ASSUME Frame, Placed, AnalyzerInv, WorkspacesInv, [Next]_vars
               PROVE  WorkspacesInv'
    OBVIOUS
  <1>1. ASSUME UNCHANGED analyzerVars,
               \A t \in Tasks : pc'[t] = "pipelines" => pc[t] = "pipelines" /\ Of(t)' = Of(t)
        PROVE  WorkspacesInv'
    BY <1>1, WorkspacesStay DEF analyzerVars
  <1>2. ASSUME NEW t \in Tasks, Submits(t) PROVE WorkspacesInv'
    <2>1. /\ Others(t) /\ open'[t] \in Work /\ pc'[t] = open'[t].kind
          /\ UNCHANGED analyzerVars
      BY <1>2, KindsNotIdle, StartFrame DEF Submits, photoVars
    <2>2. PICK w \in Work : w = open'[t]
      BY <2>1
    <2>3. pc'[t] # "pipelines"
      BY <2>1, <2>2, KindsAssumption
    <2> QED
      BY <1>1, <2>1, <2>3 DEF Others, Of
  <1>3. ASSUME NEW t \in Tasks, AnalyzerStep(t) PROVE WorkspacesInv'
    BY <1>3, AnalyzerStepAlone
  <1>4. ASSUME NEW t \in Tasks, UNCHANGED analyzerVars, ProductStep(t) \/ Dies(t) \/ SelfieStep(t)
        PROVE  WorkspacesInv'
    <2>1. PICK P \in {CatalogPlaces, ConnectorPlaces, AIPlaces, SelfiePlaces} : Moves(t, P)
      BY <1>4, ProductMoves, DiesMoves, SelfieMoves
    <2>2. Others(t) /\ pc'[t] # "pipelines"
      BY <2>1 DEF Moves, CatalogPlaces, BatchPlaces, CountingPlaces, StartPlaces,
                  ConnectorPlaces, AIPlaces, SelfiePlaces, JobPlaces
    <2> QED
      BY <1>1, <1>4, <2>2 DEF Others, Of
  <1>5. CASE AnalyzerHost
    BY <1>5, AnalyzerHostAlone
  <1>6. CASE Host /\ ~AnalyzerHost
    <2>1. UNCHANGED analyzerVars
      BY <1>6 DEF Host, SelfieHost, photoVars
    <2>2. UNCHANGED reqVars \/ Gone(Working)
      BY <1>6, HostSteps DEF AnalyzerHost
    <2>3. \A t \in Tasks : pc'[t] = "pipelines" => pc[t] = "pipelines" /\ Of(t)' = Of(t)
      BY <2>2, GoneFrame DEF reqVars, Of
    <2> QED
      BY <1>1, <2>1, <2>3
  <1>7. CASE UNCHANGED vars
    BY <1>1, <1>7 DEF vars, photoVars, reqVars, Of
  <1> QED
    BY <1>2, <1>3, <1>4, <1>5, <1>6, <1>7 DEF Next, PhotoStep, ProductStep, Dies, photoVars

LEMMA InitWorkspaces == Init => WorkspacesInv
  <1> SUFFICES ASSUME Init PROVE WorkspacesInv
    OBVIOUS
  <1>1. \A t \in Tasks : pc[t] # "pipelines"
    BY InitFrame DEF Init
  <1> QED
    BY <1>1 DEF WorkspacesInv, Alone, At

\* No cleanup takes a photo away under a run, and no run finds it gone, unless
\* the analysis was sent again while an earlier run of it was at work or its
\* cleanup was due.
THEOREM WorkspacesLast == Spec => []WorkspaceOutlivesRun
  <1>1. Init => WorkspacesInv
    BY InitWorkspaces
  <1>2. CatalogInv /\ Placed /\ AnalyzerInv /\ WorkspacesInv /\ [Next]_vars => WorkspacesInv'
    BY StepWorkspaces DEF CatalogInv
  <1>3. AnalyzerInv /\ WorkspacesInv => WorkspaceOutlivesRun
    BY DEF AnalyzerInv, PipelinesRun, WorkspacesInv, Alone, WorkspaceOutlivesRun, At
  <1> QED
    BY <1>1, <1>2, <1>3, InvariantHolds, PhotosInvariantHolds, PTL DEF Spec

-----------------------------------------------------------------------------
\* What the other two services keep: how a fetch was settled, and what came of
\* an item's analysis.
LEMMA FetchTypes ==
  ConnectorTypeOK /\ AITypeOK /\ [Next]_vars => ConnectorTypeOK' /\ AITypeOK'
  <1> SUFFICES ASSUME ConnectorTypeOK, AITypeOK, [Next]_vars PROVE ConnectorTypeOK' /\ AITypeOK'
    OBVIOUS
  <1>1. ASSUME NEW t \in Tasks, ConnectorStep(t) PROVE ConnectorTypeOK'
    <2>1. \/ UNCHANGED settled
          \/ settled' = [settled EXCEPT ![open[t]] = "nak"]
          \/ settled' = [settled EXCEPT ![open[t]] = "ack"]
      BY <1>1 DEF ConnectorStep, Authenticate, FetchPage, Settles
    <2> QED
      BY <2>1 DEF ConnectorTypeOK
  <1>2. ASSUME NEW t \in Tasks, AIStep(t) PROVE AITypeOK'
    <2>1. UNCHANGED verdicts \/ verdicts' = [verdicts EXCEPT ![open[t]] = "failed"]
      BY <1>2 DEF AIStep, RequestAnalysis, Validate, Download, ExtractColours, AskAgain,
                  Answered, Gathered, TimesOut, Verdict, aiVars
    <2> QED
      BY <2>1 DEF AITypeOK
  <1>3. UNCHANGED connectorVars \/ \E t \in Tasks : ConnectorStep(t)
    BY DEF Next, Host, SelfieHost, Submits, ProductStep, PhotoStep, Dies, vars, productVars
  <1>4. UNCHANGED aiVars \/ \E t \in Tasks : AIStep(t)
    BY DEF Next, Host, SelfieHost, Submits, ProductStep, PhotoStep, Dies, vars, productVars
  <1> QED
    BY <1>1, <1>2, <1>3, <1>4 DEF connectorVars, aiVars, ConnectorTypeOK, AITypeOK

\* Every variable of the five services keeps to its type: no row is half
\* written, syncs are numbered without a gap, results and marks belong to
\* items that are there, and no more calls run than there are threads.
THEOREM TypeCorrect == Spec => []TypeOK
  <1>1. Init => ConnectorTypeOK /\ AITypeOK
    BY DEF Init, ConnectorInit, AIInit, ConnectorTypeOK, AITypeOK
  <1>2. CatalogInv => RequestsTypeOK
    BY DEF CatalogInv, Frame, RequestsTypeOK
  <1>3. CatalogInv /\ PollsInv /\ StoredInv => CatalogTypeOK
    <2> SUFFICES ASSUME CatalogInv, PollsInv, StoredInv PROVE CatalogTypeOK
      OBVIOUS
    <2>1. Shapes /\ created \in Nat /\ created <= MaxSyncs
      BY CreatedBound DEF CatalogInv, SyncInv
    <2>2. ASSUME NEW s \in SyncIds
          PROVE  /\ syncs[s] \in SyncRows \cup {NoSync}
                 /\ (syncs[s] = NoSync) <=> (s > created)
      <3>1. CASE s > created
        BY <3>1 DEF StoredInv
      <3>2. CASE ~(s > created)
        <4>1. s \in 1 .. created
          BY <2>1, <3>2, BoundOfSyncs DEF SyncIds
        <4>2. syncs[s] \in SyncRows
          BY <2>1, <4>1 DEF Shapes
        <4>3. "of" \in DOMAIN syncs[s] /\ "of" \notin DOMAIN NoSync
          BY <4>2 DEF SyncRows, NoSync
        <4>4. syncs[s] # NoSync
          BY <4>3, Zenon
        <4> QED
          BY <3>2, <4>2, <4>4
      <3> QED
        BY <3>1, <3>2
    <2>3. syncs \in [SyncIds -> SyncRows \cup {NoSync}]
      BY <2>1, <2>2 DEF Shapes
    <2>4. /\ analyzed \subseteq items /\ items \subseteq Variants /\ cut \subseteq Results
          /\ results \subseteq Results /\ \A r \in results : r[1] \in items
      BY DEF StoredInv
    <2>5. shown \in [SyncIds -> [cache : Answers, row : Answers]]
      BY DEF PollsInv
    <2> QED
      BY <2>1, <2>2, <2>3, <2>4, <2>5 DEF CatalogTypeOK, Shapes, Tallies
  <1>4. SelfiesInv /\ AnalyzerInv => SelfieTypeOK /\ AnalyzerTypeOK
    BY DEF SelfiesInv, AnalyzerInv
  <1>5. (RequestsTypeOK /\ CatalogTypeOK /\ ConnectorTypeOK /\ AITypeOK /\ SelfieTypeOK
          /\ AnalyzerTypeOK) => TypeOK
    BY DEF TypeOK
  <1> QED
    BY <1>1, <1>2, <1>3, <1>4, <1>5, FetchTypes, InvariantHolds, PollsInvariantHolds,
       PhotosInvariantHolds, PTL
       DEF Spec
=============================================================================
