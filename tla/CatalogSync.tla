----------------------------- MODULE CatalogSync -----------------------------
(***************************************************************************)
(* services/catalog-service: sync operations, their progress in PostgreSQL *)
(* and in Redis, the catalogue they fill, and the AI's results.            *)
(*                                                                         *)
(* Every publish passes data=, which publish_event does not take, and      *)
(* complete_sync does not exist: what a handler does last always raises.   *)
(* A sync is therefore never completed; what is checked is how it is       *)
(* started, counted, shown and stored.                                     *)
(***************************************************************************)
EXTENDS Requests

CONSTANTS Products   \* the products of a batch, by the "as" of its event

VARIABLES syncs,      \* sync_operations by id, a number
          created,      \* how many there are
          cache,        \* Redis: sync:<id>
          items,        \* catalog_items, by variant
          analyzed,     \* those whose analysis_status is "analyzed"
          results,      \* analysis_results, by item and model version
          tally,        \* history: products counted for each sync, and whether
                        \* two runs did so at a time
          cut,          \* history: results whose handler ended before the mark
          shown         \* history: the last answer a poll of each sync got from
                        \* the cache, and from the row

catalogVars == <<syncs, created, cache, items, analyzed, results, tally, cut, shown>>

CatalogWork == {w \in Work : w.service = "catalog"}
MaxSyncs == MaxDeliver * Cardinality({w \in CatalogWork : w.kind = "start"})
SyncIds == 1 .. MaxSyncs
Variants == UNION {Products[b] : b \in DOMAIN Products}
Results == Variants \X {w.as : w \in CatalogWork}

ASSUME ProductsAssumption == \A b \in DOMAIN Products : IsFiniteSet(Products[b])

NoSync == [status |-> None]
SyncRows == [of : {w.of : w \in CatalogWork}, status : {"pending", "running"},
             processed : Nat, percent : 0 .. 90]
NotCached == [status |-> None]
Answers == [status : {"pending", "running"}, processed : Nat, percent : 0 .. 90]
NothingYet == [status |-> "pending", processed |-> 0, percent |-> 0]

CatalogTypeOK == /\ syncs \in [SyncIds -> SyncRows \cup {NoSync}]
                 /\ created \in 0 .. MaxSyncs
                 /\ \A s \in SyncIds : (syncs[s] = NoSync) <=> (s > created)
                 /\ cache \in [SyncIds -> Answers \cup {NotCached}]
                 /\ items \subseteq Variants
                 /\ analyzed \subseteq items
                 /\ results \subseteq Results /\ \A r \in results : r[1] \in items
                 /\ tally \in [SyncIds -> [sum : Nat, raced : BOOLEAN]]
                 /\ cut \subseteq Results
                 /\ shown \in [SyncIds -> [cache : Answers, row : Answers]]

CatalogInit == /\ syncs = [s \in SyncIds |-> NoSync]
               /\ created = 0
               /\ cache = [s \in SyncIds |-> NotCached]
               /\ items = {}
               /\ analyzed = {}
               /\ results = {}
               /\ tally = [s \in SyncIds |-> [sum |-> 0, raced |-> FALSE]]
               /\ cut = {}
               /\ shown = [s \in SyncIds |-> [cache |-> NothingYet, row |-> NothingYet]]

-----------------------------------------------------------------------------
(* POST /sync.                                                             *)

SyncsOf(m) == {s \in 1 .. created : syncs[s].of = m}

\* Mutant of Running: a sync nobody has begun to work on does not count.
RunningOnly(m) == {s \in SyncsOf(m) : syncs[s].status = "running"}

Running(m) == {s \in SyncsOf(m) : syncs[s].status \in {"pending", "running"}}

\* 409 while there is one.  The run keeps how many it had seen in all.
CheckRunning(t) ==
  /\ At(t, "start")
  /\ IF ClientAuth(open[t]) /\ Running(Of(t)) = {}
       THEN Goes(t, "create sync", Cardinality(SyncsOf(Of(t))))
       ELSE Ends(t)
  /\ UNCHANGED catalogVars

\* No start creates more than one, so that MaxSyncs is never in its way.
CreateSync(t) ==
  /\ At(t, "create sync")
  /\ created < MaxSyncs
  /\ created' = created + 1
  /\ syncs' = [syncs EXCEPT ![created + 1] =
                 [of |-> Of(t), status |-> "pending", processed |-> 0, percent |-> 0]]
  /\ Goes(t, "cache start", created + 1)
  /\ UNCHANGED <<cache, items, analyzed, results, tally, cut, shown>>

\* _cache_progress, and then the request for the fetch, which raises.
CacheStart(t) ==
  /\ At(t, "cache start")
  /\ cache' = [cache EXCEPT ![mem[t]] = [status |-> "pending", processed |-> 0,
                                            percent |-> 0]]
  /\ Ends(t)
  /\ UNCHANGED <<syncs, created, items, analyzed, results, tally, cut, shown>>

\* Mutant of Announced: the request goes out before the progress is cached.
AnnouncedAtOnce(s) == s \in 1 .. created

\* Batches come for syncs whose start has got as far as the request.
Announced(s) == /\ s \in 1 .. created
                /\ \A t \in Tasks : ~(At(t, "cache start") /\ mem[t] = s)

-----------------------------------------------------------------------------
(* process_product_batch, for an event of products fetched.                *)

\* The upserts, one after the other; the catalogue only grows.
StoreItems(t) == /\ At(t, "batch")
                 /\ items' = items \cup Products[open[t].as]
                 /\ Goes(t, "read progress", None)
                 /\ UNCHANGED <<syncs, created, cache, analyzed, results, tally, cut, shown>>

Counting(s) == {t \in Tasks : /\ pc[t] \in {"write progress", "cache progress"}
                               /\ Of(t) = s}

ReadProgress(t) ==
  LET s == Of(t) IN
  /\ At(t, "read progress")
  /\ tally' = [tally EXCEPT ![s].raced = @ \/ Counting(s) # {}]
  /\ Goes(t, "write progress", syncs[s].processed)
  /\ UNCHANGED <<syncs, created, cache, items, analyzed, results, cut, shown>>

\* Mutant of Percent: of a total that may be out of date, without the limit.
PercentUnbounded(processed, total) == (processed * 90) \div (IF total > 1 THEN total ELSE 1)

\* Nothing ever sets total_products: one product is 90 percent.
Percent(processed, total) ==
  LET all == IF total > 1 THEN total ELSE 1
      done == (processed * 90) \div all
  IN IF done < 90 THEN done ELSE 90

\* Mutant of WriteProgress: the batch's number alone.
WriteProgressOfBatch(t) ==
  LET n == Cardinality(Products[open[t].as]) IN
  /\ At(t, "write progress")
  /\ syncs' = [syncs EXCEPT ![Of(t)].status = "running", ![Of(t)].processed = n,
                            ![Of(t)].percent = Percent(n, 0)]
  /\ tally' = [tally EXCEPT ![Of(t)].sum = @ + n]
  /\ Goes(t, "cache progress", n)
  /\ UNCHANGED <<created, cache, items, analyzed, results, cut, shown>>

WriteProgress(t) ==
  LET n == Cardinality(Products[open[t].as])
      processed == mem[t] + n
  IN
  /\ At(t, "write progress")
  /\ syncs' = [syncs EXCEPT ![Of(t)].status = "running", ![Of(t)].processed = processed,
                            ![Of(t)].percent = Percent(processed, 0)]
  /\ tally' = [tally EXCEPT ![Of(t)].sum = @ + n]
  /\ Goes(t, "cache progress", processed)
  /\ UNCHANGED <<created, cache, items, analyzed, results, cut, shown>>

\* The handler ends here: with images or as the last batch it raises and is
\* delivered again, and counts its products again.
CacheProgress(t) ==
  /\ At(t, "cache progress")
  /\ cache' = [cache EXCEPT ![Of(t)] = [status |-> "running", processed |-> mem[t],
                                               percent |-> Percent(mem[t], 0)]]
  /\ Ends(t)
  /\ UNCHANGED <<syncs, created, items, analyzed, results, tally, cut, shown>>

CacheExpires == \E s \in SyncIds : /\ cache[s] # NotCached
                                   /\ cache' = [cache EXCEPT ![s] = NotCached]
                                   /\ UNCHANGED <<reqVars, syncs, created, items, analyzed,
                                                  results, tally, cut, shown>>

-----------------------------------------------------------------------------
(* GET /sync/{sync_id}: get_sync_progress.                                 *)

\* From Redis; past it, if the key is not there.
PollCache(t) ==
  LET s == Of(t) IN
  /\ At(t, "progress")
  /\ IF s \in SyncIds /\ cache[s] # NotCached /\ ClientAuth(open[t])
       THEN shown' = [shown EXCEPT ![s].cache = cache[s]] /\ Ends(t)
       ELSE /\ IF ClientAuth(open[t]) THEN Goes(t, "find sync", None) ELSE Ends(t)
            /\ UNCHANGED shown
  /\ UNCHANGED <<syncs, created, cache, items, analyzed, results, tally, cut>>

Progress(row) == [status |-> row.status, processed |-> row.processed, percent |-> row.percent]

\* Another await later: the row, or 404.
PollRow(t) ==
  LET s == Of(t) IN
  /\ At(t, "find sync")
  /\ shown' = IF s \in 1 .. created THEN [shown EXCEPT ![s].row = Progress(syncs[s])] ELSE shown
  /\ Ends(t)
  /\ UNCHANGED <<syncs, created, cache, items, analyzed, results, tally, cut>>

-----------------------------------------------------------------------------
(* AnalysisCompletedListener.                                              *)

ResultOf(t) == <<Of(t), open[t].as>>

\* Mutant of StoreResult: the item is left for the next delivery.
StoreResultOnly(t) == /\ At(t, "result")
                      /\ Of(t) \in items /\ ResultOf(t) \notin results
                      /\ results' = results \cup {ResultOf(t)}
                      /\ Ends(t)
                      /\ UNCHANGED <<syncs, created, cache, items, analyzed, tally, cut, shown>>

\* An unknown item, or a model's result that is already there, raises: a
\* delivery that was cut short before it marked the item cannot be made good.
StoreResult(t) ==
  /\ At(t, "result")
  /\ IF Of(t) \in items /\ ResultOf(t) \notin results
       THEN results' = results \cup {ResultOf(t)} /\ Goes(t, "mark", None)
       ELSE Ends(t) /\ UNCHANGED results
  /\ UNCHANGED <<syncs, created, cache, items, analyzed, tally, cut, shown>>

MarkAnalyzed(t) == /\ At(t, "mark")
                   /\ analyzed' = analyzed \cup {Of(t)}
                   /\ Ends(t)
                   /\ UNCHANGED <<syncs, created, cache, items, results, tally, cut, shown>>

CatalogDies(t) == /\ Ends(t)
                  /\ cut' = cut \cup {r \in {ResultOf(t)} : At(t, "mark")}
                  /\ UNCHANGED <<syncs, created, cache, items, analyzed, results, tally, shown>>

CatalogStep(t) == \/ CheckRunning(t) \/ CreateSync(t) \/ CacheStart(t)
                  \/ StoreItems(t) \/ ReadProgress(t) \/ WriteProgress(t) \/ CacheProgress(t)
                  \/ PollCache(t) \/ PollRow(t)
                  \/ StoreResult(t) \/ MarkAnalyzed(t)

-----------------------------------------------------------------------------
\* A request that goes on to create a sync saw that the merchant had none at
\* all: two at a time take two requests between look and create.
SecondSyncNeedsOverlap == \A t \in Tasks : At(t, "create sync") => mem[t] = 0

\* A sync counts what its batches brought, each delivery once more, unless
\* two batches counted at a time.
CountExactUnlessRaced == \A s \in 1 .. created :
  tally[s].raced \/ syncs[s].processed = tally[s].sum

Behind(a, b) == \/ a.processed < b.processed
                \/ a.percent < b.percent
                \/ a.status = "pending" /\ b.status = "running"

\* Who polls a sync sees it go back only from an answer read past the cache to
\* one that is still in it, unless two batches counted at a time: what the next
\* poll finds in the row is behind no answer yet, and what it finds in the cache
\* behind none that came from there.
PollsGoBackOnlyToCache == \A s \in 1 .. created : tally[s].raced \/
  /\ ~Behind(syncs[s], shown[s].cache)
  /\ ~Behind(syncs[s], shown[s].row)
  /\ cache[s] # NotCached => ~Behind(cache[s], shown[s].cache)

\* A stored result marks its item, or its handler was cut short in between,
\* after which no delivery of it ever will.
ResultsReachItems == \A r \in results :
  r[1] \in analyzed \/ r \in cut \/ \E t \in Tasks : At(t, "mark") /\ ResultOf(t) = r
=============================================================================
