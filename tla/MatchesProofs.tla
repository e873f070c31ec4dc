---------------------------- MODULE MatchesProofs ----------------------------
(***************************************************************************)
(* Proofs about Recommendation.tla, Compatibility.tla and Analytics.tla as *)
(* MCMatches.tla composes them, for any requests, events, coroutines,      *)
(* answers and days.                                                       *)
(***************************************************************************)
EXTENDS MCMatches, RequestsProofs, SequenceTheorems

\* A run is about something of the service it is in.
Served(t) == /\ pc[t] \in {"recommend", "ask", "create match", "create items"} => Recommends(open[t])
             /\ pc[t] \in {"ai result", "upsert"} => open[t] \in AIResults
             /\ pc[t] \in {"analysis", "match", "find", "create"} =>
                  open[t] \in Events /\ open[t].kind \in {"analysis", "match"}

\* Matches are filled by runs that have their number.
MatchRows == [of : {w.of : w \in Work}, total : Nat, stored : Nat]
RecommendationInv ==
  /\ matches \in Seq(MatchRows)
  /\ \A t \in Tasks : /\ pc[t] = "create match" => mem[t] \in Nat /\ open[t] \in Work
                      /\ pc[t] = "create items" => mem[t] \in DOMAIN matches
  /\ MatchesWholeOrCut

\* Whoever is at work on a result that is not the latest to have come is seen.
Handled(w) == begun[w] > 0
CompatibilityInv ==
  /\ scores \in [Items -> Nat] /\ newest \in [Items -> Nat]
  /\ \A t \in Tasks : open[t] \in AIResults => Handled(open[t])
  /\ \A i \in Items : \/ newest[i] = 0
                      \/ \E v \in AIResults : v.of = i /\ v.as = newest[i] /\ Handled(v)
  /\ \A t \in Tasks : \A v \in AIResults :
       /\ open[t] \in AIResults /\ v.of = open[t].of
       /\ open[t].as < v.as /\ Handled(v)
       => v.of \in crossed
  /\ NewestUnlessCrossed

\* Days that are over do not change any more, so what the job counts of one
\* stays true while it counts and ever after.
RowFacts == Facts("analysis") \cup Facts("match")
JobInv == job # None =>
  /\ job = [day |-> job.day, analyses |-> job.analyses, matches |-> job.matches]
  /\ job.day \in Days /\ job.day < today
  /\ job.analyses \in {None, Created("analysis", job.day)}
  /\ job.matches \in {None, Created("match", job.day)}
  /\ job.matches # None => job.analyses # None
DailyInv == \A d \in Days : daily[d] # None =>
  /\ d < today
  /\ daily[d] = [analyses |-> Created("analysis", d), matches |-> Created("match", d),
                 told |-> daily[d].told]
AnalyticsInv == /\ today \in Days
                /\ rows = [f \in RowFacts |-> rows[f]]
                /\ daily = [d \in Days |-> daily[d]]
                /\ JobInv /\ DailyInv

IInv == /\ Frame
        /\ \A t \in Tasks : Served(t)
        /\ RecommendationInv /\ CompatibilityInv /\ AnalyticsInv

-----------------------------------------------------------------------------
LEMMA SeqFacts ==
  ASSUME NEW S, NEW s \in Seq(S)
  PROVE  DOMAIN s = 1 .. Len(s) /\ Len(s) \in Nat /\ \A i \in DOMAIN s : s[i] \in S
  OBVIOUS

LEMMA SeqExcept ==
  ASSUME NEW S, NEW s \in Seq(S), NEW i \in DOMAIN s, NEW e \in S
  PROVE  [s EXCEPT ![i] = e] \in Seq(S) /\ DOMAIN [s EXCEPT ![i] = e] = DOMAIN s
  OBVIOUS

LEMMA KindsOfWork ==
  ASSUME NEW w \in Work
  PROVE  /\ w.kind \in {"recommend", "ai result", "analysis", "match", "credits", "sync"}
         /\ w.kind = "recommend" => Recommends(w)
         /\ w.kind = "ai result" => w \in AIResults
         /\ w.kind \in {"analysis", "match"} => w \in Events
         /\ w \in AIResults => w.as \in Nat /\ w.of \in Items
         /\ w \in AIResults \cup Events => ~Recommends(w)
         /\ w \in Events => w.as \in Days
  BY MatchesAssumption DEF AIResults, Events, Items, Recommends

LEMMA KindsNotIdle == NoIdleKind
  BY KindsOfWork DEF NoIdleKind

LEMMA ServedKept ==
  ASSUME NEW t \in Tasks, \A u \in Tasks : Served(u), Others(t), Served(t)'
  PROVE  \A u \in Tasks : Served(u)'
  BY DEF Served, Others

\* The analyses and matches of a day that is over.
LEMMA CreatedKept ==
  ASSUME AnalyticsInv, NEW f, rows' = [rows EXCEPT ![f] = today], f \in RowFacts => rows[f] = 0,
         NEW d \in Days, d < today, NEW kind \in {"analysis", "match"}
  PROVE  Created(kind, d)' = Created(kind, d)
  <1>1. Facts(kind) \subseteq RowFacts
    BY DEF RowFacts
  <1>2. \A g \in Facts(kind) : rows'[g] = d <=> rows[g] = d
    BY <1>1, AnalyticsAssumption DEF AnalyticsInv, Days
  <1>3. {g \in Facts(kind) : rows'[g] = d} = {g \in Facts(kind) : rows[g] = d}
    BY <1>2
  <1> QED
    BY <1>3 DEF Created

LEMMA RecommendationStays ==
  ASSUME RecommendationInv, NEW t \in Tasks, Others(t),
         pc[t] # "create items", pc'[t] \notin {"create match", "create items"},
         UNCHANGED recommendationVars
  PROVE  RecommendationInv'
  <1> USE DEF recommendationVars, RecommendationInv, Others
  <1>1. ASSUME NEW i \in DOMAIN matches
        PROVE  \/ matches[i].stored = matches[i].total
               \/ i \in severed
               \/ \E u \in Tasks : pc'[u] = "create items" /\ mem'[u] = i
    <2>1. CASE \E u \in Tasks : pc[u] = "create items" /\ mem[u] = i
      <3>1. PICK u \in Tasks : pc[u] = "create items" /\ mem[u] = i
        BY <2>1
      <3> QED
        BY <3>1
    <2>2. CASE ~\E u \in Tasks : pc[u] = "create items" /\ mem[u] = i
      BY <2>2 DEF MatchesWholeOrCut, At
    <2> QED
      BY <2>1, <2>2
  <1>2. MatchesWholeOrCut'
    BY <1>1 DEF MatchesWholeOrCut, At
  <1> QED
    BY <1>2

LEMMA CompatibilityStays ==
  ASSUME Frame, CompatibilityInv, NEW t \in Tasks, Others(t),
         open'[t] \in {None, open[t]}, begun' = begun,
         UNCHANGED compatibilityVars
  PROVE  CompatibilityInv'
  <1> USE DEF compatibilityVars, CompatibilityInv, Others, Handled
  <1>1. \A u \in Tasks : open'[u] \in AIResults => open'[u] = open[u]
    BY RequestsAssumption DEF AIResults
  <1>2. NewestUnlessCrossed'
    BY DEF NewestUnlessCrossed
  <1> QED
    BY <1>1, <1>2

LEMMA AnalyticsStays ==
  ASSUME AnalyticsInv, UNCHANGED <<today, rows, daily, job>>
  PROVE  AnalyticsInv'
  <1>1. \A kind, d : Created(kind, d)' = Created(kind, d)
    BY DEF Created
  <1> QED
    BY <1>1 DEF AnalyticsInv, JobInv, DailyInv

\* A run comes to its end where nothing depends on how.
LEMMA EndStep ==
  ASSUME IInv, NEW t \in Tasks, Ends(t), pc[t] # "create items",
         UNCHANGED <<recommendationVars, compatibilityVars, today, rows, daily, job>>
  PROVE  IInv'
  <1>1. /\ Frame' /\ Others(t) /\ pc'[t] = "idle" /\ open'[t] = None /\ begun' = begun
    BY EndsFrame DEF IInv
  <1>2. Served(t)'
    BY <1>1 DEF Served
  <1>3. RecommendationInv' /\ CompatibilityInv' /\ AnalyticsInv'
    BY <1>1, RecommendationStays, CompatibilityStays, AnalyticsStays DEF IInv
  <1> QED
    BY <1>1, <1>2, <1>3, ServedKept DEF IInv

\* A run goes on to a place that promises nothing.
LEMMA MoveStep ==
  ASSUME IInv, NEW t \in Tasks, pc[t] # "idle", pc[t] # "create items", NEW what, NEW where,
         where \notin {"idle", "recommend", "ai result", "analysis", "match", "create match", "create items"},
         where = "ask" => pc[t] = "recommend",
         where = "upsert" => pc[t] = "ai result",
         where \in {"find", "create"} => pc[t] \in {"analysis", "match", "find"},
         Goes(t, where, what),
         UNCHANGED <<recommendationVars, compatibilityVars, today, rows, daily, job>>
  PROVE  IInv'
  <1>1. /\ Frame' /\ Others(t) /\ pc'[t] = where /\ open' = open /\ begun' = begun
    BY GoesFrame DEF IInv
  <1>2. Served(t)'
    BY <1>1 DEF Served, IInv
  <1>3. RecommendationInv' /\ CompatibilityInv' /\ AnalyticsInv'
    BY <1>1, RecommendationStays, CompatibilityStays, AnalyticsStays DEF IInv
  <1> QED
    BY <1>1, <1>2, <1>3, ServedKept DEF IInv

-----------------------------------------------------------------------------
\* The recommendation service.

LEMMA ValidateSeasonInv ==
  ASSUME IInv, NEW t \in Tasks, ValidateSeason(t), UNCHANGED <<compatibilityVars, analyticsVars>>
  PROVE  IInv'
  <1>0. pc[t] = "recommend"
    BY DEF ValidateSeason, At
  <1>1. CASE Goes(t, "ask", None)
    BY <1>0, <1>1, MoveStep DEF ValidateSeason, analyticsVars
  <1>2. CASE Ends(t)
    BY <1>0, <1>2, EndStep DEF ValidateSeason, analyticsVars
  <1> QED
    BY <1>1, <1>2 DEF ValidateSeason

LEMMA AskCompatibilityInv ==
  ASSUME IInv, NEW t \in Tasks, AskCompatibility(t), UNCHANGED <<compatibilityVars, analyticsVars>>
  PROVE  IInv'
  <1>0. pc[t] = "ask"
    BY DEF AskCompatibility, At
  <1>1. CASE Ends(t)
    BY <1>0, <1>1, EndStep DEF AskCompatibility, analyticsVars
  <1>2. CASE \E n \in 0 .. MaxItems : Goes(t, "create match", n)
    <2>1. PICK n \in 0 .. MaxItems : Goes(t, "create match", n)
      BY <1>2
    <2>2. n \in Nat
      BY ItemsAssumption
    <2>3. /\ Frame' /\ Others(t) /\ pc'[t] = "create match" /\ mem'[t] = n
          /\ open' = open /\ begun' = begun /\ open[t] \in Work
      BY <1>0, <2>1, GoesFrame, RunsWork DEF IInv
    <2>4. Served(t)'
      BY <1>0, <2>3 DEF Served, IInv
    <2>5. CompatibilityInv' /\ AnalyticsInv'
      BY <2>3, CompatibilityStays, AnalyticsStays DEF IInv, analyticsVars
    <2>6. matches' = matches /\ severed' = severed
      BY DEF AskCompatibility, recommendationVars
    <2>7. ASSUME NEW i \in DOMAIN matches
          PROVE  \/ matches[i].stored = matches[i].total
                 \/ i \in severed
                 \/ \E u \in Tasks : pc'[u] = "create items" /\ mem'[u] = i
      <3>1. CASE \E u \in Tasks : pc[u] = "create items" /\ mem[u] = i
        <4>1. PICK u \in Tasks : pc[u] = "create items" /\ mem[u] = i
          BY <3>1
        <4> QED
          BY <1>0, <2>3, <4>1 DEF Others
      <3>2. CASE ~\E u \in Tasks : pc[u] = "create items" /\ mem[u] = i
        BY <3>2 DEF MatchesWholeOrCut, At, IInv, RecommendationInv
      <3> QED
        BY <3>1, <3>2
    <2>8. RecommendationInv'
      BY <2>2, <2>3, <2>6, <2>7 DEF IInv, RecommendationInv, MatchesWholeOrCut, At, Others
    <2> QED
      BY <2>3, <2>4, <2>5, <2>8, ServedKept DEF IInv
  <1> QED
    BY <1>1, <1>2 DEF AskCompatibility

\* Match i was added or got another item, by t, which goes on filling it
\* unless it is whole.
LEMMA FillStep ==
  ASSUME IInv, NEW t \in Tasks, pc[t] \in {"create match", "create items"},
         NEW ms \in Seq(MatchRows), matches' = ms, severed' = severed,
         DOMAIN matches \subseteq DOMAIN ms,
         NEW i \in DOMAIN ms,
         pc[t] = "create items" => mem[t] = i,
         \A j \in DOMAIN ms : j # i => j \in DOMAIN matches /\ ms[j] = matches[j],
         NEW where, NEW what, Goes(t, where, what),
         \/ where = "create items" /\ what = i
         \/ where = "announce" /\ ms[i].stored = ms[i].total,
         UNCHANGED <<compatibilityVars, analyticsVars>>
  PROVE  IInv'
  <1>1. where \in {"announce", "create items"}
    OBVIOUS
  <1>2. /\ Frame' /\ Others(t) /\ pc'[t] = where /\ mem'[t] = what
        /\ open' = open /\ begun' = begun
    BY <1>1, GoesFrame DEF IInv
  <1>3. Served(t)'
    BY <1>1, <1>2 DEF Served, IInv
  <1>4. CompatibilityInv' /\ AnalyticsInv'
    BY <1>2, CompatibilityStays, AnalyticsStays DEF IInv, analyticsVars
  <1>5. ASSUME NEW j \in DOMAIN ms
        PROVE  \/ ms[j].stored = ms[j].total
               \/ j \in severed
               \/ \E u \in Tasks : pc'[u] = "create items" /\ mem'[u] = j
    <2>1. CASE j = i
      BY <1>2, <2>1
    <2>2. CASE j # i
      <3>1. j \in DOMAIN matches /\ ms[j] = matches[j]
        BY <2>2
      <3>2. CASE \E u \in Tasks : pc[u] = "create items" /\ mem[u] = j
        <4>1. PICK u \in Tasks : pc[u] = "create items" /\ mem[u] = j
          BY <3>2
        <4> QED
          BY <2>2, <1>2, <4>1 DEF Others
      <3>3. CASE ~\E u \in Tasks : pc[u] = "create items" /\ mem[u] = j
        BY <3>1, <3>3 DEF MatchesWholeOrCut, At, IInv, RecommendationInv
      <3> QED
        BY <3>2, <3>3
    <2> QED
      BY <2>1, <2>2
  <1>6. \A u \in Tasks : /\ pc'[u] = "create match" => mem'[u] \in Nat /\ open'[u] \in Work
                         /\ pc'[u] = "create items" => mem'[u] \in DOMAIN ms
    BY <1>1, <1>2 DEF IInv, RecommendationInv, Others
  <1>7. RecommendationInv'
    BY <1>5, <1>6 DEF RecommendationInv, MatchesWholeOrCut, At, MatchRows
  <1> QED
    BY <1>2, <1>3, <1>4, <1>7, ServedKept DEF IInv

LEMMA CreateMatchInv ==
  ASSUME IInv, NEW t \in Tasks, CreateMatch(t), UNCHANGED <<compatibilityVars, analyticsVars>>
  PROVE  IInv'
  <1>0. pc[t] = "create match" /\ mem[t] \in Nat /\ open[t] \in Work /\ matches \in Seq(MatchRows)
    BY DEF CreateMatch, At, IInv, RecommendationInv
  <1>1. PICK row : row = [of |-> Of(t), total |-> mem[t], stored |-> 0]
    OBVIOUS
  <1>2. row \in MatchRows
    BY <1>0, <1>1 DEF MatchRows, Of
  <1>3. PICK old, ms, i : /\ old \in Seq(MatchRows) /\ old = matches
                         /\ ms = Append(old, row) /\ i = Len(old) + 1
    BY <1>0
  <1>4. /\ ms \in Seq(MatchRows) /\ Len(ms) = Len(old) + 1 /\ ms[i] = row
        /\ \A j \in 1 .. Len(old) : ms[j] = old[j]
    BY <1>2, <1>3, AppendProperties
  <1>5. DOMAIN old = 1 .. Len(old) /\ DOMAIN ms = 1 .. Len(old) + 1 /\ Len(old) \in Nat
    BY <1>4, SeqFacts
  <1>6. /\ DOMAIN matches \subseteq DOMAIN ms /\ i \in DOMAIN ms
        /\ \A j \in DOMAIN ms : j # i => j \in DOMAIN matches /\ ms[j] = matches[j]
    BY <1>3, <1>4, <1>5
  <1>7. matches' = ms /\ severed' = severed
    BY <1>1, <1>3 DEF CreateMatch
  <1>8. CASE mem[t] = 0
    <2>1. Goes(t, "announce", None)
      BY <1>8 DEF CreateMatch
    <2>2. ms[i].stored = ms[i].total
      BY <1>1, <1>4, <1>8
    <2> QED
      BY <1>0, <1>4, <1>6, <1>7, <2>1, <2>2, FillStep
  <1>9. CASE mem[t] # 0
    <2>1. Goes(t, "create items", i)
      BY <1>3, <1>9 DEF CreateMatch
    <2> QED
      BY <1>0, <1>4, <1>6, <1>7, <2>1, FillStep
  <1> QED
    BY <1>8, <1>9

LEMMA CreateMatchItemInv ==
  ASSUME IInv, NEW t \in Tasks, CreateMatchItem(t), UNCHANGED <<compatibilityVars, analyticsVars>>
  PROVE  IInv'
  <1>0. PICK i \in DOMAIN matches : i = mem[t] /\ pc[t] = "create items" /\ matches \in Seq(MatchRows)
    BY DEF CreateMatchItem, At, IInv, RecommendationInv
  <1>1. PICK ms : ms = [matches EXCEPT ![i].stored = @ + 1]
    OBVIOUS
  <1>2. matches[i] \in MatchRows
    BY <1>0, SeqFacts
  <1>3. PICK row : row = [matches[i] EXCEPT !.stored = @ + 1]
    OBVIOUS
  <1>4. row \in MatchRows
    BY <1>2, <1>3 DEF MatchRows
  <1>5. ms = [matches EXCEPT ![i] = row]
    BY <1>0, <1>1, <1>3
  <1>6. ms \in Seq(MatchRows) /\ DOMAIN ms = DOMAIN matches
    BY <1>0, <1>4, <1>5, SeqExcept
  <1>7. \A j \in DOMAIN ms : j # i => ms[j] = matches[j]
    BY <1>5, <1>6
  <1>8. matches' = ms /\ severed' = severed
    BY <1>0, <1>1 DEF CreateMatchItem
  <1>9. CASE ms[i].stored = ms[i].total
    <2>1. Goes(t, "announce", None)
      BY <1>0, <1>8, <1>9 DEF CreateMatchItem
    <2> QED
      BY <1>0, <1>6, <1>7, <1>8, <1>9, <2>1, FillStep
  <1>10. CASE ms[i].stored # ms[i].total
    <2>1. Goes(t, "create items", i)
      BY <1>0, <1>8, <1>10 DEF CreateMatchItem
    <2> QED
      BY <1>0, <1>6, <1>7, <1>8, <2>1, FillStep
  <1> QED
    BY <1>9, <1>10

LEMMA AnnounceInv ==
  ASSUME IInv, NEW t \in Tasks, Announce(t), UNCHANGED <<compatibilityVars, analyticsVars>>
  PROVE  IInv'
  BY EndStep DEF Announce, At, analyticsVars

LEMMA RecommendationFailsInv ==
  ASSUME IInv, NEW t \in Tasks, RecommendationFails(t), UNCHANGED <<compatibilityVars, analyticsVars>>
  PROVE  IInv'
  <1>1. CASE pc[t] # "create items"
    BY <1>1, EndStep DEF RecommendationFails, At, analyticsVars, recommendationVars
  <1>2. CASE pc[t] = "create items"
    <2>1. /\ Frame' /\ Others(t) /\ pc'[t] = "idle" /\ open'[t] = None /\ begun' = begun
      BY EndsFrame DEF IInv, RecommendationFails
    <2>2. Served(t)'
      BY <2>1 DEF Served
    <2>3. CompatibilityInv' /\ AnalyticsInv'
      BY <2>1, CompatibilityStays, AnalyticsStays DEF IInv, analyticsVars
    <2>4. matches' = matches /\ severed' = severed \cup {mem[t]}
      BY <1>2 DEF RecommendationFails, At
    <2>5. ASSUME NEW i \in DOMAIN matches
          PROVE  \/ matches[i].stored = matches[i].total
                 \/ i \in severed'
                 \/ \E u \in Tasks : pc'[u] = "create items" /\ mem'[u] = i
      <3>1. CASE \E u \in Tasks : pc[u] = "create items" /\ mem[u] = i
        <4>1. PICK u \in Tasks : pc[u] = "create items" /\ mem[u] = i
          BY <3>1
        <4> QED
          BY <2>1, <2>4, <4>1 DEF Others
      <3>2. CASE ~\E u \in Tasks : pc[u] = "create items" /\ mem[u] = i
        BY <2>4, <3>2 DEF MatchesWholeOrCut, At, IInv, RecommendationInv
      <3> QED
        BY <3>1, <3>2
    <2>6. RecommendationInv'
      BY <2>1, <2>4, <2>5 DEF IInv, RecommendationInv, MatchesWholeOrCut, At, Others
    <2> QED
      BY <2>1, <2>2, <2>3, <2>6, ServedKept DEF IInv
  <1> QED
    BY <1>1, <1>2

-----------------------------------------------------------------------------
\* season-compatibility-service.

LEMMA CompatibilityRun ==
  ASSUME IInv, NEW t \in Tasks, pc[t] \in {"ai result", "upsert"}
  PROVE  open[t] \in AIResults /\ open[t] \in Work /\ Of(t) \in Items /\ open[t].as \in Nat
  BY KindsOfWork DEF IInv, Served, AIResults, Of

LEMMA ValidateColoursInv ==
  ASSUME IInv, NEW t \in Tasks, ValidateColours(t), UNCHANGED <<recommendationVars, analyticsVars>>
  PROVE  IInv'
  <1>0. pc[t] = "ai result"
    BY DEF ValidateColours, At
  <1>1. CASE Ends(t)
    BY <1>0, <1>1, EndStep DEF ValidateColours, analyticsVars
  <1>2. CASE Goes(t, "upsert", None)
    BY <1>0, <1>2, MoveStep DEF ValidateColours, analyticsVars
  <1> QED
    BY <1>1, <1>2 DEF ValidateColours

LEMMA UpsertInv ==
  ASSUME IInv, NEW t \in Tasks, Upsert(t), UNCHANGED <<recommendationVars, analyticsVars>>
  PROVE  IInv'
  <1>0. PICK w \in AIResults, i \in Items :
          /\ w = open[t] /\ i = Of(t) /\ i = w.of /\ w.as \in Nat /\ pc[t] = "upsert"
    BY CompatibilityRun DEF Upsert, At, Of
  <1>1. /\ Frame' /\ Others(t) /\ pc'[t] = "announce scores" /\ open' = open /\ begun' = begun
    BY <1>0, GoesFrame DEF IInv, Upsert
  <1>2. Served(t)'
    BY <1>1 DEF Served
  <1>3. RecommendationInv' /\ AnalyticsInv'
    BY <1>0, <1>1, RecommendationStays, AnalyticsStays DEF IInv, analyticsVars
  <1>4. /\ scores' = [scores EXCEPT ![i] = w.as]
        /\ newest' = [newest EXCEPT ![i] = IF @ < w.as THEN w.as ELSE @]
        /\ crossed' = crossed
    BY <1>0 DEF Upsert
  <1> USE DEF IInv, CompatibilityInv
  <1>5. scores' \in [Items -> Nat] /\ newest' \in [Items -> Nat]
    BY <1>0, <1>4
  <1>6. \A j \in Items : \/ newest'[j] = 0
                         \/ \E v \in AIResults : v.of = j /\ v.as = newest'[j] /\ Handled(v)
    <2>1. Handled(w)
      BY <1>0
    <2> QED
      BY <1>0, <1>4, <2>1
  \* A newer one that was written before had come, and so is seen to cross.
  <1>7. newest[i] > w.as => i \in crossed
    <2> SUFFICES ASSUME newest[i] > w.as PROVE i \in crossed
      OBVIOUS
    <2>1. newest[i] # 0
      BY <1>0
    <2>2. PICK v \in AIResults : v.of = i /\ v.as = newest[i] /\ Handled(v)
      BY <2>1
    <2> QED
      BY <1>0, <2>2
  <1>8. NewestUnlessCrossed'
    BY <1>0, <1>4, <1>7 DEF NewestUnlessCrossed
  <1>9. CompatibilityInv'
    BY <1>1, <1>4, <1>5, <1>6, <1>8 DEF Handled
  <1> QED
    BY <1>1, <1>2, <1>3, <1>9, ServedKept

LEMMA AnnounceScoresInv ==
  ASSUME IInv, NEW t \in Tasks, AnnounceScores(t), UNCHANGED <<recommendationVars, analyticsVars>>
  PROVE  IInv'
  BY EndStep DEF AnnounceScores, At, analyticsVars

\* A run of another service than the recommendations ends anywhere.
LEMMA FailsInv ==
  ASSUME IInv, NEW t \in Tasks, open[t] \in AIResults \cup Events, Ends(t),
         UNCHANGED <<recommendationVars, compatibilityVars, analyticsVars>>
  PROVE  IInv'
  <1>1. pc[t] # "create items"
    BY KindsOfWork DEF IInv, Served, Recommends, AIResults, Events
  <1> QED
    BY <1>1, EndStep DEF analyticsVars

-----------------------------------------------------------------------------
\* The analytics: what its runs write that matters here.

LEMMA AnalyticsRun ==
  ASSUME IInv, NEW t \in Tasks, pc[t] \in {"analysis", "match", "find", "create"}
  PROVE  /\ open[t] \in Events /\ open[t].kind \in {"analysis", "match"} /\ Of(t) \in RowFacts
  BY DEF IInv, Served, RowFacts, Facts, Of

LEMMA CreateRowInv ==
  ASSUME IInv, NEW t \in Tasks, CreateRow(t), UNCHANGED <<recommendationVars, compatibilityVars>>
  PROVE  IInv'
  <1>0. PICK f \in RowFacts : f = Of(t) /\ pc[t] = "create"
    BY AnalyticsRun DEF CreateRow, At
  <1>1. CASE rows[f] # 0
    BY <1>0, <1>1, EndStep DEF CreateRow
  <1>2. CASE rows[f] = 0
    <2>1. PICK where, what : where \in {"season", "products"} /\ Goes(t, where, what)
      BY <1>0, <1>2 DEF CreateRow, Counts
    <2>2. /\ Frame' /\ Others(t) /\ pc'[t] = where /\ open' = open /\ begun' = begun
      BY <1>0, <2>1, GoesFrame DEF IInv
    <2>3. Served(t)'
      BY <2>1, <2>2 DEF Served
    <2>4. RecommendationInv' /\ CompatibilityInv'
      BY <1>0, <2>1, <2>2, RecommendationStays, CompatibilityStays DEF IInv
    <2>5. rows' = [rows EXCEPT ![f] = today] /\ UNCHANGED <<today, daily, job>>
      BY <1>0, <1>2 DEF CreateRow
    <2>6. \A kind \in {"analysis", "match"} : \A d \in Days :
            d < today => Created(kind, d)' = Created(kind, d)
      BY <1>2, <2>5, CreatedKept DEF IInv
    <2>7. rows' = [g \in RowFacts |-> rows'[g]]
      BY <2>5 DEF IInv, AnalyticsInv
    <2>8. JobInv'
      BY <2>5, <2>6 DEF IInv, AnalyticsInv, JobInv
    <2>9. DailyInv'
      BY <2>5, <2>6 DEF IInv, AnalyticsInv, DailyInv
    <2>10. AnalyticsInv'
      BY <2>5, <2>7, <2>8, <2>9 DEF IInv, AnalyticsInv
    <2> QED
      BY <2>2, <2>3, <2>4, <2>10, ServedKept DEF IInv
  <1> QED
    BY <1>1, <1>2

LEMMA SetDailyInv ==
  ASSUME IInv, NEW t \in Tasks, SetDaily(t), UNCHANGED <<recommendationVars, compatibilityVars>>
  PROVE  IInv'
  <1>1. pc[t] = "set daily" /\ Ends(t) /\ UNCHANGED <<today, rows, job>>
    BY DEF SetDaily, At
  <1>2. /\ Frame' /\ Others(t) /\ pc'[t] = "idle" /\ open'[t] = None /\ begun' = begun
    BY <1>1, EndsFrame DEF IInv
  <1>3. Served(t)'
    BY <1>2 DEF Served
  <1>4. RecommendationInv' /\ CompatibilityInv'
    BY <1>1, <1>2, RecommendationStays, CompatibilityStays DEF IInv
  <1>5. \A kind, d : Created(kind, d)' = Created(kind, d)
    BY <1>1 DEF Created
  <1>6. PICK day, kind : day = open[t].as /\ kind = open[t].kind
    OBVIOUS
  <1>7. CASE day \notin Days \/ daily[day] = None
    <2>1. daily' = daily
      BY <1>6, <1>7 DEF SetDaily, IInv, AnalyticsInv
    <2> QED
      BY <1>1, <1>2, <1>3, <1>4, <2>1, AnalyticsStays, ServedKept DEF IInv
  <1>8. CASE day \in Days /\ daily[day] # None
    <2>1. PICK row : row = [daily[day] EXCEPT !.told = @ \cup {kind}]
      OBVIOUS
    <2>2. daily' = [daily EXCEPT ![day] = row]
      BY <1>6, <1>8, <2>1 DEF SetDaily, IInv, AnalyticsInv
    <2>3. PICK a, m, told : /\ daily[day] = [analyses |-> a, matches |-> m, told |-> told]
                            /\ a = Created("analysis", day) /\ m = Created("match", day)
                            /\ day < today
      BY <1>8 DEF IInv, AnalyticsInv, DailyInv
    <2>4. row = [analyses |-> a, matches |-> m, told |-> told \cup {kind}]
      BY <2>1, <2>3
    <2>5. row = [analyses |-> a, matches |-> m, told |-> row.told]
      BY <2>4
    <2>6. DailyInv'
      BY <1>1, <1>5, <1>8, <2>2, <2>3, <2>5 DEF IInv, AnalyticsInv, DailyInv
    <2>7. JobInv'
      BY <1>1, <1>5 DEF IInv, AnalyticsInv, JobInv
    <2>8. AnalyticsInv'
      BY <1>1, <2>2, <2>6, <2>7 DEF IInv, AnalyticsInv
    <2> QED
      BY <1>2, <1>3, <1>4, <2>8, ServedKept DEF IInv
  <1> QED
    BY <1>7, <1>8

\* The rest of a run touches neither rows nor daily rows.
LEMMA QuietAnalyticsInv ==
  ASSUME IInv, NEW t \in Tasks,
         \/ StoreRaw(t) \/ FindRow(t) \/ CountSeason(t)
         \/ FindProduct(t) \/ WriteProduct(t) \/ CountHour(t) \/ UseCredits(t),
         UNCHANGED <<recommendationVars, compatibilityVars>>
  PROVE  IInv'
  <1>1. CASE StoreRaw(t)
    <2>1. PICK where : where = AfterRaw[pc[t]] /\ Goes(t, where, None)
      BY <1>1 DEF StoreRaw
    <2>2. pc[t] \in {"analysis", "match", "credits", "sync"}
      BY <1>1 DEF StoreRaw, AfterRaw
    <2>3. /\ AfterRaw["analysis"] = "find" /\ AfterRaw["match"] = "find"
          /\ AfterRaw["credits"] = "use" /\ AfterRaw["sync"] = "set daily"
      BY DEF AfterRaw
    <2>4. /\ where \in {"find", "use", "set daily"}
          /\ where = "find" => pc[t] \in {"analysis", "match"}
      BY <2>1, <2>2, <2>3
    <2> QED
      BY <1>1, <2>1, <2>2, <2>4, MoveStep DEF StoreRaw
  <1>2. CASE FindRow(t)
    <2>1. pc[t] = "find" /\ UNCHANGED <<today, rows, daily, job>>
      BY <1>2 DEF FindRow, At, analyticsVars
    <2>2. CASE Goes(t, "create", None)
      BY <2>1, <2>2, MoveStep
    <2>3. CASE Ends(t)
      BY <2>1, <2>3, EndStep
    <2> QED
      BY <1>2, <2>2, <2>3 DEF FindRow
  <1>3. CASE CountSeason(t)
    BY <1>3, MoveStep DEF CountSeason, At
  <1>4. CASE FindProduct(t)
    <2>1. pc[t] = "products" /\ UNCHANGED <<today, rows, daily, job>>
      BY <1>4 DEF FindProduct, At, analyticsVars
    <2>2. PICK where, what : where \in {"hour", "products"} /\ Goes(t, where, what)
      BY <1>4 DEF FindProduct
    <2> QED
      BY <2>1, <2>2, MoveStep
  <1>5. CASE WriteProduct(t)
    <2>1. pc[t] = "products" /\ UNCHANGED <<today, rows, daily, job>>
      BY <1>5 DEF WriteProduct, At
    <2>2. PICK what : Goes(t, "products", what)
      BY <1>5 DEF WriteProduct
    <2> QED
      BY <2>1, <2>2, MoveStep
  <1>6. CASE CountHour(t)
    BY <1>6, EndStep DEF CountHour, At
  <1>7. CASE UseCredits(t)
    BY <1>7, MoveStep DEF UseCredits, At
  <1> QED
    BY <1>1, <1>2, <1>3, <1>4, <1>5, <1>6, <1>7

-----------------------------------------------------------------------------
\* The jobs.

LEMMA JobsInv ==
  ASSUME IInv, AnalyticsAtWork /\ Jobs, UNCHANGED <<recommendationVars, compatibilityVars>>
  PROVE  IInv'
  <1>1. UNCHANGED reqVars /\ rows' = rows
    BY DEF Jobs, DailyJobStarts, CountAnalyses, CountMatches, UpsertDaily, DailyJobFails, NextDay
  <1>2. Frame' /\ \A t \in Tasks : Served(t)'
    BY <1>1, StayFrame DEF IInv, Served, reqVars
  <1>3. RecommendationInv' /\ CompatibilityInv'
    BY <1>1 DEF IInv, RecommendationInv, CompatibilityInv, MatchesWholeOrCut, NewestUnlessCrossed,
                At, Handled, reqVars, recommendationVars, compatibilityVars
  <1>4. \A kind, d : Created(kind, d)' = Created(kind, d)
    BY <1>1 DEF Created
  <1> USE DEF IInv, AnalyticsInv
  <1>5. CASE DailyJobStarts
    <2>1. Yesterday \in Days /\ Yesterday < today
      <3>1. today \in Days /\ today > 1
        BY <1>5 DEF DailyJobStarts
      <3> HIDE DEF IInv, AnalyticsInv
      <3> QED
        BY <3>1, AnalyticsAssumption DEF Yesterday, Days
    <2>2. JobInv'
      BY <1>5, <2>1 DEF DailyJobStarts, JobInv
    <2>3. DailyInv'
      BY <1>4, <1>5 DEF DailyJobStarts, DailyInv
    <2> QED
      BY <1>1, <1>2, <1>3, <1>5, <2>2, <2>3 DEF DailyJobStarts
  <1>6. CASE CountAnalyses
    <2>1. PICK day, a, m, n :
            /\ job = [day |-> day, analyses |-> a, matches |-> m] /\ job # None
            /\ day \in Days /\ day < today /\ a = None /\ m \in {None, Created("match", day)}
            /\ m # None => a # None
            /\ n = Created("analysis", day)
      BY <1>6 DEF CountAnalyses, JobInv
    <2>2. job' = [day |-> day, analyses |-> n, matches |-> m]
      BY <1>6, <2>1 DEF CountAnalyses
    <2>3. JobInv'
      BY <1>4, <1>6, <2>1, <2>2 DEF CountAnalyses, JobInv
    <2>4. DailyInv'
      BY <1>4, <1>6 DEF CountAnalyses, DailyInv
    <2> QED
      BY <1>1, <1>2, <1>3, <1>6, <2>3, <2>4 DEF CountAnalyses
  <1>7. CASE CountMatches
    <2>1. PICK day, a, m, n :
            /\ job = [day |-> day, analyses |-> a, matches |-> m] /\ job # None
            /\ day \in Days /\ day < today /\ a = Created("analysis", day) /\ a # None
            /\ n = Created("match", day)
      BY <1>7 DEF CountMatches, JobInv
    <2>2. job' = [day |-> day, analyses |-> a, matches |-> n]
      BY <1>7, <2>1 DEF CountMatches
    <2>3. JobInv'
      BY <1>4, <1>7, <2>1, <2>2 DEF CountMatches, JobInv
    <2>4. DailyInv'
      BY <1>4, <1>7 DEF CountMatches, DailyInv
    <2> QED
      BY <1>1, <1>2, <1>3, <1>7, <2>3, <2>4 DEF CountMatches
  <1>8. CASE UpsertDaily
    <2>1. PICK day, row :
            /\ day \in Days
            /\ daily' = [daily EXCEPT ![day] = row] /\ day < today
            /\ row = [analyses |-> Created("analysis", day), matches |-> Created("match", day),
                      told |-> row.told]
      <3>1. PICK told : told = IF daily[job.day] = None THEN {} ELSE daily[job.day].told
        OBVIOUS
      <3>2. PICK row : row = [analyses |-> job.analyses, matches |-> job.matches, told |-> told]
        OBVIOUS
      <3>3. /\ job.analyses = Created("analysis", job.day) /\ job.matches = Created("match", job.day)
            /\ job.day \in Days /\ job.day < today
        BY <1>8 DEF UpsertDaily, JobInv
      <3>4. row = [analyses |-> job.analyses, matches |-> job.matches, told |-> row.told]
        BY <3>2
      <3>5. daily' = [daily EXCEPT ![job.day] = row]
        BY <1>8, <3>1, <3>2, <3>3 DEF UpsertDaily
      <3> QED
        BY <3>3, <3>4, <3>5
    <2>2. today' = today /\ job' = None
      BY <1>8 DEF UpsertDaily
    <2>3. JobInv'
      BY <2>2 DEF JobInv
    <2>4. DailyInv'
      BY <1>4, <2>1, <2>2 DEF DailyInv
    <2> QED
      BY <1>1, <1>2, <1>3, <2>1, <2>2, <2>3, <2>4
  <1>9. CASE DailyJobFails
    <2>1. JobInv' /\ DailyInv'
      BY <1>4, <1>9 DEF DailyJobFails, JobInv, DailyInv
    <2> QED
      BY <1>1, <1>2, <1>3, <1>9, <2>1 DEF DailyJobFails
  <1>10. CASE NextDay
    <2>1. today' \in Days /\ today' > today
      <3>1. today \in Days /\ today < MaxDay /\ today' = today + 1
        BY <1>10 DEF NextDay
      <3> HIDE DEF IInv, AnalyticsInv
      <3> QED
        BY <3>1, AnalyticsAssumption DEF Days
    <2>2. JobInv'
      BY <1>4, <1>10, <2>1 DEF NextDay, JobInv, Days
    <2>3. DailyInv'
      BY <1>4, <1>10, <2>1 DEF NextDay, DailyInv, Days
    <2> QED
      BY <1>1, <1>2, <1>3, <1>10, <2>1, <2>2, <2>3 DEF NextDay
  <1> QED
    BY <1>5, <1>6, <1>7, <1>8, <1>9, <1>10 DEF Jobs

-----------------------------------------------------------------------------
\* A result that is handed to its handler while a newer one has been before,
\* or that comes while an older one is at work, is seen to cross.
LEMMA StartCompatibility ==
  ASSUME IInv, NEW t \in Tasks, NEW w \in Work, Runs!Begin(t, w), CompatibilityBegins(w)
  PROVE  CompatibilityInv'
  <1> USE DEF IInv, CompatibilityInv, Frame, Runs!RunsTypeOK, Runs!Begin
  <1>1. open[t] = None /\ open' = [open EXCEPT ![t] = w] /\ begun' = [begun EXCEPT ![w] = @ + 1]
    OBVIOUS
  <1>2. \A v \in Work : begun[v] \in Nat /\ (Handled(v)' <=> Handled(v) \/ v = w)
    BY <1>1, RequestsAssumption DEF Handled
  <1>3. scores' = scores /\ newest' = newest /\ crossed \subseteq crossed'
    BY DEF CompatibilityBegins
  <1>4. ASSUME NEW u \in Tasks, open'[u] \in AIResults
        PROVE  begun'[open'[u]] > 0
    <2>1. PICK v : v = open'[u]
      OBVIOUS
    <2>2. v \in Work /\ (u = t => v = w) /\ (u # t => v = open[u])
      BY <1>1, <1>4, <2>1 DEF AIResults
    <2>3. Handled(v) \/ v = w
      BY <1>4, <2>1, <2>2
    <2>4. begun'[v] > 0
      BY <1>2, <2>2, <2>3 DEF Handled
    <2> QED
      BY <2>1, <2>4
  <1>5. \A i \in Items : \/ newest'[i] = 0
                         \/ \E v \in AIResults : v.of = i /\ v.as = newest'[i] /\ Handled(v)'
    BY <1>2, <1>3 DEF AIResults
  <1>6. ASSUME NEW u \in Tasks, NEW v \in AIResults, open'[u] \in AIResults, v.of = open'[u].of,
               open'[u].as < v.as, Handled(v)'
        PROVE  v.of \in crossed'
    <2>0. v \in Work
      BY DEF AIResults
    <2>1. w \in AIResults /\ Crosses(w) => w.of \in crossed'
      BY DEF CompatibilityBegins
    <2>2. CASE u = t /\ v # w
      <3>1. begun[v] > 0
        BY <1>2, <1>6, <2>0, <2>2 DEF Handled
      <3> QED
        BY <1>1, <1>6, <2>1, <2>2, <3>1 DEF Crosses
    <2>3. CASE u = t /\ v = w
      <3>1. open'[u] = w /\ w.as \in Nat
        BY <1>1, <2>3, KindsOfWork
      <3> QED
        BY <1>6, <2>3, <3>1
    <2>4. CASE u # t /\ v = w
      <3>1. open[u] = open'[u]
        BY <1>1, <2>4
      <3> QED
        BY <1>6, <2>1, <2>4, <3>1 DEF Crosses
    <2>5. CASE u # t /\ v # w
      <3>1. open[u] = open'[u] /\ Handled(v)
        BY <1>1, <1>2, <1>6, <2>0, <2>5
      <3> QED
        BY <1>3, <1>6, <3>1
    <2> QED
      BY <2>2, <2>3, <2>4, <2>5
  <1>7. NewestUnlessCrossed'
    BY <1>3 DEF NewestUnlessCrossed
  <1> QED
    BY <1>3, <1>4, <1>5, <1>6, <1>7 DEF Handled

LEMMA SubmitsInv ==
  ASSUME IInv, NEW t \in Tasks, Submits(t)
  PROVE  IInv'
  <1>1. PICK w \in Work : Runs!Begin(t, w) /\ pc' = [pc EXCEPT ![t] = w.kind]
    BY DEF Submits, Start
  <1>2. Start(t) /\ UNCHANGED <<recommendationVars, analyticsVars>> /\ CompatibilityBegins(open'[t])
    BY DEF Submits
  <1>3. /\ Frame' /\ Others(t) /\ pc[t] = "idle" /\ pc'[t] = open'[t].kind
    BY <1>2, StartFrame, KindsNotIdle DEF IInv
  <1>4. open'[t] = w
    BY <1>1 DEF IInv, Frame, Runs!RunsTypeOK, Runs!Begin
  <1>5. Served(t)'
    BY <1>3, <1>4, KindsOfWork DEF Served
  <1>6. CompatibilityBegins(w)
    BY <1>2, <1>4 DEF CompatibilityBegins, Crosses
  <1>9. CompatibilityInv'
    BY <1>1, <1>6, StartCompatibility
  <1>7. pc'[t] \notin {"create match", "create items"}
    BY <1>3, <1>4, KindsOfWork
  <1>8. RecommendationInv' /\ AnalyticsInv'
    BY <1>2, <1>3, <1>7, RecommendationStays, AnalyticsStays DEF IInv, analyticsVars
  <1> QED
    BY <1>3, <1>5, <1>9, <1>8, ServedKept DEF IInv

LEMMA StillInv ==
  ASSUME IInv, UNCHANGED vars
  PROVE  IInv'
  <1> USE DEF IInv, vars, reqVars, recommendationVars, compatibilityVars, analyticsVars
  <1>1. Frame'
    BY StayFrame
  <1>2. (\A t \in Tasks : Served(t)') /\ RecommendationInv'
    BY DEF Served, RecommendationInv, MatchesWholeOrCut, At
  <1>3. CompatibilityInv'
    BY DEF CompatibilityInv, NewestUnlessCrossed, Handled
  <1>4. AnalyticsInv'
    BY AnalyticsStays
  <1> QED
    BY <1>1, <1>2, <1>3, <1>4

LEMMA InitInv == Init => IInv
  <1> SUFFICES ASSUME Init PROVE IInv
    OBVIOUS
  <1>1. Frame /\ \A t \in Tasks : pc[t] = "idle" /\ open[t] = None
    BY InitFrame DEF Init
  <1>2. \A t \in Tasks : Served(t)
    BY <1>1 DEF Served
  <1>3. RecommendationInv
    <2>1. matches = << >>
      BY DEF Init, RecommendationInit
    <2>2. matches \in Seq(MatchRows) /\ DOMAIN matches = {}
      BY <2>1
    <2> QED
      BY <1>1, <2>2 DEF RecommendationInv, MatchesWholeOrCut
  <1>4. CompatibilityInv
    BY <1>1, RequestsAssumption
       DEF Init, CompatibilityInit, CompatibilityInv, NewestUnlessCrossed, AIResults
  <1>5. AnalyticsInv
    <2>1. /\ today = 1 /\ job = None
          /\ rows = [f \in RowFacts |-> 0] /\ daily = [d \in Days |-> None]
      BY DEF Init, AnalyticsInit, RowFacts
    <2>2. today \in Days
      BY <2>1, AnalyticsAssumption DEF Days
    <2>3. JobInv /\ DailyInv
      BY <2>1 DEF JobInv, DailyInv
    <2>4. rows = [f \in RowFacts |-> rows[f]] /\ daily = [d \in Days |-> daily[d]]
      BY <2>1
    <2> QED
      BY <2>2, <2>3, <2>4 DEF AnalyticsInv
  <1> QED
    BY <1>1, <1>2, <1>3, <1>4, <1>5 DEF IInv

LEMMA StepInv == IInv /\ [Next]_vars => IInv'
  <1> SUFFICES ASSUME IInv, [Next]_vars PROVE IInv'
    OBVIOUS
  <1>1. ASSUME NEW t \in Tasks, Submits(t)
        PROVE  IInv'
    BY <1>1, SubmitsInv
  <1>2. ASSUME NEW t \in Tasks,
               RecommendationStep(t) \/ (Recommends(open[t]) /\ RecommendationFails(t)),
               UNCHANGED <<compatibilityVars, analyticsVars>>
        PROVE  IInv'
    BY <1>2, ValidateSeasonInv, AskCompatibilityInv, CreateMatchInv, CreateMatchItemInv,
       AnnounceInv, RecommendationFailsInv DEF RecommendationStep
  <1>3. ASSUME NEW t \in Tasks,
               CompatibilityStep(t) \/ (open[t] \in AIResults /\ CompatibilityFails(t)),
               UNCHANGED <<recommendationVars, analyticsVars>>
        PROVE  IInv'
    BY <1>3, ValidateColoursInv, UpsertInv, AnnounceScoresInv, FailsInv
       DEF CompatibilityStep, CompatibilityFails
  <1>4. ASSUME NEW t \in Tasks,
               AnalyticsStep(t) \/ (open[t] \in Events /\ AnalyticsFails(t)),
               UNCHANGED <<recommendationVars, compatibilityVars>>
        PROVE  IInv'
    BY <1>4, QuietAnalyticsInv, CreateRowInv, SetDailyInv, FailsInv
       DEF AnalyticsStep, AnalyticsFails
  <1>5. ASSUME AnalyticsAtWork /\ Jobs, UNCHANGED <<recommendationVars, compatibilityVars>>
        PROVE  IInv'
    BY <1>5, JobsInv
  <1>6. ASSUME UNCHANGED vars
        PROVE  IInv'
    BY <1>6, StillInv
  <1> QED
    BY <1>1, <1>2, <1>3, <1>4, <1>5, <1>6 DEF Next, Step

-----------------------------------------------------------------------------
(* What is counted of the events, and who is about to count more.          *)

Counted == {"season", "products", "hour"}

\* A run that counts has made the row of its event; the product it found may
\* be behind.
Counting(t) ==
  /\ pc[t] \in Counted => open[t] \in Events
  /\ pc[t] = "season" => open[t].kind = "analysis"
  /\ pc[t] = "products" =>
       /\ open[t].kind = "match"
       /\ mem[t] = [todo |-> mem[t].todo, found |-> mem[t].found]
       /\ mem[t].todo \subseteq ProductsOf[Of(t)]
       /\ mem[t].found # None =>
            /\ mem[t].found = <<mem[t].found[1], mem[t].found[2]>>
            /\ mem[t].found[1] \in mem[t].todo /\ mem[t].found[2] \in Nat
  /\ pc[t] = "hour" => open[t].kind \in {"analysis", "match"}
CountTypes == /\ seasons \in [Days -> Nat]
              /\ hours \in [Days -> [analyses : Nat, matches : Nat]]
              /\ products \in [Products -> Nat]
              /\ \A t \in Tasks : Counting(t)

Analyses == [d \in Days |-> Stored("analysis", d)]
Matched == [d \in Days |-> Stored("match", d)]
MatchedWith == [p \in Products |-> MatchesWith(p)]

SeasonAhead == [d \in Days |-> {t \in Tasks : pc[t] = "season" /\ open[t].as = d}]
AnalysisAhead == [d \in Days |-> {t \in Tasks : pc[t] \in Counted /\ open[t].as = d
                                                /\ open[t].kind = "analysis"}]
MatchAhead == [d \in Days |-> {t \in Tasks : pc[t] \in Counted /\ open[t].as = d
                                             /\ open[t].kind = "match"}]
ProductAhead == [p \in Products |-> {t \in Tasks : pc[t] = "products" /\ p \in mem[t].todo}]

SeasonCount == \A d \in Days : seasons[d] + Cardinality(SeasonAhead[d]) <= Analyses[d]
HourCount == \A d \in Days :
  /\ hours[d].analyses + Cardinality(AnalysisAhead[d]) <= Analyses[d]
  /\ hours[d].matches + Cardinality(MatchAhead[d]) <= Matched[d]
ProductCount ==
  /\ \A p \in Products : products[p] + Cardinality(ProductAhead[p]) <= MatchedWith[p]
  /\ \A t \in Tasks : pc[t] = "products" /\ mem[t].found # None =>
       mem[t].found[2] + Cardinality(ProductAhead[mem[t].found[1]]) <= MatchedWith[mem[t].found[1]]

CountInv == CountTypes /\ SeasonCount /\ HourCount /\ ProductCount

LEMMA EventsFinite ==
  /\ \A kind, d : {w \in Events : w.kind = kind /\ w.as = d /\ rows[w.of] # 0} \subseteq Work
  /\ \A S : S \subseteq Work => IsFiniteSet(S)
  /\ IsFiniteSet(Facts("match"))
  <1>1. \A S : S \subseteq Work => IsFiniteSet(S)
    BY FiniteAssumption, FS_Subset
  <1>2. PICK S : S = {v \in Events : v.kind = "match"}
    OBVIOUS
  <1>3. PICK f : f = [w \in S |-> w.of]
    OBVIOUS
  <1>4. f \in Surjection(S, Facts("match"))
    BY <1>2, <1>3 DEF Surjection, Facts
  <1>5. IsFiniteSet(S)
    BY <1>1, <1>2 DEF Events
  <1> QED
    BY <1>1, <1>4, <1>5, FS_Surjection DEF Events

LEMMA CountsAreNumbers ==
  /\ \A d \in Days : Analyses[d] \in Nat /\ Matched[d] \in Nat
  /\ \A p \in Products : MatchedWith[p] \in Nat
  <1>1. ASSUME NEW d \in Days, NEW kind PROVE Stored(kind, d) \in Nat
    <2>1. PICK S : S = {w \in Events : w.kind = kind /\ w.as = d /\ rows[w.of] # 0}
      OBVIOUS
    <2>2. IsFiniteSet(S)
      BY <2>1, EventsFinite
    <2> QED
      BY <2>1, <2>2, FS_CardinalityType DEF Stored
  <1>2. ASSUME NEW p \in Products PROVE MatchesWith(p) \in Nat
    <2>1. PICK S : S = {m \in Facts("match") : p \in ProductsOf[m] /\ rows[m] # 0}
      OBVIOUS
    <2>2. IsFiniteSet(S)
      BY <2>1, EventsFinite, FS_Subset
    <2> QED
      BY <2>1, <2>2, FS_CardinalityType DEF MatchesWith
  <1> QED
    BY <1>1, <1>2 DEF Analyses, Matched, MatchedWith

\* How many are about to count: a number, always.
LEMMA AheadAreNumbers ==
  /\ \A d \in Days : /\ SeasonAhead[d] \subseteq Tasks /\ AnalysisAhead[d] \subseteq Tasks
                     /\ MatchAhead[d] \subseteq Tasks
                     /\ Cardinality(SeasonAhead[d]) \in Nat /\ Cardinality(AnalysisAhead[d]) \in Nat
                     /\ Cardinality(MatchAhead[d]) \in Nat
  /\ \A p \in Products : ProductAhead[p] \subseteq Tasks /\ Cardinality(ProductAhead[p]) \in Nat
  <1>1. /\ \A d \in Days : /\ SeasonAhead[d] \subseteq Tasks /\ AnalysisAhead[d] \subseteq Tasks
                           /\ MatchAhead[d] \subseteq Tasks
        /\ \A p \in Products : ProductAhead[p] \subseteq Tasks
    BY DEF SeasonAhead, AnalysisAhead, MatchAhead, ProductAhead
  <1> QED
    BY <1>1, TasksCount

\* The same of the next state, in which the numbers are no others.
LEMMA AheadNext ==
  /\ \A d \in Days : /\ SeasonAhead'[d] \subseteq Tasks /\ AnalysisAhead'[d] \subseteq Tasks
                     /\ MatchAhead'[d] \subseteq Tasks
                     /\ Cardinality(SeasonAhead'[d]) \in Nat /\ Cardinality(AnalysisAhead'[d]) \in Nat
                     /\ Cardinality(MatchAhead'[d]) \in Nat
  /\ \A p \in Products : ProductAhead'[p] \subseteq Tasks /\ Cardinality(ProductAhead'[p]) \in Nat
  <1>1. /\ \A d \in Days : /\ SeasonAhead'[d] \subseteq Tasks /\ AnalysisAhead'[d] \subseteq Tasks
                           /\ MatchAhead'[d] \subseteq Tasks
        /\ \A p \in Products : ProductAhead'[p] \subseteq Tasks
    BY DEF SeasonAhead, AnalysisAhead, MatchAhead, ProductAhead
  <1> QED
    BY <1>1, TasksCount

\* As long as the rows stay, so do the analyses and matches there are.
LEMMA RowsStay ==
  ASSUME rows' = rows
  PROVE  Analyses' = Analyses /\ Matched' = Matched /\ MatchedWith' = MatchedWith
  BY DEF Analyses, Matched, MatchedWith, Stored, MatchesWith

LEMMA SeasonsKept ==
  ASSUME CountInv, rows' = rows, seasons' = seasons,
         \A d \in Days : SeasonAhead'[d] \subseteq SeasonAhead[d]
  PROVE  SeasonCount'
  <1> SUFFICES ASSUME NEW d \in Days
               PROVE  seasons[d] + Cardinality(SeasonAhead'[d]) <= Analyses[d]
    BY RowsStay DEF SeasonCount
  <1>1. Cardinality(SeasonAhead'[d]) <= Cardinality(SeasonAhead[d])
    BY AheadAreNumbers, NoneJoins
  <1>2. seasons[d] + Cardinality(SeasonAhead[d]) <= Analyses[d] /\ seasons[d] \in Nat
    BY DEF CountInv, CountTypes, SeasonCount
  <1> QED
    BY <1>1, <1>2, AheadAreNumbers, AheadNext, CountsAreNumbers

LEMMA HoursKept ==
  ASSUME CountInv, rows' = rows, hours' = hours,
         \A d \in Days : /\ AnalysisAhead'[d] \subseteq AnalysisAhead[d]
                         /\ MatchAhead'[d] \subseteq MatchAhead[d]
  PROVE  HourCount'
  <1> SUFFICES ASSUME NEW d \in Days
               PROVE  /\ hours[d].analyses + Cardinality(AnalysisAhead'[d]) <= Analyses[d]
                      /\ hours[d].matches + Cardinality(MatchAhead'[d]) <= Matched[d]
    BY RowsStay DEF HourCount
  <1>1. /\ Cardinality(AnalysisAhead'[d]) <= Cardinality(AnalysisAhead[d])
        /\ Cardinality(MatchAhead'[d]) <= Cardinality(MatchAhead[d])
    BY AheadAreNumbers, NoneJoins
  <1>2. /\ hours[d].analyses + Cardinality(AnalysisAhead[d]) <= Analyses[d]
        /\ hours[d].matches + Cardinality(MatchAhead[d]) <= Matched[d]
        /\ hours[d].analyses \in Nat /\ hours[d].matches \in Nat
    BY DEF CountInv, CountTypes, HourCount
  <1> QED
    BY <1>1, <1>2, AheadAreNumbers, AheadNext, CountsAreNumbers

LEMMA FoundIs ==
  ASSUME CountTypes, NEW t \in Tasks, pc[t] = "products", mem[t].found # None
  PROVE  /\ mem[t].found[1] \in Products /\ mem[t].found[1] \in mem[t].todo
         /\ mem[t].found[2] \in Nat /\ t \in ProductAhead[mem[t].found[1]]
  <1>1. Counting(t)
    BY DEF CountTypes
  <1>2. Of(t) \in Facts("match") /\ mem[t].todo \subseteq ProductsOf[Of(t)]
    BY <1>1 DEF Counting, Counted, Facts, Of
  <1>3. mem[t].todo \subseteq Products
    BY <1>2 DEF Products
  <1> QED
    BY <1>1, <1>3 DEF Counting, ProductAhead

LEMMA ProductsKept ==
  ASSUME CountInv, rows' = rows, products' = products,
         \A p \in Products : ProductAhead'[p] \subseteq ProductAhead[p],
         \A u \in Tasks : pc'[u] = "products" => mem'[u].found = None \/ (pc[u] = "products" /\ mem'[u] = mem[u])
  PROVE  ProductCount'
  <1>1. \A p \in Products : Cardinality(ProductAhead'[p]) <= Cardinality(ProductAhead[p])
    BY AheadAreNumbers, NoneJoins
  <1>2. ASSUME NEW p \in Products PROVE products[p] + Cardinality(ProductAhead'[p]) <= MatchedWith[p]
    <2>1. products[p] + Cardinality(ProductAhead[p]) <= MatchedWith[p] /\ products[p] \in Nat
      BY DEF CountInv, CountTypes, ProductCount
    <2> QED
      BY <1>1, <2>1, AheadAreNumbers, AheadNext, CountsAreNumbers
  <1>3. ASSUME NEW u \in Tasks, pc'[u] = "products", mem'[u].found # None
        PROVE  mem'[u].found[2] + Cardinality(ProductAhead'[mem'[u].found[1]])
                 <= MatchedWith[mem'[u].found[1]]
    <2>1. pc[u] = "products" /\ mem'[u] = mem[u] /\ mem[u].found # None
      BY <1>3
    <2>2. PICK p \in Products, total \in Nat : p = mem[u].found[1] /\ total = mem[u].found[2]
      BY <2>1, FoundIs DEF CountInv
    <2>3. total + Cardinality(ProductAhead[p]) <= MatchedWith[p]
      BY <2>1, <2>2 DEF CountInv, ProductCount
    <2>4. total + Cardinality(ProductAhead'[p]) <= MatchedWith[p]
      BY <1>1, <2>3, AheadAreNumbers, AheadNext, CountsAreNumbers
    <2> QED
      BY <2>1, <2>2, <2>4
  <1> QED
    BY <1>2, <1>3, RowsStay DEF ProductCount

\* Whoever moves, moves to where nothing is counted: nobody joins.
CountsNothing == \A u \in Tasks : \/ pc'[u] = pc[u] /\ mem'[u] = mem[u] /\ open'[u] = open[u]
                                  \/ pc'[u] \notin Counted

LEMMA CountsStay ==
  ASSUME CountInv, UNCHANGED <<rows, seasons, hours, products>>, CountsNothing
  PROVE  CountInv'
  <1>1. CountTypes'
    BY DEF CountInv, CountTypes, CountsNothing, Counting, Counted, Of
  <1>2. \A d \in Days : SeasonAhead'[d] \subseteq SeasonAhead[d]
    BY DEF SeasonAhead, CountsNothing, Counted
  <1>3. \A d \in Days : /\ AnalysisAhead'[d] \subseteq AnalysisAhead[d]
                        /\ MatchAhead'[d] \subseteq MatchAhead[d]
    BY DEF AnalysisAhead, MatchAhead, CountsNothing
  <1>4. \A p \in Products : ProductAhead'[p] \subseteq ProductAhead[p]
    BY DEF ProductAhead, CountsNothing, Counted
  <1>5. \A u \in Tasks : pc'[u] = "products" =>
          mem'[u].found = None \/ (pc[u] = "products" /\ mem'[u] = mem[u])
    BY DEF CountsNothing, Counted
  <1> QED
    BY <1>1, <1>2, <1>3, <1>4, <1>5, SeasonsKept, HoursKept, ProductsKept DEF CountInv

\* What becomes of the runs' types when one of them goes on counting.
LEMMA CountingKept ==
  ASSUME CountInv, NEW t \in Tasks, Others(t), Counting(t)',
         seasons' \in [Days -> Nat], hours' \in [Days -> [analyses : Nat, matches : Nat]],
         products' \in [Products -> Nat]
  PROVE  CountTypes'
  <1>1. ASSUME NEW u \in Tasks PROVE Counting(u)'
    <2>1. CASE u = t
      BY <2>1
    <2>2. CASE u # t
      BY <2>2 DEF CountInv, CountTypes, Counting, Counted, Others, Of
    <2> QED
      BY <2>1, <2>2
  <1> QED
    BY <1>1 DEF CountTypes

LEMMA CountSeasonInv ==
  ASSUME Frame, CountInv, NEW t \in Tasks, CountSeason(t)
  PROVE  CountInv'
  <1>1. /\ pc[t] = "season" /\ Goes(t, "hour", None)
        /\ UNCHANGED <<rows, hours, products>>
    BY DEF CountSeason, At
  <1>2. /\ Others(t) /\ pc'[t] = "hour" /\ open' = open /\ open[t] \in Events /\ open[t].kind = "analysis"
    BY <1>1, GoesFrame DEF CountInv, CountTypes, Counting, Counted
  <1>3. PICK day \in Days : day = open[t].as
    BY <1>2, KindsOfWork DEF Events
  <1>4. seasons \in [Days -> Nat] /\ seasons' = [seasons EXCEPT ![day] = @ + 1]
    BY <1>3 DEF CountSeason, CountInv, CountTypes
  <1>5. CountTypes'
    <2>1. Counting(t)'
      BY <1>2 DEF Counting, Counted
    <2> QED
      BY <1>1, <1>2, <1>4, <2>1, CountingKept DEF CountInv, CountTypes
  <1>6. SeasonCount'
    <2> SUFFICES ASSUME NEW d \in Days
                 PROVE  seasons'[d] + Cardinality(SeasonAhead'[d]) <= Analyses[d]
      BY <1>1, RowsStay DEF SeasonCount
    <2>1. seasons[d] + Cardinality(SeasonAhead[d]) <= Analyses[d] /\ seasons[d] \in Nat
      BY DEF CountInv, CountTypes, SeasonCount
    <2>2. seasons'[d] = seasons[d] + (IF d = day THEN 1 ELSE 0)
      BY <1>4
    <2>3. /\ SeasonAhead'[d] \subseteq SeasonAhead[d]
          /\ d = day => t \in SeasonAhead[d] /\ SeasonAhead'[d] \subseteq SeasonAhead[d] \ {t}
      BY <1>1, <1>2, <1>3 DEF SeasonAhead, Others
    <2>4. Cardinality(SeasonAhead'[d]) + (IF d = day THEN 1 ELSE 0) <= Cardinality(SeasonAhead[d])
      BY <2>3, AheadAreNumbers, AheadNext, OneLeaves, NoneJoins
    <2> QED
      BY <2>1, <2>2, <2>4, AheadAreNumbers, AheadNext, CountsAreNumbers
  <1>7. HourCount'
    <2>1. \A d \in Days : /\ AnalysisAhead'[d] \subseteq AnalysisAhead[d]
                          /\ MatchAhead'[d] \subseteq MatchAhead[d]
      BY <1>1, <1>2 DEF AnalysisAhead, MatchAhead, Counted, Others
    <2> QED
      BY <1>1, <2>1, HoursKept
  <1>8. ProductCount'
    <2>1. \A p \in Products : ProductAhead'[p] \subseteq ProductAhead[p]
      BY <1>2 DEF ProductAhead, Others
    <2>2. \A u \in Tasks : pc'[u] = "products" =>
            mem'[u].found = None \/ (pc[u] = "products" /\ mem'[u] = mem[u])
      BY <1>2 DEF Others
    <2> QED
      BY <1>1, <2>1, <2>2, ProductsKept
  <1> QED
    BY <1>5, <1>6, <1>7, <1>8 DEF CountInv

LEMMA CountHourInv ==
  ASSUME Frame, CountInv, NEW t \in Tasks, CountHour(t)
  PROVE  CountInv'
  <1>1. pc[t] = "hour" /\ Ends(t) /\ UNCHANGED <<rows, seasons, products>>
    BY DEF CountHour, At
  <1>2. /\ Others(t) /\ pc'[t] = "idle" /\ open[t] \in Events /\ open[t].kind \in {"analysis", "match"}
    BY <1>1, EndsFrame DEF CountInv, CountTypes, Counting, Counted
  <1>3. PICK day \in Days : day = open[t].as
    BY <1>2, KindsOfWork DEF Events
  <1>4. PICK a \in {0, 1}, m \in {0, 1} :
          /\ a = IF open[t].kind = "analysis" THEN 1 ELSE 0
          /\ m = IF open[t].kind = "match" THEN 1 ELSE 0
    OBVIOUS
  <1>5. hours \in [Days -> [analyses : Nat, matches : Nat]]
    BY DEF CountInv, CountTypes
  <1>6. PICK row : row = [analyses |-> hours[day].analyses + a, matches |-> hours[day].matches + m]
    OBVIOUS
  <1>11. row \in [analyses : Nat, matches : Nat] /\ hours' = [hours EXCEPT ![day] = row]
    <2>1. PICK old : old = hours[day] /\ old \in [analyses : Nat, matches : Nat]
      BY <1>5
    <2>2. row \in [analyses : Nat, matches : Nat]
      BY <1>4, <1>6, <2>1
    <2>3. CASE open[t].kind = "analysis"
      <3>1. hours' = [hours EXCEPT ![day] = [old EXCEPT !.analyses = @ + 1]]
        BY <1>3, <2>1, <2>3 DEF CountHour
      <3>2. a = 1 /\ m = 0 /\ old.matches + 0 = old.matches
        BY <1>4, <2>1, <2>3
      <3>3. row = [old EXCEPT !.analyses = @ + 1]
        BY <1>6, <2>1, <3>2
      <3> QED
        BY <2>2, <3>1, <3>3
    <2>4. CASE open[t].kind = "match"
      <3>1. hours' = [hours EXCEPT ![day] = [old EXCEPT !.matches = @ + 1]]
        BY <1>3, <2>1, <2>4 DEF CountHour
      <3>2. a = 0 /\ m = 1 /\ old.analyses + 0 = old.analyses
        BY <1>4, <2>1, <2>4
      <3>3. row = [old EXCEPT !.matches = @ + 1]
        BY <1>6, <2>1, <3>2
      <3> QED
        BY <2>2, <3>1, <3>3
    <2> QED
      BY <1>2, <2>3, <2>4
  <1>7. CountTypes'
    <2>1. Counting(t)'
      BY <1>2 DEF Counting, Counted
    <2>2. hours' \in [Days -> [analyses : Nat, matches : Nat]]
      BY <1>5, <1>11
    <2> QED
      BY <1>1, <1>2, <2>1, <2>2, CountingKept DEF CountInv, CountTypes
  <1>8. SeasonCount'
    <2>1. \A d \in Days : SeasonAhead'[d] \subseteq SeasonAhead[d]
      BY <1>2 DEF SeasonAhead, Others
    <2> QED
      BY <1>1, <2>1, SeasonsKept
  <1>9. HourCount'
    <2> SUFFICES ASSUME NEW d \in Days
                 PROVE  /\ hours'[d].analyses + Cardinality(AnalysisAhead'[d]) <= Analyses[d]
                        /\ hours'[d].matches + Cardinality(MatchAhead'[d]) <= Matched[d]
      BY <1>1, RowsStay DEF HourCount
    <2>1. /\ hours[d].analyses + Cardinality(AnalysisAhead[d]) <= Analyses[d]
          /\ hours[d].matches + Cardinality(MatchAhead[d]) <= Matched[d]
          /\ hours[d].analyses \in Nat /\ hours[d].matches \in Nat
      BY DEF CountInv, CountTypes, HourCount
    <2>2. /\ hours'[d].analyses = hours[d].analyses + (IF d = day THEN a ELSE 0)
          /\ hours'[d].matches = hours[d].matches + (IF d = day THEN m ELSE 0)
      BY <1>5, <1>6, <1>11, <2>1
    <2>3. /\ AnalysisAhead'[d] \subseteq AnalysisAhead[d]
          /\ d = day /\ a = 1 => t \in AnalysisAhead[d] /\ AnalysisAhead'[d] \subseteq AnalysisAhead[d] \ {t}
      BY <1>1, <1>2, <1>3, <1>4 DEF AnalysisAhead, Others, Counted
    <2>4. /\ MatchAhead'[d] \subseteq MatchAhead[d]
          /\ d = day /\ m = 1 => t \in MatchAhead[d] /\ MatchAhead'[d] \subseteq MatchAhead[d] \ {t}
      BY <1>1, <1>2, <1>3, <1>4 DEF MatchAhead, Others, Counted
    <2>5. Cardinality(AnalysisAhead'[d]) + (IF d = day THEN a ELSE 0) <= Cardinality(AnalysisAhead[d])
      BY <2>3, AheadAreNumbers, AheadNext, OneLeaves, NoneJoins
    <2>6. Cardinality(MatchAhead'[d]) + (IF d = day THEN m ELSE 0) <= Cardinality(MatchAhead[d])
      BY <2>4, AheadAreNumbers, AheadNext, OneLeaves, NoneJoins
    <2> QED
      BY <2>1, <2>2, <2>5, <2>6, AheadAreNumbers, AheadNext, CountsAreNumbers
  <1>10. ProductCount'
    <2>1. \A p \in Products : ProductAhead'[p] \subseteq ProductAhead[p]
      BY <1>2 DEF ProductAhead, Others
    <2>2. \A u \in Tasks : pc'[u] = "products" =>
            mem'[u].found = None \/ (pc[u] = "products" /\ mem'[u] = mem[u])
      BY <1>2 DEF Others
    <2> QED
      BY <1>1, <2>1, <2>2, ProductsKept
  <1> QED
    BY <1>7, <1>8, <1>9, <1>10 DEF CountInv

\* A run that goes on among its products leaves the other counts alone.
LEMMA AmongProducts ==
  ASSUME Frame, CountInv, NEW t \in Tasks, pc[t] = "products", NEW where \in {"products", "hour"},
         NEW what, Goes(t, where, what),
         where = "products" => what = [todo |-> what.todo, found |-> what.found]
                               /\ what.todo \subseteq mem[t].todo,
         where = "products" /\ what.found # None =>
           /\ what.found = <<what.found[1], what.found[2]>>
           /\ what.found[1] \in what.todo /\ what.found[2] \in Nat,
         UNCHANGED <<rows, seasons, hours>>, products' \in [Products -> Nat]
  PROVE  /\ CountTypes' /\ SeasonCount' /\ HourCount'
         /\ Others(t) /\ pc'[t] = where /\ mem'[t] = what /\ open' = open
  <1>1. /\ Others(t) /\ pc'[t] = where /\ mem'[t] = what /\ open' = open
    BY GoesFrame
  <1>2. /\ open[t] \in Events /\ open[t].kind = "match" /\ mem[t].todo \subseteq ProductsOf[Of(t)]
    BY DEF CountInv, CountTypes, Counting, Counted
  <1>3. Counting(t)'
    BY <1>1, <1>2 DEF Counting, Counted, Of
  <1>4. CountTypes'
    BY <1>1, <1>3, CountingKept DEF CountInv, CountTypes
  <1>5. SeasonCount'
    <2>1. \A d \in Days : SeasonAhead'[d] \subseteq SeasonAhead[d]
      BY <1>1 DEF SeasonAhead, Others
    <2> QED
      BY <2>1, SeasonsKept
  <1>6. HourCount'
    <2>1. \A d \in Days : /\ AnalysisAhead'[d] \subseteq AnalysisAhead[d]
                          /\ MatchAhead'[d] \subseteq MatchAhead[d]
      BY <1>1 DEF AnalysisAhead, MatchAhead, Counted, Others
    <2> QED
      BY <2>1, HoursKept
  <1> QED
    BY <1>1, <1>4, <1>5, <1>6

LEMMA FindProductInv ==
  ASSUME Frame, CountInv, NEW t \in Tasks, FindProduct(t)
  PROVE  CountInv'
  <1>1. /\ pc[t] = "products" /\ Counting(t) /\ UNCHANGED <<rows, seasons, hours, products>>
    BY DEF FindProduct, At, analyticsVars, CountInv, CountTypes
  <1>2. products \in [Products -> Nat] /\ CountTypes
    BY DEF CountInv, CountTypes
  <1>3. mem[t] = [todo |-> mem[t].todo, found |-> mem[t].found] /\ mem[t].todo \subseteq Products
    BY <1>1 DEF Counting, Counted, Products, Facts, Of
  <1>4. CASE mem[t].todo = {}
    <2>1. Goes(t, "hour", None)
      BY <1>4 DEF FindProduct
    <2>2. /\ CountTypes' /\ SeasonCount' /\ HourCount' /\ Others(t) /\ pc'[t] = "hour"
      BY <1>1, <1>2, <2>1, AmongProducts
    <2>3. \A p \in Products : ProductAhead'[p] \subseteq ProductAhead[p]
      BY <2>2 DEF ProductAhead, Others
    <2>4. \A u \in Tasks : pc'[u] = "products" =>
            mem'[u].found = None \/ (pc[u] = "products" /\ mem'[u] = mem[u])
      BY <2>2 DEF Others
    <2> QED
      BY <1>1, <2>2, <2>3, <2>4, ProductsKept DEF CountInv
  <1>5. CASE mem[t].todo # {}
    <2>1. PICK p \in mem[t].todo : Goes(t, "products", [mem[t] EXCEPT !.found = <<p, products[p]>>])
      BY <1>5 DEF FindProduct
    <2>2. PICK what : what = [todo |-> mem[t].todo, found |-> <<p, products[p]>>]
      OBVIOUS
    <2>3. Goes(t, "products", what)
      BY <1>3, <2>1, <2>2
    <2>4. p \in Products /\ products[p] \in Nat
      BY <1>2, <1>3, <2>1
    <2>5. /\ CountTypes' /\ SeasonCount' /\ HourCount' /\ Others(t) /\ pc'[t] = "products" /\ mem'[t] = what
      BY <1>1, <1>2, <2>2, <2>3, <2>4, AmongProducts
    <2>6. ProductAhead' = ProductAhead
      BY <1>1, <2>2, <2>5 DEF ProductAhead, Others
    <2>7. ASSUME NEW u \in Tasks, pc'[u] = "products", mem'[u].found # None
          PROVE  mem'[u].found[2] + Cardinality(ProductAhead[mem'[u].found[1]])
                   <= MatchedWith[mem'[u].found[1]]
      <3>1. CASE u = t
        <4>1. mem'[u].found[1] = p /\ mem'[u].found[2] = products[p]
          BY <2>2, <2>5, <3>1
        <4> QED
          BY <2>4, <4>1 DEF CountInv, ProductCount
      <3>2. CASE u # t
        BY <2>5, <2>7, <3>2 DEF CountInv, ProductCount, Others
      <3> QED
        BY <3>1, <3>2
    <2>8. ProductCount'
      BY <1>1, <2>6, <2>7, RowsStay DEF CountInv, ProductCount
    <2> QED
      BY <2>5, <2>8 DEF CountInv
  <1> QED
    BY <1>4, <1>5

LEMMA WriteProductInv ==
  ASSUME Frame, CountInv, NEW t \in Tasks, WriteProduct(t)
  PROVE  CountInv'
  <1>1. /\ pc[t] = "products" /\ mem[t].found # None /\ UNCHANGED <<rows, seasons, hours>>
    BY DEF WriteProduct, At
  <1>2. products \in [Products -> Nat] /\ CountTypes
    BY DEF CountInv, CountTypes
  <1>3. PICK p \in Products, total \in Nat :
          /\ p = mem[t].found[1] /\ total = mem[t].found[2] /\ p \in mem[t].todo /\ t \in ProductAhead[p]
    BY <1>1, <1>2, FoundIs
  <1>4. products' = products \/ products' = [products EXCEPT ![p] = total + 1]
    BY <1>3 DEF WriteProduct
  <1>5. PICK what : what = [todo |-> mem[t].todo \ {p}, found |-> None]
    OBVIOUS
  <1>6. Goes(t, "products", what)
    BY <1>3, <1>5 DEF WriteProduct
  <1>7. products' \in [Products -> Nat]
    BY <1>2, <1>4
  <1>8. /\ CountTypes' /\ SeasonCount' /\ HourCount' /\ Others(t) /\ pc'[t] = "products" /\ mem'[t] = what
    BY <1>1, <1>5, <1>6, <1>7, AmongProducts
  <1>9. ASSUME NEW q \in Products
        PROVE  Cardinality(ProductAhead'[q]) + (IF q = p THEN 1 ELSE 0) <= Cardinality(ProductAhead[q])
    <2>1. /\ ProductAhead'[q] \subseteq ProductAhead[q]
          /\ q = p => t \in ProductAhead[q] /\ ProductAhead'[q] \subseteq ProductAhead[q] \ {t}
      BY <1>1, <1>3, <1>5, <1>8 DEF ProductAhead, Others
    <2> QED
      BY <2>1, AheadAreNumbers, AheadNext, OneLeaves, NoneJoins
  <1>10. ASSUME NEW q \in Products PROVE products'[q] + Cardinality(ProductAhead'[q]) <= MatchedWith[q]
    <2>1. products[q] + Cardinality(ProductAhead[q]) <= MatchedWith[q] /\ products[q] \in Nat
      BY <1>2 DEF CountInv, ProductCount
    <2>2. total + Cardinality(ProductAhead[p]) <= MatchedWith[p]
      BY <1>1, <1>3 DEF CountInv, ProductCount
    <2>3. products'[q] = products[q] \/ (q = p /\ products'[q] = total + 1)
      BY <1>2, <1>4
    <2> QED
      BY <1>9, <2>1, <2>2, <2>3, AheadAreNumbers, AheadNext, CountsAreNumbers
  <1>11. ASSUME NEW u \in Tasks, pc'[u] = "products", mem'[u].found # None
         PROVE  mem'[u].found[2] + Cardinality(ProductAhead'[mem'[u].found[1]])
                  <= MatchedWith[mem'[u].found[1]]
    <2>1. u # t /\ pc[u] = "products" /\ mem'[u] = mem[u] /\ mem[u].found # None
      BY <1>5, <1>8, <1>11 DEF Others
    <2>2. PICK q \in Products, n \in Nat : q = mem[u].found[1] /\ n = mem[u].found[2]
      BY <1>2, <2>1, FoundIs
    <2>3. n + Cardinality(ProductAhead[q]) <= MatchedWith[q]
      BY <2>1, <2>2 DEF CountInv, ProductCount
    <2>4. n + Cardinality(ProductAhead'[q]) <= MatchedWith[q]
      BY <1>9, <2>3, AheadAreNumbers, AheadNext, CountsAreNumbers
    <2> QED
      BY <2>1, <2>2, <2>4
  <1>12. ProductCount'
    BY <1>1, <1>10, <1>11, RowsStay DEF ProductCount
  <1> QED
    BY <1>8, <1>12 DEF CountInv

\* The row of an event is new, and with it what may be counted of it.
LEMMA RowIsNew ==
  ASSUME AnalyticsInv, NEW w \in Events, w.kind \in {"analysis", "match"}, rows[w.of] = 0,
         rows' = [rows EXCEPT ![w.of] = today]
  PROVE  /\ \A d \in Days :
              /\ Analyses'[d] \in Nat /\ Matched'[d] \in Nat
              /\ Analyses[d] + (IF w.kind = "analysis" /\ w.as = d THEN 1 ELSE 0) <= Analyses'[d]
              /\ Matched[d] + (IF w.kind = "match" /\ w.as = d THEN 1 ELSE 0) <= Matched'[d]
         /\ \A p \in Products :
              /\ MatchedWith'[p] \in Nat
              /\ MatchedWith[p] + (IF w.kind = "match" /\ p \in ProductsOf[w.of] THEN 1 ELSE 0)
                   <= MatchedWith'[p]
  <1>0. w.of \in RowFacts /\ today # 0 /\ rows = [f \in RowFacts |-> rows[f]]
    <2>1. today # 0
      BY AnalyticsAssumption DEF AnalyticsInv, Days
    <2>2. w.of \in RowFacts
      BY DEF RowFacts, Facts
    <2> QED
      BY <2>1, <2>2 DEF AnalyticsInv
  <1>1. rows'[w.of] # 0 /\ \A f \in RowFacts : rows[f] # 0 => rows'[f] # 0
    BY <1>0
  <1>2. ASSUME NEW d \in Days, NEW kind \in {"analysis", "match"}
        PROVE  /\ Stored(kind, d)' \in Nat
               /\ Stored(kind, d) + (IF w.kind = kind /\ w.as = d THEN 1 ELSE 0) <= Stored(kind, d)'
    <2>1. PICK old, new :
            /\ old = {v \in Events : v.kind = kind /\ v.as = d /\ rows[v.of] # 0}
            /\ new = {v \in Events : v.kind = kind /\ v.as = d /\ rows'[v.of] # 0}
      OBVIOUS
    <2>2. old \subseteq new
      BY <1>1, <2>1 DEF RowFacts, Facts
    <2>3. w \notin old /\ (w.kind = kind /\ w.as = d => w \in new)
      BY <1>1, <2>1
    <2>4. IsFiniteSet(old) /\ IsFiniteSet(new)
      BY <2>1, EventsFinite DEF Events
    <2>5. Stored(kind, d) = Cardinality(old) /\ Stored(kind, d)' = Cardinality(new)
      BY <2>1 DEF Stored
    <2> QED
      BY <2>2, <2>3, <2>4, <2>5, MoreWithOne
  <1>3. ASSUME NEW p \in Products
        PROVE  /\ MatchesWith(p)' \in Nat
               /\ MatchesWith(p) + (IF w.kind = "match" /\ p \in ProductsOf[w.of] THEN 1 ELSE 0)
                    <= MatchesWith(p)'
    <2>1. PICK old, new :
            /\ old = {m \in Facts("match") : p \in ProductsOf[m] /\ rows[m] # 0}
            /\ new = {m \in Facts("match") : p \in ProductsOf[m] /\ rows'[m] # 0}
      OBVIOUS
    <2>2. old \subseteq new
      BY <1>1, <2>1 DEF RowFacts
    <2>3. w.of \notin old /\ (w.kind = "match" /\ p \in ProductsOf[w.of] => w.of \in new)
      BY <1>1, <2>1 DEF Facts
    <2>4. IsFiniteSet(old) /\ IsFiniteSet(new)
      BY <2>1, EventsFinite, FS_Subset
    <2>5. MatchesWith(p) = Cardinality(old) /\ MatchesWith(p)' = Cardinality(new)
      BY <2>1 DEF MatchesWith
    <2> QED
      BY <2>2, <2>3, <2>4, <2>5, MoreWithOne
  <1>4. ASSUME NEW d \in Days
        PROVE  /\ Analyses[d] = Stored("analysis", d) /\ Matched[d] = Stored("match", d)
               /\ Analyses'[d] = Stored("analysis", d)' /\ Matched'[d] = Stored("match", d)'
    BY DEF Analyses, Matched
  <1>5. ASSUME NEW d \in Days
        PROVE  /\ Analyses'[d] \in Nat /\ Matched'[d] \in Nat
               /\ Analyses[d] + (IF w.kind = "analysis" /\ w.as = d THEN 1 ELSE 0) <= Analyses'[d]
               /\ Matched[d] + (IF w.kind = "match" /\ w.as = d THEN 1 ELSE 0) <= Matched'[d]
    BY <1>2, <1>4
  <1>6. ASSUME NEW p \in Products
        PROVE  MatchedWith[p] = MatchesWith(p) /\ MatchedWith'[p] = MatchesWith(p)'
    BY DEF MatchedWith
  <1> QED
    BY <1>3, <1>5, <1>6

LEMMA CreateRowCounts ==
  ASSUME IInv, CountInv, NEW t \in Tasks, CreateRow(t)
  PROVE  CountInv'
  <1> DEFINE w == open[t]
  <1>1. /\ pc[t] = "create" /\ w \in Events /\ w.kind \in {"analysis", "match"}
        /\ UNCHANGED <<seasons, hours, products>>
    BY DEF CreateRow, At, IInv, Served
  <1>2. CASE Ends(t) /\ UNCHANGED rows
    <2>1. CountsNothing
      BY <1>2, EndsFrame DEF IInv, CountsNothing, Others, Counted
    <2> QED
      BY <1>1, <1>2, <2>1, CountsStay
  <1>3. CASE rows[Of(t)] = 0 /\ rows' = [rows EXCEPT ![Of(t)] = today] /\ Counts(t)
    <2>1. /\ \A d \in Days :
               /\ Analyses'[d] \in Nat /\ Matched'[d] \in Nat
               /\ Analyses[d] + (IF w.kind = "analysis" /\ w.as = d THEN 1 ELSE 0) <= Analyses'[d]
               /\ Matched[d] + (IF w.kind = "match" /\ w.as = d THEN 1 ELSE 0) <= Matched'[d]
          /\ \A p \in Products :
               /\ MatchedWith'[p] \in Nat
               /\ MatchedWith[p] + (IF w.kind = "match" /\ p \in ProductsOf[w.of] THEN 1 ELSE 0)
                    <= MatchedWith'[p]
      BY <1>1, <1>3, RowIsNew DEF IInv, Of
    <2>2. PICK where, what :
            /\ where \in {"season", "products"} /\ Goes(t, where, what)
            /\ where = "season" => w.kind = "analysis"
            /\ where = "products" => w.kind = "match" /\ what = [todo |-> ProductsOf[Of(t)], found |-> None]
      BY <1>1, <1>3 DEF Counts
    <2>3. /\ Others(t) /\ pc'[t] = where /\ mem'[t] = what /\ open' = open
      BY <1>1, <2>2, GoesFrame DEF IInv
    <2>4. CountTypes'
      <3>1. Counting(t)'
        BY <1>1, <2>2, <2>3 DEF Counting, Counted, Of
      <3> QED
        BY <1>1, <2>3, <3>1, CountingKept DEF CountInv, CountTypes
    <2>5. SeasonCount'
      <3> SUFFICES ASSUME NEW d \in Days
                   PROVE  seasons[d] + Cardinality(SeasonAhead'[d]) <= Analyses'[d]
        BY <1>1 DEF SeasonCount
      <3>1. seasons[d] + Cardinality(SeasonAhead[d]) <= Analyses[d] /\ seasons[d] \in Nat
        BY DEF CountInv, CountTypes, SeasonCount
      <3>2. /\ SeasonAhead'[d] \subseteq SeasonAhead[d] \cup {t}
            /\ ~(w.kind = "analysis" /\ w.as = d) => SeasonAhead'[d] \subseteq SeasonAhead[d]
        BY <2>2, <2>3 DEF SeasonAhead, Others
      <3>3. Cardinality(SeasonAhead'[d]) <= Cardinality(SeasonAhead[d])
              + (IF w.kind = "analysis" /\ w.as = d THEN 1 ELSE 0)
        BY <3>2, AheadAreNumbers, AheadNext, OneJoins, NoneJoins
      <3> QED
        BY <2>1, <3>1, <3>3, AheadAreNumbers, AheadNext, CountsAreNumbers
    <2>6. HourCount'
      <3> SUFFICES ASSUME NEW d \in Days
                   PROVE  /\ hours[d].analyses + Cardinality(AnalysisAhead'[d]) <= Analyses'[d]
                          /\ hours[d].matches + Cardinality(MatchAhead'[d]) <= Matched'[d]
        BY <1>1 DEF HourCount
      <3>1. /\ hours[d].analyses + Cardinality(AnalysisAhead[d]) <= Analyses[d]
            /\ hours[d].matches + Cardinality(MatchAhead[d]) <= Matched[d]
            /\ hours[d].analyses \in Nat /\ hours[d].matches \in Nat
        BY DEF CountInv, CountTypes, HourCount
      <3>2. /\ AnalysisAhead'[d] \subseteq AnalysisAhead[d] \cup {t}
            /\ ~(w.kind = "analysis" /\ w.as = d) => AnalysisAhead'[d] \subseteq AnalysisAhead[d]
        BY <2>3 DEF AnalysisAhead, Others
      <3>3. /\ MatchAhead'[d] \subseteq MatchAhead[d] \cup {t}
            /\ ~(w.kind = "match" /\ w.as = d) => MatchAhead'[d] \subseteq MatchAhead[d]
        BY <2>3 DEF MatchAhead, Others
      <3>4. Cardinality(AnalysisAhead'[d]) <= Cardinality(AnalysisAhead[d])
              + (IF w.kind = "analysis" /\ w.as = d THEN 1 ELSE 0)
        BY <3>2, AheadAreNumbers, AheadNext, OneJoins, NoneJoins
      <3>5. Cardinality(MatchAhead'[d]) <= Cardinality(MatchAhead[d])
              + (IF w.kind = "match" /\ w.as = d THEN 1 ELSE 0)
        BY <3>3, AheadAreNumbers, AheadNext, OneJoins, NoneJoins
      <3>6. hours[d].analyses + Cardinality(AnalysisAhead'[d]) <= Analyses'[d]
        BY <2>1, <3>1, <3>4, AheadAreNumbers, AheadNext, CountsAreNumbers
      <3>7. hours[d].matches + Cardinality(MatchAhead'[d]) <= Matched'[d]
        BY <2>1, <3>1, <3>5, AheadAreNumbers, AheadNext, CountsAreNumbers
      <3> QED
        BY <3>6, <3>7
    <2>7. ProductCount'
      <3>1. ASSUME NEW p \in Products
            PROVE  Cardinality(ProductAhead'[p]) <= Cardinality(ProductAhead[p])
                     + (IF w.kind = "match" /\ p \in ProductsOf[w.of] THEN 1 ELSE 0)
        <4>1. /\ ProductAhead'[p] \subseteq ProductAhead[p] \cup {t}
              /\ ~(w.kind = "match" /\ p \in ProductsOf[w.of]) => ProductAhead'[p] \subseteq ProductAhead[p]
          BY <2>2, <2>3 DEF ProductAhead, Others, Of
        <4> QED
          BY <4>1, AheadAreNumbers, AheadNext, OneJoins, NoneJoins
      <3>2. ASSUME NEW p \in Products PROVE products[p] + Cardinality(ProductAhead'[p]) <= MatchedWith'[p]
        <4>1. products[p] + Cardinality(ProductAhead[p]) <= MatchedWith[p] /\ products[p] \in Nat
          BY DEF CountInv, CountTypes, ProductCount
        <4> QED
          BY <2>1, <3>1, <4>1, AheadAreNumbers, AheadNext, CountsAreNumbers
      <3>3. ASSUME NEW u \in Tasks, pc'[u] = "products", mem'[u].found # None
            PROVE  mem'[u].found[2] + Cardinality(ProductAhead'[mem'[u].found[1]])
                     <= MatchedWith'[mem'[u].found[1]]
        <4>1. u # t /\ pc[u] = "products" /\ mem'[u] = mem[u] /\ mem[u].found # None
          BY <2>2, <2>3, <3>3 DEF Others
        <4>2. PICK p \in Products, n \in Nat : p = mem[u].found[1] /\ n = mem[u].found[2]
          BY <4>1, FoundIs DEF CountInv
        <4>3. n + Cardinality(ProductAhead[p]) <= MatchedWith[p]
          BY <4>1, <4>2 DEF CountInv, ProductCount
        <4>4. n + Cardinality(ProductAhead'[p]) <= MatchedWith'[p]
          BY <2>1, <3>1, <4>3, AheadAreNumbers, AheadNext, CountsAreNumbers
        <4> QED
          BY <4>1, <4>2, <4>4
      <3> QED
        BY <1>1, <3>2, <3>3 DEF ProductCount
    <2> QED
      BY <2>4, <2>5, <2>6, <2>7 DEF CountInv
  <1> QED
    BY <1>2, <1>3 DEF CreateRow

LEMMA AnalyticsCounts ==
  ASSUME IInv, CountInv, NEW t \in Tasks, AnalyticsStep(t) \/ AnalyticsFails(t)
  PROVE  CountInv'
  <1>1. Frame
    BY DEF IInv
  <1>2. ASSUME StoreRaw(t) \/ FindRow(t) \/ UseCredits(t) \/ SetDaily(t) \/ AnalyticsFails(t)
        PROVE  CountInv'
    <2>1. UNCHANGED <<rows, seasons, hours, products>>
      BY <1>2 DEF StoreRaw, FindRow, UseCredits, SetDaily, AnalyticsFails, analyticsVars
    <2>2. \/ Ends(t)
          \/ pc[t] # "idle" /\ \E where \in {"find", "use", "set daily", "create"} : Goes(t, where, None)
      <3>1. CASE StoreRaw(t)
        <4>1. /\ Goes(t, AfterRaw[pc[t]], None) /\ pc[t] \in {"analysis", "match", "credits", "sync"}
          BY <3>1 DEF StoreRaw, AfterRaw
        <4>2. /\ AfterRaw["analysis"] = "find" /\ AfterRaw["match"] = "find"
              /\ AfterRaw["credits"] = "use" /\ AfterRaw["sync"] = "set daily"
          BY DEF AfterRaw
        <4>3. AfterRaw[pc[t]] \in {"find", "use", "set daily"}
          BY <4>1, <4>2
        <4> QED
          BY <4>1, <4>3
      <3>2. CASE ~StoreRaw(t)
        BY <1>2, <3>2 DEF FindRow, UseCredits, SetDaily, AnalyticsFails, At
      <3> QED
        BY <3>1, <3>2
    <2>3. CountsNothing
      <3>1. CASE Ends(t)
        BY <1>1, <3>1, EndsFrame DEF CountsNothing, Others, Counted
      <3>2. CASE pc[t] # "idle" /\ \E where \in {"find", "use", "set daily", "create"} : Goes(t, where, None)
        <4>1. PICK where \in {"find", "use", "set daily", "create"} : Goes(t, where, None)
          BY <3>2
        <4>2. Others(t) /\ pc'[t] = where
          BY <1>1, <3>2, <4>1, GoesFrame
        <4> QED
          BY <4>2 DEF CountsNothing, Others, Counted
      <3> QED
        BY <2>2, <3>1, <3>2
    <2> QED
      BY <2>1, <2>3, CountsStay
  <1> QED
    BY <1>1, <1>2, CreateRowCounts, CountSeasonInv, FindProductInv, WriteProductInv, CountHourInv
       DEF AnalyticsStep

\* The other two services count nothing.
LEMMA ForeignCounts ==
  ASSUME Frame, CountInv, NEW t \in Tasks, UNCHANGED analyticsVars,
         \/ RecommendationStep(t) \/ RecommendationFails(t)
         \/ CompatibilityStep(t) \/ CompatibilityFails(t)
  PROVE  CountInv'
  <1> DEFINE Places == {"ask", "create match", "create items", "announce", "upsert", "announce scores"}
             Going == \E where \in Places : \E what : Goes(t, where, what)
  <1>1. Ends(t) \/ (pc[t] # "idle" /\ Going)
    <2>1. ASSUME RecommendationStep(t) \/ RecommendationFails(t)
          PROVE  Ends(t) \/ (pc[t] # "idle" /\ Going)
      BY <2>1 DEF RecommendationStep, ValidateSeason, AskCompatibility, CreateMatch, CreateMatchItem,
                  Announce, RecommendationFails, At
    <2>2. ASSUME CompatibilityStep(t) \/ CompatibilityFails(t)
          PROVE  Ends(t) \/ (pc[t] # "idle" /\ Going)
      BY <2>2 DEF CompatibilityStep, ValidateColours, Upsert, AnnounceScores, CompatibilityFails, At
    <2> QED
      BY <2>1, <2>2
  <1>2. CountsNothing
    <2>1. CASE Ends(t)
      BY <2>1, EndsFrame DEF CountsNothing, Others, Counted
    <2>2. CASE pc[t] # "idle" /\ Going
      <3>1. PICK where \in Places : \E what : Goes(t, where, what)
        BY <2>2
      <3>2. PICK what : Goes(t, where, what)
        BY <3>1
      <3>3. Others(t) /\ pc'[t] = where
        BY <2>2, <3>2, GoesFrame
      <3> QED
        BY <3>3 DEF CountsNothing, Others, Counted
    <2> QED
      BY <1>1, <2>1, <2>2
  <1> QED
    BY <1>2, CountsStay DEF analyticsVars

LEMMA CountStep == IInv /\ CountInv /\ [Next]_vars => CountInv'
  <1> SUFFICES ASSUME IInv, CountInv, [Next]_vars PROVE CountInv'
    OBVIOUS
  <1>1. Frame
    BY DEF IInv
  <1>2. ASSUME NEW t \in Tasks, Submits(t) PROVE CountInv'
    <2>1. Others(t) /\ pc'[t] = open'[t].kind /\ open'[t] \in Work /\ UNCHANGED analyticsVars
      BY <1>1, <1>2, StartFrame, KindsNotIdle DEF Submits
    <2>2. CountsNothing
      BY <2>1, KindsOfWork DEF CountsNothing, Others, Counted
    <2> QED
      BY <2>1, <2>2, CountsStay DEF analyticsVars
  <1>3. ASSUME UNCHANGED <<reqVars, rows, seasons, hours, products>> PROVE CountInv'
    <2>1. CountsNothing
      BY <1>3 DEF CountsNothing, reqVars
    <2> QED
      BY <1>3, <2>1, CountsStay
  <1>4. ASSUME Jobs PROVE CountInv'
    BY <1>3, <1>4 DEF Jobs, DailyJobStarts, CountAnalyses, CountMatches, UpsertDaily, DailyJobFails, NextDay
  <1>5. ASSUME UNCHANGED vars PROVE CountInv'
    BY <1>3, <1>5 DEF vars, analyticsVars
  <1> QED
    BY <1>1, <1>2, <1>4, <1>5, AnalyticsCounts, ForeignCounts DEF Next, Step

LEMMA NothingCounted == Init => CountInv
  <1> SUFFICES ASSUME Init PROVE CountInv
    OBVIOUS
  <1>1. \A t \in Tasks : pc[t] = "idle"
    BY InitFrame DEF Init
  <1>2. CountTypes
    BY <1>1 DEF Init, AnalyticsInit, CountTypes, Counting, Counted
  <1>3. \A d \in Days : /\ Cardinality(SeasonAhead[d]) = 0
                        /\ Cardinality(AnalysisAhead[d]) = 0 /\ Cardinality(MatchAhead[d]) = 0
    <2>1. \A d \in Days : SeasonAhead[d] = {} /\ AnalysisAhead[d] = {} /\ MatchAhead[d] = {}
      BY <1>1 DEF SeasonAhead, AnalysisAhead, MatchAhead, Counted
    <2> QED
      BY <2>1, FS_EmptySet
  <1>4. \A p \in Products : Cardinality(ProductAhead[p]) = 0
    <2>1. \A p \in Products : ProductAhead[p] = {}
      BY <1>1 DEF ProductAhead
    <2> QED
      BY <2>1, FS_EmptySet
  <1>5. /\ \A d \in Days : seasons[d] = 0 /\ hours[d].analyses = 0 /\ hours[d].matches = 0
        /\ \A p \in Products : products[p] = 0
    BY DEF Init, AnalyticsInit
  <1> QED
    BY <1>1, <1>2, <1>3, <1>4, <1>5, CountsAreNumbers DEF CountInv, SeasonCount, HourCount, ProductCount

THEOREM InvariantHolds == Spec => []IInv
  BY InitInv, StepInv, PTL DEF Spec

\* A stored match lacks items only while its run is storing them or after it
\* was cut short: RecommendationService's two repository calls, statement by
\* statement, for any number of requests and items.
THEOREM WholeOrCut == Spec => []MatchesWholeOrCut
  <1>1. IInv => MatchesWholeOrCut
    BY DEF IInv, RecommendationInv
  <1> QED
    BY <1>1, InvariantHolds, PTL

\* An item's season scores are those of its newest analysis, unless an older
\* one came back after it or ran beside it: CompatibilityRepository.upsert
\* compares nothing, and needs to only then.
THEOREM NewestScores == Spec => []NewestUnlessCrossed
  <1>1. IInv => NewestUnlessCrossed
    BY DEF IInv, CompatibilityInv
  <1> QED
    BY <1>1, InvariantHolds, PTL

\* What the daily job counts of yesterday is final, also of what is stored
\* between and after its queries: AggregationRepository.aggregate_daily_metrics.
THEOREM DailyCounts == Spec => []DailyCountsFinal
  <1>1. IInv => DailyCountsFinal
    <2> SUFFICES ASSUME IInv, NEW d \in Days, daily[d] # None
                 PROVE  /\ d < today
                        /\ daily[d].analyses = Created("analysis", d)
                        /\ daily[d].matches = Created("match", d)
      BY DEF DailyCountsFinal
    <2>1. PICK a, m, told : /\ daily[d] = [analyses |-> a, matches |-> m, told |-> told]
                            /\ a = Created("analysis", d) /\ m = Created("match", d)
                            /\ d < today
      BY DEF IInv, AnalyticsInv, DailyInv
    <2> QED
      BY <2>1
  <1> QED
    BY <1>1, InvariantHolds, PTL

THEOREM CountsHold == Spec => []CountInv
  BY NothingCounted, CountStep, InvariantHolds, PTL DEF Spec

\* However often an event comes and however its runs overlap or are cut
\* short, no counter of analytics-service exceeds the analyses and matches
\* there are: the unique analysis_id and match_id let one run pass to what
\* is counted of a row, and a product that was found is written back with no
\* more than the matches of it.
THEOREM CountedOnce == Spec => []CountedAtMostOnce
  <1>1. CountInv => CountedAtMostOnce
    <2> SUFFICES ASSUME CountInv PROVE CountedAtMostOnce
      OBVIOUS
    <2>1. ASSUME NEW d \in Days
          PROVE  /\ seasons[d] <= Stored("analysis", d)
                 /\ hours[d].analyses <= Stored("analysis", d)
                 /\ hours[d].matches <= Stored("match", d)
      <3>1. /\ seasons[d] + Cardinality(SeasonAhead[d]) <= Analyses[d]
            /\ hours[d].analyses + Cardinality(AnalysisAhead[d]) <= Analyses[d]
            /\ hours[d].matches + Cardinality(MatchAhead[d]) <= Matched[d]
            /\ seasons[d] \in Nat /\ hours[d].analyses \in Nat /\ hours[d].matches \in Nat
        BY DEF CountInv, CountTypes, SeasonCount, HourCount
      <3>2. Analyses[d] = Stored("analysis", d) /\ Matched[d] = Stored("match", d)
        BY DEF Analyses, Matched
      <3>3. seasons[d] <= Analyses[d] /\ hours[d].analyses <= Analyses[d] /\ hours[d].matches <= Matched[d]
        BY <3>1, AheadAreNumbers, CountsAreNumbers
      <3> QED
        BY <3>2, <3>3
    <2>2. ASSUME NEW p \in Products PROVE products[p] <= MatchesWith(p)
      <3>1. products[p] + Cardinality(ProductAhead[p]) <= MatchedWith[p] /\ products[p] \in Nat
        BY DEF CountInv, CountTypes, ProductCount
      <3>2. products[p] <= MatchedWith[p]
        BY <3>1, AheadAreNumbers, CountsAreNumbers
      <3> QED
        BY <3>2 DEF MatchedWith
    <2> QED
      BY <2>1, <2>2 DEF CountedAtMostOnce
  <1> QED
    BY <1>1, CountsHold, PTL
=============================================================================
