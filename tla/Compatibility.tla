---------------------------- MODULE Compatibility ----------------------------
(***************************************************************************)
(* services/season-compatibility-service: each result of the catalogue's   *)
(* AI becomes the sixteen season scores of its item, written over those of *)
(* an earlier result.  What the scores are is left out; whose they are is  *)
(* not.  Announcing them raises, so that every event is delivered until it *)
(* is given up, and the one before may come back after the one that        *)
(* replaced it.                                                            *)
(***************************************************************************)
EXTENDS Requests

VARIABLES scores,    \* the analysis each item's row was computed from, 0: no row
          newest,      \* history: the latest analysis that was written
          crossed      \* history: items an older analysis of which ran beside
                       \* a newer one, or after it

compatibilityVars == <<scores, newest, crossed>>

\* as: 0 for colours out of range, else the analysis of the item, in order.
AIResults == {w \in Work : w.service = "compatibility"}
Items == {w.of : w \in AIResults}

CompatibilityInit == /\ scores = [i \in Items |-> 0]
                     /\ newest = [i \in Items |-> 0]
                     /\ crossed = {}

\* w is handed to its handler.
Crosses(w) == \E v \in AIResults :
  /\ v.of = w.of
  /\ \/ w.as < v.as /\ begun[v] > 0
     \/ v.as < w.as /\ \E t \in Tasks : open[t] = v

CompatibilityBegins(w) ==
  /\ crossed' = IF w \in AIResults /\ Crosses(w) THEN crossed \cup {w.of} ELSE crossed
  /\ UNCHANGED <<scores, newest>>

-----------------------------------------------------------------------------
\* A ValidationError is acknowledged.
ValidateColours(t) == /\ At(t, "ai result")
                      /\ IF open[t].as = 0
                           THEN Ends(t)
                           ELSE Goes(t, "upsert", None)
                      /\ UNCHANGED compatibilityVars

\* Mutant of Upsert: a row that is there is left as it is.
CreateOnly(t) ==
  /\ At(t, "upsert")
  /\ scores' = [scores EXCEPT ![Of(t)] = IF @ = 0 THEN open[t].as ELSE @]
  /\ newest' = [newest EXCEPT ![Of(t)] = IF @ < open[t].as THEN open[t].as ELSE @]
  /\ Goes(t, "announce scores", None)
  /\ UNCHANGED crossed

Upsert(t) ==
  /\ At(t, "upsert")
  /\ scores' = [scores EXCEPT ![Of(t)] = open[t].as]
  /\ newest' = [newest EXCEPT ![Of(t)] = IF @ < open[t].as THEN open[t].as ELSE @]
  /\ Goes(t, "announce scores", None)
  /\ UNCHANGED crossed

\* And the announcement of the failure raises as well.
AnnounceScores(t) == /\ At(t, "announce scores")
                     /\ Ends(t)
                     /\ UNCHANGED compatibilityVars

CompatibilityFails(t) == Ends(t) /\ UNCHANGED compatibilityVars

CompatibilityStep(t) == ValidateColours(t) \/ Upsert(t) \/ AnnounceScores(t)

-----------------------------------------------------------------------------
\* An item has the scores of its newest analysis, unless an older one came
\* back after it or ran beside it: nothing compares the two.
NewestUnlessCrossed == \A i \in Items : scores[i] = newest[i] \/ i \in crossed
=============================================================================
