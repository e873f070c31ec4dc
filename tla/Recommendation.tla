--------------------------- MODULE Recommendation ---------------------------
(***************************************************************************)
(* services/recommendation-service: POST /recommendations asks             *)
(* season-compatibility for items, stores the match, then its items one by *)
(* one, each in a transaction of its own, and announces it.                *)
(*                                                                         *)
(* Announcing raises (data=), and so does announcing the failure: every    *)
(* request ends in a 500, whatever it stored.  season-compatibility of     *)
(* this repository wants another header and wraps its items, so that its   *)
(* answers are errors here; AskCompatibility also takes the list of items  *)
(* the client is written for.                                              *)
(***************************************************************************)
EXTENDS Requests, Sequences

CONSTANTS MaxItems   \* a bound: items of an answer (100 in the code)

ASSUME ItemsAssumption == MaxItems \in Nat

VARIABLES matches,   \* rows, with total_matches and how many items are stored
          severed      \* history: matches whose run was cut short among its items

recommendationVars == <<matches, severed>>

RecommendationInit == matches = << >> /\ severed = {}

-----------------------------------------------------------------------------
ValidateSeason(t) ==
  /\ At(t, "recommend")
  /\ IF ClientAuth(open[t]) /\ open[t].as = "season"
       THEN Goes(t, "ask", None)
       ELSE Ends(t)
  /\ UNCHANGED recommendationVars

\* Not 200, no connection, a timeout, an answer of another shape: an error.
AskCompatibility(t) ==
  /\ At(t, "ask")
  /\ \/ Ends(t)
     \/ \E n \in 0 .. MaxItems : Goes(t, "create match", n)
  /\ UNCHANGED recommendationVars

\* Nothing asks whether the analysis has a match already.
CreateMatch(t) ==
  /\ At(t, "create match")
  /\ matches' = Append(matches, [of |-> Of(t), total |-> mem[t], stored |-> 0])
  /\ IF mem[t] = 0
       THEN Goes(t, "announce", None)
       ELSE Goes(t, "create items", Len(matches) + 1)
  /\ UNCHANGED severed

\* Mutant of CreateMatchItem: the return inside the loop.
CreateFirstItem(t) ==
  /\ At(t, "create items")
  /\ matches' = [matches EXCEPT ![mem[t]].stored = @ + 1]
  /\ Goes(t, "announce", None)
  /\ UNCHANGED severed

CreateMatchItem(t) ==
  /\ At(t, "create items")
  /\ matches' = [matches EXCEPT ![mem[t]].stored = @ + 1]
  /\ IF matches'[mem[t]].stored = matches'[mem[t]].total
       THEN Goes(t, "announce", None)
       ELSE Goes(t, "create items", mem[t])
  /\ UNCHANGED severed

Announce(t) == /\ At(t, "announce")
               /\ Ends(t)
               /\ UNCHANGED recommendationVars

\* A statement fails or the process dies; what is stored stays.
RecommendationFails(t) ==
  /\ Ends(t)
  /\ severed' = IF At(t, "create items") THEN severed \cup {mem[t]} ELSE severed
  /\ UNCHANGED matches

RecommendationStep(t) == \/ ValidateSeason(t) \/ AskCompatibility(t) \/ CreateMatch(t)
                         \/ CreateMatchItem(t) \/ Announce(t)

-----------------------------------------------------------------------------
\* A match has the items it says it has, unless its run is still storing them
\* or was cut short among them: nothing takes such a match back.
MatchesWholeOrCut == \A i \in DOMAIN matches :
  \/ matches[i].stored = matches[i].total
  \/ i \in severed
  \/ \E t \in Tasks : At(t, "create items") /\ mem[t] = i
=============================================================================
