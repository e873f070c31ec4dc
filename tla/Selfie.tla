------------------------------- MODULE Selfie -------------------------------
(***************************************************************************)
(* services/selfie-service: one row per photo of a merchant, a background  *)
(* job that asks the AI analyzer about it, and the sweeper that gives up   *)
(* on what has been processing for too long.                               *)
(*                                                                         *)
(* The service stores no row itself: the id and the hash it makes fit no   *)
(* column of its schema.  Rows are those that came with the table, and     *)
(* jobs are modelled as they would be run for these.  A result cannot be   *)
(* stored (timezone is not imported), so every analysis that is processing *)
(* fails in the end, by its job or by the sweeper.                         *)
(***************************************************************************)
EXTENDS Requests

CONSTANTS MaxDeaths   \* a bound: deaths of the service's process

ASSUME DeathsAssumption == MaxDeaths \in Nat

\* Nothing is no status.
ASSUME StatusAssumption == None \notin {"PROCESSING", "COMPLETED", "FAILED"}

VARIABLES analyses,   \* rows by (merchant_id, image_hash), which is unique
          up, deaths    \* the process, and with it the sweeper, runs

selfieVars == <<analyses, up, deaths>>

SelfieWork == {w \in Work : w.service = "selfie"}
Photos == {w.of : w \in SelfieWork}

\* age: younger than the sweeper's cutoff, or older.
Ages == {"fresh", "old"}
NoAnalysis == [status |-> None]
Rows == [status : {"PROCESSING", "COMPLETED", "FAILED"}, age : Ages]

SelfieTypeOK == /\ analyses \in [Photos -> Rows \cup {NoAnalysis}]
                /\ up \in BOOLEAN
                /\ deaths \in 0 .. MaxDeaths

\* What is in the table came with it.
SelfieInit == /\ analyses \in [Photos -> Rows \cup {NoAnalysis}]
              /\ \A p \in Photos : analyses[p] # NoAnalysis => analyses[p].age = "fresh"
              /\ up = TRUE
              /\ deaths = 0

-----------------------------------------------------------------------------
(* POST /analyses.                                                         *)

\* No customer, or the image processor will not have the image.
Refused(w) == ~ClientAuth(w) \/ w.as # "selfie"

\* The merchant's id before the hash makes it longer than any in the table.
FindByHash(t) ==
  /\ At(t, "create")
  /\ IF Refused(open[t]) THEN Ends(t) ELSE Goes(t, "insert", None)
  /\ UNCHANGED selfieVars

\* The INSERT is refused: "ana_..." is no uuid, nor does the hash fit.
CreateAnalysis(t) == /\ At(t, "insert")
                     /\ Ends(t)
                     /\ UNCHANGED selfieVars

\* POST /claim: the update needs timezone.
ClaimAnalyses(t) == /\ At(t, "claim")
                    /\ Ends(t)
                    /\ UNCHANGED selfieVars

-----------------------------------------------------------------------------
(* process_ai_analysis, once for a row.                                    *)

JobDue(w) == analyses[w.of] # NoAnalysis /\ begun[w] = 0

AskAnalyzer(t) == /\ At(t, "job")
                  /\ Goes(t, "asking", None)
                  /\ UNCHANGED selfieVars

\* A timeout is left to the sweeper; anything else that is not a success
\* marks the row.
Answer(t) == /\ At(t, "asking")
             /\ \/ Ends(t)
                \/ Goes(t, "mark failed", None)
                \/ Goes(t, "store", None)
             /\ UNCHANGED selfieVars

\* A NameError, which is as good as any failure.
UpdateWithResults(t) == /\ At(t, "store")
                        /\ Goes(t, "mark failed", None)
                        /\ UNCHANGED selfieVars

MarkFailed(t) == /\ At(t, "mark failed")
                 /\ analyses' = [analyses EXCEPT ![Of(t)].status = "FAILED"]
                 /\ Ends(t)
                 /\ UNCHANGED <<up, deaths>>

-----------------------------------------------------------------------------

Time == \E p \in Photos : /\ analyses[p] # NoAnalysis
                          /\ analyses[p].age = "fresh"
                          /\ analyses' = [analyses EXCEPT ![p].age = "old"]
                          /\ UNCHANGED <<reqVars, up, deaths>>

\* Mutant of Stale: the comparison with the cutoff turned round.
StaleAfter(row) == row # NoAnalysis /\ row.status = "PROCESSING" /\ row.age = "fresh"

Stale(row) == row # NoAnalysis /\ row.status = "PROCESSING" /\ row.age # "fresh"

\* The sweeper's round; a round that fails is logged and followed by another.
Sweep == /\ up
         /\ \E p \in Photos : Stale(analyses[p])
         /\ analyses' = [p \in Photos |-> IF Stale(analyses[p])
                                            THEN [analyses[p] EXCEPT !.status = "FAILED"]
                                            ELSE analyses[p]]
         /\ UNCHANGED <<reqVars, up, deaths>>

Working == {t \in Tasks : open[t] \in SelfieWork}

\* With the process its requests and jobs are gone.
SelfieDies == /\ up
              /\ deaths < MaxDeaths
              /\ up' = FALSE
              /\ deaths' = deaths + 1
              /\ open' = [t \in Tasks |-> IF t \in Working THEN None ELSE open[t]]
              /\ pc' = [t \in Tasks |-> IF t \in Working THEN "idle" ELSE pc[t]]
              /\ mem' = [t \in Tasks |-> IF t \in Working THEN None ELSE mem[t]]
              /\ UNCHANGED <<begun, analyses>>

SelfieRestarts == ~up /\ up' = TRUE /\ UNCHANGED <<reqVars, analyses, deaths>>

SelfieStep(t) == \/ FindByHash(t) \/ CreateAnalysis(t) \/ ClaimAnalyses(t)
                 \/ AskAnalyzer(t) \/ Answer(t) \/ UpdateWithResults(t) \/ MarkFailed(t)

-----------------------------------------------------------------------------
Status(p) == analyses[p].status

\* Whatever dies or times out, no analysis is left processing.
AnalysesSettle == \A p \in Photos : Status(p) = "PROCESSING" ~> Status(p) # "PROCESSING"
=============================================================================
