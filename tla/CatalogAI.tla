------------------------------ MODULE CatalogAI ------------------------------
(***************************************************************************)
(* services/catalog-ai-analyzer: analyze_single_item.  The image is        *)
(* downloaded with retries, then the colours are extracted and the AI is   *)
(* asked, with retries, side by side and under one timeout.  The listener  *)
(* calls an analyze_batch that does not exist and raises at once; the      *)
(* analysis of one item is modelled as such a batch would start it.        *)
(***************************************************************************)
EXTENDS Requests

CONSTANTS MaxDownloads,  \* ImageDownloader.max_retries
          MaxCalls       \* openai_max_retries

ASSUME RetriesAssumption == MaxDownloads \in Nat \ {0} /\ MaxCalls \in Nat \ {0}

VARIABLES verdicts   \* the status of each item's last ItemAnalysisResult

aiVars == <<verdicts>>

Analyses == {w \in Work : w.service = "ai"}

AITypeOK == verdicts \in [Analyses -> {None, "failed"}]
AIInit == verdicts = [w \in Analyses |-> None]

\* on_message: AttributeError.
RequestAnalysis(t) == /\ At(t, "analyze batch")
                      /\ Ends(t)
                      /\ UNCHANGED aiVars

\* Any exception makes a failed result; so does getting through, because
\* _determine_status does not exist either.
Verdict(t) == /\ Ends(t)
              /\ verdicts' = [verdicts EXCEPT ![open[t]] = "failed"]

\* Items without their ids do not get to the download.
Validate(t) == /\ At(t, "analyze item")
               /\ IF open[t].as = "no ids"
                    THEN Verdict(t)
                    ELSE Goes(t, "download", 1) /\ UNCHANGED aiVars

\* mem: the attempt.  A timeout, a 5xx or a network error is tried again
\* after a pause; a bad URL, 4xx, format, size or anything unexpected is not.
Download(t) ==
  /\ At(t, "download")
  /\ \/ Goes(t, "analyze", [colours |-> "due", call |-> 1]) /\ UNCHANGED aiVars
     \/ mem[t] < MaxDownloads /\ Goes(t, "download", mem[t] + 1) /\ UNCHANGED aiVars
     \/ Verdict(t)

\* _extract_colors_safe, which never gives way once it runs.
ExtractColours(t) ==
  /\ At(t, "analyze")
  /\ mem[t].colours = "due"
  /\ \E c \in {"colours", "none"} : Goes(t, "analyze", [mem[t] EXCEPT !.colours = c])
  /\ UNCHANGED aiVars

\* _analyze_attributes_safe: 429, 5xx, timeouts and empty answers are tried
\* again, client errors and answers that do not parse are not.  Whatever
\* comes of it, the colours are waited for.
AskAgain(t) == /\ At(t, "analyze")
               /\ mem[t].call \in 1 .. MaxCalls - 1
               /\ Goes(t, "analyze", [mem[t] EXCEPT !.call = @ + 1])
               /\ UNCHANGED aiVars

Answered(t) == /\ At(t, "analyze")
               /\ mem[t].call > 0
               /\ Goes(t, "analyze", [mem[t] EXCEPT !.call = 0])
               /\ UNCHANGED aiVars

Gathered(t) == /\ At(t, "analyze")
               /\ mem[t].colours # "due"
               /\ mem[t].call = 0
               /\ Verdict(t)

\* analysis_timeout_per_item, at any await of the AI's side.
TimesOut(t) == /\ At(t, "analyze")
               /\ mem[t].call > 0
               /\ Verdict(t)

AIStep(t) == \/ RequestAnalysis(t) \/ Validate(t) \/ Download(t)
             \/ ExtractColours(t) \/ AskAgain(t) \/ Answered(t) \/ Gathered(t) \/ TimesOut(t)
=============================================================================
