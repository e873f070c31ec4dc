------------------------------ MODULE SelfieAI ------------------------------
(***************************************************************************)
(* services/selfie-ai-analyzer: a photo is put into a workspace on disk,   *)
(* three pipelines work on it in threads, each under a timeout of its own  *)
(* and all under another, and the workspace is cleared an hour later.  A   *)
(* thread does not stop when nobody waits for it any more.                 *)
(***************************************************************************)
EXTENDS Requests

CONSTANTS Threads   \* asyncio.to_thread's pool

ASSUME ThreadsAssumption == Threads \in Nat \ {0}

VARIABLES stray,       \* threads that work for nobody
          dirs,          \* workspaces on disk, by analysis_id
          cleanups,      \* cleanups under way, for each workspace
          abandoned,     \* history: workspaces a killed process, or a removal
                         \* that failed, left behind
          shared         \* history: workspaces a run entered while another was
                         \* at work there or its cleanup was due

analyzerVars == <<stray, dirs, cleanups, abandoned, shared>>

Photographs == {w \in Work : w.service = "analyzer"}
Ids == {w.of : w \in Photographs}

Pipelines == {"face_mesh", "selfie_seg", "demographics"}

AnalyzerTypeOK == /\ stray \in 0 .. Threads
                  /\ dirs \subseteq Ids
                  /\ cleanups \in [Ids -> Nat]
                  /\ abandoned \subseteq Ids
                  /\ shared \subseteq Ids

AnalyzerInit == /\ stray = 0
                /\ dirs = {}
                /\ cleanups = [i \in Ids |-> 0]
                /\ abandoned = {}
                /\ shared = {}

Busy == {tp \in Tasks \X Pipelines : /\ At(tp[1], "pipelines")
                                     /\ mem[tp[1]][tp[2]] = "running"}
RunsOf(t) == {tp \in Busy : tp[1] = t}

-----------------------------------------------------------------------------

\* The finally of _process_analysis, however the run ends.
Leaves(t) == /\ Ends(t)
             /\ cleanups' = [cleanups EXCEPT ![Of(t)] = @ + 1]

InUse(i) == cleanups[i] > 0 \/ \E t \in Tasks : At(t, "pipelines") /\ Of(t) = i

\* No await comes between the request and the pipelines.  The queue is never
\* full, for nothing is ever put into it.
Receive(t) ==
  LET i == Of(t) IN
  /\ At(t, "photo")
  /\ IF ~InternalAuth(open[t])
       THEN Ends(t) /\ UNCHANGED <<dirs, cleanups, abandoned, shared>>
       ELSE /\ dirs' = dirs \cup {i}
            /\ abandoned' = abandoned \ {i}
            /\ shared' = IF InUse(i) THEN shared \cup {i} ELSE shared \ {i}
            /\ IF open[t].as = "jpeg"
                 THEN /\ Goes(t, "pipelines", [p \in Pipelines |-> "queued"])
                      /\ UNCHANGED cleanups
                 ELSE Leaves(t)
  /\ UNCHANGED stray

ThreadTakes(t, p) == /\ At(t, "pipelines")
                     /\ mem[t][p] = "queued"
                     /\ Cardinality(Busy) + stray < Threads
                     /\ Goes(t, "pipelines", [mem[t] EXCEPT ![p] = "running"])
                     /\ UNCHANGED analyzerVars

\* A result or None; the lock around DeepFace only delays it.
ThreadEnds(t, p) == /\ At(t, "pipelines")
                    /\ mem[t][p] = "running"
                    /\ Goes(t, "pipelines", [mem[t] EXCEPT ![p] = "over"])
                    /\ UNCHANGED analyzerVars

\* _run_with_timeout: a queued call is taken back, a running one goes on.
PipelineTimesOut(t, p) ==
  /\ At(t, "pipelines")
  /\ mem[t][p] \in {"queued", "running"}
  /\ stray' = IF mem[t][p] = "running" THEN stray + 1 ELSE stray
  /\ Goes(t, "pipelines", [mem[t] EXCEPT ![p] = "over"])
  /\ UNCHANGED <<dirs, cleanups, abandoned, shared>>

StrayEnds == /\ stray > 0
             /\ stray' = stray - 1
             /\ UNCHANGED <<reqVars, dirs, cleanups, abandoned, shared>>

\* Colours, scores and the answer, or what goes wrong with them.
Finish(t) == /\ At(t, "pipelines")
             /\ \A p \in Pipelines : mem[t][p] = "over"
             /\ Leaves(t)
             /\ UNCHANGED <<stray, dirs, abandoned, shared>>

\* Mutant of TotalTimeout: a cancelled run does not get to its cleanup.
TotalTimeoutUncleared(t) == /\ At(t, "pipelines")
                            /\ stray' = stray + Cardinality(RunsOf(t))
                            /\ Ends(t)
                            /\ UNCHANGED <<dirs, cleanups, abandoned, shared>>

TotalTimeout(t) == /\ At(t, "pipelines")
                   /\ stray' = stray + Cardinality(RunsOf(t))
                   /\ Leaves(t)
                   /\ UNCHANGED <<dirs, abandoned, shared>>

\* Mutant of Cleanup: it clears the directory above.
CleanupOfAll(i) == /\ cleanups[i] > 0
                   /\ cleanups' = [cleanups EXCEPT ![i] = @ - 1]
                   /\ dirs' = {}
                   /\ UNCHANGED <<reqVars, stray, abandoned, shared>>

\* An hour later, whoever is at work there by then.  A removal that fails is
\* logged, and not tried again.
Cleanup(i) == /\ cleanups[i] > 0
              /\ cleanups' = [cleanups EXCEPT ![i] = @ - 1]
              /\ \/ dirs' = dirs \ {i} /\ UNCHANGED abandoned
                 \/ abandoned' = abandoned \cup ({i} \cap dirs) /\ UNCHANGED dirs
              /\ UNCHANGED <<reqVars, stray, shared>>

AtWork == {t \in Tasks : open[t] \in Photographs}

\* The lifespan ends: cleanup_all, when the requests are through.  It gives up
\* at the first directory it cannot remove.
AnalyzerStops == /\ AtWork = {}
                 /\ dirs' \in SUBSET dirs
                 /\ abandoned' = abandoned \cup dirs'
                 /\ cleanups' = [i \in Ids |-> 0]
                 /\ stray' = 0
                 /\ UNCHANGED <<reqVars, shared>>

\* Or the process is killed.
AnalyzerDies == /\ open' = [t \in Tasks |-> IF t \in AtWork THEN None ELSE open[t]]
                /\ pc' = [t \in Tasks |-> IF t \in AtWork THEN "idle" ELSE pc[t]]
                /\ mem' = [t \in Tasks |-> IF t \in AtWork THEN None ELSE mem[t]]
                /\ abandoned' = abandoned \cup dirs
                /\ cleanups' = [i \in Ids |-> 0]
                /\ stray' = 0
                /\ UNCHANGED <<begun, dirs, shared>>

AnalyzerStep(t) == \/ Receive(t) \/ Finish(t) \/ TotalTimeout(t)
                   \/ \E p \in Pipelines : \/ ThreadTakes(t, p)
                                           \/ ThreadEnds(t, p)
                                           \/ PipelineTimesOut(t, p)

AnalyzerHost == \/ StrayEnds \/ AnalyzerStops \/ AnalyzerDies
                \/ \E i \in Ids : Cleanup(i)

-----------------------------------------------------------------------------
\* A photo does not stay on disk: a run works on it, or its cleanup is due -
\* unless since it was last sent the process was killed or a removal failed,
\* after which nobody comes back for it.
PhotosAreCleared == \A i \in dirs : i \in abandoned \/ InUse(i)

\* A run has its photo on disk to the end, unless the analysis was sent again
\* while an earlier run was at work on it or its cleanup was due.
WorkspaceOutlivesRun == \A t \in Tasks :
  At(t, "pipelines") => Of(t) \in dirs \cup shared
=============================================================================
