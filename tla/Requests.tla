------------------------------ MODULE Requests ------------------------------
(***************************************************************************)
(* How the services of this repository get to work: a coroutine per event  *)
(* or request, as HandlerRuns allows it, that gives the others a turn at   *)
(* every await.  Each service module brings its own tables and the steps   *)
(* of its runs; modules that bring several services together explore one   *)
(* of them at a time, for they share no table and no message reaches one   *)
(* from another (see the README on the subjects).                          *)
(***************************************************************************)
EXTENDS Integers, FiniteSets

CONSTANTS Work,        \* what there is to do: events, requests, jobs
          Tasks,       \* coroutines
          MaxDeliver,  \* deliveries of an event, submissions of a request
          MaxWork,     \* a bound: how many different things are submitted
          None

ASSUME RequestsAssumption == /\ None \notin Work
                             /\ MaxDeliver \in Nat
                             /\ MaxWork \in Nat
                             /\ \A w \in Work : DOMAIN w = {"service", "kind", "by", "of", "as"}

\* Only so much is ever submitted, and to so many coroutines.
ASSUME FiniteAssumption == IsFiniteSet(Work) /\ IsFiniteSet(Tasks)

VARIABLES begun, open,  \* HandlerRuns
          pc,             \* where each task's run is
          mem             \* what it has read on its way

reqVars == <<begun, open, pc, mem>>

Runs == INSTANCE HandlerRuns WITH Msgs <- Work, Instances <- Tasks

RequestsTypeOK == /\ Runs!RunsTypeOK
                  /\ \A t \in Tasks : (open[t] = None) <=> (pc[t] = "idle")

RequestsInit == /\ Runs!RunsInit
                /\ pc = [t \in Tasks |-> "idle"]
                /\ mem = [t \in Tasks |-> None]

Of(t) == open[t].of

\* require_client_auth and require_internal_auth: whose token it is.
ClientAuth(w) == w.by = "client"
InternalAuth(w) == w.by = "service"

Begun == {w \in Work : begun[w] > 0}
OneService(W) == \A v, w \in W : v.service = w.service

Start(t) == \E w \in Work : /\ Runs!Begin(t, w)
                            /\ OneService(Begun \cup {w})
                            /\ Cardinality(Begun \cup {w}) <= MaxWork
                            /\ pc' = [pc EXCEPT ![t] = w.kind]
                            /\ UNCHANGED mem

\* The run goes on, with what it keeps in its variables.
Goes(t, where, what) == /\ pc' = [pc EXCEPT ![t] = where]
                        /\ mem' = [mem EXCEPT ![t] = what]
                        /\ UNCHANGED <<begun, open>>

\* It returns or raises, or its process dies under it.
Ends(t) == /\ Runs!End(t)
           /\ pc' = [pc EXCEPT ![t] = "idle"]
           /\ mem' = [mem EXCEPT ![t] = None]

\* A run of t is at the given place.
At(t, where) == pc[t] = where
=============================================================================
