----------------------------- MODULE HandlerRuns -----------------------------
(***************************************************************************)
(* What a service's on_message coroutine may rely on, and all it may rely  *)
(* on: an event is handed to it at most MaxDeliver times, an instance runs *)
(* one handler at a time, and nothing else.  In particular two instances   *)
(* may run handlers of the same event at the same time, and a run may be   *)
(* cut short anywhere.  Listener.tla is shown to implement this module;    *)
(* the service modules are composed with it.                               *)
(***************************************************************************)
EXTENDS Naturals

CONSTANTS Msgs,        \* events of one subject
          Instances,   \* running copies of the listener
          MaxDeliver,  \* Listener.max_deliver
          None         \* "no event in hand", not one of Msgs

VARIABLES begun,  \* how often on_message was called for each event
          open    \* the event each instance is running on_message for

runVars == <<begun, open>>

RunsTypeOK == /\ begun \in [Msgs -> 0 .. MaxDeliver]
              /\ open \in [Instances -> Msgs \cup {None}]

RunsInit == /\ begun = [m \in Msgs |-> 0]
            /\ open = [i \in Instances |-> None]

\* on_message is called for a delivery of m.
Begin(i, m) == /\ open[i] = None
               /\ begun[m] < MaxDeliver
               /\ begun' = [begun EXCEPT ![m] = @ + 1]
               /\ open' = [open EXCEPT ![i] = m]

\* on_message returns or raises, or the instance dies under it.
End(i) == /\ open[i] # None
          /\ open' = [open EXCEPT ![i] = None]
          /\ UNCHANGED begun

RunsNext == \E i \in Instances : \/ \E m \in Msgs : Begin(i, m)
                                 \/ End(i)

RunsSpec == RunsInit /\ [][RunsNext]_runVars
=============================================================================
