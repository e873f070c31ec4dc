------------------------------ MODULE Listener ------------------------------
(***************************************************************************)
(* shared/shared/messaging/listener.py: the poll loop every service runs   *)
(* over one durable JetStream pull consumer, and the consumer itself as    *)
(* the listener configures and uses it.                                    *)
(*                                                                         *)
(* Several instances of a service share the consumer.  on_message is left  *)
(* open here (it returns or raises); the service modules say what it does. *)
(* A fetched batch is a set: fetch may return the available messages in    *)
(* any order, and the loop then takes them one after the other.            *)
(***************************************************************************)
EXTENDS Naturals, FiniteSets

CONSTANTS Msgs,        \* events published on the listener's subject
          Invalid,     \* those whose data is not a valid EventEnvelope
          Instances,   \* copies of the service sharing the durable consumer
          MaxDeliver,  \* max_deliver
          BatchSize,   \* batch_size
          None         \* "no message in hand"

ASSUME MaxDeliverAssumption == MaxDeliver \in Nat \ {0}
ASSUME BatchSizeAssumption == BatchSize \in Nat \ {0}
ASSUME InvalidAssumption == Invalid \subseteq Msgs

Deliveries == 1 .. MaxDeliver
Copies == Msgs \X Deliveries

ASSUME NoneAssumption == None \notin Copies /\ None \notin Msgs

VARIABLES
  consumer,   \* the durable consumer exists on the server
  srv,        \* what the consumer knows of each message
  deliv,      \* num_delivered of each message
  pc,         \* where each instance's poll task is
  batch,      \* fetched copies an instance has not taken up yet
  cur,        \* the copy an instance is handling
  \* What happened, for the properties only.
  started,    \* copies on_message was called for
  good,       \* messages some on_message call returned normally for
  lost,       \* copies that vanished with the poll task that held them
  nakRaised   \* messages whose nak() raised

serverVars == <<consumer, srv, deliv>>
taskVars == <<pc, batch, cur>>
history == <<started, good, lost, nakRaised>>
vars == <<consumer, srv, deliv, pc, batch, cur, started, good, lost, nakRaised>>

Msg(c) == c[1]
Num(c) == c[2]

Init == /\ consumer = FALSE
        /\ srv = [m \in Msgs |-> "absent"]
        /\ deliv = [m \in Msgs |-> 0]
        /\ pc = [i \in Instances |-> "off"]
        /\ batch = [i \in Instances |-> {}]
        /\ cur = [i \in Instances |-> None]
        /\ started = {}
        /\ good = {}
        /\ lost = {}
        /\ nakRaised = {}

-----------------------------------------------------------------------------
(* The consumer, as the listener's ConsumerConfig sets it up.              *)

\* A publisher stores an event in the stream, consumer or no consumer.
Publish(m) == /\ srv[m] = "absent"
              /\ srv' = [srv EXCEPT ![m] = "ready"]
              /\ UNCHANGED <<consumer, deliv, taskVars, history>>

\* Mutants of Again: max_deliver left out of the ConsumerConfig; a consumer
\* that never redelivers.
AgainUnlimited(m) == "ready"
AgainNever(m) == "pending"

\* Ready again if the server has deliveries left, given up on if not.
Again(m) == IF deliv[m] < MaxDeliver THEN "ready" ELSE "spent"

\* ack_wait passes without an answer.
AckWaitExpires(m) == /\ srv[m] = "pending"
                     /\ srv' = [srv EXCEPT ![m] = Again(m)]
                     /\ UNCHANGED <<consumer, deliv, taskVars, history>>

\* An ack() call: the answer arrives, or it is buffered and never does.
\* Any copy's ack counts, also that of a copy whose ack_wait has passed.
AckSent(m) == srv' \in {srv, [srv EXCEPT ![m] = "acked"]}

\* A nak() call, likewise; it only means something while the server waits.
NakSent(m) == srv' \in {srv, [srv EXCEPT ![m] = IF @ = "pending" THEN Again(m) ELSE @]}

-----------------------------------------------------------------------------
(* start and stop.                                                         *)

\* Creates the durable consumer if it is not there; it delivers everything
\* in the stream, also what was published before.
Start(i) == /\ pc[i] = "off"
            /\ consumer' = TRUE
            /\ pc' = [pc EXCEPT ![i] = "poll"]
            /\ UNCHANGED <<srv, deliv, batch, cur, history>>

InHand(i) == batch[i] \cup ({cur[i]} \ {None})

\* The poll task ends: its copies are neither acked nor naked.
TaskGone(i, where) == /\ pc' = [pc EXCEPT ![i] = where]
                      /\ batch' = [batch EXCEPT ![i] = {}]
                      /\ cur' = [cur EXCEPT ![i] = None]
                      /\ lost' = lost \cup InHand(i)

\* stop() cancels the task wherever it is; a crash of the process does too.
Stop(i) == /\ pc[i] # "off"
           /\ TaskGone(i, "off")
           /\ UNCHANGED <<serverVars, started, good, nakRaised>>

-----------------------------------------------------------------------------
(* _poll_loop.                                                             *)

Available == {m \in Msgs : srv[m] = "ready"}

Fetch(i) == /\ pc[i] = "poll"
            /\ consumer
            /\ \E S \in SUBSET Available :
                 /\ S # {}
                 /\ Cardinality(S) <= BatchSize
                 /\ srv' = [m \in Msgs |-> IF m \in S THEN "pending" ELSE srv[m]]
                 /\ deliv' = [m \in Msgs |-> IF m \in S THEN deliv[m] + 1 ELSE deliv[m]]
                 /\ batch' = [batch EXCEPT ![i] = {<<m, deliv[m] + 1>> : m \in S}]
            /\ pc' = [pc EXCEPT ![i] = "next"]
            /\ UNCHANGED <<consumer, cur, history>>

\* Anything but a timeout leaves the while loop and ends the task for good.
FetchRaises(i) == /\ pc[i] = "poll"
                  /\ pc' = [pc EXCEPT ![i] = "dead"]
                  /\ UNCHANGED <<serverVars, batch, cur, history>>

\* for msg in msgs: await self._handle_message(msg)
TakeNext(i) == /\ pc[i] = "next"
               /\ \E c \in batch[i] :
                    /\ cur' = [cur EXCEPT ![i] = c]
                    /\ batch' = [batch EXCEPT ![i] = @ \ {c}]
                    /\ IF Msg(c) \in Invalid
                         THEN /\ pc' = [pc EXCEPT ![i] = "outer"]
                              /\ UNCHANGED started
                         ELSE /\ pc' = [pc EXCEPT ![i] = "run"]
                              /\ started' = started \cup {c}
               /\ UNCHANGED <<serverVars, good, lost, nakRaised>>

\* Mutant of Handled: a return in the for loop, which drops the batch.
HandledLeavesLoop(i) == /\ cur' = [cur EXCEPT ![i] = None]
                        /\ pc' = [pc EXCEPT ![i] = "poll"]
                        /\ batch' = [batch EXCEPT ![i] = {}]

\* _handle_message returns: on to the next copy, or back to fetch.
Handled(i) == /\ cur' = [cur EXCEPT ![i] = None]
              /\ pc' = [pc EXCEPT ![i] = IF batch[i] = {} THEN "poll" ELSE "next"]
              /\ UNCHANGED batch

-----------------------------------------------------------------------------
(* _handle_message.                                                        *)

OnMessageReturns(i) == /\ pc[i] = "run"
                       /\ pc' = [pc EXCEPT ![i] = "ack"]
                       /\ good' = good \cup {Msg(cur[i])}
                       /\ UNCHANGED <<serverVars, batch, cur, started, lost, nakRaised>>

OnMessageRaises(i) == /\ pc[i] = "run"
                      /\ pc' = [pc EXCEPT ![i] = "except"]
                      /\ UNCHANGED <<serverVars, batch, cur, history>>

\* await msg.ack() after on_message.
Ack(i) == /\ pc[i] = "ack"
          /\ AckSent(Msg(cur[i]))
          /\ Handled(i)
          /\ UNCHANGED <<consumer, deliv, history>>

\* ack() raising is handled like on_message raising.
AckRaises(i) == /\ pc[i] = "ack"
                /\ pc' = [pc EXCEPT ![i] = "except"]
                /\ UNCHANGED <<serverVars, batch, cur, history>>

\* Mutant of LastDelivery: deliveries counted from 0.
LastDeliveryFromZero(c) == Num(c) + 1 >= MaxDeliver

\* delivery_count >= max_deliver
LastDelivery(c) == Num(c) >= MaxDeliver

\* The inner except: ack the last delivery, nak the others.
Settle(i) == /\ pc[i] = "except"
             /\ IF LastDelivery(cur[i]) THEN AckSent(Msg(cur[i]))
                                        ELSE NakSent(Msg(cur[i]))
             /\ Handled(i)
             /\ UNCHANGED <<consumer, deliv, history>>

SettleRaises(i) == /\ pc[i] = "except"
                   /\ pc' = [pc EXCEPT ![i] = "outer"]
                   /\ nakRaised' = IF LastDelivery(cur[i]) THEN nakRaised
                                   ELSE nakRaised \cup {Msg(cur[i])}
                   /\ UNCHANGED <<serverVars, batch, cur, started, good, lost>>

\* The outer excepts: whatever got here is acked.
Discard(i) == /\ pc[i] = "outer"
              /\ AckSent(Msg(cur[i]))
              /\ Handled(i)
              /\ UNCHANGED <<consumer, deliv, history>>

\* An ack() raising in the outer except ends the poll task.
DiscardRaises(i) == /\ pc[i] = "outer"
                    /\ TaskGone(i, "dead")
                    /\ UNCHANGED <<serverVars, started, good, nakRaised>>

-----------------------------------------------------------------------------
PollTask(i) == \/ Fetch(i) \/ TakeNext(i)
               \/ OnMessageReturns(i) \/ OnMessageRaises(i)
               \/ Ack(i) \/ AckRaises(i)
               \/ Settle(i) \/ SettleRaises(i)
               \/ Discard(i) \/ DiscardRaises(i)

Next == \/ \E m \in Msgs : Publish(m) \/ AckWaitExpires(m)
        \/ \E i \in Instances : \/ Start(i) \/ Stop(i)
                                \/ FetchRaises(i) \/ PollTask(i)

Spec == Init /\ [][Next]_vars

\* The event loop runs a poll task whose awaits return, on_message's among
\* them, and the server's ack_wait passes.  Nothing obliges anyone to start
\* a stopped process or to revive a dead task.
Fairness == /\ \A m \in Msgs : WF_vars(AckWaitExpires(m))
            /\ \A i \in Instances : WF_vars(PollTask(i))

FairSpec == Spec /\ Fairness

-----------------------------------------------------------------------------
TypeOK ==
  /\ consumer \in BOOLEAN
  /\ srv \in [Msgs -> {"absent", "ready", "pending", "acked", "spent"}]
  /\ deliv \in [Msgs -> 0 .. MaxDeliver]
  /\ pc \in [Instances -> {"off", "poll", "next", "run", "ack", "except", "outer", "dead"}]
  /\ batch \in [Instances -> SUBSET Copies]
  /\ cur \in [Instances -> Copies \cup {None}]
  /\ started \in SUBSET Copies
  /\ good \in SUBSET Msgs
  /\ lost \in SUBSET Copies
  /\ nakRaised \in SUBSET Msgs

\* A message leaves the consumer for good only if on_message returned for
\* it, its last delivery was handled, it is not an envelope, or a nak()
\* raised: the retries that are left are never thrown away otherwise.
NoSilentDrop == \A m \in Msgs :
  srv[m] = "acked" => \/ m \in good \cup Invalid \cup nakRaised
                      \/ <<m, MaxDeliver>> \in started

\* Every delivery the server counted is accounted for: on_message was called
\* for it, it is still in some batch, it was no envelope, or it went down
\* with the poll task that held it.  The loop skips nothing.
NoCopyForgotten == \A m \in Msgs \ Invalid : \A n \in 1 .. deliv[m] :
  \/ <<m, n>> \in started \cup lost
  \/ \E i \in Instances : <<m, n>> \in batch[i]

Done(m) == srv[m] \in {"acked", "spent"}

\* If one instance's poll task stays alive from some time on, every event in
\* the stream is acknowledged or runs out of deliveries, whatever the other
\* instances do and whenever it was published.
StaysAlive(i) == <>[](pc[i] \notin {"off", "dead"})
EventuallyDone == (\E i \in Instances : StaysAlive(i)) =>
                    \A m \in Msgs : (srv[m] = "ready") ~> Done(m)

\* What the services build on: a bounded number of runs for each event, one
\* at a time on each instance.
Begun(m) == Cardinality({n \in Deliveries : <<m, n>> \in started})
Runs == INSTANCE HandlerRuns
          WITH begun <- [m \in Msgs |-> Begun(m)],
               open <- [i \in Instances |-> IF pc[i] = "run" THEN Msg(cur[i]) ELSE None]
ImplementsHandlerRuns == Runs!RunsSpec
=============================================================================
