--------------------------- MODULE ListenerProofs ---------------------------
(***************************************************************************)
(* Proofs about Listener.tla, for any messages, instances, batch size and  *)
(* delivery limit.                                                         *)
(***************************************************************************)
EXTENDS Listener, FiniteSetTheorems, TLAPS

\* Where a poll task has a copy in hand.
Holding == {"run", "ack", "except", "outer"}

\* The server only offers messages it has deliveries left for.
ReadyHasDeliveries == \A m \in Msgs :
  srv[m] \in {"absent", "ready"} => deliv[m] < MaxDeliver

\* A task in a handling state holds a copy, and only then.
HoldsOne == \A i \in Instances : (cur[i] # None) <=> (pc[i] \in Holding)

\* A task that is not working through a batch has none.
IdleEmpty == \A i \in Instances : pc[i] \in {"off", "poll", "dead"} => batch[i] = {}

\* No copy exists that the server has not counted.
Counted == /\ \A c \in started : Num(c) <= deliv[Msg(c)]
           /\ \A i \in Instances : \A c \in batch[i] : Num(c) <= deliv[Msg(c)]

\* A copy waiting in a batch was not run, and waits in one batch only.
Fresh == \A i \in Instances : \A c \in batch[i] :
           /\ c \notin started
           /\ \A j \in Instances : c \in batch[j] => i = j

\* Why a copy got where it is in _handle_message.
Reached == \A i \in Instances :
  /\ pc[i] \in {"run", "ack", "except"} => cur[i] \in started
  /\ pc[i] = "ack" => Msg(cur[i]) \in good
  /\ pc[i] = "outer" => \/ Msg(cur[i]) \in Invalid \cup nakRaised
                        \/ cur[i] \in started /\ LastDelivery(cur[i])

\* The inductive invariant.
IInv == /\ TypeOK
        /\ ReadyHasDeliveries
        /\ HoldsOne
        /\ IdleEmpty
        /\ Counted
        /\ Fresh
        /\ Reached
        /\ NoSilentDrop
        /\ NoCopyForgotten

-----------------------------------------------------------------------------
LEMMA CopyParts ==
  ASSUME NEW c \in Copies
  PROVE  /\ Msg(c) \in Msgs
         /\ Num(c) \in Deliveries
         /\ c = <<Msg(c), Num(c)>>
         /\ c # None
  BY NoneAssumption DEF Copies, Msg, Num

LEMMA InitInv == Init => IInv
  <1> SUFFICES ASSUME Init PROVE IInv
    OBVIOUS
  <1> USE DEF Init
  <1>1. TypeOK
    <2>1. srv \in [Msgs -> {"absent", "ready", "pending", "acked", "spent"}]
      OBVIOUS
    <2>2. deliv \in [Msgs -> 0 .. MaxDeliver]
      BY MaxDeliverAssumption
    <2>3. batch \in [Instances -> SUBSET Copies]
      OBVIOUS
    <2>4. cur \in [Instances -> Copies \cup {None}]
      OBVIOUS
    <2>5. pc \in [Instances -> {"off", "poll", "next", "run", "ack", "except", "outer", "dead"}]
      OBVIOUS
    <2> QED
      BY <2>1, <2>2, <2>3, <2>4, <2>5 DEF TypeOK
  <1>2. ReadyHasDeliveries
    BY MaxDeliverAssumption DEF ReadyHasDeliveries
  <1>3. HoldsOne /\ IdleEmpty
    BY DEF HoldsOne, IdleEmpty, Holding
  <1>4. Counted /\ Fresh /\ Reached
    BY DEF Counted, Fresh, Reached
  <1>5. NoSilentDrop /\ NoCopyForgotten
    BY DEF NoSilentDrop, NoCopyForgotten
  <1> QED
    BY <1>1, <1>2, <1>3, <1>4, <1>5 DEF IInv

-----------------------------------------------------------------------------
(* The steps that several actions share.                                   *)

\* Everything of the invariant that does not look at srv.
TaskInv == /\ pc \in [Instances -> {"off", "poll", "next", "run", "ack", "except", "outer", "dead"}]
           /\ batch \in [Instances -> SUBSET Copies]
           /\ cur \in [Instances -> Copies \cup {None}]
           /\ HoldsOne /\ IdleEmpty /\ Counted /\ Fresh /\ Reached /\ NoCopyForgotten

LEMMA HandledInv ==
  ASSUME IInv, NEW i \in Instances, Handled(i),
         UNCHANGED <<deliv, started, good, lost, nakRaised>>
  PROVE  TaskInv'
  <1> USE DEF IInv, TypeOK, Handled
  <1>1. /\ pc' \in [Instances -> {"off", "poll", "next", "run", "ack", "except", "outer", "dead"}]
        /\ batch' \in [Instances -> SUBSET Copies]
        /\ cur' \in [Instances -> Copies \cup {None}]
    OBVIOUS
  <1>2. HoldsOne' /\ IdleEmpty'
    BY DEF HoldsOne, IdleEmpty, Holding
  <1>3. Counted'
    BY DEF Counted
  <1>4. Fresh'
    BY DEF Fresh
  <1>5. Reached'
    BY DEF Reached
  <1>6. NoCopyForgotten'
    BY DEF NoCopyForgotten
  <1> QED
    BY <1>1, <1>2, <1>3, <1>4, <1>5, <1>6 DEF TaskInv

LEMMA TaskGoneInv ==
  ASSUME IInv, NEW i \in Instances, NEW where \in {"off", "dead"}, TaskGone(i, where),
         UNCHANGED <<deliv, started, good, nakRaised>>
  PROVE  TaskInv' /\ lost' \in SUBSET Copies
  <1> USE DEF IInv, TypeOK, TaskGone
  <1>1. /\ pc' \in [Instances -> {"off", "poll", "next", "run", "ack", "except", "outer", "dead"}]
        /\ batch' \in [Instances -> SUBSET Copies]
        /\ cur' \in [Instances -> Copies \cup {None}]
        /\ lost' \in SUBSET Copies
    BY DEF InHand
  <1>2. HoldsOne' /\ IdleEmpty'
    BY DEF HoldsOne, IdleEmpty, Holding
  <1>3. Counted'
    BY DEF Counted
  <1>4. Fresh'
    BY DEF Fresh
  <1>5. Reached'
    BY DEF Reached
  <1>6. NoCopyForgotten'
    BY DEF NoCopyForgotten, InHand
  <1> QED
    BY <1>1, <1>2, <1>3, <1>4, <1>5, <1>6 DEF TaskInv

\* An ack changes one message's state on the server, to acked or not at all.
LEMMA AckSentInv ==
  ASSUME IInv, NEW m \in Msgs, AckSent(m), UNCHANGED <<deliv, started, good, nakRaised>>,
         m \in good \cup Invalid \cup nakRaised \/ <<m, MaxDeliver>> \in started
  PROVE  /\ srv' \in [Msgs -> {"absent", "ready", "pending", "acked", "spent"}]
         /\ ReadyHasDeliveries'
         /\ NoSilentDrop'
  <1> USE DEF IInv, TypeOK, AckSent
  <1>1. srv' \in [Msgs -> {"absent", "ready", "pending", "acked", "spent"}]
    OBVIOUS
  <1>2. ReadyHasDeliveries'
    BY DEF ReadyHasDeliveries
  <1>3. NoSilentDrop'
    BY DEF NoSilentDrop
  <1> QED
    BY <1>1, <1>2, <1>3

LEMMA NakSentInv ==
  ASSUME IInv, NEW m \in Msgs, NakSent(m), UNCHANGED <<deliv, started, good, nakRaised>>
  PROVE  /\ srv' \in [Msgs -> {"absent", "ready", "pending", "acked", "spent"}]
         /\ ReadyHasDeliveries'
         /\ NoSilentDrop'
  <1> USE DEF IInv, TypeOK, NakSent, Again
  <1>1. srv' \in [Msgs -> {"absent", "ready", "pending", "acked", "spent"}]
    OBVIOUS
  <1>2. ReadyHasDeliveries'
    BY MaxDeliverAssumption DEF ReadyHasDeliveries
  <1>3. NoSilentDrop'
    BY DEF NoSilentDrop
  <1> QED
    BY <1>1, <1>2, <1>3

-----------------------------------------------------------------------------
LEMMA StepInv == IInv /\ [Next]_vars => IInv'
  <1> SUFFICES ASSUME IInv, [Next]_vars PROVE IInv'
    OBVIOUS
  <1> USE DEF IInv
  <1>1. ASSUME NEW m \in Msgs, Publish(m) PROVE IInv'
    <2> USE <1>1 DEF Publish, taskVars, history
    <2>1. TypeOK'
      BY DEF TypeOK
    <2>2. ReadyHasDeliveries' /\ NoSilentDrop'
      BY DEF ReadyHasDeliveries, NoSilentDrop, TypeOK
    <2>3. HoldsOne' /\ IdleEmpty' /\ Counted' /\ Fresh' /\ Reached' /\ NoCopyForgotten'
      BY DEF HoldsOne, IdleEmpty, Counted, Fresh, Reached, NoCopyForgotten
    <2> QED
      BY <2>1, <2>2, <2>3
  <1>2. ASSUME NEW m \in Msgs, AckWaitExpires(m) PROVE IInv'
    <2> USE <1>2 DEF AckWaitExpires, Again, taskVars, history
    <2>1. TypeOK'
      BY DEF TypeOK
    <2>2. ReadyHasDeliveries' /\ NoSilentDrop'
      BY MaxDeliverAssumption DEF ReadyHasDeliveries, NoSilentDrop, TypeOK
    <2>3. HoldsOne' /\ IdleEmpty' /\ Counted' /\ Fresh' /\ Reached' /\ NoCopyForgotten'
      BY DEF HoldsOne, IdleEmpty, Counted, Fresh, Reached, NoCopyForgotten
    <2> QED
      BY <2>1, <2>2, <2>3
  <1>3. ASSUME NEW i \in Instances, Start(i) PROVE IInv'
    <2> USE <1>3 DEF Start, history
    <2>1. TypeOK'
      BY DEF TypeOK
    <2>2. HoldsOne' /\ IdleEmpty' /\ Reached'
      BY DEF HoldsOne, IdleEmpty, Reached, Holding, TypeOK
    <2>3. ReadyHasDeliveries' /\ NoSilentDrop' /\ Counted' /\ Fresh' /\ NoCopyForgotten'
      BY DEF ReadyHasDeliveries, NoSilentDrop, Counted, Fresh, NoCopyForgotten
    <2> QED
      BY <2>1, <2>2, <2>3
  <1>4. ASSUME NEW i \in Instances, Stop(i) PROVE IInv'
    <2> USE <1>4 DEF Stop, serverVars
    <2>1. TaskInv' /\ lost' \in SUBSET Copies
      BY TaskGoneInv
    <2>2. ReadyHasDeliveries' /\ NoSilentDrop'
      BY DEF ReadyHasDeliveries, NoSilentDrop
    <2> QED
      BY <2>1, <2>2 DEF TaskInv, TypeOK
  <1>5. ASSUME NEW i \in Instances, Fetch(i) PROVE IInv'
    <2>1. PICK S \in SUBSET Available :
            /\ S # {}
            /\ srv' = [m \in Msgs |-> IF m \in S THEN "pending" ELSE srv[m]]
            /\ deliv' = [m \in Msgs |-> IF m \in S THEN deliv[m] + 1 ELSE deliv[m]]
            /\ batch' = [batch EXCEPT ![i] = {<<m, deliv[m] + 1>> : m \in S}]
      BY <1>5 DEF Fetch
    <2> USE <1>5 DEF Fetch, history
    <2>2. S \subseteq Msgs /\ \A m \in S : srv[m] = "ready" /\ deliv[m] < MaxDeliver
      BY <2>1 DEF Available, ReadyHasDeliveries
    <2>3. \A m \in Msgs : deliv[m] \in 0 .. MaxDeliver /\ deliv'[m] \in 0 .. MaxDeliver
                            /\ deliv[m] <= deliv'[m]
      BY <2>1, <2>2, MaxDeliverAssumption DEF TypeOK
    <2>4. {<<m, deliv[m] + 1>> : m \in S} \in SUBSET Copies
      BY <2>2, <2>3, MaxDeliverAssumption DEF Copies, Deliveries
    <2>5. TypeOK'
      BY <2>1, <2>3, <2>4 DEF TypeOK
    <2>6. ReadyHasDeliveries' /\ NoSilentDrop'
      BY <2>1, <2>2 DEF ReadyHasDeliveries, NoSilentDrop, TypeOK
    <2>7. HoldsOne' /\ IdleEmpty' /\ Reached'
      BY <2>1 DEF HoldsOne, IdleEmpty, Reached, Holding, TypeOK
    <2>8. Counted'
      <3>1. \A c \in started : Num(c) <= deliv'[Msg(c)]
        BY <2>3, CopyParts DEF Counted, TypeOK, Deliveries
      <3>2. \A j \in Instances : \A c \in batch'[j] : Num(c) <= deliv'[Msg(c)]
        BY <2>1, <2>2, <2>3, CopyParts DEF Counted, TypeOK, Msg, Num, Deliveries
      <3> QED
        BY <3>1, <3>2 DEF Counted
    <2>9. Fresh'
      <3>1. \A m \in S : <<m, deliv[m] + 1>> \notin started
        BY <2>2, <2>3 DEF Counted, Msg, Num
      <3>2. \A m \in S, j \in Instances : <<m, deliv[m] + 1>> \notin batch[j]
        BY <2>2, <2>3 DEF Counted, Msg, Num
      <3> QED
        BY <2>1, <3>1, <3>2 DEF Fresh, TypeOK
    <2>10. NoCopyForgotten'
      <3> SUFFICES ASSUME NEW m \in Msgs \ Invalid, NEW n \in 1 .. deliv'[m]
                   PROVE  \/ <<m, n>> \in started \cup lost
                          \/ \E j \in Instances : <<m, n>> \in batch'[j]
        BY DEF NoCopyForgotten
      <3>1. CASE m \in S /\ n = deliv[m] + 1
        BY <2>1, <3>1 DEF TypeOK
      <3>2. CASE n \in 1 .. deliv[m]
        <4>1. CASE <<m, n>> \in started \cup lost
          BY <4>1
        <4>2. ASSUME NEW j \in Instances, <<m, n>> \in batch[j]
              PROVE  \E k \in Instances : <<m, n>> \in batch'[k]
          \* The fetching task polls, so its batch was used up.
          BY <2>1, <4>2 DEF TypeOK, IdleEmpty
        <4> QED
          BY <3>2, <4>1, <4>2 DEF NoCopyForgotten
      <3> QED
        BY <2>1, <2>3, <3>1, <3>2
    <2> QED
      BY <2>5, <2>6, <2>7, <2>8, <2>9, <2>10
  <1>6. ASSUME NEW i \in Instances, FetchRaises(i) PROVE IInv'
    <2> USE <1>6 DEF FetchRaises, serverVars, history
    <2>1. TypeOK'
      BY DEF TypeOK
    <2>2. HoldsOne' /\ IdleEmpty' /\ Reached'
      BY DEF HoldsOne, IdleEmpty, Reached, Holding, TypeOK
    <2>3. ReadyHasDeliveries' /\ NoSilentDrop' /\ Counted' /\ Fresh' /\ NoCopyForgotten'
      BY DEF ReadyHasDeliveries, NoSilentDrop, Counted, Fresh, NoCopyForgotten
    <2> QED
      BY <2>1, <2>2, <2>3
  <1>7. ASSUME NEW i \in Instances, TakeNext(i) PROVE IInv'
    <2> USE <1>7 DEF TakeNext, serverVars
    <2>1. PICK c \in batch[i] :
            /\ cur' = [cur EXCEPT ![i] = c]
            /\ batch' = [batch EXCEPT ![i] = @ \ {c}]
            /\ IF Msg(c) \in Invalid
                 THEN /\ pc' = [pc EXCEPT ![i] = "outer"]
                      /\ UNCHANGED started
                 ELSE /\ pc' = [pc EXCEPT ![i] = "run"]
                      /\ started' = started \cup {c}
      OBVIOUS
    <2>2. c \in Copies /\ c # None /\ Msg(c) \in Msgs /\ c = <<Msg(c), Num(c)>>
      BY CopyParts DEF TypeOK
    <2>3. TypeOK'
      BY <2>1, <2>2 DEF TypeOK
    <2>4. HoldsOne' /\ IdleEmpty'
      BY <2>1, <2>2 DEF HoldsOne, IdleEmpty, Holding, TypeOK
    <2>5. Counted'
      BY <2>1 DEF Counted, TypeOK
    <2>6. Fresh'
      BY <2>1 DEF Fresh, TypeOK
    <2>7. Reached'
      BY <2>1 DEF Reached, TypeOK
    <2>8. ReadyHasDeliveries' /\ NoSilentDrop'
      BY <2>1 DEF ReadyHasDeliveries, NoSilentDrop
    <2>9. NoCopyForgotten'
      <3> SUFFICES ASSUME NEW m \in Msgs \ Invalid, NEW n \in 1 .. deliv[m]
                   PROVE  \/ <<m, n>> \in started' \cup lost
                          \/ \E j \in Instances : <<m, n>> \in batch'[j]
        BY DEF NoCopyForgotten
      <3>1. CASE <<m, n>> \in started \cup lost
        BY <2>1, <3>1
      <3>2. CASE <<m, n>> = c
        BY <2>1, <3>2 DEF Msg
      <3>3. ASSUME NEW j \in Instances, <<m, n>> \in batch[j], <<m, n>> # c
            PROVE  <<m, n>> \in batch'[j]
        BY <2>1, <3>3 DEF TypeOK
      <3> QED
        BY <3>1, <3>2, <3>3 DEF NoCopyForgotten
    <2> QED
      BY <2>3, <2>4, <2>5, <2>6, <2>7, <2>8, <2>9
  <1>8. ASSUME NEW i \in Instances, OnMessageReturns(i) PROVE IInv'
    <2> USE <1>8 DEF OnMessageReturns, serverVars
    <2>1. cur[i] \in Copies /\ Msg(cur[i]) \in Msgs
      BY CopyParts DEF TypeOK, HoldsOne, Holding
    <2>2. TypeOK'
      BY <2>1 DEF TypeOK
    <2>3. HoldsOne' /\ IdleEmpty' /\ Reached'
      BY DEF HoldsOne, IdleEmpty, Reached, Holding, TypeOK
    <2>4. ReadyHasDeliveries' /\ NoSilentDrop' /\ Counted' /\ Fresh' /\ NoCopyForgotten'
      BY DEF ReadyHasDeliveries, NoSilentDrop, Counted, Fresh, NoCopyForgotten
    <2> QED
      BY <2>2, <2>3, <2>4
  <1>9. ASSUME NEW i \in Instances, OnMessageRaises(i) \/ AckRaises(i) PROVE IInv'
    <2> USE <1>9 DEF OnMessageRaises, AckRaises, serverVars, history
    <2>1. TypeOK'
      BY DEF TypeOK
    <2>2. HoldsOne' /\ IdleEmpty' /\ Reached'
      BY DEF HoldsOne, IdleEmpty, Reached, Holding, TypeOK
    <2>3. ReadyHasDeliveries' /\ NoSilentDrop' /\ Counted' /\ Fresh' /\ NoCopyForgotten'
      BY DEF ReadyHasDeliveries, NoSilentDrop, Counted, Fresh, NoCopyForgotten
    <2> QED
      BY <2>1, <2>2, <2>3
  <1>10. ASSUME NEW i \in Instances, Ack(i) PROVE IInv'
    <2> USE <1>10 DEF Ack, history
    <2>1. cur[i] \in Copies /\ Msg(cur[i]) \in Msgs /\ Msg(cur[i]) \in good
      BY CopyParts DEF TypeOK, HoldsOne, Holding, Reached
    <2>2. TaskInv'
      BY HandledInv
    <2>3. /\ srv' \in [Msgs -> {"absent", "ready", "pending", "acked", "spent"}]
          /\ ReadyHasDeliveries' /\ NoSilentDrop'
      BY <2>1, AckSentInv
    <2> QED
      BY <2>2, <2>3 DEF TaskInv, TypeOK
  <1>11. ASSUME NEW i \in Instances, Settle(i) PROVE IInv'
    <2> USE <1>11 DEF Settle, history
    <2>1. /\ cur[i] \in Copies /\ Msg(cur[i]) \in Msgs /\ cur[i] \in started
          /\ cur[i] = <<Msg(cur[i]), Num(cur[i])>> /\ Num(cur[i]) \in Deliveries
      BY CopyParts DEF TypeOK, HoldsOne, Holding, Reached
    <2>2. TaskInv'
      BY HandledInv
    <2>3. CASE LastDelivery(cur[i])
      <3>1. <<Msg(cur[i]), MaxDeliver>> \in started
        BY <2>1, <2>3, MaxDeliverAssumption DEF LastDelivery, Deliveries
      <3>2. /\ srv' \in [Msgs -> {"absent", "ready", "pending", "acked", "spent"}]
            /\ ReadyHasDeliveries' /\ NoSilentDrop'
        BY <2>1, <2>3, <3>1, AckSentInv
      <3> QED
        BY <2>2, <3>2 DEF TaskInv, TypeOK
    <2>4. CASE ~LastDelivery(cur[i])
      <3>1. /\ srv' \in [Msgs -> {"absent", "ready", "pending", "acked", "spent"}]
            /\ ReadyHasDeliveries' /\ NoSilentDrop'
        BY <2>1, <2>4, NakSentInv
      <3> QED
        BY <2>2, <3>1 DEF TaskInv, TypeOK
    <2> QED
      BY <2>3, <2>4
  <1>12. ASSUME NEW i \in Instances, SettleRaises(i) PROVE IInv'
    <2> USE <1>12 DEF SettleRaises, serverVars
    <2>1. cur[i] \in Copies /\ Msg(cur[i]) \in Msgs /\ cur[i] \in started
      BY CopyParts DEF TypeOK, HoldsOne, Holding, Reached
    <2>2. TypeOK'
      BY <2>1 DEF TypeOK
    <2>3. HoldsOne' /\ IdleEmpty' /\ Reached'
      BY <2>1 DEF HoldsOne, IdleEmpty, Reached, Holding, TypeOK
    <2>4. ReadyHasDeliveries' /\ NoSilentDrop' /\ Counted' /\ Fresh' /\ NoCopyForgotten'
      BY DEF ReadyHasDeliveries, NoSilentDrop, Counted, Fresh, NoCopyForgotten
    <2> QED
      BY <2>2, <2>3, <2>4
  <1>13. ASSUME NEW i \in Instances, Discard(i) PROVE IInv'
    <2> USE <1>13 DEF Discard, history
    <2>1. /\ cur[i] \in Copies /\ Msg(cur[i]) \in Msgs
          /\ cur[i] = <<Msg(cur[i]), Num(cur[i])>> /\ Num(cur[i]) \in Deliveries
      BY CopyParts DEF TypeOK, HoldsOne, Holding
    <2>2. \/ Msg(cur[i]) \in good \cup Invalid \cup nakRaised
          \/ <<Msg(cur[i]), MaxDeliver>> \in started
      BY <2>1, MaxDeliverAssumption DEF Reached, LastDelivery, Deliveries
    <2>3. TaskInv'
      BY HandledInv
    <2>4. /\ srv' \in [Msgs -> {"absent", "ready", "pending", "acked", "spent"}]
          /\ ReadyHasDeliveries' /\ NoSilentDrop'
      BY <2>1, <2>2, AckSentInv
    <2> QED
      BY <2>3, <2>4 DEF TaskInv, TypeOK
  <1>14. ASSUME NEW i \in Instances, DiscardRaises(i) PROVE IInv'
    <2> USE <1>14 DEF DiscardRaises, serverVars
    <2>1. TaskInv' /\ lost' \in SUBSET Copies
      BY TaskGoneInv
    <2>2. ReadyHasDeliveries' /\ NoSilentDrop'
      BY DEF ReadyHasDeliveries, NoSilentDrop
    <2> QED
      BY <2>1, <2>2 DEF TaskInv, TypeOK
  <1>15. CASE UNCHANGED vars
    <2> USE <1>15 DEF vars
    <2>1. TypeOK' /\ ReadyHasDeliveries' /\ NoSilentDrop'
      BY DEF TypeOK, ReadyHasDeliveries, NoSilentDrop
    <2>2. HoldsOne' /\ IdleEmpty' /\ Counted' /\ Fresh' /\ Reached' /\ NoCopyForgotten'
      BY DEF HoldsOne, IdleEmpty, Counted, Fresh, Reached, NoCopyForgotten
    <2> QED
      BY <2>1, <2>2
  <1> QED
    BY <1>1, <1>2, <1>3, <1>4, <1>5, <1>6, <1>7, <1>8, <1>9, <1>10, <1>11, <1>12,
       <1>13, <1>14, <1>15 DEF Next, PollTask

-----------------------------------------------------------------------------
LEMMA InvariantHolds == Spec => []IInv
  BY InitInv, StepInv, PTL DEF Spec

\* Type correctness of the listener and its consumer.
THEOREM TypeCorrect == Spec => []TypeOK
  BY InvariantHolds, PTL DEF IInv

\* _handle_message never acknowledges away an event that still had retries,
\* unless on_message returned, the envelope was invalid or nak() raised.
THEOREM RetriesNotThrownAway == Spec => []NoSilentDrop
  BY InvariantHolds, PTL DEF IInv

\* _poll_loop calls on_message for every delivery it fetched, or still will,
\* or the poll task ended with the delivery in hand.
THEOREM EveryCopyHandled == Spec => []NoCopyForgotten
  BY InvariantHolds, PTL DEF IInv

-----------------------------------------------------------------------------
(* The listener implements HandlerRuns.                                    *)

Open == [i \in Instances |-> IF pc[i] = "run" THEN Msg(cur[i]) ELSE None]
BegunOf == [m \in Msgs |-> Begun(m)]

LEMMA InitRuns == Init => Runs!RunsInit
  <1> SUFFICES ASSUME Init PROVE Runs!RunsInit
    OBVIOUS
  <1>1. ASSUME NEW m \in Msgs PROVE Begun(m) = 0
    <2>1. {n \in Deliveries : <<m, n>> \in started} = {}
      BY DEF Init
    <2> QED
      BY <2>1, FS_EmptySet DEF Begun
  <1>2. BegunOf = [m \in Msgs |-> 0]
    BY <1>1 DEF BegunOf
  <1>3. Open = [i \in Instances |-> None]
    BY DEF Init, Open
  <1> QED
    BY <1>2, <1>3 DEF Runs!RunsInit, BegunOf, Open

\* A copy on_message was not called for leaves room for another call.
LEMMA BegunBelow ==
  ASSUME NEW m \in Msgs, NEW n \in Deliveries, <<m, n>> \notin started
  PROVE  Begun(m) \in Nat /\ Begun(m) < MaxDeliver
  <1> DEFINE S == {k \in Deliveries : <<m, k>> \in started}
  <1>1. IsFiniteSet(Deliveries) /\ Cardinality(Deliveries) = MaxDeliver
    BY FS_Interval, MaxDeliverAssumption DEF Deliveries
  <1>2. S \subseteq Deliveries /\ S # Deliveries
    OBVIOUS
  <1>3. /\ IsFiniteSet(S)
        /\ Cardinality(S) <= Cardinality(Deliveries)
        /\ Cardinality(S) # Cardinality(Deliveries)
    BY <1>1, <1>2, FS_Subset
  <1>4. Cardinality(S) \in Nat
    BY <1>3, FS_CardinalityType
  <1> QED
    BY <1>1, <1>3, <1>4, MaxDeliverAssumption DEF Begun

\* Calling on_message for one more copy counts one for its event only.
LEMMA BegunOneMore ==
  ASSUME NEW m \in Msgs, NEW n \in Deliveries, <<m, n>> \notin started,
         started' = started \cup {<<m, n>>}
  PROVE  BegunOf' = [BegunOf EXCEPT ![m] = @ + 1]
  <1> DEFINE S(k) == {d \in Deliveries : <<k, d>> \in started}
  <1>1. Begun(m)' = Begun(m) + 1
    <2>1. S(m) \subseteq Deliveries /\ n \notin S(m)
      OBVIOUS
    <2>2. IsFiniteSet(S(m))
      <3>1. IsFiniteSet(Deliveries)
        BY FS_Interval, MaxDeliverAssumption DEF Deliveries
      <3> HIDE DEF S
      <3> QED
        BY <2>1, <3>1, FS_Subset
    <2>3. S(m)' = S(m) \cup {n}
      BY DEF Deliveries
    <2>4. Cardinality(S(m) \cup {n}) = Cardinality(S(m)) + 1
      BY <2>1, <2>2, FS_AddElement
    <2> QED
      BY <2>3, <2>4 DEF Begun
  <1>2. ASSUME NEW k \in Msgs, k # m PROVE Begun(k)' = Begun(k)
    <2>1. S(k)' = S(k)
      BY <1>2 DEF Deliveries
    <2> QED
      BY <2>1 DEF Begun
  <1> QED
    BY <1>1, <1>2 DEF BegunOf

Same == BegunOf' = BegunOf /\ Open' = Open

\* Actions that neither call on_message nor end a call.
Quiet == /\ UNCHANGED started
         /\ \A i \in Instances : \/ pc'[i] = pc[i] /\ cur'[i] = cur[i]
                                 \/ pc[i] # "run" /\ pc'[i] # "run"

LEMMA QuietStep == Quiet => Same
  <1> SUFFICES ASSUME Quiet PROVE Same
    OBVIOUS
  <1>1. BegunOf' = BegunOf
    BY DEF Quiet, BegunOf, Begun, Deliveries
  <1>2. Open' = Open
    BY DEF Quiet, Open, Msg
  <1> QED
    BY <1>1, <1>2 DEF Same

\* Actions that end instance i's call of on_message.
LEMMA EndStep ==
  ASSUME IInv, NEW i \in Instances, pc[i] = "run", pc'[i] # "run",
         UNCHANGED started,
         \A j \in Instances \ {i} : pc'[j] = pc[j] /\ cur'[j] = cur[j]
  PROVE  Runs!End(i)
  <1>1. Open[i] # None
    BY CopyParts, NoneAssumption DEF IInv, TypeOK, HoldsOne, Holding, Open
  <1>2. Open' = [Open EXCEPT ![i] = None]
    BY DEF Open, Msg
  <1>3. BegunOf' = BegunOf
    BY DEF BegunOf, Begun, Deliveries
  <1> QED
    BY <1>1, <1>2, <1>3 DEF Runs!End, Open, BegunOf

LEMMA StepRuns == IInv /\ [Next]_vars => [Runs!RunsNext]_(Runs!runVars)
  <1> SUFFICES ASSUME IInv, [Next]_vars PROVE [Runs!RunsNext]_(Runs!runVars)
    OBVIOUS
  <1> USE DEF IInv, TypeOK
  <1>1. ASSUME NEW m \in Msgs, Publish(m) \/ AckWaitExpires(m)
        PROVE  Same
    BY <1>1, QuietStep DEF Quiet, Publish, AckWaitExpires, taskVars, history
  <1>2. ASSUME NEW i \in Instances, Start(i) \/ Fetch(i) \/ FetchRaises(i)
        PROVE  Same
    BY <1>2, QuietStep DEF Quiet, Start, Fetch, FetchRaises, history, serverVars
  <1>3. ASSUME NEW i \in Instances, Ack(i) \/ AckRaises(i) \/ Settle(i) \/ SettleRaises(i)
        PROVE  Same
    BY <1>3, QuietStep DEF Quiet, Ack, AckRaises, Settle, SettleRaises, Handled, history, serverVars
  <1>4. ASSUME NEW i \in Instances, Discard(i) \/ DiscardRaises(i)
        PROVE  Same
    BY <1>4, QuietStep DEF Quiet, Discard, DiscardRaises, Handled, TaskGone, history, serverVars
  <1>5. ASSUME NEW i \in Instances, OnMessageReturns(i) \/ OnMessageRaises(i)
        PROVE  Runs!End(i)
    BY <1>5, EndStep DEF OnMessageReturns, OnMessageRaises, history, serverVars
  <1>6. ASSUME NEW i \in Instances, Stop(i)
        PROVE  Runs!End(i) \/ Same
    <2>1. CASE pc[i] = "run"
      BY <1>6, <2>1, EndStep DEF Stop, TaskGone, serverVars
    <2>2. CASE pc[i] # "run"
      BY <1>6, <2>2, QuietStep DEF Quiet, Stop, TaskGone, serverVars
    <2> QED
      BY <2>1, <2>2
  <1>7. ASSUME NEW i \in Instances, TakeNext(i)
        PROVE  Runs!RunsNext \/ Same
    <2>1. PICK c \in batch[i] :
            /\ cur' = [cur EXCEPT ![i] = c]
            /\ batch' = [batch EXCEPT ![i] = @ \ {c}]
            /\ IF Msg(c) \in Invalid
                 THEN /\ pc' = [pc EXCEPT ![i] = "outer"]
                      /\ UNCHANGED started
                 ELSE /\ pc' = [pc EXCEPT ![i] = "run"]
                      /\ started' = started \cup {c}
      BY <1>7 DEF TakeNext
    <2>2. CASE Msg(c) \in Invalid
      BY <1>7, <2>1, <2>2, QuietStep DEF Quiet, TakeNext
    <2>3. CASE Msg(c) \notin Invalid
      <3>1. c \in Copies \ started
        BY DEF Fresh
      <3>2. pc[i] = "next" /\ Open[i] = None
        BY <1>7 DEF TakeNext, Open
      <3>3. /\ Msg(c) \in Msgs /\ Num(c) \in Deliveries /\ c = <<Msg(c), Num(c)>>
        BY <3>1, CopyParts
      <3>4. Open' = [Open EXCEPT ![i] = Msg(c)]
        BY <2>1, <2>3 DEF Open, Msg
      <3>5. Begun(Msg(c)) < MaxDeliver
        BY <3>1, <3>3, BegunBelow
      <3>6. BegunOf' = [BegunOf EXCEPT ![Msg(c)] = @ + 1]
        BY <2>1, <2>3, <3>1, <3>3, BegunOneMore
      <3>7. Runs!Begin(i, Msg(c))
        BY <3>2, <3>3, <3>4, <3>5, <3>6 DEF Runs!Begin, Open, BegunOf
      <3> QED
        BY <3>3, <3>7 DEF Runs!RunsNext
    <2> QED
      BY <2>2, <2>3
  <1>8. ASSUME UNCHANGED vars PROVE Same
    BY <1>8, QuietStep DEF Quiet, vars
  <1>9. Runs!RunsNext \/ Same
    BY <1>1, <1>2, <1>3, <1>4, <1>5, <1>6, <1>7, <1>8 DEF Next, PollTask, Runs!RunsNext
  <1> QED
    BY <1>9 DEF Same, Open, BegunOf, Runs!runVars

\* Whatever on_message does, it is called at most MaxDeliver times for an
\* event, and by one instance for one event at a time.
THEOREM ListenerImplementsHandlerRuns == Spec => ImplementsHandlerRuns
  <1>1. Init => Runs!RunsInit
    BY InitRuns
  <1>2. IInv /\ [Next]_vars => [Runs!RunsNext]_(Runs!runVars)
    BY StepRuns
  <1> QED
    BY <1>1, <1>2, InvariantHolds, PTL DEF Spec, ImplementsHandlerRuns, Runs!RunsSpec
=============================================================================
