------------------------------- MODULE Webhook -------------------------------
(***************************************************************************)
(* services/webhook-service: a webhook is stored under its id and, by the  *)
(* run that stored it, published.  The BFF repeats what it got no 200 for. *)
(***************************************************************************)
EXTENDS Requests

VARIABLES entries,  \* webhook_entries, by webhook_id (unique)
          news,       \* history: how many runs were told that a webhook is new
          answered    \* history: how many runs answered 200

webhookVars == <<entries, news, answered>>

\* A webhook is identified by "of"; "as" is what it is about, a topic the
\* service maps to an event or "unknown".
Webhooks == {w \in Work : w.service = "webhook"}
WebhookIds == {w.of : w \in Webhooks}
Mapped(topic) == topic # "unknown"

WebhookTypeOK == /\ entries \subseteq WebhookIds
                 /\ news \in [WebhookIds -> Nat]
                 /\ answered \in [WebhookIds -> Nat]

WebhookInit == /\ entries = {}
               /\ news = [i \in WebhookIds |-> 0]
               /\ answered = [i \in WebhookIds |-> 0]

Answers(t) == /\ Ends(t)
              /\ answered' = [answered EXCEPT ![Of(t)] = @ + 1]

\* Content type, size, JSON, the shop's context: 4xx ends the request.
Refused(w) == ~ClientAuth(w)

FindEntry(t) ==
  /\ At(t, "receive")
  /\ \/ /\ Refused(open[t])
        /\ Ends(t)
        /\ UNCHANGED answered
     \/ /\ ~Refused(open[t])
        /\ Of(t) \in entries
        /\ Answers(t)
     \/ /\ ~Refused(open[t])
        /\ Of(t) \notin entries
        /\ Goes(t, "store", None)
        /\ UNCHANGED answered
  /\ UNCHANGED <<entries, news>>

\* Mutant of StoreEntry: no unique key, the second INSERT succeeds.
StoreEntryAnyway(t) ==
  /\ At(t, "store")
  /\ entries' = entries \cup {Of(t)}
  /\ news' = [news EXCEPT ![Of(t)] = @ + 1]
  /\ Goes(t, "announce", None)
  /\ UNCHANGED answered

\* UniqueViolationError: another run stored it since, this one is a
\* duplicate after all.
StoreEntry(t) ==
  /\ At(t, "store")
  /\ IF Of(t) \in entries
       THEN Answers(t) /\ UNCHANGED <<entries, news>>
       ELSE /\ entries' = entries \cup {Of(t)}
            /\ news' = [news EXCEPT ![Of(t)] = @ + 1]
            /\ Goes(t, "announce", None)
            /\ UNCHANGED answered

\* Every method of WebhookEventPublisher passes its fields as data=, which
\* publish_event does not take: TypeError, a 500, and nothing is published.
\* A topic without an event is answered.
AnnounceWebhook(t) ==
  /\ At(t, "announce")
  /\ IF Mapped(open[t].as)
       THEN Ends(t) /\ UNCHANGED answered
       ELSE Answers(t)
  /\ UNCHANGED <<entries, news>>

WebhookStep(t) == FindEntry(t) \/ StoreEntry(t) \/ AnnounceWebhook(t)

-----------------------------------------------------------------------------
\* However often and concurrently a webhook is delivered, one run at most is
\* told to publish it, and nobody is answered 200 before that run has it
\* stored: the platform stops retrying only what is in the table.
OneRunOwnsAWebhook == \A i \in WebhookIds :
  /\ news[i] <= 1
  /\ answered[i] > 0 => i \in entries /\ news[i] = 1
=============================================================================
