----------------------------- MODULE ShopsProofs -----------------------------
(***************************************************************************)
(* Proofs about Webhook, Merchant and Tokens as MCShops.tla composes them, *)
(* for any webhooks, shops, requests and coroutines.                       *)
(***************************************************************************)
EXTENDS MCShops, RequestsProofs

WebhookPlaces == {"receive", "store", "announce"}
MerchantPlaces == {"sync", "create", "update", "announce created", "announce synced",
                   "uninstall", "retire", "announce uninstalled", "announce changed"}
TokenPlaces == {"put", "log write", "get", "log failure", "track", "log read", "hand out",
                "delete", "log delete"}

\* A run is in the code of the service its work is for.
Served(t) == /\ pc[t] \in WebhookPlaces => open[t] \in Webhooks
             /\ pc[t] \in MerchantPlaces => open[t] \in Syncs

\* An id is stored by the one run that is told so, and before any answer.
WebhookInv == /\ WebhookTypeOK
              /\ \A i \in WebhookIds : /\ news[i] = IF i \in entries THEN 1 ELSE 0
                                       /\ answered[i] > 0 => i \in entries
              /\ \A t \in Tasks : pc[t] = "announce" => Of(t) \in entries

\* What a run of the merchant service has loaded or is about to announce.
Statuses == {"PENDING", "UNINSTALLED"}
Told(event, dom) == \E c \in sent : c.event = event /\ c.of = dom
Carries(t) ==
  /\ pc[t] \in {"update", "retire"} => Known(Of(t))
  /\ pc[t] \in {"update", "retire", "announce uninstalled", "announce changed"} => mem[t] \in Statuses
  /\ pc[t] \in {"announce created", "announce synced"} => mem[t] \in BOOLEAN
  /\ pc[t] = "announce synced" /\ mem[t] = TRUE => Told("created", Of(t))
  /\ pc[t] = "announce changed" => Told("uninstalled", Of(t))

\* An uninstall that shares its row with nobody knows what is in it.
Alone(t) == pc[t] = "retire" /\ Of(t) \notin overlapped =>
  /\ mem[t] = merchants[Of(t)].status
  /\ \A u \in Loaded(Of(t)) : u = t

MerchantInv == /\ MerchantTypeOK
               /\ \A t \in Tasks : Carries(t) /\ Alone(t)
               /\ EventsInOrder
               /\ TimesAgreeUnlessOverlapped

IInv == Frame /\ (\A t \in Tasks : Served(t)) /\ WebhookInv /\ MerchantInv

-----------------------------------------------------------------------------
LEMMA KindPlaces ==
  ASSUME NEW w \in Work
  PROVE  /\ w.kind \in WebhookPlaces => w \in Webhooks
         /\ w.kind \in MerchantPlaces => w \in Syncs
         /\ w.kind \in {"receive", "sync", "uninstall", "put", "get", "delete"}
  BY ShopsAssumption DEF WebhookPlaces, MerchantPlaces, Webhooks, Syncs

LEMMA KindsNotIdle == NoIdleKind
  BY KindPlaces DEF NoIdleKind

LEMMA WebhookOf ==
  ASSUME NEW t \in Tasks, open[t] \in Webhooks
  PROVE  Of(t) \in WebhookIds
  BY DEF Of, WebhookIds

LEMMA MerchantOf ==
  ASSUME NEW t \in Tasks, open[t] \in Syncs
  PROVE  Of(t) \in Domains /\ open[t].as \in ShopIds
  BY DEF Of, Domains, ShopIds

\* A step of t that another service takes, or that brings t to its end.
Elsewhere(t, places) == Others(t) /\ pc'[t] \notin places

LEMMA WebhooksStay ==
  ASSUME WebhookInv, NEW t \in Tasks, Elsewhere(t, {"announce"}), UNCHANGED webhookVars
  PROVE  WebhookInv'
  <1>1. WebhookTypeOK'
    BY DEF WebhookInv, WebhookTypeOK, webhookVars
  <1>2. \A u \in Tasks : pc'[u] = "announce" => Of(u)' = Of(u) /\ pc[u] = "announce"
    BY DEF Elsewhere, Others, Of
  <1> QED
    BY <1>1, <1>2 DEF WebhookInv, webhookVars

LEMMA MerchantsStay ==
  ASSUME MerchantInv, NEW t \in Tasks,
         Elsewhere(t, MerchantPlaces \ {"sync", "create", "uninstall"}), UNCHANGED merchantVars
  PROVE  MerchantInv'
  <1> USE DEF Elsewhere, Others, Of, MerchantPlaces, merchantVars
  <1>1. MerchantTypeOK' /\ EventsInOrder' /\ TimesAgreeUnlessOverlapped'
    BY DEF MerchantInv, MerchantTypeOK, EventsInOrder, TimesAgreeUnlessOverlapped, Known
  <1>2. \A u \in Tasks : Carries(u)'
    <2> SUFFICES ASSUME NEW u \in Tasks PROVE Carries(u)'
      OBVIOUS
    <2>1. Carries(u)
      BY DEF MerchantInv
    <2>2. CASE u = t
      BY <2>2 DEF Carries
    <2>3. CASE u # t
      BY <2>1, <2>3 DEF Carries, Known, Told
    <2> QED
      BY <2>2, <2>3
  <1>3. \A u \in Tasks : Alone(u)'
    <2> SUFFICES ASSUME NEW u \in Tasks PROVE Alone(u)'
      OBVIOUS
    <2>1. \A dom : Loaded(dom)' \subseteq Loaded(dom)
      BY DEF Loaded
    <2>2. Alone(u)
      BY DEF MerchantInv
    <2>3. CASE u = t
      BY <2>3 DEF Alone
    <2>4. CASE u # t
      BY <2>1, <2>2, <2>4 DEF Alone
    <2> QED
      BY <2>3, <2>4
  <1> QED
    BY <1>1, <1>2, <1>3 DEF MerchantInv

LEMMA ServedKept ==
  ASSUME NEW t \in Tasks, \A u \in Tasks : Served(u), Others(t), Served(t)'
  PROVE  \A u \in Tasks : Served(u)'
  BY DEF Served, Others

\* The end of a run that leaves no trace in these two services.
LEMMA EndStep ==
  ASSUME IInv, NEW t \in Tasks, Ends(t), UNCHANGED <<webhookVars, merchantVars>>
  PROVE  IInv'
  <1>1. Frame' /\ Others(t) /\ pc'[t] = "idle"
    BY EndsFrame DEF IInv
  <1>2. Served(t)'
    BY <1>1 DEF Served, WebhookPlaces, MerchantPlaces
  <1>3. WebhookInv' /\ MerchantInv'
    BY <1>1, WebhooksStay, MerchantsStay DEF IInv, Elsewhere, MerchantPlaces
  <1> QED
    BY <1>1, <1>2, <1>3, ServedKept DEF IInv

\* A move in the code that leaves no trace either, and promises nothing.
LEMMA MoveStep ==
  ASSUME IInv, NEW t \in Tasks, pc[t] # "idle", NEW what, NEW where,
         where \in {"store", "create"} \cup TokenPlaces,
         Goes(t, where, what), UNCHANGED <<webhookVars, merchantVars>>,
         where = "store" => open[t] \in Webhooks, where = "create" => open[t] \in Syncs
  PROVE  IInv'
  <1>1. Frame' /\ Others(t) /\ pc'[t] = where /\ open' = open
    BY GoesFrame DEF IInv, TokenPlaces
  <1>2. Served(t)'
    BY <1>1 DEF Served, WebhookPlaces, MerchantPlaces, TokenPlaces
  <1>3. WebhookInv' /\ MerchantInv'
    BY <1>1, WebhooksStay, MerchantsStay DEF IInv, Elsewhere, MerchantPlaces, TokenPlaces
  <1> QED
    BY <1>1, <1>2, <1>3, ServedKept DEF IInv

LEMMA StartStep ==
  ASSUME IInv, NEW t \in Tasks, Start(t), UNCHANGED <<webhookVars, merchantVars>>
  PROVE  IInv'
  <1>1. /\ Frame' /\ Others(t) /\ open'[t] \in Work /\ pc'[t] = open'[t].kind
    BY StartFrame, KindsNotIdle DEF IInv
  <1>2. /\ pc'[t] \in WebhookPlaces => open'[t] \in Webhooks
        /\ pc'[t] \in MerchantPlaces => open'[t] \in Syncs
        /\ pc'[t] \in {"receive", "sync", "uninstall", "put", "get", "delete"}
    BY <1>1, KindPlaces
  <1>3. Served(t)'
    BY <1>2 DEF Served, Webhooks, Syncs
  <1>4. WebhookInv' /\ MerchantInv'
    BY <1>1, <1>2, WebhooksStay, MerchantsStay DEF IInv, Elsewhere, MerchantPlaces
  <1> QED
    BY <1>1, <1>3, <1>4, ServedKept DEF IInv

LEMMA InitInv == Init => IInv
  <1> SUFFICES ASSUME Init PROVE IInv
    OBVIOUS
  <1>1. Frame /\ \A t \in Tasks : pc[t] = "idle"
    BY InitFrame DEF Init
  <1>2. \A t \in Tasks : Served(t) /\ Carries(t) /\ Alone(t)
    BY <1>1 DEF Served, Carries, Alone, WebhookPlaces, MerchantPlaces
  <1>3. WebhookInv
    BY <1>1 DEF Init, WebhookInit, WebhookInv, WebhookTypeOK
  <1>4. MerchantTypeOK /\ EventsInOrder /\ TimesAgreeUnlessOverlapped
    BY DEF Init, MerchantInit, MerchantTypeOK, EventsInOrder, TimesAgreeUnlessOverlapped, Known
  <1> QED
    BY <1>1, <1>2, <1>3, <1>4 DEF IInv, MerchantInv

-----------------------------------------------------------------------------
\* The webhook service.

\* The two services share no run.
LEMMA FromWebhook ==
  ASSUME IInv, NEW t \in Tasks, pc[t] \in WebhookPlaces
  PROVE  pc[t] # "idle" /\ open[t] \in Webhooks /\ Of(t) \in WebhookIds
  BY WebhookOf DEF IInv, Served, WebhookPlaces

LEMMA AnswersInv ==
  ASSUME IInv, NEW t \in Tasks, pc[t] \in WebhookPlaces, Answers(t), Of(t) \in entries,
         UNCHANGED <<entries, news, merchantVars>>
  PROVE  IInv'
  <1>1. Of(t) \in WebhookIds
    BY FromWebhook
  <1>2. Frame' /\ Others(t) /\ pc'[t] = "idle"
    BY EndsFrame DEF IInv, Answers
  <1>3. Served(t)'
    BY <1>2 DEF Served, WebhookPlaces, MerchantPlaces
  <1>4. MerchantInv'
    BY <1>2, MerchantsStay DEF IInv, Elsewhere, MerchantPlaces
  <1>5. WebhookTypeOK'
    BY <1>1 DEF IInv, WebhookInv, WebhookTypeOK, Answers
  <1>6. \A u \in Tasks : pc'[u] = "announce" => Of(u)' \in entries'
    BY <1>2 DEF IInv, WebhookInv, Others, Of
  <1>7. \A i \in WebhookIds : /\ news'[i] = IF i \in entries' THEN 1 ELSE 0
                              /\ answered'[i] > 0 => i \in entries'
    BY <1>1 DEF IInv, WebhookInv, WebhookTypeOK, Answers
  <1> QED
    BY <1>2, <1>3, <1>4, <1>5, <1>6, <1>7, ServedKept DEF IInv, WebhookInv, WebhookIds

LEMMA FindEntryInv ==
  ASSUME IInv, NEW t \in Tasks, FindEntry(t), UNCHANGED merchantVars
  PROVE  IInv'
  <1>0. pc[t] = "receive" /\ pc[t] # "idle" /\ open[t] \in Webhooks
    BY FromWebhook DEF FindEntry, At, WebhookPlaces
  <1>1. CASE Ends(t) /\ UNCHANGED answered
    BY <1>1, EndStep DEF FindEntry, webhookVars
  <1>2. CASE Of(t) \in entries /\ Answers(t)
    BY <1>0, <1>2, AnswersInv DEF FindEntry, WebhookPlaces
  <1>3. CASE Goes(t, "store", None) /\ UNCHANGED answered
    BY <1>0, <1>3, MoveStep DEF FindEntry, webhookVars
  <1> QED
    BY <1>1, <1>2, <1>3 DEF FindEntry

LEMMA StoreEntryInv ==
  ASSUME IInv, NEW t \in Tasks, StoreEntry(t), UNCHANGED merchantVars
  PROVE  IInv'
  <1>0. pc[t] = "store" /\ pc[t] # "idle" /\ open[t] \in Webhooks /\ Of(t) \in WebhookIds
    BY FromWebhook DEF StoreEntry, At, WebhookPlaces
  <1>1. CASE Of(t) \in entries
    BY <1>0, <1>1, AnswersInv DEF StoreEntry, WebhookPlaces
  <1>2. CASE Of(t) \notin entries
    <2>1. Frame' /\ Others(t) /\ pc'[t] = "announce" /\ open' = open
      BY <1>0, <1>2, GoesFrame DEF IInv, StoreEntry
    <2>2. Served(t)'
      BY <1>0, <2>1 DEF Served, WebhookPlaces, MerchantPlaces
    <2>3. MerchantInv'
      BY <2>1, MerchantsStay DEF IInv, Elsewhere, MerchantPlaces
    <2>4. WebhookTypeOK'
      BY <1>0, <1>2 DEF IInv, WebhookInv, WebhookTypeOK, StoreEntry
    <2>5. \A u \in Tasks : pc'[u] = "announce" => Of(u)' \in entries'
      BY <1>0, <1>2, <2>1 DEF IInv, WebhookInv, Others, Of, StoreEntry
    <2>6. \A i \in WebhookIds : /\ news'[i] = IF i \in entries' THEN 1 ELSE 0
                                /\ answered'[i] > 0 => i \in entries'
      BY <1>0, <1>2 DEF IInv, WebhookInv, WebhookTypeOK, StoreEntry
    <2> QED
      BY <2>1, <2>2, <2>3, <2>4, <2>5, <2>6, ServedKept DEF IInv, WebhookInv, WebhookIds
  <1> QED
    BY <1>1, <1>2

LEMMA AnnounceWebhookInv ==
  ASSUME IInv, NEW t \in Tasks, AnnounceWebhook(t), UNCHANGED merchantVars
  PROVE  IInv'
  <1>0. pc[t] = "announce" /\ Of(t) \in entries
    BY DEF IInv, WebhookInv, AnnounceWebhook, At
  <1>1. CASE Ends(t) /\ UNCHANGED answered
    BY <1>1, EndStep DEF AnnounceWebhook, webhookVars
  <1>2. CASE Answers(t)
    BY <1>0, <1>2, AnswersInv DEF AnnounceWebhook, WebhookPlaces
  <1> QED
    BY <1>1, <1>2 DEF AnnounceWebhook

-----------------------------------------------------------------------------
\* The merchant service.

LEMMA FromMerchant ==
  ASSUME IInv, NEW t \in Tasks, pc[t] \in MerchantPlaces
  PROVE  /\ pc[t] # "idle" /\ open[t] \in Syncs
         /\ Of(t) \in Domains /\ open[t].as \in ShopIds
  BY MerchantOf DEF IInv, Served, MerchantPlaces

LEMMA RowOf ==
  ASSUME IInv, NEW dom \in Domains, Known(dom)
  PROVE  merchants[dom] \in MerchantRows /\ merchants[dom].status \in Statuses
  BY DEF IInv, MerchantInv, MerchantTypeOK, Known, MerchantRows, Statuses

\* What is left to show of a step of a run that stays in the merchant service.
LEMMA MerchantStays ==
  ASSUME IInv, NEW t \in Tasks, pc[t] \in MerchantPlaces, NEW what, NEW where \in MerchantPlaces,
         Goes(t, where, what), UNCHANGED webhookVars
  PROVE  /\ Frame' /\ Others(t) /\ pc'[t] = where /\ mem'[t] = what /\ open' = open
         /\ \A u \in Tasks : Served(u)'
         /\ WebhookInv'
  <1>0. pc[t] # "idle" /\ open[t] \in Syncs /\ where # "idle"
    BY FromMerchant DEF MerchantPlaces
  <1>1. Frame' /\ Others(t) /\ pc'[t] = where /\ mem'[t] = what /\ open' = open
    BY <1>0, GoesFrame DEF IInv
  <1>2. Served(t)'
    BY <1>0, <1>1 DEF Served, WebhookPlaces, MerchantPlaces
  <1>3. WebhookInv'
    BY <1>1, WebhooksStay DEF IInv, Elsewhere, MerchantPlaces
  <1> QED
    BY <1>1, <1>2, <1>3, ServedKept DEF IInv

\* Loading a row: two runs that have it are seen to overlap.
LEMMA LoadsInv ==
  ASSUME IInv, NEW t \in Tasks, pc[t] \in {"sync", "uninstall"}, NEW where \in {"update", "retire"},
         Known(Of(t)), Loads(t, where), UNCHANGED webhookVars
  PROVE  IInv'
  <1> DEFINE what == merchants[Of(t)].status
  <1>0. PICK dom \in Domains : dom = Of(t)
    BY FromMerchant DEF MerchantPlaces
  <1>1. merchants[dom].status \in Statuses
    BY <1>0, RowOf
  <1>2. PICK row : row = merchants[dom].status
    OBVIOUS
  <1>3. /\ Frame' /\ Others(t) /\ pc'[t] = where /\ mem'[t] = row /\ open' = open
        /\ (\A u \in Tasks : Served(u)') /\ WebhookInv'
    BY <1>0, <1>2, MerchantStays DEF Loads, MerchantPlaces
  <1>4. MerchantTypeOK' /\ EventsInOrder' /\ TimesAgreeUnlessOverlapped'
    BY <1>0 DEF Loads, IInv, MerchantInv, MerchantTypeOK, EventsInOrder,
                TimesAgreeUnlessOverlapped, Known
  <1>5. \A u \in Tasks : Carries(u)'
    <2> SUFFICES ASSUME NEW u \in Tasks PROVE Carries(u)'
      OBVIOUS
    <2>1. Carries(u)
      BY DEF IInv, MerchantInv
    <2>2. CASE u = t
      BY <2>2, <1>0, <1>1, <1>2, <1>3 DEF Carries, Known, Of, Loads
    <2>3. CASE u # t
      BY <2>1, <2>3, <1>3 DEF Carries, Known, Told, Of, Loads, Others
    <2> QED
      BY <2>2, <2>3
  <1>6. \A u \in Tasks : Alone(u)'
    <2> SUFFICES ASSUME NEW u \in Tasks PROVE Alone(u)'
      OBVIOUS
    <2>1. Alone(u) /\ Of(u)' = Of(u)
      BY <1>3 DEF IInv, MerchantInv, Of
    <2>2. \A d, v : v \in Loaded(d)' => v \in Loaded(d) \/ (v = t /\ d = dom)
      BY <1>0, <1>3 DEF Loaded, Of, Others
    <2>3. overlapped' = overlapped \cup {d \in {dom} : \E v \in Loaded(d) : "retire" \in {where, pc[v]}}
      BY <1>0 DEF Loads
    <2>4. CASE u = t
      BY <2>2, <2>3, <2>4, <1>0, <1>2, <1>3 DEF Alone, Of, Loads
    <2>5. CASE u # t
      BY <2>1, <2>2, <2>3, <2>5, <1>0, <1>3 DEF Alone, Others, Loads, Loaded
    <2> QED
      BY <2>4, <2>5
  <1> QED
    BY <1>3, <1>4, <1>5, <1>6 DEF IInv, MerchantInv

LEMMA SyncFindInv ==
  ASSUME IInv, NEW t \in Tasks, SyncFind(t), UNCHANGED webhookVars
  PROVE  IInv'
  <1>0. pc[t] = "sync" /\ pc[t] # "idle" /\ open[t] \in Syncs
    BY FromMerchant DEF SyncFind, At, MerchantPlaces
  <1>1. CASE Ends(t) /\ Quiet
    BY <1>1, EndStep DEF Quiet
  <1>2. CASE Known(Of(t)) /\ Loads(t, "update")
    BY <1>0, <1>2, LoadsInv
  <1>3. CASE Goes(t, "create", None) /\ Quiet
    BY <1>0, <1>3, MoveStep DEF Quiet
  <1> QED
    BY <1>1, <1>2, <1>3 DEF SyncFind

LEMMA UninstallFindInv ==
  ASSUME IInv, NEW t \in Tasks, UninstallFind(t), UNCHANGED webhookVars
  PROVE  IInv'
  <1>1. CASE Ends(t) /\ Quiet
    BY <1>1, EndStep DEF Quiet
  <1>2. CASE Known(Of(t)) /\ Loads(t, "retire")
    BY <1>2, LoadsInv DEF UninstallFind, At
  <1> QED
    BY <1>1, <1>2 DEF UninstallFind

\* A run that writes the row it has loaded, or the one it creates: whoever
\* else has loaded that row shares it with the writer.
LEMMA CreateMerchantInv ==
  ASSUME IInv, NEW t \in Tasks, CreateMerchant(t), UNCHANGED webhookVars
  PROVE  IInv'
  <1>1. CASE Ends(t) /\ Quiet
    BY <1>1, EndStep DEF Quiet
  <1>2. CASE ~Taken(open[t])
    <2>0. PICK dom \in Domains : dom = Of(t) /\ open[t].as \in ShopIds /\ pc[t] = "create"
      BY FromMerchant DEF CreateMerchant, At, MerchantPlaces
    <2>1. /\ Frame' /\ Others(t) /\ pc'[t] = "announce created" /\ mem'[t] = TRUE /\ open' = open
          /\ (\A u \in Tasks : Served(u)') /\ WebhookInv'
      BY <1>2, <2>0, MerchantStays DEF CreateMerchant, MerchantPlaces
    <2>2. ~Known(dom)
      BY <1>2, <2>0 DEF Taken, Of
    <2>3. /\ merchants' = [merchants EXCEPT ![dom] = [shop |-> open[t].as, status |-> "PENDING", gone |-> FALSE]]
          /\ sent' = sent /\ overlapped' = overlapped
      BY <1>2, <2>0 DEF CreateMerchant
    <2>4. MerchantTypeOK'
      BY <2>0, <2>3 DEF IInv, MerchantInv, MerchantTypeOK, MerchantRows
    <2>5. EventsInOrder'
      BY <2>3 DEF IInv, MerchantInv, EventsInOrder
    <2>6. TimesAgreeUnlessOverlapped'
      BY <2>3 DEF IInv, MerchantInv, MerchantTypeOK, TimesAgreeUnlessOverlapped, Known
    <2>7. \A d \in Domains : Known(d) => Known(d)' /\ merchants'[d] = merchants[d]
      BY <2>2, <2>3 DEF IInv, MerchantInv, MerchantTypeOK, Known, NoMerchant
    <2>8. \A u \in Tasks : Carries(u)' /\ Alone(u)'
      <3> SUFFICES ASSUME NEW u \in Tasks PROVE Carries(u)' /\ Alone(u)'
        OBVIOUS
      <3>1. CASE u = t
        BY <3>1, <2>1 DEF Carries, Alone
      <3>2. CASE u # t
        <4>1. /\ Carries(u) /\ Alone(u) /\ Of(u)' = Of(u) /\ pc'[u] = pc[u] /\ mem'[u] = mem[u]
              /\ pc[u] \in MerchantPlaces => Of(u) \in Domains
          BY <3>2, <2>1, FromMerchant DEF IInv, MerchantInv, Of, Others
        <4>2. \A d : Loaded(d)' \subseteq Loaded(d)
          BY <2>1 DEF Loaded, Of, Others
        <4>3. Carries(u)'
          BY <4>1, <2>3, <2>7 DEF Carries, Told, MerchantPlaces
        <4>4. Alone(u)'
          BY <4>1, <4>2, <2>3, <2>7 DEF Alone, Carries, MerchantPlaces
        <4> QED
          BY <4>3, <4>4
      <3> QED
        BY <3>1, <3>2
    <2> QED
      BY <2>1, <2>4, <2>5, <2>6, <2>8 DEF IInv, MerchantInv
  <1> QED
    BY <1>1, <1>2 DEF CreateMerchant

\* What is left to show of a run that writes the row it has loaded.
LEMMA WriteStep ==
  ASSUME IInv, NEW t \in Tasks, pc[t] \in {"update", "retire"}, NEW dom \in Domains, dom = Of(t),
         NEW where \in {"announce synced", "announce uninstalled"}, NEW what,
         where = "announce synced" => what = FALSE,
         where = "announce uninstalled" => what \in Statuses,
         Goes(t, where, what), UNCHANGED <<webhookVars, sent, overlapped>>,
         NEW row \in MerchantRows, merchants' = [merchants EXCEPT ![dom] = row],
         dom \notin overlapped => (row.status = "UNINSTALLED" <=> row.gone)
  PROVE  IInv'
  <1>1. /\ Frame' /\ Others(t) /\ pc'[t] = where /\ mem'[t] = what /\ open' = open
        /\ (\A u \in Tasks : Served(u)') /\ WebhookInv'
    BY MerchantStays DEF MerchantPlaces
  <1>2. row # NoMerchant
    <2>1. "shop" \in DOMAIN row
      BY DEF MerchantRows
    <2>2. "shop" \notin DOMAIN NoMerchant
      BY DEF NoMerchant
    <2> QED
      BY <2>1, <2>2, Zenon
  <1>3. MerchantTypeOK' /\ EventsInOrder'
    BY DEF IInv, MerchantInv, MerchantTypeOK, EventsInOrder
  <1>4. TimesAgreeUnlessOverlapped'
    BY DEF IInv, MerchantInv, MerchantTypeOK, TimesAgreeUnlessOverlapped, Known
  <1>5. \A d \in Domains : Known(d) => Known(d)' /\ (d # dom => merchants'[d] = merchants[d])
    BY <1>2 DEF IInv, MerchantInv, MerchantTypeOK, Known
  <1>6. \A u \in Tasks : Carries(u)' /\ Alone(u)'
    <2> SUFFICES ASSUME NEW u \in Tasks PROVE Carries(u)' /\ Alone(u)'
      OBVIOUS
    <2>1. CASE u = t
      BY <2>1, <1>1 DEF Carries, Alone
    <2>2. CASE u # t
      <3>1. /\ Carries(u) /\ Alone(u) /\ Of(u)' = Of(u) /\ pc'[u] = pc[u] /\ mem'[u] = mem[u]
            /\ pc[u] \in MerchantPlaces => Of(u) \in Domains
        BY <2>2, <1>1, FromMerchant DEF IInv, MerchantInv, Of, Others
      <3>2. \A d : Loaded(d)' \subseteq Loaded(d)
        BY <1>1 DEF Loaded, Of, Others
      <3>3. Carries(u)'
        BY <3>1, <1>5 DEF Carries, Told, MerchantPlaces
      <3>4. t \in Loaded(dom)
        BY DEF Loaded
      <3>5. Alone(u)'
        BY <2>2, <3>1, <3>2, <3>4, <1>5 DEF Alone, Carries, MerchantPlaces
      <3> QED
        BY <3>3, <3>5
    <2> QED
      BY <2>1, <2>2
  <1> QED
    BY <1>1, <1>3, <1>4, <1>6 DEF IInv, MerchantInv

LEMMA UpdateFromSyncInv ==
  ASSUME IInv, NEW t \in Tasks, UpdateFromSync(t), UNCHANGED webhookVars
  PROVE  IInv'
  <1>0. PICK dom \in Domains : dom = Of(t) /\ pc[t] = "update" /\ Known(dom) /\ mem[t] \in Statuses
    BY FromMerchant DEF UpdateFromSync, At, MerchantPlaces, IInv, MerchantInv, Carries
  <1>1. merchants[dom] \in MerchantRows
    BY <1>0, RowOf
  <1>2. PICK row : row = IF mem[t] = "UNINSTALLED" THEN Reinstalled(merchants[dom]) ELSE merchants[dom]
    OBVIOUS
  <1>3. row \in MerchantRows
    BY <1>1, <1>2 DEF Reinstalled, MerchantRows
  <1>4. merchants' = [merchants EXCEPT ![dom] = row]
    BY <1>0, <1>2 DEF UpdateFromSync, IInv, MerchantInv, MerchantTypeOK
  <1>5. dom \notin overlapped => (row.status = "UNINSTALLED" <=> row.gone)
    BY <1>0, <1>1, <1>2 DEF IInv, MerchantInv, TimesAgreeUnlessOverlapped, Reinstalled, MerchantRows
  <1> QED
    BY <1>0, <1>3, <1>4, <1>5, WriteStep DEF UpdateFromSync

LEMMA UpdateStatusInv ==
  ASSUME IInv, NEW t \in Tasks, UpdateStatus(t), UNCHANGED webhookVars
  PROVE  IInv'
  <1>0. PICK dom \in Domains : dom = Of(t) /\ pc[t] = "retire" /\ Known(dom) /\ mem[t] \in Statuses
    BY FromMerchant DEF UpdateStatus, At, MerchantPlaces, IInv, MerchantInv, Carries
  <1>1. merchants[dom] \in MerchantRows
    BY <1>0, RowOf
  <1>2. PICK row, loaded : row = Retired(merchants[dom], mem[t]) /\ loaded = mem[t]
    OBVIOUS
  <1>3. row \in MerchantRows
    BY <1>1, <1>2 DEF Retired, MerchantRows
  <1>4. merchants' = [merchants EXCEPT ![dom] = row]
    BY <1>0, <1>2 DEF UpdateStatus, IInv, MerchantInv, MerchantTypeOK
  <1>5. dom \notin overlapped => mem[t] = merchants[dom].status
    BY <1>0 DEF IInv, MerchantInv, Alone
  <1>6. dom \notin overlapped => (row.status = "UNINSTALLED" <=> row.gone)
    BY <1>1, <1>2, <1>5 DEF Retired, MerchantRows
  <1> QED
    BY <1>0, <1>2, <1>3, <1>4, <1>6, WriteStep DEF UpdateStatus

\* What an event says, by the run that sends it.
LEMMA EventFields ==
  ASSUME IInv, NEW t \in Tasks, pc[t] \in MerchantPlaces,
         NEW event \in {"created", "synced", "uninstalled", "status_changed"},
         event = "synced" => mem[t] \in BOOLEAN,
         event = "status_changed" => mem[t] \in Statuses
  PROVE  /\ EventOf(t, event) \in Sent
         /\ EventOf(t, event).event = event /\ EventOf(t, event).of = Of(t)
         /\ EventOf(t, event).first => event = "synced" /\ mem[t] = TRUE
  <1>1. Of(t) \in Domains
    BY FromMerchant
  <1>2. PICK first \in BOOLEAN : first = (event = "synced" /\ mem[t])
    OBVIOUS
  <1>3. first => event = "synced" /\ mem[t] = TRUE
    BY <1>2
  <1>4. PICK old \in {None, "PENDING", "UNINSTALLED"} :
          old = IF event = "status_changed" THEN mem[t] ELSE None
    BY DEF Statuses
  <1>5. EventOf(t, event) = [event |-> event, of |-> Of(t), first |-> first, old |-> old]
    BY <1>2, <1>4 DEF EventOf
  <1> QED
    BY <1>1, <1>3, <1>5 DEF Sent

\* An event is sent, or is not and the run ends.
LEMMA SendsInv ==
  ASSUME IInv, NEW t \in Tasks, UNCHANGED webhookVars,
         pc[t] \in MerchantPlaces,
         NEW event \in {"created", "synced", "uninstalled", "status_changed"},
         event = "synced" => mem[t] \in BOOLEAN /\ (mem[t] = TRUE => Told("created", Of(t))),
         event = "status_changed" => mem[t] \in Statuses /\ Told("uninstalled", Of(t)),
         NEW next, next \in {"idle", "announce synced", "announce changed"},
         next = "announce synced" => event = "created" /\ mem[t] \in BOOLEAN,
         next = "announce changed" => event = "uninstalled" /\ mem[t] \in Statuses,
         Sends(t, event, next)
  PROVE  IInv'
  <1>1. PICK e \in Sent : /\ e = EventOf(t, event) /\ e.event = event /\ e.of = Of(t)
                          /\ e.first => event = "synced" /\ mem[t] = TRUE
    BY EventFields
  <1>2. /\ sent' = sent \cup {e} \/ (sent' = sent /\ next = "idle")
        /\ merchants' = merchants /\ overlapped' = overlapped
    BY <1>1 DEF Sends
  <1>3. sent \subseteq sent' /\ sent' \subseteq sent \cup {e}
    BY <1>2
  <1>4. MerchantTypeOK' /\ TimesAgreeUnlessOverlapped'
    BY <1>2, <1>3 DEF IInv, MerchantInv, MerchantTypeOK, TimesAgreeUnlessOverlapped, Known
  <1>5. EventsInOrder'
    <2> SUFFICES ASSUME NEW x \in sent'
                 PROVE  /\ x.event = "synced" /\ x.first => \E c \in sent : c.event = "created" /\ c.of = x.of
                        /\ x.event = "status_changed" => \E c \in sent : c.event = "uninstalled" /\ c.of = x.of
      BY <1>3 DEF EventsInOrder
    <2>1. CASE x \in sent
      BY <2>1 DEF IInv, MerchantInv, EventsInOrder
    <2>2. CASE x = e
      BY <2>2, <1>1 DEF Told
    <2> QED
      BY <2>1, <2>2, <1>3
  <1>6. pc[t] # "idle" /\ open[t] \in Syncs
    BY FromMerchant
  <1>7. /\ Frame' /\ Others(t) /\ pc'[t] = next
        /\ next # "idle" => mem'[t] = mem[t] /\ open' = open
    <2>1. CASE next = "idle"
      BY <2>1, EndsFrame DEF IInv, Sends
    <2>2. CASE next # "idle"
      <3>1. PICK what : what = mem[t]
        OBVIOUS
      <3>2. Goes(t, next, what)
        BY <2>2, <3>1 DEF Sends
      <3> QED
        BY <2>2, <3>1, <3>2, <1>6, GoesFrame DEF IInv
    <2> QED
      BY <2>1, <2>2
  <1>8. \A u \in Tasks : Served(u)'
    <2>1. Served(t)'
      BY <1>6, <1>7 DEF Served, WebhookPlaces, MerchantPlaces
    <2> QED
      BY <1>7, <2>1, ServedKept DEF IInv
  <1>9. WebhookInv'
    BY <1>7, WebhooksStay DEF IInv, Elsewhere
  <1>10. \A u \in Tasks : Carries(u)' /\ Alone(u)'
    <2> SUFFICES ASSUME NEW u \in Tasks PROVE Carries(u)' /\ Alone(u)'
      OBVIOUS
    <2>1. Carries(u) /\ Alone(u)
      BY DEF IInv, MerchantInv
    <2>2. \A told, d : Told(told, d) => Told(told, d)'
      BY <1>3 DEF Told
    <2>3. CASE u = t
      <3>1. Alone(u)'
        BY <2>3, <1>7 DEF Alone
      <3>2. next # "idle" => Of(t)' = Of(t) /\ Told(event, Of(t))'
        BY <1>1, <1>2, <1>7 DEF Told, Of
      <3>3. Carries(u)'
        BY <2>3, <3>2, <1>7 DEF Carries
      <3> QED
        BY <3>1, <3>3
    <2>4. CASE u # t
      <3>1. Of(u)' = Of(u) /\ pc'[u] = pc[u] /\ mem'[u] = mem[u]
        BY <2>4, <1>7 DEF Others, Of
      <3>2. \A d : Loaded(d)' \subseteq Loaded(d)
        BY <1>7 DEF Loaded, Of, Others
      <3>3. Carries(u)'
        BY <2>1, <2>2, <3>1, <1>2 DEF Carries, Known
      <3>4. Alone(u)'
        BY <2>1, <3>1, <3>2, <1>2 DEF Alone
      <3> QED
        BY <3>3, <3>4
    <2> QED
      BY <2>3, <2>4
  <1> QED
    BY <1>4, <1>5, <1>7, <1>8, <1>9, <1>10 DEF IInv, MerchantInv

LEMMA AnnouncesInv ==
  ASSUME IInv, NEW t \in Tasks, UNCHANGED webhookVars, AnnounceSync(t) \/ AnnounceUninstall(t)
  PROVE  IInv'
  <1>1. Carries(t)
    BY DEF IInv, MerchantInv
  <1>2. CASE AnnouncesIn(t, "announce created", "created", "announce synced")
    BY <1>1, <1>2, SendsInv DEF AnnouncesIn, At, Carries, MerchantPlaces
  <1>3. CASE AnnouncesIn(t, "announce synced", "synced", "idle")
    BY <1>1, <1>3, SendsInv DEF AnnouncesIn, At, Carries, MerchantPlaces
  <1>4. CASE AnnouncesIn(t, "announce uninstalled", "uninstalled", "announce changed")
    BY <1>1, <1>4, SendsInv DEF AnnouncesIn, At, Carries, MerchantPlaces
  <1>5. CASE AnnouncesIn(t, "announce changed", "status_changed", "idle")
    BY <1>1, <1>5, SendsInv DEF AnnouncesIn, At, Carries, MerchantPlaces
  <1> QED
    BY <1>2, <1>3, <1>4, <1>5 DEF AnnounceSync, AnnounceUninstall

-----------------------------------------------------------------------------
\* The token service touches neither, but its runs are on the same stage.
LEMMA TokensElsewhere ==
  ASSUME IInv, NEW t \in Tasks, TokenStep(t), UNCHANGED <<webhookVars, merchantVars>>
  PROVE  IInv'
  <1>1. pc[t] \in TokenPlaces
    BY DEF TokenStep, StoreToken, LogWrite, FindTokens, LogFailure, UpdateAccess, LogRead, HandOut,
           DeleteToken, LogDelete, At, TokenPlaces
  <1>2. Ends(t) \/ \E where \in TokenPlaces : \E what : Goes(t, where, what)
    BY DEF TokenStep, StoreToken, LogWrite, FindTokens, LogFailure, UpdateAccess, LogRead, HandOut,
           DeleteToken, LogDelete, TokenPlaces
  <1>3. CASE Ends(t)
    BY <1>3, EndStep
  <1>4. CASE \E where \in TokenPlaces : \E what : Goes(t, where, what)
    <2>1. PICK where \in TokenPlaces : \E what : Goes(t, where, what)
      BY <1>4
    <2>2. PICK what : Goes(t, where, what)
      BY <2>1
    <2>3. pc[t] # "idle" /\ where # "store" /\ where # "create"
      BY <1>1 DEF TokenPlaces
    <2> QED
      BY <2>2, <2>3, MoveStep
  <1> QED
    BY <1>2, <1>3, <1>4

LEMMA StillInv ==
  ASSUME IInv, UNCHANGED <<reqVars, webhookVars, merchantVars>>
  PROVE  IInv'
  <1>1. Frame'
    BY StayFrame DEF IInv
  <1>2. \A t \in Tasks : Served(t)' /\ Carries(t)' /\ Alone(t)'
    BY DEF IInv, MerchantInv, Served, Carries, Alone, Known, Told, Loaded, Of, reqVars, merchantVars
  <1>3. WebhookInv'
    BY DEF IInv, WebhookInv, WebhookTypeOK, Of, reqVars, webhookVars
  <1>4. MerchantTypeOK' /\ EventsInOrder' /\ TimesAgreeUnlessOverlapped'
    BY DEF IInv, MerchantInv, MerchantTypeOK, EventsInOrder, TimesAgreeUnlessOverlapped, Known,
           merchantVars
  <1> QED
    BY <1>1, <1>2, <1>3, <1>4 DEF IInv, MerchantInv

LEMMA StepInv == IInv /\ [Next]_vars => IInv'
  <1> SUFFICES ASSUME IInv, [Next]_vars PROVE IInv'
    OBVIOUS
  <1>1. ASSUME NEW t \in Tasks, Start(t) /\ UNCHANGED <<webhookVars, merchantVars, tokenVars>>
        PROVE  IInv'
    BY <1>1, StartStep
  <1>2. ASSUME NEW t \in Tasks, WebhookStep(t) /\ UNCHANGED <<merchantVars, tokenVars>>
        PROVE  IInv'
    BY <1>2, FindEntryInv, StoreEntryInv, AnnounceWebhookInv DEF WebhookStep
  <1>3. ASSUME NEW t \in Tasks, MerchantStep(t) /\ UNCHANGED <<webhookVars, tokenVars>>
        PROVE  IInv'
    BY <1>3, SyncFindInv, CreateMerchantInv, UpdateFromSyncInv, UninstallFindInv, UpdateStatusInv,
       AnnouncesInv DEF MerchantStep
  <1>4. ASSUME NEW t \in Tasks, TokenStep(t) /\ UNCHANGED <<webhookVars, merchantVars>>
        PROVE  IInv'
    BY <1>4, TokensElsewhere
  <1>5. ASSUME NEW t \in Tasks, Dies(t)
        PROVE  IInv'
    BY <1>5, EndStep DEF Dies
  <1>6. ASSUME RotateKey /\ UNCHANGED <<webhookVars, merchantVars>>
        PROVE  IInv'
    BY <1>6, StillInv DEF RotateKey
  <1>7. ASSUME UNCHANGED vars
        PROVE  IInv'
    BY <1>7, StillInv DEF vars
  <1> QED
    BY <1>1, <1>2, <1>3, <1>4, <1>5, <1>6, <1>7 DEF Next

-----------------------------------------------------------------------------
(* The token service: what is on record of a token, and who is about to    *)
(* put more there.                                                         *)

Reading == {"log failure", "track", "log read", "hand out"}
Writing == {"log write", "log delete"}

\* A run is for a token's request, and what it carries was given out before.
Serves(t) == /\ pc[t] \in TokenPlaces => open[t] \in TokenRequests
             /\ pc[t] \in Reading => mem[t] \in TokenRows /\ mem[t].id <= ids
             /\ pc[t] \in Writing => mem[t] \in 1 .. ids

\* Every id was, or may still be, taken by a submission of its own.
Puts == {w \in TokenRequests : w.kind = "put"}
Spent == {x \in Puts \X (1 .. MaxDeliver) : x[2] <= begun[x[1]]}
Putting == {t \in Tasks : pc[t] = "put"}
IdsInv == /\ ids + Cardinality(Putting) <= Cardinality(Spent)
          /\ \A m \in Holders : tokens[m] # NoToken => tokens[m].id <= ids
          /\ \A m \in Holders, n \in Holders :
               tokens[m] # NoToken /\ tokens[n] # NoToken /\ tokens[m].id = tokens[n].id => m = n

\* Whoever is about to hand a token out has logged it, and whoever is about
\* to log it has counted it.
HandingOut == [i \in Ids |-> {t \in Tasks : pc[t] = "hand out" /\ mem[t].id = i}]
Logging == [i \in Ids |-> {t \in Tasks : pc[t] = "log read" /\ mem[t].id = i}]
Reads == [i \in Ids |-> log[<<i, "read", TRUE>>]]
TrailInv ==
  /\ \A i \in Ids : i > ids => Reads[i] = 0
  /\ \A i \in Ids : handed[i] + Cardinality(HandingOut[i]) <= Reads[i]
  /\ \A m \in Holders : tokens[m] # NoToken =>
       Reads[tokens[m].id] + Cardinality(Logging[tokens[m].id]) <= tokens[m].accesses

AllServe == \A t \in Tasks : Serves(t)

TokensInv == TokenTypeOK /\ AllServe /\ IdsInv /\ TrailInv

\* The ids suffice for all submissions.
LEMMA SpentBound ==
  /\ MaxIds \in Nat
  /\ Frame => IsFiniteSet(Spent) /\ Cardinality(Spent) \in Nat /\ Cardinality(Spent) <= MaxIds
  <1>1. IsFiniteSet(Puts) /\ Cardinality(Puts) \in Nat
    BY FiniteAssumption, FS_Subset, FS_CardinalityType DEF Puts, TokenRequests
  <1>2. IsFiniteSet(1 .. MaxDeliver) /\ Cardinality(1 .. MaxDeliver) = MaxDeliver
    BY RequestsAssumption, FS_Interval
  <1>3. /\ IsFiniteSet(Puts \X (1 .. MaxDeliver))
        /\ Cardinality(Puts \X (1 .. MaxDeliver)) = Cardinality(Puts) * MaxDeliver
    BY <1>1, <1>2, FS_Product
  <1>4. MaxIds = Cardinality(Puts) * MaxDeliver
    BY <1>1, RequestsAssumption DEF MaxIds, Puts
  <1>5. MaxIds \in Nat
    BY <1>1, <1>4, RequestsAssumption
  <1>6. Spent \subseteq Puts \X (1 .. MaxDeliver)
    BY DEF Spent
  <1> QED
    BY <1>3, <1>4, <1>5, <1>6, FS_Subset, FS_CardinalityType

LEMMA RowFacts ==
  ASSUME TokenTypeOK, NEW m \in Holders, tokens[m] # NoToken
  PROVE  tokens[m] \in TokenRows /\ tokens[m].id \in Ids /\ tokens[m].accesses \in Nat
  BY DEF TokenTypeOK, TokenRows

LEMMA IdsAreNumbers == TokenTypeOK => ids \in Nat /\ \A i \in Ids : Reads[i] \in Nat /\ handed[i] \in Nat
  <1>1. TokenTypeOK => ids \in Nat
    BY SpentBound DEF TokenTypeOK
  <1>2. TokenTypeOK => \A i \in Ids : Reads[i] \in Nat /\ handed[i] \in Nat
    BY DEF TokenTypeOK, Reads, Access
  <1> QED
    BY <1>1, <1>2

Stays(u) == pc'[u] = pc[u] /\ mem'[u] = mem[u] /\ open'[u] = open[u]
NoneJoin == \A u \in Tasks : Stays(u) \/ pc'[u] \notin {"put", "log read", "hand out"}

\* Rows may go and other things be logged, as long as nobody comes to where
\* reads are counted.
LEMMA RecordsStay ==
  ASSUME Frame, TokensInv, TokenTypeOK', AllServe',
         UNCHANGED <<begun, ids, handed>>, \A i \in Ids : Reads'[i] = Reads[i],
         \A m \in Holders : tokens'[m] \in {NoToken, tokens[m]},
         NoneJoin
  PROVE  TokensInv'
  <1>1. IdsInv'
    <2>1. Putting' \subseteq Putting /\ Putting \subseteq Tasks /\ Spent' = Spent
      BY DEF NoneJoin, Putting, Spent, Stays
    <2>2. Cardinality(Putting') <= Cardinality(Putting) /\ Cardinality(Putting) \in Nat
          /\ Cardinality(Putting') \in Nat
      BY <2>1, NoneJoins, TasksCount
    <2>3. ids \in Nat /\ Cardinality(Spent) \in Nat
      BY SpentBound, IdsAreNumbers DEF TokensInv
    <2>4. ids' + Cardinality(Putting') <= Cardinality(Spent')
      <3>1. ids + Cardinality(Putting) <= Cardinality(Spent) /\ ids' = ids
        BY DEF TokensInv, IdsInv
      <3>2. Cardinality(Spent') = Cardinality(Spent)
        BY <2>1
      <3> QED
        BY <2>2, <2>3, <3>1, <3>2
    <2>5. \A m \in Holders : tokens'[m] # NoToken => tokens'[m] = tokens[m] /\ tokens[m] # NoToken
      OBVIOUS
    <2> QED
      BY <2>4, <2>5 DEF TokensInv, IdsInv
  <1>2. TrailInv'
    <2>1. \A i \in Ids : /\ HandingOut'[i] \subseteq HandingOut[i] /\ HandingOut[i] \subseteq Tasks
                 /\ Logging'[i] \subseteq Logging[i] /\ Logging[i] \subseteq Tasks
      BY DEF NoneJoin, HandingOut, Logging, Stays
    <2>2. \A i \in Ids : /\ Cardinality(HandingOut'[i]) <= Cardinality(HandingOut[i])
                 /\ Cardinality(Logging'[i]) <= Cardinality(Logging[i])
                 /\ Cardinality(HandingOut[i]) \in Nat /\ Cardinality(HandingOut'[i]) \in Nat
                 /\ Cardinality(Logging[i]) \in Nat /\ Cardinality(Logging'[i]) \in Nat
      BY <2>1, NoneJoins, TasksCount
    <2>3. \A i \in Ids : Reads[i] \in Nat /\ handed[i] \in Nat
      BY IdsAreNumbers DEF TokensInv
    <2>4. \A i \in Ids : i > ids' => Reads'[i] = 0
      BY DEF TokensInv, TrailInv
    <2>5. ASSUME NEW i \in Ids PROVE handed'[i] + Cardinality(HandingOut'[i]) <= Reads'[i]
      <3>1. handed[i] + Cardinality(HandingOut[i]) <= Reads[i]
        BY DEF TokensInv, TrailInv
      <3>2. handed'[i] = handed[i] /\ Reads'[i] = Reads[i]
        OBVIOUS
      <3> QED
        BY <2>2, <2>3, <3>1, <3>2
    <2>6. ASSUME NEW m \in Holders, tokens'[m] # NoToken
          PROVE  Reads'[tokens[m].id] + Cardinality(Logging'[tokens[m].id]) <= tokens[m].accesses
                 /\ tokens'[m] = tokens[m]
      <3>1. PICK row \in TokenRows : row = tokens[m] /\ row = tokens'[m] /\ row # NoToken
                                     /\ row.id \in Ids /\ row.accesses \in Nat
        BY <2>6, RowFacts DEF TokensInv
      <3>2. Reads[row.id] + Cardinality(Logging[row.id]) <= row.accesses
        BY <3>1 DEF TokensInv, TrailInv
      <3>3. Reads'[row.id] = Reads[row.id]
        BY <3>1
      <3>4. Reads'[row.id] + Cardinality(Logging'[row.id]) <= row.accesses
        BY <2>2, <2>3, <3>1, <3>2, <3>3
      <3> QED
        BY <3>1, <3>4
    <2> QED
      BY <2>4, <2>5, <2>6 DEF TrailInv
  <1> QED
    BY <1>1, <1>2 DEF TokensInv

\* Steps of other services, and ends.
LEMMA TokensStay ==
  ASSUME Frame, TokensInv, UNCHANGED <<tokens, ids, log, handed, begun>>, cipher' \in Keys,
         \A u \in Tasks : \/ Stays(u)
                          \/ /\ pc'[u] \notin {"put"} \cup Reading \cup Writing
                             /\ pc'[u] \in TokenPlaces => open'[u] \in TokenRequests
  PROVE  TokensInv'
  <1>1. TokenTypeOK'
    BY DEF TokensInv, TokenTypeOK
  <1>2. AllServe'
    BY DEF TokensInv, AllServe, Serves, Stays
  <1>3. \A i \in Ids : Reads'[i] = Reads[i]
    BY DEF Reads
  <1> QED
    BY <1>1, <1>2, <1>3, RecordsStay DEF Reading, NoneJoin

LEMMA TokensEnd ==
  ASSUME Frame, TokensInv, NEW t \in Tasks, Ends(t), UNCHANGED tokenVars
  PROVE  TokensInv'
  <1>1. /\ begun' = begun
        /\ \A u \in Tasks : Stays(u) \/ pc'[u] = "idle"
    BY EndsFrame DEF Stays, Others
  <1>2. cipher' \in Keys
    BY DEF TokensInv, TokenTypeOK, tokenVars
  <1> QED
    BY <1>1, <1>2, TokensStay DEF TokenPlaces, Reading, Writing, tokenVars

\* One more submission is one more that may need an id.
LEMMA TokensStart ==
  ASSUME Frame, TokensInv, NEW t \in Tasks, Start(t), UNCHANGED tokenVars
  PROVE  TokensInv'
  <1>1. PICK w \in Work : Runs!Begin(t, w) /\ pc' = [pc EXCEPT ![t] = w.kind] /\ mem' = mem
    BY DEF Start
  <1>2. /\ Frame' /\ Others(t) /\ pc[t] = "idle" /\ open'[t] = w /\ pc'[t] = w.kind
        /\ begun' = [begun EXCEPT ![w] = @ + 1] /\ begun[w] \in Nat /\ begun[w] + 1 <= MaxDeliver
    <2>1. Frame' /\ Others(t) /\ pc[t] = "idle"
      BY StartFrame, KindsNotIdle
    <2>2. open'[t] = w /\ pc'[t] = w.kind
      BY <1>1 DEF Runs!Begin, Frame, Runs!RunsTypeOK
    <2>3. begun' = [begun EXCEPT ![w] = @ + 1] /\ begun[w] \in Nat /\ begun[w] + 1 <= MaxDeliver
      BY <1>1, RequestsAssumption DEF Runs!Begin, Frame, Runs!RunsTypeOK
    <2> QED
      BY <2>1, <2>2, <2>3
  <1>3. /\ w.kind \in TokenPlaces => w \in TokenRequests /\ w.kind \in {"put", "get", "delete"}
        /\ w.kind \in {"receive", "sync", "uninstall", "put", "get", "delete"}
    BY ShopsAssumption DEF TokenPlaces, TokenRequests
  <1>4. TokenTypeOK' /\ AllServe'
    BY <1>2, <1>3 DEF TokensInv, TokenTypeOK, tokenVars, AllServe, Serves, Others, Reading, Writing
  <1>5. TrailInv'
    <2>1. HandingOut' = HandingOut /\ Logging' = Logging
      BY <1>2, <1>3 DEF HandingOut, Logging, Others
    <2>2. Reads' = Reads
      BY DEF tokenVars, Reads
    <2> QED
      BY <2>1, <2>2 DEF TokensInv, TrailInv, tokenVars
  <1>6. IdsInv'
    <2>1. /\ Spent \subseteq Spent' /\ IsFiniteSet(Spent) /\ IsFiniteSet(Spent')
          /\ Cardinality(Spent) \in Nat /\ Cardinality(Spent') \in Nat
      <3>1. Spent \subseteq Spent'
        BY <1>2 DEF Spent, Frame, Runs!RunsTypeOK
      <3>2. IsFiniteSet(Spent') /\ Cardinality(Spent') \in Nat
        <4>1. IsFiniteSet(Puts \X (1 .. MaxDeliver))
          <5>1. IsFiniteSet(Puts)
            BY FiniteAssumption, FS_Subset DEF Puts, TokenRequests
          <5>2. IsFiniteSet(1 .. MaxDeliver)
            BY RequestsAssumption, FS_Interval
          <5> QED
            BY <5>1, <5>2, FS_Product
        <4> QED
          BY <4>1, FS_Subset, FS_CardinalityType DEF Spent
      <3> QED
        BY <3>1, <3>2, SpentBound
    <2>2. Putting \subseteq Tasks /\ Putting' \subseteq Putting \cup {t}
      BY <1>2 DEF Putting, Others
    <2>3. Cardinality(Putting) \in Nat /\ Cardinality(Putting') \in Nat
      BY <2>2, TasksCount
    <2>4. ids \in Nat /\ ids' = ids
      BY DEF TokensInv, TokenTypeOK, tokenVars
    <2>5. CASE w.kind = "put"
      <3>1. PICK x : x = <<w, begun[w] + 1>>
        OBVIOUS
      <3>2. x \in Spent' /\ x \notin Spent
        BY <1>2, <1>3, <2>5, <3>1 DEF Spent, Puts, Frame, Runs!RunsTypeOK, TokenPlaces
      <3>3. Cardinality(Spent \cup {x}) = Cardinality(Spent) + 1 /\ IsFiniteSet(Spent \cup {x})
        BY <2>1, <3>2, FS_AddElement
      <3>4. Cardinality(Spent) + 1 <= Cardinality(Spent')
        BY <2>1, <3>2, <3>3, FS_Subset
      <3>5. Cardinality(Putting') <= Cardinality(Putting) + 1
        BY <2>2, OneJoins
      <3> QED
        BY <2>1, <2>3, <2>4, <3>4, <3>5 DEF TokensInv, IdsInv, tokenVars
    <2>6. CASE w.kind # "put"
      <3>1. Putting' \subseteq Putting
        BY <1>2, <2>6 DEF Putting, Others
      <3>2. Cardinality(Putting') <= Cardinality(Putting)
        BY <2>2, <3>1, NoneJoins
      <3>3. Cardinality(Spent) <= Cardinality(Spent')
        BY <2>1, FS_Subset
      <3> QED
        BY <2>1, <2>3, <2>4, <3>2, <3>3 DEF TokensInv, IdsInv, tokenVars
    <2> QED
      BY <2>5, <2>6
  <1> QED
    BY <1>4, <1>5, <1>6 DEF TokensInv

\* A run of the token service and its merchant.
LEMMA FromToken ==
  ASSUME Frame, TokensInv, NEW t \in Tasks, pc[t] \in TokenPlaces
  PROVE  pc[t] # "idle" /\ open[t] \in TokenRequests /\ Of(t) \in Holders /\ Serves(t)
  BY DEF TokensInv, AllServe, Serves, TokenPlaces, Of, Holders

\* What is left to show of a run that goes on in the token service.
LEMMA TokenGoes ==
  ASSUME Frame, TokensInv, NEW t \in Tasks, pc[t] \in TokenPlaces, NEW where \in TokenPlaces, NEW what,
         Goes(t, where, what), ids' = ids \/ ids' = ids + 1,
         where \in Reading => what \in TokenRows /\ what.id <= ids',
         where \in Writing => what \in 1 .. ids'
  PROVE  /\ AllServe' /\ begun' = begun /\ Others(t) /\ pc'[t] = where /\ mem'[t] = what
         /\ open' = open
  <1>1. pc[t] # "idle" /\ where # "idle" /\ open[t] \in TokenRequests
    BY FromToken DEF TokenPlaces
  <1>2. /\ begun' = begun /\ Others(t) /\ pc'[t] = where /\ mem'[t] = what /\ open' = open
    BY <1>1, GoesFrame
  <1>3. ids \in Nat /\ ids <= ids'
    BY IdsAreNumbers DEF TokensInv
  <1>4. ASSUME NEW u \in Tasks PROVE Serves(u)'
    <2>1. CASE u = t
      BY <1>1, <1>2, <2>1 DEF Serves
    <2>2. CASE u # t
      <3>1. Serves(u) /\ pc'[u] = pc[u] /\ mem'[u] = mem[u] /\ open'[u] = open[u]
        BY <1>2, <2>2 DEF TokensInv, AllServe, Others
      <3>2. ASSUME pc[u] \in Reading PROVE mem[u] \in TokenRows /\ mem[u].id <= ids'
        BY <3>1, <3>2, <1>3, SpentBound DEF Serves, TokenRows, Ids
      <3>3. ASSUME pc[u] \in Writing PROVE mem[u] \in 1 .. ids'
        BY <3>1, <3>3, <1>3 DEF Serves
      <3> QED
        BY <3>1, <3>2, <3>3 DEF Serves
    <2> QED
      BY <2>1, <2>2
  <1> QED
    BY <1>2, <1>4 DEF AllServe

LEMMA StoreTokenInv ==
  ASSUME Frame, TokensInv, NEW t \in Tasks, StoreToken(t)
  PROVE  TokensInv'
  <1>1. pc[t] = "put" /\ pc[t] \in TokenPlaces /\ Of(t) \in Holders
    BY FromToken DEF StoreToken, At, TokenPlaces
  <1>2. CASE Ends(t) /\ UNCHANGED <<tokens, ids>>
    BY <1>2, TokensEnd DEF StoreToken, tokenVars
  <1>3. CASE /\ tokens' = [tokens EXCEPT ![Of(t)] = Stored(@, open[t], ids + 1)]
             /\ ids' = IF tokens[Of(t)] = NoToken THEN ids + 1 ELSE ids
             /\ Goes(t, "log write", tokens'[Of(t)].id)
    <2>1. PICK m \in Holders : m = Of(t)
      BY <1>1
    <2>2. PICK row : row = Stored(tokens[m], open[t], ids + 1)
      OBVIOUS
    <2>3. tokens' = [tokens EXCEPT ![m] = row] /\ tokens'[m] = row
      BY <1>3, <2>1, <2>2 DEF TokensInv, TokenTypeOK
    <2>4. ids \in Nat /\ MaxIds \in Nat /\ Cardinality(Spent) \in Nat /\ Cardinality(Spent) <= MaxIds
      BY SpentBound, IdsAreNumbers DEF TokensInv
    <2>5. Goes(t, "log write", row.id)
      BY <1>3, <2>1, <2>3
    <2>6. begun' = begun /\ Others(t) /\ pc'[t] = "log write"
      BY <1>1, <2>5, GoesFrame DEF TokenPlaces
    <2>7. /\ Putting' \subseteq Putting \ {t} /\ t \in Putting /\ Putting \subseteq Tasks
          /\ Spent' = Spent
      BY <1>1, <2>6 DEF Putting, Others, Spent
    <2>8. /\ Cardinality(Putting') + 1 <= Cardinality(Putting)
          /\ Cardinality(Putting') \in Nat /\ Cardinality(Putting) \in Nat
      BY <2>7, OneLeaves, TasksCount
    <2>9. ids + 1 + Cardinality(Putting') <= Cardinality(Spent) /\ ids + 1 <= MaxIds
      BY <2>4, <2>8 DEF TokensInv, IdsInv
    <2>10. /\ ids' \in 0 .. MaxIds /\ ids <= ids'
           /\ ids' + Cardinality(Putting') <= Cardinality(Spent)
           /\ ids' = IF tokens[m] = NoToken THEN ids + 1 ELSE ids
      <3>1. ids' = IF tokens[m] = NoToken THEN ids + 1 ELSE ids
        BY <1>3, <2>1
      <3>2. ids' = ids \/ ids' = ids + 1
        BY <3>1
      <3> QED
        BY <3>1, <3>2, <2>4, <2>8, <2>9
    <2>11. row \in TokenRows /\ row # NoToken /\ row.id <= ids' /\ row.id \in Ids
      <3>1. cipher \in Keys
        BY DEF TokensInv, TokenTypeOK
      <3>2. CASE tokens[m] = NoToken
        <4>1. ids + 1 \in Ids /\ ids' = ids + 1
          BY <3>2, <2>4, <2>9, <2>10 DEF Ids
        <4> QED
          BY <2>2, <3>1, <3>2, <4>1, <2>4 DEF Stored, TokenRows, NoToken
      <3>3. CASE tokens[m] # NoToken
        <4>1. tokens[m] \in TokenRows /\ tokens[m].id \in Ids /\ tokens[m].accesses \in Nat
          BY <3>3, RowFacts DEF TokensInv
        <4>2. tokens[m].id <= ids /\ ids' = ids
          BY <1>3, <2>1, <3>3 DEF TokensInv, IdsInv
        <4> QED
          BY <2>2, <3>1, <3>3, <4>1, <4>2 DEF Stored, TokenRows, NoToken
      <3> QED
        BY <3>2, <3>3
    <2>12. row.id \in 1 .. ids'
      BY <2>4, <2>10, <2>11 DEF Ids
    <2>13. AllServe'
      BY <1>1, <1>3, <2>4, <2>5, <2>12, TokenGoes DEF TokenPlaces, Reading, Writing
    <2>14. TokenTypeOK'
      BY <2>3, <2>10, <2>11 DEF TokensInv, TokenTypeOK, StoreToken
    <2>15. IdsInv'
      <3>1. \A n \in Holders : tokens'[n] = IF n = m THEN row ELSE tokens[n]
        BY <2>3 DEF TokensInv, TokenTypeOK
      <3>2. \A n \in Holders : tokens[n] # NoToken => tokens[n].id <= ids /\ tokens[n].id \in Nat
        BY <2>4, RowFacts DEF TokensInv, IdsInv, Ids
      <3>3. ASSUME NEW n \in Holders, tokens'[n] # NoToken PROVE tokens'[n].id <= ids'
        BY <3>1, <3>2, <3>3, <2>4, <2>10, <2>11
      <3>4. ASSUME NEW n \in Holders \ {m}, tokens[n] # NoToken PROVE tokens[n].id # row.id
        <4>1. CASE tokens[m] = NoToken
          BY <2>2, <2>4, <3>2, <3>4, <4>1 DEF Stored
        <4>2. CASE tokens[m] # NoToken
          BY <2>2, <3>4, <4>2 DEF Stored, TokensInv, IdsInv
        <4> QED
          BY <4>1, <4>2
      <3>5. ASSUME NEW n \in Holders, NEW k \in Holders, tokens'[n] # NoToken, tokens'[k] # NoToken,
                   tokens'[n].id = tokens'[k].id
            PROVE  n = k
        <4>1. CASE n = m \/ k = m
          BY <3>1, <3>4, <3>5, <4>1
        <4>2. CASE n # m /\ k # m
          BY <3>1, <3>5, <4>2 DEF TokensInv, IdsInv
        <4> QED
          BY <4>1, <4>2
      <3> QED
        BY <2>7, <2>10, <3>3, <3>5 DEF IdsInv
    <2>16. TrailInv'
      <3>1. HandingOut' = HandingOut /\ Logging' = Logging
        BY <1>1, <2>6 DEF HandingOut, Logging, Others
      <3>2. Reads' = Reads /\ handed' = handed
        BY DEF Reads, StoreToken
      <3>3. \A i \in Ids : i > ids' => Reads'[i] = 0
        BY <3>2, <2>4, <2>10 DEF TokensInv, TrailInv, Ids
      <3>4. ASSUME NEW n \in Holders, tokens'[n] # NoToken
            PROVE  Reads[tokens'[n].id] + Cardinality(Logging[tokens'[n].id]) <= tokens'[n].accesses
        <4>1. CASE n # m \/ tokens[m] # NoToken
          <5>1. tokens[n] # NoToken /\ tokens'[n].id = tokens[n].id
                /\ tokens'[n].accesses = tokens[n].accesses
            BY <2>2, <2>3, <3>4, <4>1 DEF Stored, TokensInv, TokenTypeOK
          <5> QED
            BY <5>1 DEF TokensInv, TrailInv
        <4>2. CASE n = m /\ tokens[m] = NoToken
          <5>1. tokens'[n].id = ids + 1 /\ tokens'[n].accesses = 0 /\ ids + 1 \in Ids
            BY <2>2, <2>3, <2>11, <4>2 DEF Stored
          <5>2. Reads[ids + 1] = 0
            BY <2>4, <5>1 DEF TokensInv, TrailInv
          <5>3. Logging[ids + 1] = {}
            <6>1. ASSUME NEW u \in Tasks, pc[u] = "log read" PROVE mem[u].id # ids + 1
              <7>1. mem[u] \in TokenRows /\ mem[u].id <= ids
                BY <6>1 DEF TokensInv, AllServe, Serves, Reading
              <7> QED
                BY <7>1, <2>4 DEF TokenRows, Ids
            <6> QED
              BY <5>1, <6>1 DEF Logging
          <5>4. Cardinality(Logging[ids + 1]) = 0
            BY <5>3, FS_EmptySet
          <5> QED
            BY <5>1, <5>2, <5>4
        <4> QED
          BY <4>1, <4>2
      <3> QED
        BY <3>1, <3>2, <3>3, <3>4 DEF TokensInv, TrailInv
    <2> QED
      BY <2>13, <2>14, <2>15, <2>16 DEF TokensInv
  <1> QED
    BY <1>2, <1>3 DEF StoreToken

\* A read of the row is counted: whoever counts it is about to log it.
LEMMA UpdateAccessInv ==
  ASSUME Frame, TokensInv, NEW t \in Tasks, UpdateAccess(t)
  PROVE  TokensInv'
  <1>1. PICK row \in TokenRows : row = mem[t] /\ row.id <= ids /\ row.id \in Ids
    BY FromToken DEF UpdateAccess, At, TokenPlaces, Serves, Reading, TokenRows
  <1>2. pc[t] = "track" /\ Goes(t, "log read", row) /\ UNCHANGED <<ids, log, cipher, handed>>
    BY <1>1 DEF UpdateAccess, At
  <1>3. /\ begun' = begun /\ Others(t) /\ pc'[t] = "log read" /\ mem'[t] = row /\ AllServe'
    BY <1>1, <1>2, TokenGoes DEF TokenPlaces, Reading, Writing
  <1>4. \A m \in Holders : tokens'[m] = IF tokens[m] # NoToken /\ tokens[m].id = row.id
                                         THEN [tokens[m] EXCEPT !.accesses = @ + 1] ELSE tokens[m]
    BY <1>1 DEF UpdateAccess
  <1>5. ASSUME NEW m \in Holders
        PROVE  /\ tokens[m] = NoToken => tokens'[m] = NoToken
               /\ tokens[m] # NoToken =>
                    /\ tokens'[m] \in TokenRows /\ tokens'[m] # NoToken
                    /\ tokens'[m].id = tokens[m].id
                    /\ tokens'[m].accesses =
                         IF tokens[m].id = row.id THEN tokens[m].accesses + 1 ELSE tokens[m].accesses
    <2>1. CASE tokens[m] = NoToken
      BY <1>4, <2>1
    <2>2. CASE tokens[m] # NoToken
      <3>1. PICK old \in TokenRows : old = tokens[m]
        BY <2>2, RowFacts DEF TokensInv
      <3>2. tokens'[m] = IF old.id = row.id THEN [old EXCEPT !.accesses = @ + 1] ELSE old
        BY <1>4, <2>2, <3>1
      <3>3. /\ [old EXCEPT !.accesses = @ + 1] \in TokenRows
            /\ [old EXCEPT !.accesses = @ + 1].id = old.id
            /\ [old EXCEPT !.accesses = @ + 1].accesses = old.accesses + 1
        BY DEF TokenRows
      <3>4. \A new \in TokenRows : new # NoToken
        BY DEF TokenRows, NoToken
      <3> QED
        BY <2>2, <3>1, <3>2, <3>3, <3>4
    <2> QED
      BY <2>1, <2>2
  <1>6. TokenTypeOK'
    <2>1. tokens' = [m \in Holders |-> tokens'[m]]
      BY DEF UpdateAccess
    <2>2. \A m \in Holders : tokens'[m] \in TokenRows \cup {NoToken}
      BY <1>5
    <2> QED
      BY <1>2, <2>1, <2>2 DEF TokensInv, TokenTypeOK
  <1>7. IdsInv'
    <2>1. Putting' \subseteq Putting /\ Putting \subseteq Tasks /\ Spent' = Spent
      BY <1>3 DEF Putting, Spent, Others
    <2>2. Cardinality(Putting') <= Cardinality(Putting) /\ Cardinality(Putting) \in Nat
          /\ Cardinality(Putting') \in Nat /\ ids \in Nat /\ Cardinality(Spent) \in Nat
      BY <2>1, NoneJoins, TasksCount, SpentBound, IdsAreNumbers DEF TokensInv
    <2>3. ids + Cardinality(Putting') <= Cardinality(Spent)
      BY <2>2 DEF TokensInv, IdsInv
    <2> QED
      BY <1>2, <1>5, <2>1, <2>3 DEF TokensInv, IdsInv
  <1>8. TrailInv'
    <2>1. HandingOut' = HandingOut /\ Reads' = Reads
      BY <1>2, <1>3 DEF HandingOut, Reads, Others
    <2>2. ASSUME NEW i \in Ids
          PROVE  /\ Cardinality(Logging'[i]) \in Nat /\ Cardinality(Logging[i]) \in Nat
                 /\ Cardinality(Logging'[i]) <= Cardinality(Logging[i]) + (IF i = row.id THEN 1 ELSE 0)
      <3>1. /\ Logging[i] \subseteq Tasks /\ Logging'[i] \subseteq Logging[i] \cup {t}
            /\ i # row.id => Logging'[i] \subseteq Logging[i]
        BY <1>3 DEF Logging, Others
      <3>2. Cardinality(Logging'[i]) \in Nat /\ Cardinality(Logging[i]) \in Nat
        BY <3>1, TasksCount
      <3> QED
        BY <3>1, <3>2, OneJoins, NoneJoins
    <2>3. ASSUME NEW m \in Holders, tokens'[m] # NoToken
          PROVE  Reads[tokens'[m].id] + Cardinality(Logging'[tokens'[m].id]) <= tokens'[m].accesses
      <3>1. PICK i \in Ids : i = tokens[m].id /\ i = tokens'[m].id
        BY <1>5, <2>3, RowFacts DEF TokensInv
      <3>2. Reads[i] \in Nat /\ tokens[m].accesses \in Nat
        BY <1>5, <2>3, RowFacts, IdsAreNumbers DEF TokensInv
      <3>3. Reads[i] + Cardinality(Logging[i]) <= tokens[m].accesses
        BY <1>5, <2>3, <3>1 DEF TokensInv, TrailInv
      <3>4. tokens'[m].accesses = tokens[m].accesses + (IF i = row.id THEN 1 ELSE 0)
        BY <1>5, <2>3, <3>1, <3>2
      <3> QED
        BY <2>2, <3>1, <3>2, <3>3, <3>4
    <2> QED
      BY <1>2, <2>1, <2>3 DEF TokensInv, TrailInv
  <1> QED
    BY <1>3, <1>6, <1>7, <1>8 DEF TokensInv

\* Nobody stores a token while a read is logged or handed out.
LEMMA RowsAsTheyWere ==
  ASSUME Frame, TokensInv, NEW t \in Tasks, pc[t] # "put", Others(t), pc'[t] # "put",
         UNCHANGED <<begun, tokens, ids>>
  PROVE  IdsInv'
  <1>1. Putting' = Putting /\ Spent' = Spent
    BY DEF Putting, Spent, Others
  <1> QED
    BY <1>1 DEF TokensInv, IdsInv

\* The read is on record before its token can be handed out.
LEMMA LogReadInv ==
  ASSUME Frame, TokensInv, NEW t \in Tasks, LogRead(t)
  PROVE  TokensInv'
  <1>1. PICK row \in TokenRows : row = mem[t] /\ row.id <= ids /\ row.id \in Ids
    BY FromToken DEF LogRead, At, TokenPlaces, Serves, Reading, TokenRows
  <1>2. pc[t] = "log read" /\ Goes(t, "hand out", row) /\ UNCHANGED <<tokens, ids, cipher, handed>>
        /\ log' = [log EXCEPT ![<<row.id, "read", TRUE>>] = @ + 1]
    BY <1>1 DEF LogRead, At, Logs
  <1>3. /\ begun' = begun /\ Others(t) /\ pc'[t] = "hand out" /\ mem'[t] = row /\ AllServe'
    BY <1>1, <1>2, TokenGoes DEF TokenPlaces, Reading, Writing
  <1>0. PICK a \in Access : a = <<row.id, "read", TRUE>>
    BY <1>1 DEF Access
  <1>4. TokenTypeOK'
    <2>1. log' = [log EXCEPT ![a] = @ + 1] /\ log \in [Access -> Nat]
      BY <1>2, <1>0 DEF TokensInv, TokenTypeOK
    <2>2. log' \in [Access -> Nat]
      BY <2>1
    <2> QED
      BY <1>2, <2>2 DEF TokensInv, TokenTypeOK
  <1>5. IdsInv'
    BY <1>2, <1>3, RowsAsTheyWere
  <1>6. TrailInv'
    <2>1. ASSUME NEW i \in Ids
          PROVE  Reads[i] \in Nat /\ handed[i] \in Nat
                 /\ Reads'[i] = Reads[i] + (IF i = row.id THEN 1 ELSE 0)
      <3>1. PICK b \in Access : b = <<i, "read", TRUE>>
        BY DEF Access
      <3>2. log' = [log EXCEPT ![a] = @ + 1] /\ log \in [Access -> Nat]
        BY <1>2, <1>0 DEF TokensInv, TokenTypeOK
      <3>3. b = a <=> i = row.id
        BY <1>0, <3>1
      <3>4. log'[b] = log[b] + (IF i = row.id THEN 1 ELSE 0)
        BY <3>2, <3>3
      <3>5. Reads[i] = log[b] /\ Reads'[i] = log'[b]
        BY <3>1 DEF Reads
      <3> QED
        BY <3>4, <3>5, IdsAreNumbers DEF TokensInv
    <2>2. ASSUME NEW i \in Ids
          PROVE  /\ Cardinality(HandingOut'[i]) \in Nat /\ Cardinality(HandingOut[i]) \in Nat
                 /\ Cardinality(HandingOut'[i]) <= Cardinality(HandingOut[i]) + (IF i = row.id THEN 1 ELSE 0)
      <3>1. /\ HandingOut[i] \subseteq Tasks /\ HandingOut'[i] \subseteq HandingOut[i] \cup {t}
            /\ i # row.id => HandingOut'[i] \subseteq HandingOut[i]
        BY <1>3 DEF HandingOut, Others
      <3>2. Cardinality(HandingOut'[i]) \in Nat /\ Cardinality(HandingOut[i]) \in Nat
        BY <3>1, TasksCount
      <3> QED
        BY <3>1, <3>2, OneJoins, NoneJoins
    <2>3. ASSUME NEW i \in Ids
          PROVE  /\ Cardinality(Logging'[i]) \in Nat /\ Cardinality(Logging[i]) \in Nat
                 /\ Cardinality(Logging'[i]) + (IF i = row.id THEN 1 ELSE 0) <= Cardinality(Logging[i])
      <3>1. /\ Logging[i] \subseteq Tasks /\ Logging'[i] \subseteq Logging[i]
            /\ i = row.id => t \in Logging[i] /\ Logging'[i] \subseteq Logging[i] \ {t}
        BY <1>1, <1>2, <1>3 DEF Logging, Others
      <3>2. Cardinality(Logging'[i]) \in Nat /\ Cardinality(Logging[i]) \in Nat
        BY <3>1, TasksCount
      <3> QED
        BY <3>1, <3>2, OneLeaves, NoneJoins
    <2>4. ASSUME NEW i \in Ids, i > ids PROVE Reads'[i] = 0
      <3>1. Reads[i] = 0 /\ i # row.id
        BY <1>1, <2>4, IdsAreNumbers DEF TokensInv, TrailInv, Ids
      <3> QED
        BY <2>1, <3>1
    <2>5. ASSUME NEW i \in Ids PROVE handed[i] + Cardinality(HandingOut'[i]) <= Reads'[i]
      <3>1. handed[i] + Cardinality(HandingOut[i]) <= Reads[i]
        BY DEF TokensInv, TrailInv
      <3> QED
        BY <2>1, <2>2, <3>1
    <2>6. ASSUME NEW m \in Holders, tokens[m] # NoToken
          PROVE  Reads'[tokens[m].id] + Cardinality(Logging'[tokens[m].id]) <= tokens[m].accesses
      <3>1. tokens[m].id \in Ids /\ tokens[m].accesses \in Nat
        BY <2>6, RowFacts DEF TokensInv
      <3>2. Reads[tokens[m].id] + Cardinality(Logging[tokens[m].id]) <= tokens[m].accesses
        BY <2>6 DEF TokensInv, TrailInv
      <3> QED
        BY <2>1, <2>3, <3>1, <3>2
    <2> QED
      BY <1>2, <2>4, <2>5, <2>6 DEF TrailInv
  <1> QED
    BY <1>3, <1>4, <1>5, <1>6 DEF TokensInv

LEMMA HandOutInv ==
  ASSUME Frame, TokensInv, NEW t \in Tasks, HandOut(t)
  PROVE  TokensInv'
  <1>1. PICK row \in TokenRows : row = mem[t] /\ row.id <= ids /\ row.id \in Ids
    BY FromToken DEF HandOut, At, TokenPlaces, Serves, Reading, TokenRows
  <1>2. pc[t] = "hand out" /\ Ends(t) /\ UNCHANGED <<tokens, ids, log, cipher>>
    BY DEF HandOut, At
  <1>3. /\ begun' = begun /\ Others(t) /\ pc'[t] = "idle"
    BY <1>2, EndsFrame
  <1>0. PICK one \in {0, 1} : handed' = [handed EXCEPT ![row.id] = @ + one]
    <2>1. handed \in [Ids -> Nat]
      BY DEF TokensInv, TokenTypeOK
    <2>2. CASE row.expiring
      <3>1. handed' = handed
        BY <1>1, <2>2 DEF HandOut
      <3>2. handed' = [handed EXCEPT ![row.id] = @ + 0]
        BY <1>1, <2>1, <3>1
      <3> QED
        BY <3>2
    <2>3. CASE ~row.expiring
      BY <1>1, <2>3 DEF HandOut
    <2> QED
      BY <2>2, <2>3
  <1>4. handed' \in [Ids -> Nat] /\ TokenTypeOK'
    <2>1. handed \in [Ids -> Nat] /\ row.id \in Ids
      BY <1>1 DEF TokensInv, TokenTypeOK
    <2>2. handed' \in [Ids -> Nat]
      BY <1>0, <2>1
    <2> QED
      BY <1>2, <2>2 DEF TokensInv, TokenTypeOK
  <1>5. AllServe'
    BY <1>2, <1>3 DEF TokensInv, AllServe, Serves, Others, TokenPlaces, Reading, Writing
  <1>6. IdsInv'
    BY <1>2, <1>3, RowsAsTheyWere
  <1>7. TrailInv'
    <2>1. Logging' = Logging /\ Reads' = Reads
      BY <1>2, <1>3 DEF Logging, Reads, Others
    <2>2. ASSUME NEW i \in Ids PROVE handed'[i] + Cardinality(HandingOut'[i]) <= Reads[i]
      <3>1. /\ HandingOut[i] \subseteq Tasks /\ HandingOut'[i] \subseteq HandingOut[i]
            /\ i = row.id => t \in HandingOut[i] /\ HandingOut'[i] \subseteq HandingOut[i] \ {t}
        BY <1>1, <1>2, <1>3 DEF HandingOut, Others
      <3>2. /\ Cardinality(HandingOut'[i]) \in Nat /\ Cardinality(HandingOut[i]) \in Nat
            /\ Reads[i] \in Nat /\ handed[i] \in Nat
        BY <3>1, TasksCount, IdsAreNumbers DEF TokensInv
      <3>3. Cardinality(HandingOut'[i]) + (IF i = row.id THEN 1 ELSE 0) <= Cardinality(HandingOut[i])
        BY <3>1, <3>2, OneLeaves, NoneJoins
      <3>4. handed'[i] \in Nat /\ handed'[i] <= handed[i] + (IF i = row.id THEN 1 ELSE 0)
        BY <1>0, <1>1, <3>2 DEF TokensInv, TokenTypeOK
      <3>5. handed[i] + Cardinality(HandingOut[i]) <= Reads[i]
        BY DEF TokensInv, TrailInv
      <3> QED
        BY <3>2, <3>3, <3>4, <3>5
    <2> QED
      BY <1>2, <2>1, <2>2 DEF TokensInv, TrailInv
  <1> QED
    BY <1>4, <1>5, <1>6, <1>7 DEF TokensInv

\* A log entry that is not a read's, and the end of the run.
LEMMA LogsOther ==
  ASSUME Frame, TokensInv, NEW t \in Tasks, Ends(t), NEW i \in Ids,
         NEW type \in {"read", "write", "delete"}, NEW success \in BOOLEAN,
         type # "read" \/ success = FALSE,
         Logs(i, type, success), UNCHANGED <<tokens, ids, cipher, handed>>
  PROVE  TokensInv'
  <1>1. begun' = begun /\ Others(t) /\ pc'[t] = "idle"
    BY EndsFrame
  <1>2. TokenTypeOK'
    BY DEF TokensInv, TokenTypeOK, Logs, Access
  <1>3. AllServe'
    BY <1>1 DEF TokensInv, AllServe, Serves, Others, TokenPlaces, Reading, Writing
  <1>4. \A j \in Ids : Reads'[j] = Reads[j]
    BY DEF TokensInv, TokenTypeOK, Logs, Access, Reads
  <1>5. NoneJoin
    BY <1>1 DEF NoneJoin, Stays, Others
  <1> QED
    BY <1>1, <1>2, <1>3, <1>4, <1>5, RecordsStay

LEMMA FindTokensInv ==
  ASSUME Frame, TokensInv, NEW t \in Tasks, FindTokens(t)
  PROVE  TokensInv'
  <1>1. pc[t] = "get" /\ pc[t] \in TokenPlaces /\ Of(t) \in Holders
    BY FromToken DEF FindTokens, At, TokenPlaces
  <1>2. CASE Ends(t)
    BY <1>2, TokensEnd DEF FindTokens
  <1>3. CASE /\ tokens[Of(t)] # NoToken
             /\ \E where \in {"track", "log failure"} : Goes(t, where, tokens[Of(t)])
    <2>1. PICK where \in {"track", "log failure"} : Goes(t, where, tokens[Of(t)])
      BY <1>3
    <2>2. tokens[Of(t)] \in TokenRows /\ tokens[Of(t)].id <= ids
      BY <1>1, <1>3, RowFacts DEF TokensInv, IdsInv
    <2>3. UNCHANGED tokenVars
      BY DEF FindTokens
    <2>4. AllServe' /\ begun' = begun /\ Others(t) /\ pc'[t] = where
      BY <1>1, <2>1, <2>2, <2>3, TokenGoes DEF TokenPlaces, Writing, tokenVars
    <2>5. TokenTypeOK' /\ \A i \in Ids : Reads'[i] = Reads[i]
      BY <2>3 DEF TokensInv, TokenTypeOK, tokenVars, Reads
    <2>6. NoneJoin
      BY <2>4 DEF NoneJoin, Stays, Others
    <2> QED
      BY <2>3, <2>4, <2>5, <2>6, RecordsStay DEF tokenVars
  <1> QED
    BY <1>2, <1>3 DEF FindTokens

LEMMA DeleteTokenInv ==
  ASSUME Frame, TokensInv, NEW t \in Tasks, DeleteToken(t)
  PROVE  TokensInv'
  <1>1. pc[t] = "delete" /\ pc[t] \in TokenPlaces /\ Of(t) \in Holders
    BY FromToken DEF DeleteToken, At, TokenPlaces
  <1>2. CASE Ends(t) /\ UNCHANGED tokens
    BY <1>2, TokensEnd DEF DeleteToken, tokenVars
  <1>3. CASE /\ tokens[Of(t)] # NoToken /\ tokens' = [tokens EXCEPT ![Of(t)] = NoToken]
             /\ Goes(t, "log delete", tokens[Of(t)].id)
    <2>1. tokens[Of(t)].id \in Ids /\ tokens[Of(t)].id <= ids /\ ids \in Nat
      BY <1>1, <1>3, RowFacts, IdsAreNumbers DEF TokensInv, IdsInv
    <2>2. tokens[Of(t)].id \in 1 .. ids
      BY <2>1, SpentBound DEF Ids
    <2>3. UNCHANGED <<ids, log, cipher, handed>>
      BY DEF DeleteToken
    <2>4. AllServe' /\ begun' = begun /\ Others(t) /\ pc'[t] = "log delete"
      BY <1>1, <1>3, <2>2, <2>3, TokenGoes DEF TokenPlaces, Reading
    <2>5. TokenTypeOK' /\ \A i \in Ids : Reads'[i] = Reads[i]
      BY <1>1, <1>3, <2>3 DEF TokensInv, TokenTypeOK, Reads
    <2>6. NoneJoin /\ \A m \in Holders : tokens'[m] \in {NoToken, tokens[m]}
      BY <1>3, <2>4 DEF NoneJoin, Stays, Others, TokensInv, TokenTypeOK
    <2> QED
      BY <2>3, <2>4, <2>5, <2>6, RecordsStay
  <1> QED
    BY <1>2, <1>3 DEF DeleteToken

LEMMA TokenStepInv ==
  ASSUME Frame, TokensInv, NEW t \in Tasks, TokenStep(t)
  PROVE  TokensInv'
  <1>1. ASSUME LogWrite(t) \/ LogDelete(t) PROVE TokensInv'
    <2>1. mem[t] \in 1 .. ids
      BY <1>1, FromToken DEF LogWrite, LogDelete, At, TokenPlaces, Serves, Writing
    <2>2. mem[t] \in Ids
      BY <2>1, SpentBound DEF TokensInv, TokenTypeOK, Ids
    <2> QED
      BY <1>1, <2>2, LogsOther DEF LogWrite, LogDelete
  <1>2. ASSUME LogFailure(t) PROVE TokensInv'
    <2>1. mem[t].id \in Ids
      BY <1>2, FromToken DEF LogFailure, At, TokenPlaces, Serves, Reading, TokenRows
    <2> QED
      BY <1>2, <2>1, LogsOther DEF LogFailure
  <1> QED
    BY <1>1, <1>2, StoreTokenInv, FindTokensInv, UpdateAccessInv, LogReadInv, HandOutInv,
       DeleteTokenInv DEF TokenStep

\* The other two services' steps are none of this one's business.
LEMMA TokensForeign ==
  ASSUME Frame, TokensInv, NEW t \in Tasks, WebhookStep(t) \/ MerchantStep(t), UNCHANGED tokenVars
  PROVE  TokensInv'
  <1> DEFINE Going == \E where \in WebhookPlaces \cup MerchantPlaces : \E what : Goes(t, where, what)
  <1>1. pc[t] # "idle" /\ (Ends(t) \/ Going)
    <2>1. ASSUME WebhookStep(t) PROVE pc[t] # "idle" /\ (Ends(t) \/ Going)
      BY <2>1 DEF WebhookStep, FindEntry, StoreEntry, AnnounceWebhook, Answers, At, WebhookPlaces
    <2>2. ASSUME SyncFind(t) \/ CreateMerchant(t) \/ UpdateFromSync(t) \/ UninstallFind(t)
                 \/ UpdateStatus(t)
          PROVE  pc[t] # "idle" /\ (Ends(t) \/ Going)
      BY <2>2 DEF SyncFind, CreateMerchant, UpdateFromSync, UninstallFind, UpdateStatus, Loads, At,
                  MerchantPlaces
    <2>3. ASSUME AnnounceSync(t) \/ AnnounceUninstall(t)
          PROVE  pc[t] # "idle" /\ (Ends(t) \/ Going)
      BY <2>3 DEF AnnounceSync, AnnounceUninstall, AnnouncesIn, Sends, At, MerchantPlaces
    <2> QED
      BY <2>1, <2>2, <2>3 DEF MerchantStep
  <1>2. CASE Ends(t)
    BY <1>2, TokensEnd
  <1>3. CASE Going
    <2>1. PICK where \in WebhookPlaces \cup MerchantPlaces : \E what : Goes(t, where, what)
      BY <1>3
    <2>2. PICK what : Goes(t, where, what)
      BY <2>1
    <2>3. begun' = begun /\ Others(t) /\ pc'[t] = where
      BY <1>1, <2>2, GoesFrame DEF WebhookPlaces, MerchantPlaces
    <2>4. cipher' \in Keys
      BY DEF TokensInv, TokenTypeOK, tokenVars
    <2> QED
      BY <2>3, <2>4, TokensStay DEF Stays, Others, tokenVars, WebhookPlaces, MerchantPlaces, TokenPlaces,
                                    Reading, Writing
  <1> QED
    BY <1>1, <1>2, <1>3

LEMMA TokensStep == IInv /\ TokensInv /\ [Next]_vars => TokensInv'
  <1> SUFFICES ASSUME IInv, TokensInv, [Next]_vars PROVE TokensInv'
    OBVIOUS
  <1>1. Frame
    BY DEF IInv
  <1>2. ASSUME RotateKey \/ UNCHANGED vars PROVE TokensInv'
    <2>1. UNCHANGED reqVars /\ UNCHANGED <<tokens, ids, log, handed>> /\ cipher' \in Keys
      BY <1>2 DEF RotateKey, vars, tokenVars, TokensInv, TokenTypeOK
    <2> QED
      BY <1>1, <2>1, TokensStay DEF Stays, reqVars
  <1> QED
    BY <1>1, <1>2, TokensStart, TokensForeign, TokenStepInv, TokensEnd DEF Next, Dies

LEMMA TokensStartOut == Init => TokensInv
  <1> SUFFICES ASSUME Init PROVE TokensInv
    OBVIOUS
  <1>1. Frame /\ \A t \in Tasks : pc[t] = "idle"
    BY InitFrame DEF Init
  <1>2. TokenTypeOK
    BY SpentBound DEF Init, TokenInit, TokenTypeOK
  <1>3. AllServe
    BY <1>1 DEF AllServe, Serves, TokenPlaces, Reading, Writing
  <1>4. IdsInv
    <2>1. Putting = {}
      BY <1>1 DEF Putting
    <2>2. Cardinality(Putting) = 0 /\ Cardinality(Spent) \in Nat
      BY <1>1, <2>1, FS_EmptySet, SpentBound
    <2> QED
      BY <2>2 DEF Init, TokenInit, IdsInv
  <1>5. TrailInv
    <2>1. ASSUME NEW i \in Ids PROVE Reads[i] = 0 /\ handed[i] = 0 /\ Cardinality(HandingOut[i]) = 0
      <3>1. HandingOut[i] = {}
        BY <1>1 DEF HandingOut
      <3> QED
        BY <3>1, FS_EmptySet DEF Init, TokenInit, Reads, Access
    <2> QED
      BY <2>1 DEF TrailInv, Init, TokenInit
  <1> QED
    BY <1>2, <1>3, <1>4, <1>5 DEF TokensInv

THEOREM InvariantHolds == Spec => []IInv
  BY InitInv, StepInv, PTL DEF Spec

\* However often and concurrently a webhook is delivered, and whichever runs
\* die, one run at most is told to publish it and no run answers 200 before
\* it is stored: WebhookService.receive_webhook over the unique webhook_id.
THEOREM OneOwner == Spec => []OneRunOwnsAWebhook
  <1>1. IInv => OneRunOwnsAWebhook
    BY DEF IInv, WebhookInv, OneRunOwnsAWebhook
  <1> QED
    BY <1>1, InvariantHolds, PTL

\* merchant.synced of a first sync has merchant.created on the stream before
\* it, and a status change its uninstall: the order in which MerchantService
\* publishes, for every interleaving and every crash between the two.
THEOREM OrderOfEvents == Spec => []EventsInOrder
  <1>1. IInv => EventsInOrder
    BY DEF IInv, MerchantInv
  <1> QED
    BY <1>1, InvariantHolds, PTL

\* A merchant's status and its uninstalled_at agree as long as no uninstall
\* and another run had its row loaded at one time: the columns the session
\* found changed are all that is written.
THEOREM StatusAndTimeAgree == Spec => []TimesAgreeUnlessOverlapped
  <1>1. IInv => TimesAgreeUnlessOverlapped
    BY DEF IInv, MerchantInv
  <1> QED
    BY <1>1, InvariantHolds, PTL

THEOREM TokensHold == Spec => []TokensInv
  BY TokensStartOut, TokensStep, InvariantHolds, PTL DEF Spec

\* A token is handed out only for a read its log shows, and the counter of a
\* row that is still there has counted every read the log shows: the order of
\* update_access, the log and the answer in TokenService.get_tokens, for any
\* overlap with stores and deletions and any crash between the three.
THEOREM AuditTrailHolds == Spec => []AuditTrail
  <1>1. TokensInv => AuditTrail
    <2> SUFFICES ASSUME TokensInv PROVE AuditTrail
      OBVIOUS
    <2>1. ASSUME NEW i \in Ids PROVE handed[i] <= log[<<i, "read", TRUE>>]
      <3>1. HandingOut[i] \subseteq Tasks
        BY DEF HandingOut
      <3>2. Cardinality(HandingOut[i]) \in Nat /\ handed[i] \in Nat /\ Reads[i] \in Nat
        BY <3>1, TasksCount, IdsAreNumbers DEF TokensInv
      <3>3. handed[i] + Cardinality(HandingOut[i]) <= Reads[i]
        BY DEF TokensInv, TrailInv
      <3>4. handed[i] <= Reads[i]
        BY <3>2, <3>3
      <3> QED
        BY <3>4 DEF Reads
    <2>2. ASSUME NEW m \in Holders, tokens[m] # NoToken
          PROVE  log[<<tokens[m].id, "read", TRUE>>] <= tokens[m].accesses
      <3>1. PICK i \in Ids : i = tokens[m].id /\ tokens[m].accesses \in Nat
        BY <2>2, RowFacts DEF TokensInv
      <3>2. Logging[i] \subseteq Tasks
        BY DEF Logging
      <3>3. Cardinality(Logging[i]) \in Nat /\ Reads[i] \in Nat
        BY <3>2, TasksCount, IdsAreNumbers DEF TokensInv
      <3>4. Reads[i] + Cardinality(Logging[i]) <= tokens[m].accesses
        BY <2>2, <3>1 DEF TokensInv, TrailInv
      <3>5. Reads[i] <= tokens[m].accesses
        BY <3>1, <3>3, <3>4
      <3> QED
        BY <3>1, <3>5 DEF Reads
    <2> QED
      BY <2>1, <2>2 DEF AuditTrail
  <1> QED
    BY <1>1, TokensHold, PTL

\* Everything stays in its type; no id is needed beyond those there are.
THEOREM TypeCorrect == Spec => []TypeOK
  <1>1. IInv /\ TokensInv => TypeOK
    BY DEF IInv, Frame, WebhookInv, MerchantInv, TokensInv, TypeOK, RequestsTypeOK
  <1> QED
    BY <1>1, InvariantHolds, TokensHold, PTL
=============================================================================
