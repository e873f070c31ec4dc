------------------------------ MODULE Merchant ------------------------------
(***************************************************************************)
(* services/merchant-service: MerchantService over the table merchants.    *)
(* A sync names a shop by its domain and carries the platform's shop id;   *)
(* both are unique on the platform.  The flush of an update and the commit *)
(* right behind it are one step, and write the columns the session found   *)
(* changed, with the values it had loaded or computed.                     *)
(*                                                                         *)
(* Runs are modelled with the arguments the service's methods declare; the *)
(* route and the listener pass others (see the README).                    *)
(***************************************************************************)
EXTENDS Requests

VARIABLES merchants,  \* by domain: the platform's shop id, status, and
                      \* whether uninstalled_at is set
          sent,         \* events on the stream
          overlapped    \* history: domains whose row an uninstall and another
                        \* run had loaded at one time

merchantVars == <<merchants, sent, overlapped>>

\* of: the domain; as: the platform_shop_id.
Syncs == {w \in Work : w.service = "merchant"}
Domains == {w.of : w \in Syncs}
ShopIds == {w.as : w \in Syncs}

NoMerchant == [status |-> None]
Known(dom) == merchants[dom] # NoMerchant
MerchantRows == [shop : ShopIds, status : {"PENDING", "UNINSTALLED"}, gone : BOOLEAN]
Sent == [event : {"created", "synced", "uninstalled", "status_changed"},
         of : Domains, first : BOOLEAN, old : {None, "PENDING", "UNINSTALLED"}]

MerchantTypeOK == /\ merchants \in [Domains -> MerchantRows \cup {NoMerchant}]
                  /\ sent \subseteq Sent
                  /\ overlapped \subseteq Domains

MerchantInit == /\ merchants = [dom \in Domains |-> NoMerchant]
                /\ sent = {}
                /\ overlapped = {}

Quiet == UNCHANGED merchantVars

\* Whoever has loaded the row and not written it yet.
Loaded(dom) == {t \in Tasks : pc[t] \in {"update", "retire"} /\ Of(t) = dom}
Loads(t, where) == /\ Goes(t, where, merchants[Of(t)].status)
                   /\ overlapped' = overlapped \cup
                        {dom \in {Of(t)} : \E u \in Loaded(dom) : "retire" \in {where, pc[u]}}
                   /\ UNCHANGED <<merchants, sent>>

SyncFind(t) == /\ At(t, "sync")
               /\ \/ ~ClientAuth(open[t]) /\ Ends(t) /\ Quiet
                  \/ ClientAuth(open[t]) /\ Known(Of(t)) /\ Loads(t, "update")
                  \/ ClientAuth(open[t]) /\ ~Known(Of(t)) /\ Goes(t, "create", None) /\ Quiet

\* The unique keys: on the domain, which another run may have created since,
\* and on the shop id, which a shop keeps when its domain changes.
Taken(w) == \/ Known(w.of)
            \/ \E dom \in Domains : Known(dom) /\ merchants[dom].shop = w.as

CreateMerchant(t) ==
  /\ At(t, "create")
  /\ IF Taken(open[t])
       THEN Ends(t) /\ Quiet
       ELSE /\ merchants' = [merchants EXCEPT ![Of(t)] =
                               [shop |-> open[t].as, status |-> "PENDING", gone |-> FALSE]]
            /\ Goes(t, "announce created", TRUE)
            /\ UNCHANGED <<sent, overlapped>>

\* Mutant of Reinstalled: uninstalled_at is left as it is.
ReinstalledStatus(row) == [row EXCEPT !.status = "PENDING"]

Reinstalled(row) == [row EXCEPT !.status = "PENDING", !.gone = FALSE]

\* Only what the session loaded decides whether this is a reinstall.
UpdateFromSync(t) ==
  /\ At(t, "update")
  /\ merchants' = [merchants EXCEPT ![Of(t)] =
                     IF mem[t] = "UNINSTALLED" THEN Reinstalled(@) ELSE @]
  /\ Goes(t, "announce synced", FALSE)
  /\ UNCHANGED <<sent, overlapped>>

UninstallFind(t) == /\ At(t, "uninstall")
                    /\ IF Known(Of(t)) THEN Loads(t, "retire") ELSE Ends(t) /\ Quiet

\* Mutant of Retired: the status the platform uses.
RetiredAs(row, loaded) == [row EXCEPT !.status = "REMOVED", !.gone = TRUE]

\* The status column is written if it was loaded as something else.
Retired(row, loaded) ==
  [row EXCEPT !.gone = TRUE,
              !.status = IF loaded = "UNINSTALLED" THEN @ ELSE "UNINSTALLED"]

UpdateStatus(t) ==
  /\ At(t, "retire")
  /\ merchants' = [merchants EXCEPT ![Of(t)] = Retired(@, mem[t])]
  /\ Goes(t, "announce uninstalled", mem[t])
  /\ UNCHANGED <<sent, overlapped>>

-----------------------------------------------------------------------------
EventOf(t, event) == [event |-> event, of |-> Of(t),
                      first |-> event = "synced" /\ mem[t],
                      old |-> IF event = "status_changed" THEN mem[t] ELSE None]

\* publish_event raises before or after the server has the event, or returns.
Sends(t, event, next) == /\ \/ sent' = sent \cup {EventOf(t, event)}
                            \/ sent' = sent /\ next = "idle"
                         /\ IF next = "idle" THEN Ends(t) ELSE Goes(t, next, mem[t])
                         /\ UNCHANGED <<merchants, overlapped>>

AnnouncesIn(t, where, event, next) == /\ At(t, where)
                                      /\ Sends(t, event, next) \/ Sends(t, event, "idle")

\* Mutant of AnnounceSync: synced before created.
AnnounceSyncFirst(t) == \/ AnnouncesIn(t, "announce created", "synced", "announce synced")
                        \/ AnnouncesIn(t, "announce synced", "created", "idle")

AnnounceSync(t) == \/ AnnouncesIn(t, "announce created", "created", "announce synced")
                   \/ AnnouncesIn(t, "announce synced", "synced", "idle")

AnnounceUninstall(t) ==
  \/ AnnouncesIn(t, "announce uninstalled", "uninstalled", "announce changed")
  \/ AnnouncesIn(t, "announce changed", "status_changed", "idle")

MerchantStep(t) ==
  \/ SyncFind(t) \/ CreateMerchant(t) \/ UpdateFromSync(t)
  \/ UninstallFind(t) \/ UpdateStatus(t)
  \/ AnnounceSync(t) \/ AnnounceUninstall(t)

-----------------------------------------------------------------------------
\* Whoever hears that a shop was synced for the first time finds
\* merchant.created on the stream as well, although the run may end between
\* the two; and a change of status follows the uninstall it comes from.
EventsInOrder == \A e \in sent :
  /\ e.event = "synced" /\ e.first => \E c \in sent : c.event = "created" /\ c.of = e.of
  /\ e.event = "status_changed" => \E c \in sent : c.event = "uninstalled" /\ c.of = e.of

\* A row says that it is uninstalled just when it says since when, unless an
\* uninstall and another run had it loaded at one time.
TimesAgreeUnlessOverlapped == \A dom \in Domains \ overlapped : Known(dom) =>
  (merchants[dom].status = "UNINSTALLED" <=> merchants[dom].gone)
=============================================================================
