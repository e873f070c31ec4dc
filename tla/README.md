# Verification of the GLAM back end

GLAM is a set of Python services for merchants' shops. They talk through NATS
JetStream: every service runs *listeners*, poll loops over durable consumers of
the stream `GLAM_EVENTS`, whose `on_message` coroutines work on the service's
own database and publish further events. This directory holds TLA+ models of
that system, the TLC runs that check them, and theorems TLAPS proves about them.

    tlc  -workers 2 -config MCListener.cfg MCListener     # a run
    tlapm ListenerProofs.tla                              # a proof module

## 1. Inventory

| part | state it keeps | operations | what makes it hard |
|---|---|---|---|
| `shared/messaging` listener | durable consumer (server), poll task, fetched batch | start, stop, fetch, handle, ack, nak | lost acks, ack_wait against serial batches, crashes, retries that run out |
| `shared/messaging` publisher, JetStream client | stream configuration | publish_event, ensure_stream | whichever service starts first configures the stream (`evt.*` or `evt.>`) |
| notification-service | `notifications`, unique on the event | process_event, _send_email, email_sent | email sent before it is recorded, racing instances, two sessions on one row |
| credit-service | `credit_accounts`, `credit_transactions` | create account, grant trial, grant purchase, refund, consume | unlocked grants against locked consumption, redelivery, event order |
| billing-service | accounts, payments, products | create account, activate trial, create charge, purchase updated / refunded, expire | unlocked check-then-set, late webhooks against expiry, commit then publish |
| merchant-service | `merchants` | sync, uninstall | find-or-create race, status overwritten, commit then publish |
| webhook-service | webhook entries, unique on the webhook id | receive | stored before published: a failed publish looks like a duplicate afterwards |
| catalog-service, catalog-connector, catalog-ai-analyzer | sync operations, items, progress cache | start sync, process batch, progress | one sync per merchant, progress counted under redelivery |
| selfie-service, selfie-ai-analyzer | analyses, unique on the image hash | create, process, claim, sweep | jobs that die with the process, one workspace for all runs of an analysis, removals that fail |
| season-compatibility-service | scores per item | compute, upsert | floating-point scores |
| recommendation-service | matches and items | create recommendation | match, items and event are three separate steps |
| token-service | tokens, access log | store, get, delete | access recorded for a token deleted meanwhile |
| analytics-service | counters | record events, aggregate, clean up | counting deliveries instead of events |

The services interact by events only, with two exceptions: selfie-service calls
its analyzer over HTTP, and recommendation-service calls
season-compatibility-service. The event chains that matter most:

* webhook -> merchant (uninstall) and webhook -> billing (purchases);
* merchant.created -> billing (account) and -> notification (welcome email);
* billing.record.created / trial.activated / purchase.completed /
  purchase.refunded -> credit, and recommendation match.completed -> credit;
* credit events -> notification and analytics.

What correctness means for each part: the listener loses no event while it has
deliveries left and skips none; a notification claims no email that was not
sent and repeats none without a cause; credits never go negative, are consumed
once per match and only out of a grant; a payment reaches one final status and
is announced with it; a merchant's status follows the last thing that happened;
a webhook is published at least once; one sync runs per merchant.

Of the later services: a sync is counted from its row, and who polls it sees it
go back in one known case at most; no analysis is left processing; a photo stays
on the analyzer's disk while a run needs it and not much longer; a
match has the items it says it has; an item has the scores of its newest
analysis; no counter exceeds what there is to count, and a day that is over is
counted once and for all; every access to a token is on the log.

`PROJECT.json` lists every hazard with its line and the properties that cover it.

## 2. Modules

    HandlerRuns      what an on_message coroutine may rely on   (abstract)
      ^ implemented by
    Listener         the poll loop and its consumer     MCListener, ListenerProofs
      | HandlerRuns is composed with
    Notification     process_event over HandlerRuns     NotificationProofs
    CreditLedger     CreditService over HandlerRuns     MCCreditLedger, CreditLedgerProofs
    Billing          BillingService over HandlerRuns    MCBilling, BillingProofs
      | implements
    PaymentLife      the life cycle of a payment        (abstract)
    Requests         coroutines of any service over HandlerRuns     RequestsProofs
      |-- Webhook, Merchant, Tokens                     MCShops, ShopsProofs
      |-- CatalogSync, Connector, CatalogAI,
      |   Selfie, SelfieAI                              MCPictures, PicturesProofs
      `-- Recommendation, Compatibility, Analytics      MCMatches, MatchesProofs

A step is what happens between two awaits at which another coroutine or process
can change what the run looks at: one database statement, one Redis call, one
HTTP call, one publish. Which faults of the code a model takes up follows one
rule. A fault that keeps a service from being loaded or a handler from being
entered (a missing import, a listener handed an envelope for a dict, arguments
in the wrong order) is looked past, and the handler is modelled at its own
signature; otherwise there would be nothing to model. A fault *inside* a handler
is modelled as what it does: an exception at that line, with everything written
before it. Calls of libraries outside the repository do what the code takes them
to do. Section 5 lists both kinds.

### HandlerRuns

The contract between delivery and the services: an event is handed to
`on_message` at most `MaxDeliver` times, an instance runs one handler at a
time - and nothing more. Two instances may run handlers of one event at once,
and a run may end anywhere. Two variables: `begun`, how often the handler was
called for each event, and `open`, the event each instance is working on.
Service modules take `Begin` and `End` from here, so everything shown about
them holds over the listener that exists.

### Listener (`shared/shared/messaging/listener.py`)

`srv` and `deliv` are the consumer's record of each message (absent, ready,
pending, acked, spent; times delivered); `pc`, `batch` and `cur` are an
instance's poll task. Actions follow the code: `Start`, `Stop`, `Fetch`,
`FetchRaises` (any exception but a timeout ends the loop), `TakeNext`,
`OnMessageReturns` / `OnMessageRaises`, `Ack` / `AckRaises`, `Settle` (ack of
the last delivery, else nak) / `SettleRaises` (falls into the outer except),
`Discard` / `DiscardRaises`. An ack or nak may be lost on the way, which is the
choice in `AckSent` and `NakSent`; `AckWaitExpires` is the server's timer.
`started`, `good`, `lost`, `nakRaised` only record what happened.

`MCPictures` puts the five services that work on pictures together, and is run
twice: with `ProductWork` (what the catalogue's services do) and with `PhotoWork`
(what the selfie services do).

### Notification (`services/notification-service`)

`Start` is `on_message`, and `Entry` what its listener makes of an event before
`process_event`: merchant's takes a type it has no branch for, or a payload that
does not validate, as done (`Returns`); credit's ignores unknown types too, but
raises on a bad payload (section 5); billing's and catalog's raise on every event,
because they call `get` on the envelope. After that, one run of `process_event` per
instance: `Find`, `Bump` (the retry's flushed, uncommitted update: it takes the
row's lock), `Create`, `Refind` (after an
IntegrityError), `SendOk` / `SendFails` (also: accepted, answer lost),
`MarkSent` / `MarkRaises`, `MarkFailed`, `Finish`, and `Announce` or `Raises`
for `email_sent`. `lock` is the uncommitted outer update; the inner session of
`_send_email` waits for it like any other session (`RowFree`). `Dies` is a
crash or database error anywhere. The database is PostgreSQL at READ COMMITTED;
a statement and the commit right behind it are one step.

### CreditLedger (`services/credit-service`)

A poll task per process and subject. `Start` is `on_message`; the events of
billing except refunds go `Get` -> (`Insert` | `Check` -> `Grant`) without a
lock, refunds and matches go `Lock` -> `Refund` | `Consume` under
`SELECT ... FOR UPDATE`. `snap` is the account as the run's session has it: a
grant writes back what it computed from it, and only the columns it changed
(`Written`), as SQLAlchemy does. `Publish` is the end of every successful run:
all methods of CreditEventPublisher build `MerchantIdentifiers(id=...)`, which
does not validate, so the commit stands and the handler raises. `account[m].id`
is any uuid, possibly m's own, since `get_account` compares it with m's.

### Billing (`services/billing-service`)

`account` and `status` are the two tables, `pc` and `read` what a run is doing
and has read of `total_spend_usd`. `FindRecord`/`InsertAccount` are
`handle_merchant_created` (the unique key decides between two runs);
`LookAtTrial`/`ActivateTrial` are the unlocked check and the write of
`activate_trial`; `FindCharge` -> `MarkCompleted` -> `ReadSpend` ->
`CountAndCommit`, or `MarkFailed`, are `handle_purchase_updated`, whose flushed
payment stays locked (`Unlocked`) until the commit; `FindRefund`/`MarkRefunded`
are the refund, which looks at no status; `Expire` is the hourly `UPDATE ...
WHERE status = 'pending'`; `Publish` is the event after the commit, which may
raise before or after the server has it; `Dies` is an error or crash at any
await. `acts`, `atLook` and `tallied` only record what happened.
`PaymentLife` is the abstract promise: a payment leaves PENDING for good, is
completed or failed only by a handler that saw it PENDING, and only what is
PENDING expires.

### Requests

What the service modules below share: `begun` and `open` of HandlerRuns, where
each coroutine is (`pc`), what it carries (`mem`). `Start` takes up a piece of
work under its `kind`, `Goes` and `Ends` move a run on. No two of these services
share a table, and no message of one reaches another in this repository (their
subjects, payloads or headers differ, section 5), so a run with several of them
explores one at a time (`OneService`): the product would only multiply states.

### Webhook, Merchant, Tokens

`Webhook`: `FindEntry`, `StoreEntry` (unique violation = a duplicate after all),
`AnnounceWebhook`, which raises for every topic that has an event. `news` counts
the runs that were told a webhook is new, `answered` the 200s.
`Merchant`: a session keeps the row it loaded, and a commit writes back only the
columns it changed; that is what a sync (`SyncFind`, `CreateMerchant`,
`UpdateFromSync`) and an uninstall (`UninstallFind`, `UpdateStatus`) do to each
other. `AnnounceSync` and `AnnounceUninstall` publish two events one after the
other and may stop after the first. `overlapped` records domains whose row an
uninstall and another run had loaded at one time.
`Tokens`: `StoreToken`/`LogWrite`, `FindTokens` -> `LogFailure` or
`UpdateAccess` -> `LogRead` -> `HandOut`, `DeleteToken`/`LogDelete`, and
`RotateKey`, a restart with another key. Encryption is whether the key is the one
the row was written with.

### CatalogSync, Connector, CatalogAI

`CatalogSync`: `CheckRunning` -> `CreateSync` -> `CacheStart` are `start_sync`;
`StoreItems` -> `ReadProgress` -> `WriteProgress` -> `CacheProgress` are
`process_product_batch`, with the database row (`syncs`) and the Redis key
(`cache`) apart; `CacheExpires` is the key's TTL. A poll is a run like the others:
`PollCache` awaits Redis and, if the key is not there, `PollRow` the row, whatever
batches do in between. `StoreResult` -> `MarkAnalyzed` are the AI's results, one for
an item and a model version. `tally` records what the batches brought and whether two
counted at a time, `cut` the results whose handler ended between the two statements,
`shown` the last answer the polls of a sync got from the cache, and from the row.
`Connector`: `Authenticate` and `FetchPage` with what can come out of a call,
turned into exceptions as adapters and client do, and then into ack or nak.
`CatalogAI`: validation, download with retries, colour extraction beside AI calls
with retries, and the timeout over both. Of these two, which exception comes out of
which failure and how often a call is tried serve `RunsFinish` and the types only.

### Selfie, SelfieAI

`Selfie`: `FindByHash` and `CreateAnalysis`, whose INSERT the schema refuses
(section 5), so the rows are those that came with the table; over them the job
(`AskAnalyzer`, `Answer`, `UpdateWithResults`, `MarkFailed`), as it would be run for
such a row, the sweeper (`Sweep`) against ageing rows (`Time`), death and restart of
the process, which takes its jobs with it. `SelfieAI`: the workspace on disk, one for
all runs of an analysis, three pipelines over one thread pool (`ThreadTakes`,
`ThreadEnds`), the timeout of each (`PipelineTimesOut`: a running thread becomes a
`stray`, a queued one is taken back) and over all (`TotalTimeout`), `Cleanup` an hour
later, stop and death of the process. A removal may fail, in `Cleanup` and in
`AnalyzerStops`, and is not tried again. `abandoned` records the workspaces a death
or a failed removal has left since the analysis was last sent, `shared` those a run
entered while another was at work there or its cleanup was due.

### Recommendation, Compatibility, Analytics

`Recommendation`: the call for items, the match, its items one transaction each,
the announcement that raises; `RecommendationFails` cuts a run short anywhere.
`Compatibility`: which analysis an item's row was computed from; `crossed` records
items for which an older result came back after, or ran beside, a newer one.
`Analytics`: each event's raw row, fact row and counters statement by statement,
the unlocked find-then-write of product counters, the credit increment without a
row of its own, the daily job in its three statements, the end of a day.

## 3. Runs

| run | bounds | shows |
|---|---|---|
| `MCListener` | 2 instances, 1 event + 1 non-envelope, 3 deliveries, batch of 2 | `NoSilentDrop`, `NoCopyForgotten`, `ImplementsHandlerRuns`; 730,185 states |
| `ListenerLive` | the same, 2 deliveries, batch of 1 | `EventuallyDone`; 59,138 states |
| `Notification` | 2 instances, 3 deliveries; 1 event, 1 of credit without recipient, 1 of a type nobody handles | `NoFalseReceipt`, `DuplicateNeedsCause`, `RetryFreezesRow`, `RunsEndOrBlock`; 162,444 states |
| `NotificationRetry` | 2 instances, 3 deliveries; 1 event, 1 of credit that does not validate | `EveryRunEnds` is violated |
| `MCCreditLedger` | 1 merchant, 1 event per subject, 2 deliveries, 6 poll tasks (2 for matches) | `NeverNegative`, `ConsumptionOnLedger`, `SpendsNeedGrants`, `WaitsAreShort`; 371,304 states |
| `CreditGrants` | the same | `GrantsReachAccounts` is violated |
| `CreditAmounts` | the same | `AmountsPositive` is violated |
| `MCBilling` | 1 merchant, 2 payments (one may expire), an unknown charge; 10 things to do, any 3 of them, each up to twice, 2 coroutines | `RepeatsNeedOverlap`, `SpendExactUnlessRaced`, `EventsHaveCauses`, `ImplementsPaymentLife`, `RunsEnd`; 158,754 states |
| `MCShops` | 3 webhooks; 1 shop under 2 domains; 1 token, plain or expiring, 2 keys; any 3 of 12 things to do, each up to twice, 2 coroutines | `OneRunOwnsAWebhook`, `EventsInOrder`, `TimesAgreeUnlessOverlapped`, `AuditTrail`; 336,494 states |
| `MCCatalog` (`MCPictures`, `ProductWork`) | 1 merchant, 2 products, an empty batch; 3 platforms; 3 downloads and AI calls; any 3 of 14 (a poll and results of 2 model versions among them), each up to twice, 2 coroutines | `SecondSyncNeedsOverlap`, `CountExactUnlessRaced`, `ResultsReachItems`, `PollsGoBackOnlyToCache`, `RunsFinish`; 184,611 states |
| `MCSelfies` (`MCPictures`, `PhotoWork`) | 2 photos, 2 workspaces, 2 threads, 1 death; any 3 of 7, each up to twice, 2 coroutines; the analyzer with an empty table of analyses | `PhotosAreCleared`, `WorkspaceOutlivesRun`, `AnalysesSettle`; 311,407 states |
| `MCMatches` | up to 2 items a match, 2 results of an item, 2 days, 2 products; any 2 of 11, each up to twice, 2 coroutines | `MatchesWholeOrCut`, `NewestUnlessCrossed`, `CountedAtMostOnce`, `DailyCountsFinal`; 985,670 states |

*Why these bounds are enough.* Two instances or coroutines are what it takes for
any race of two copies; three deliveries are the listener's own `max_deliver`, so
first, middle and last delivery differ; where only "again" matters, two are
enough. A batch of two is the smallest in which one copy waits while another is
handled. In the credit run the amounts are chosen so that one grant covers one
match, the refund asks for more than was bought, and grants can interleave with
both. In the service runs `MaxWork` bounds how many *different* things are
submitted: three are a first doing, a second that overlaps it and a third that
meets what they left (a trial needs its account first; a payment its verdict,
refund and expiry). Two merchants, shops or syncs add nothing that one row does
not show to TLC, and the theorems cover any number. Two days are a day that is
counted and the day on which that is done; two threads for three pipelines are
the smallest pool one of them waits for. Symmetry is used on instances,
respectively on the two match tasks, in runs without liveness.

*Deadlock.* All runs but the listener's say `CHECK_DEADLOCK FALSE`: what there is
to do is bounded, and once every event has used up its deliveries nothing is
left. In the notification run, besides, every instance can be stuck in a retry -
that is finding 1 - though `Dies` still ends it. In the listener a message may
always be published, a process stopped or started again. That runs do not wait
for each other is `WaitsAreShort`, `RunsEnd`, `RunsFinish` and `RunsEndOrBlock`.

*Fairness.* `Listener!FairSpec`: the event loop resumes a poll task whose await
has completed (weak fairness of `PollTask`), which includes that `on_message`
returns or raises, and the server's `ack_wait` passes (weak fairness of
`AckWaitExpires`). Nothing is assumed about starting or stopping, so
`EventuallyDone` assumes that some task stays alive. Whether `on_message` really
ends is a question for the service models, and for notification-service the
answer is no. `Notification!FairSpec`, `Billing!FairSpec` and `MCPictures!Spec`, of products:
weak fairness of a run's own steps, because the event loop comes round to every
coroutine whose await is done, the database answers or fails, and every HTTP
client in that code has a timeout. Crashes and new deliveries are not fair.
`MCPictures!Spec`, of photos: time passes, the sweeper's loop comes round while its process
is up (it catches what a round raises), and `restart: unless-stopped` starts the
process again; the analyzer's answer and the job itself are *not* fair, so
`AnalysesSettle` owes nothing to them.

## 4. Properties

* `NoSilentDrop`: an event leaves the consumer for good only if `on_message`
  returned for it, its last delivery was handled, it was no envelope - or a
  nak raised, in which case the outer `except` acks it with retries left.
* `NoCopyForgotten`: every delivery counted by the server was handled, waits in
  a batch, was no envelope, or went down with the task that held it.
* `ImplementsHandlerRuns`: `Listener` refines `HandlerRuns`.
* `EventuallyDone`: with one live task, every event is acked or used up.
* `NoFalseReceipt`: SENT, delivered_at and notification.email.sent only after
  the provider took an email.
* `DuplicateNeedsCause`: redelivery alone never repeats an email; a second one
  needs overlapping runs or an acceptance that was not on record.
* `RetryFreezesRow`, `RunsEndOrBlock`: what a retry does to its row, and that
  this is the only thing that stops a run.
* `NeverNegative`: no lost update of a grant makes a balance negative. It holds
  because only locked handlers deduct, and grants only ever write a column up
  from a sound value.
* `ConsumptionOnLedger`: the consumption counters are exactly the match
  transactions, under every redelivery and overwrite.
* `SpendsNeedGrants`: no match is paid without a grant on the ledger.
* `WaitsAreShort`: a lock holder waits for nothing; each holds one row.
* `RepeatsNeedOverlap`: a run that goes on to activate a trial or to count a
  payment looked before that had ever been done; a redelivery or a repeated
  request that does not overlap does nothing twice.
* `SpendExactUnlessRaced`: the total is the sum of the purchases counted, unless
  two of them held it at one time.
* `EventsHaveCauses`: what billing has published stays true of its tables.
* `ImplementsPaymentLife`: `Billing` refines `PaymentLife`. Late verdicts and
  refunds may overwrite anything, but nothing comes back to PENDING and no expiry
  takes back a decision.
* `OneRunOwnsAWebhook`: one run at most is told to publish a webhook, and nobody
  is answered 200 before it is stored.
* `EventsInOrder`: whoever hears `merchant.synced` of a first sync finds
  `merchant.created` on the stream; a change of status follows its uninstall.
* `TimesAgreeUnlessOverlapped`: UNINSTALLED and `uninstalled_at` go together
  unless an uninstall and another run had the row loaded at one time.
* `AuditTrail`: accesses counted, logged and handed out stay in step through
  replacement, deletion and key rotation.
* `SecondSyncNeedsOverlap`, `CountExactUnlessRaced`, `ResultsReachItems`: what of
  catalog-service survives its unlocked reads, and the exact interleaving that
  breaks each.
* `PollsGoBackOnlyToCache`: unless two batches counted at one time, what a poll can
  read next is behind no answer given before, with one exception: the row may have
  answered a poll that found no key with more than the cache still holds for the
  next one. Between any other two answers a sync does not go back.
* `PhotosAreCleared`: no photo stays on the analyzer's disk unless a run works on it,
  its cleanup is due, or, since it was last sent, the process was killed or a
  removal failed - after which nobody comes back for it.
* `WorkspaceOutlivesRun`: no cleanup takes the photo from under a run's pipelines,
  unless the same analysis was sent again while an earlier run of it was at work or
  waited for its cleanup: then that cleanup, an hour after the first run, may.
* `AnalysesSettle`: no analysis stays PROCESSING, whatever dies.
* `MatchesWholeOrCut`: a match lacks items only while its run stores them or
  after it was cut short.
* `NewestUnlessCrossed`: an item has the scores of its newest analysis, unless
  results crossed.
* `CountedAtMostOnce`: redelivery and overlap never push a counter above the facts.
* `DailyCountsFinal`: what the daily job wrote about a day is and stays the count
  of what was stored on it. Rows are dated by the database's clock when they are
  inserted, which is why an event stored between the job's queries cannot be missed.

The form "unless two runs overlapped" is deliberate. Where the code reads, awaits
and writes without a lock, the plain statement is false, and saying so once is
enough; what is worth knowing is whether that overlap is the *only* way to break
it, and redelivery, retries, crashes and expiry are not.

## 5. Findings

1. **A retry hangs** (`NotificationRetry`). `process_event` updates the row,
   keeps the transaction open, and awaits `_send_email`, whose session updates
   the same row. The run waits for itself; the listener's task is stuck until
   the process restarts. `process_event`'s docstring counts on three retries.
   A side effect: the attempt count never grows, so FAILED is never written.
2. **Grants find no account** (`CreditGrants`). `get_account` uses
   `session.get`, a lookup by `id`; accounts are created under a fresh uuid4.
   For the same reason `create_account` never sees an existing account and
   relies on the unique key.
3. **Transactions of amount 0** (`CreditAmounts`), which the model's comment
   excludes.

Met on the way, and what the models do about it. Looked past, because nothing
would be left to model:

* The listeners of all services but notification take `data: dict` and are given
  an `EventEnvelope`: they raise on every delivery, and the event is dropped
  after the third (`on_error`, the dead-letter queue and `publish_to_dlq` are
  never reached). The models hand handlers what their signatures say.
* `evt.credits.*` is published, `evt.credit.>` is listened to; other subjects
  differ likewise. `merchant.created` carries no `identifiers`, so
  notification-service acks it without an email.
* Several services cannot be imported (missing modules of `shared`, files named
  `analysis.py.py` and `aggregation_jobs,py`, names that do not exist); merchant's
  API and listener call the service with the wrong arguments; analytics builds its
  AggregationService without `analytics_repo` and passes arguments Prisma does not
  take; connector and catalogue AI lack names their modules use.
* selfie-service sends `X-Internal-API-Key` where the analyzer wants a bearer
  token, and recommendation-service another header and answer than
  season-compatibility has: composed as they stand, no analysis succeeds and no
  match has items. Both models also take the answer the client is written for.

Modelled, because they are part of what a handler does:

* notification: the billing and catalog listeners take the envelope for a dict like
  the listeners above, and raise on every event (the other two take it for what it
  is). The credit listener imports
  `ValidationError` from `shared.utils.exceptions`, which is not the one pydantic's
  `model_validate` raises: bad data is redelivered until it is given up, though the
  handlers return with "Don't retry bad data" (`credit_events.py:146`).
* billing: `create_charge` raises TypeError on `product.metadata` before it writes;
  `purchase.completed` and `purchase.refunded` cannot be serialised; nothing
  stores `platform_charge_id`, so webhooks find only rows that came with the table.
* webhook: every publisher method passes `data=`, which `publish_event` does not
  take. The entry is stored, the event is lost, the retry is answered 200.
* merchant: `STATUS_TRANSITIONS` is never consulted.
* token: a token with `expires_at` is logged as read, then compared with a naive
  time and never handed out.
* catalogue: no sync completes (`complete_sync` does not exist), so a merchant's
  first sync is its last; `total_products` stays 0 and progress jumps to 90.
  shopify's errors turn into NameError; a retryable error is naked, the rest acked.
  Without any race between batches a poll can go back: it misses the cache
  (`catalog_service.py:93`), a batch writes the row, it answers from there (`:98`),
  and the next poll finds what the batch before had cached.
* selfie: no photo is ever stored. The id is `ana_` and 12 digits for a column of
  type uuid (`selfie_service.py:74`, `schema.prisma:19`), the hash the merchant's id
  and 64 digits for one of 64 characters (`:57`, `schema.prisma:32`), so the INSERT
  is refused and no lookup finds a row. Were it stored, announcing the start would
  raise and drop the background job; storing a result and claiming raise for want of
  `timezone`.
* selfie analyzer: a workspace that cannot be removed is logged and forgotten, an
  hour after the run (`temp_manager.py:31`) and at shutdown (`:40`).
* season-compatibility and recommendation: announcing raises, and so does
  announcing the failure, so every result is delivered until it is given up.
* analytics: today's daily row exists only from the next day's job on; credit
  usage counts deliveries.

## 6. Proofs

`ListenerProofs` proves `TypeOK`, `NoSilentDrop`, `NoCopyForgotten` and
`ImplementsHandlerRuns` for all messages, instances, batch sizes and delivery
limits, from the named assumptions in `Listener` (positive limits, `Invalid` a
set of messages, `None` distinct). The inductive invariant `IInv` adds what the
properties silently rely on: a ready message has deliveries left, a task holds
a copy exactly in its handling states, no copy is ahead of the server's count,
a copy in a batch is in one batch only and was not run (without which the count
of runs could stand still while `open` changes), and how a copy came to be
acked. Refinement is proved step by step: `OnMessage...` map to `End`, `TakeNext`
to `Begin`, `Stop` to `End` or a stutter, the rest to stutters; the bound on runs
is the cardinality of a subset of 1..MaxDeliver that misses the new delivery.

`CreditLedgerProofs` proves `TypeOK`, `NeverNegative`, `ConsumptionOnLedger`,
`SpendsNeedGrants` and `WaitsAreShort` for any merchants, events and tasks. The
assumptions: events are records of the right types, each task has one subject,
`None` is distinct, and trial grants are positive (billing publishes its constant
`TRIAL_CREDITS`; purchases are checked by the handler itself). `NeverNegative` is
not inductive. The key strengthening is `Sound`, of rows *and* of what runs have
loaded: pools are non-negative and a positive balance means a positive pool -
this is what makes `consume_credit`'s look at `balance` enough before it takes
one off a pool, although an unlocked grant may leave `balance` and pools apart.
`LockedRuns` says that under the lock a run's copy is the row itself, `GrantRuns`
that unlocked writers only add, `Funded` that credits come from recorded grants.

`NotificationProofs` proves all of `Notification`'s safety. The strengthening says
what runs and rows know of each other: `LocksOfRetries` (a lock is a retry's
uncommitted update), `ReceiptsOfRuns` (who is about to write SENT has sent),
`RetriedRows`, `OneRun` and `NotSentBefore` (without an overlap on record a run is
alone with its event, and the email it is about to send is the first), `OnRecord`.

`BillingProofs` proves `TypeOK` and four properties for any merchants, payments and
work. Per run, `AtWork` says what it works on, `HasCause` that who is about to
publish has committed it, `LooksInTime` that who looked found nothing done;
`ActsShow` that what was done shows in the tables (without it `LooksInTime` does
not survive a second run's commit), `Totals` that a run counting alone read the
total as it is, `Causes` is `EventsHaveCauses`. The refinement maps each action to
`Look`, `Decide`, `RefundIt`, `ExpireAll`, `Leave` or a stutter.

`RequestsProofs` is the frame every service needs: coroutines are idle between runs
and only then, a step of one leaves the others where they are, and when a process
dies all of its runs end at once (`GoneFrame`).

`ShopsProofs`: of a webhook, `news` is 1 exactly if it is stored (so the unique key
makes the owner unique); of a merchant, what a run has loaded is what the row says
unless the domain is on record as overlapped, and who is to publish the second
event has published the first. `AuditTrail` is about totals, and totals move while
runs are under way: its invariant `TrailInv` counts those runs. What was handed out
and the runs about to hand out (`HandingOut`) are no more than the logged reads; the
reads and the runs about to log one (`Logging`) no more than the accesses counted on
the rows. `IdsInv` keeps ids apart, by the deliveries that store requests have used
up (`Spent`). The lemmas about cardinalities of such sets of runs are in
`RequestsProofs`.

`MatchesProofs`: a run that stores items owns the match it fills; an item's row is
the newest unless crossed, because a run that is not crossed is at least as new as
everything begun before; the daily job has counted rows of a day that is over, and
rows are only dated today. `CountedAtMostOnce` follows from `CountInv`, in the same
way as the audit trail: a counter and the runs about to add to it (`SeasonAhead`,
`AnalysisAhead`, `MatchAhead`, `ProductAhead`) together never exceed the facts
stored, so a run that adds uses up a fact nobody else has counted. The fact is
stored before its run counts, under a unique key, and that is why no redelivery can
add twice.

`PicturesProofs`, of products: `Exact(s)` - unless two batches raced, the row holds the tally, the
cache is not ahead of the row, and the one run that counts started from the row;
`Starting` and `Fresh` - a new sync belongs to its start until its progress is
cached, so that no cached "pending" can follow a "running". `PollsGoBackOnlyToCache`
needs them all: `InOrder` of a sync, over the answers polls have had, is kept because
a write of the row only adds to what the run read, and by `Exact` that is the row;
because what a run caches is the row it wrote, which no answer from the cache is
ahead of; and because a poll that takes its answer from either leaves it no more
behind than itself. The theorem is `PollsAreOrdered`. `CreateSync`'s guard `created < MaxSyncs` bounds
the set of ids only; no start creates more than one sync. `Placed` says that a run is
in the code of the service its work is for, which keeps the five services out of each
other's tables.

`PicturesProofs`, of photos: `SelfiesInv` adds `JobsHaveRows` to the types - a job's
row is there from the start and no row is ever deleted.
`AnalyzerInv` holds three facts that only hold together: `PipelinesRun`, what a run
among its pipelines carries; `PoolKept`, that threads at work and threads left
behind by a timeout (`stray`) are no more than the pool has, whatever the order of
timeouts, stops and ends - a theorem in its own right, `PoolNeverOverfull`; and
`PhotosAreCleared`, which is inductive only beside them (`PhotosGetCleared`): a failed
removal or a death puts on record exactly what it leaves, and only a new request takes
it off again, by going to work there.
`WorkspaceOutlivesRun` is not inductive: it says nothing of the cleanups that are due.
`Alone` adds that a run whose workspace is not on record as shared is the only one
there and no cleanup of it is due, so the next `Cleanup` is of another one
(`WorkspacesLast`).

The assumptions are named: `MaxDeliverAssumption`, `BatchSizeAssumption`,
`DeliverAssumption` and their like on limits,
`SubjectsAssumption` (merchant and payment ids are different things),
`ShopsAssumption`, `KindsAssumption`, `MatchesAssumption` (which kinds of work
each service is given), `ListenersAssumption` (no event belongs to two of
notification's listeners), `FiniteAssumption` (coroutines are finitely many, so that
runs can be counted), `StatusAssumption` (`None` is no status), `ProductsAssumption`
(a batch is finite). TLC evaluates each.

Every safety property, action property, refinement and type invariant of a passing
run is proved. Only model-checked: what needs fairness (`EventuallyDone`,
`RunsEndOrBlock`, `RunsEnd`, `RunsFinish`, `AnalysesSettle`), which the prover does not
reach; and the three violations, which are counterexamples.

## 7. Not modelled

Contents of emails and events, template rendering, HTTP plumbing, authentication
beyond whose token it is, configuration, logging, encryption; image processing,
colours and season scores, which are floating-point computations and appear as one
nondeterministic outcome; averages and rates in analytics, its read API and the
weekly deletion of raw events; read-only queries of every service. `JetStreamClient`:
`ensure_stream` at start-up (whichever service comes first decides between `evt.*`
and `evt.>`), reconnection, and the stream's own limits; the listener models start
from a stream that has its events. Serialization failures are part of `Dies`.

## 8. Plan

Done: every service that keeps state, and the proof of every safety property checked.

Left: a `Stream` module for start-up and retention (the one hazard without a property,
`credit-service/src/lifecycle.py:66`); once the services' subjects and payloads agree,
compositions along the event chains of section 1, billing with `CreditLedger` first.
