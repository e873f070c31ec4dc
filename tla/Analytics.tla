------------------------------ MODULE Analytics ------------------------------
(***************************************************************************)
(* services/analytics-service, for one merchant: every event is stored raw *)
(* and counted by its day; at 00:30 the day before is aggregated into its  *)
(* daily row, from what was stored on that day.                            *)
(*                                                                         *)
(* The statements are taken to do what they are written for, also where    *)
(* the client library has no such argument (select, order_by, aggregate).  *)
(***************************************************************************)
EXTENDS Requests

CONSTANTS ProductsOf,   \* the products each match brings
          MaxDay        \* a bound: days, fewer than the 90 a raw event is kept

ASSUME AnalyticsAssumption == MaxDay \in 1 .. 90

VARIABLES today, ran,      \* the day, and whether its 00:30 job was started
          raw,             \* days of which a raw event is stored
          rows,            \* shopper_analyses and match_metrics: the day each
                           \* was created on, 0: no row
          seasons, hours,  \* season_distributions and hourly_usage_metrics of
                           \* each day an event says it is of
          products,        \* product_match_metrics.total_matches, 0: no row
          used,            \* credit_usage_metrics of each day
          daily, job       \* daily_merchant_metrics, and the job at work on it

analyticsVars == <<today, ran, raw, rows, seasons, hours, products, used, daily, job>>

\* as: the day the event says it is of.
Events == {w \in Work : w.service = "analytics"}
Facts(kind) == {w.of : w \in {v \in Events : v.kind = kind}}
Days == 1 .. MaxDay
Products == UNION {ProductsOf[m] : m \in Facts("match")}

AnalyticsInit == /\ today = 1
                 /\ ran = FALSE
                 /\ raw = {}
                 /\ rows = [f \in Facts("analysis") \cup Facts("match") |-> 0]
                 /\ seasons = [d \in Days |-> 0]
                 /\ hours = [d \in Days |-> [analyses |-> 0, matches |-> 0]]
                 /\ products = [p \in Products |-> 0]
                 /\ used = [d \in Days |-> 0]
                 /\ daily = [d \in Days |-> None]
                 /\ job = None

-----------------------------------------------------------------------------
(* on_message of the four listeners.                                       *)

AfterRaw == [analysis |-> "find", match |-> "find", credits |-> "use", sync |-> "set daily"]

\* record_analytics_event: an error is logged.
StoreRaw(t) == /\ pc[t] \in DOMAIN AfterRaw
               /\ raw' \in {raw, raw \cup {today}}
               /\ Goes(t, AfterRaw[pc[t]], None)
               /\ UNCHANGED <<today, ran, rows, seasons, hours, products, used, daily, job>>

\* What is counted of a new row.
Counts(t) == IF open[t].kind = "analysis"
               THEN Goes(t, "season", None)
               ELSE Goes(t, "products", [todo |-> ProductsOf[Of(t)], found |-> None])

\* Mutant of FindRow: a duplicate is passed over in silence.
FindRowQuietly(t) == /\ At(t, "find")
                     /\ IF rows[Of(t)] = 0 THEN Goes(t, "create", None) ELSE Counts(t)
                     /\ UNCHANGED analyticsVars

\* A duplicate is a DataConsistencyError, and the event is tried again.
FindRow(t) == /\ At(t, "find")
              /\ IF rows[Of(t)] = 0 THEN Goes(t, "create", None) ELSE Ends(t)
              /\ UNCHANGED analyticsVars

\* analysis_id and match_id are unique.
CreateRow(t) ==
  /\ At(t, "create")
  /\ IF rows[Of(t)] # 0
       THEN Ends(t) /\ UNCHANGED rows
       ELSE rows' = [rows EXCEPT ![Of(t)] = today] /\ Counts(t)
  /\ UNCHANGED <<today, ran, raw, seasons, hours, products, used, daily, job>>

CountSeason(t) == /\ At(t, "season")
                  /\ seasons' = [seasons EXCEPT ![open[t].as] = @ + 1]
                  /\ Goes(t, "hour", None)
                  /\ UNCHANGED <<today, ran, raw, rows, hours, products, used, daily, job>>

\* update_product_metrics, product by product: found, then written.
FindProduct(t) ==
  /\ At(t, "products")
  /\ mem[t].found = None
  /\ IF mem[t].todo = {}
       THEN Goes(t, "hour", None)
       ELSE LET p == CHOOSE q \in mem[t].todo : TRUE IN
            Goes(t, "products", [mem[t] EXCEPT !.found = <<p, products[p]>>])
  /\ UNCHANGED analyticsVars

\* The row found is written back with one match more, or a first row is
\* created, which fails when there is one by now; errors are logged.
WriteProduct(t) ==
  LET p == mem[t].found[1]
      total == mem[t].found[2]
  IN
  /\ At(t, "products")
  /\ mem[t].found # None
  /\ \/ UNCHANGED products
     \/ /\ total > 0 \/ products[p] = 0
        /\ products' = [products EXCEPT ![p] = total + 1]
  /\ Goes(t, "products", [todo |-> mem[t].todo \ {p}, found |-> None])
  /\ UNCHANGED <<today, ran, raw, rows, seasons, hours, used, daily, job>>

\* increment_hourly_metrics: the last statement, and its error is logged.
CountHour(t) ==
  /\ At(t, "hour")
  /\ hours' = IF open[t].kind = "analysis"
                THEN [hours EXCEPT ![open[t].as].analyses = @ + 1]
                ELSE [hours EXCEPT ![open[t].as].matches = @ + 1]
  /\ Ends(t)
  /\ UNCHANGED <<today, ran, raw, rows, seasons, products, used, daily, job>>

\* Nothing tells a credit event delivered again from a new one.
UseCredits(t) == /\ At(t, "use")
                 /\ used' = [used EXCEPT ![open[t].as] = @ + 1]
                 /\ Goes(t, "set daily", None)
                 /\ UNCHANGED <<today, ran, raw, rows, seasons, hours, products, daily, job>>

\* update_daily_credit_balance, update_catalog_metrics: the daily row of the
\* event's day, if it is there by then.
SetDaily(t) ==
  /\ At(t, "set daily")
  /\ daily' = IF daily[open[t].as] = None THEN daily
              ELSE [daily EXCEPT ![open[t].as].told = @ \cup {open[t].kind}]
  /\ Ends(t)
  /\ UNCHANGED <<today, ran, raw, rows, seasons, hours, products, used, job>>

\* A statement that raises, or the process dies.
AnalyticsFails(t) == Ends(t) /\ UNCHANGED analyticsVars

AnalyticsStep(t) == \/ StoreRaw(t) \/ FindRow(t) \/ CreateRow(t) \/ CountSeason(t)
                    \/ FindProduct(t) \/ WriteProduct(t) \/ CountHour(t)
                    \/ UseCredits(t) \/ SetDaily(t)

-----------------------------------------------------------------------------
(* The scheduled jobs.                                                     *)

\* Mutant of Yesterday.
Today == today

Yesterday == today - 1

Created(kind, d) == Cardinality({f \in Facts(kind) : rows[f] = d})

\* aggregate_all_merchants_daily: of the merchants with raw events.
DailyJobStarts == /\ ~ran /\ today > 1
                  /\ job = None
                  /\ ran' = TRUE
                  /\ job' = IF Yesterday \in raw
                              THEN [day |-> Yesterday, analyses |-> None, matches |-> None]
                              ELSE None
                  /\ UNCHANGED <<reqVars, today, raw, rows, seasons, hours, products, used, daily>>

CountAnalyses == /\ job # None /\ job.analyses = None
                 /\ job' = [job EXCEPT !.analyses = Created("analysis", job.day)]
                 /\ UNCHANGED <<reqVars, today, ran, raw, rows, seasons, hours, products, used, daily>>

CountMatches == /\ job # None /\ job.analyses # None /\ job.matches = None
                /\ job' = [job EXCEPT !.matches = Created("match", job.day)]
                /\ UNCHANGED <<reqVars, today, ran, raw, rows, seasons, hours, products, used, daily>>

\* What a late event told the row stays in it.
UpsertDaily ==
  /\ job # None /\ job.matches # None
  /\ daily' = [daily EXCEPT ![job.day] =
                 [analyses |-> job.analyses, matches |-> job.matches,
                  told |-> IF @ = None THEN {} ELSE @.told]]
  /\ job' = None
  /\ UNCHANGED <<reqVars, today, ran, raw, rows, seasons, hours, products, used>>

\* The job raises, or is missed, and is not made up for on another day.
DailyJobFails == /\ job # None \/ ~ran
                 /\ job' = None
                 /\ ran' = TRUE
                 /\ UNCHANGED <<reqVars, today, raw, rows, seasons, hours, products, used, daily>>

NextDay == /\ today < MaxDay
           /\ today' = today + 1
           /\ ran' = FALSE
           /\ UNCHANGED <<reqVars, raw, rows, seasons, hours, products, used, daily, job>>

Jobs == \/ DailyJobStarts \/ CountAnalyses \/ CountMatches \/ UpsertDaily
        \/ DailyJobFails \/ NextDay

-----------------------------------------------------------------------------
Stored(kind, d) == Cardinality({w \in Events : w.kind = kind /\ w.as = d /\ rows[w.of] # 0})
MatchesWith(p) == Cardinality({m \in Facts("match") : p \in ProductsOf[m] /\ rows[m] # 0})

\* However often an event comes, and however its runs overlap, no counter
\* exceeds the analyses and matches there are; credit usage does not have this.
CountedAtMostOnce ==
  /\ \A d \in Days : /\ seasons[d] <= Stored("analysis", d)
                     /\ hours[d].analyses <= Stored("analysis", d)
                     /\ hours[d].matches <= Stored("match", d)
  /\ \A p \in Products : products[p] <= MatchesWith(p)

\* A daily row is of a day that is over, and counts what was stored on it,
\* also what is stored while the job counts or after it.
DailyCountsFinal == \A d \in Days : daily[d] # None =>
  /\ d < today
  /\ daily[d].analyses = Created("analysis", d)
  /\ daily[d].matches = Created("match", d)
=============================================================================
