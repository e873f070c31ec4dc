----------------------------- MODULE MCPictures -----------------------------
(***************************************************************************)
(* What is done with pictures: catalog-service, catalog-connector,         *)
(* catalog-ai-analyzer, selfie-service and selfie-ai-analyzer, one of them *)
(* at work in each behaviour (OneService).  ProductWork: two starts of one *)
(* merchant's sync, two batches and the results of their products; a       *)
(* request for each platform; one batch and two items to analyze.          *)
(* PhotoWork: two photos, their jobs and a claim; two photos to analyze,   *)
(* one of them twice.                                                      *)
(***************************************************************************)
EXTENDS CatalogSync, Connector, CatalogAI, Selfie, SelfieAI

ASSUME KindsAssumption ==
  \A w \in Work :
    \/ w.service = "catalog" /\ w.kind \in {"start", "progress", "result"}
    \/ w.service = "catalog" /\ w.kind = "batch" /\ w.as \in DOMAIN Products
    \/ w.service = "connector" /\ w.kind = "fetch"
    \/ w.service = "ai" /\ w.kind \in {"analyze batch", "analyze item"}
    \/ w.service = "selfie" /\ w.kind \in {"create", "job", "claim"}
    \/ w.service = "analyzer" /\ w.kind = "photo"

Item(service, kind, by, of, as) ==
  [service |-> service, kind |-> kind, by |-> by, of |-> of, as |-> as]
MCProducts == [first |-> {"v1", "v2"}, empty |-> {}]
ProductWork ==
  {Item("catalog", "start", "client", "m1", "a"),
   Item("catalog", "start", "client", "m1", "b"),
   Item("catalog", "start", "service", "m1", "a"),
   Item("catalog", "batch", "service", 1, "first"),
   Item("catalog", "batch", "service", 1, "empty"),
   Item("catalog", "progress", "client", 1, "poll"),
   Item("catalog", "result", "service", "v1", "model"),
   Item("catalog", "result", "service", "v1", "newer model"),
   Item("connector", "fetch", "service", "s1", "shopify"),
   Item("connector", "fetch", "service", "s2", "woocommerce"),
   Item("connector", "fetch", "service", "s3", "magento"),
   Item("ai", "analyze batch", "service", "b1", "ids"),
   Item("ai", "analyze item", "service", "i1", "ids"),
   Item("ai", "analyze item", "service", "i2", "no ids")}
PhotoWork ==
  {Item("selfie", "create", "client", "p1", "selfie"),
   Item("selfie", "create", "client", "p2", "selfie"),
   Item("selfie", "create", "client", "p1", "blurred"),
   Item("selfie", "job", "service", "p1", "selfie"),
   Item("selfie", "claim", "client", "p1", "selfie"),
   Item("analyzer", "photo", "service", "a1", "jpeg"),
   Item("analyzer", "photo", "service", "a2", "garbled")}

productVars == <<catalogVars, connectorVars, aiVars>>
photoVars == <<selfieVars, analyzerVars>>
vars == <<reqVars, productVars, photoVars>>

Init == /\ RequestsInit
        /\ CatalogInit /\ ConnectorInit /\ AIInit
        /\ SelfieInit /\ AnalyzerInit

Submits(t) == /\ Start(t)
              /\ open'[t].kind = "batch" => Announced(open'[t].of)
              /\ open'[t].service = "selfie" => up
              /\ open'[t].service = "analyzer" => \A p \in Photos : analyses[p] = NoAnalysis
              /\ open'[t].kind = "job" => JobDue(open'[t])
              /\ UNCHANGED <<productVars, photoVars>>

ProductStep(t) == \/ CatalogStep(t) /\ UNCHANGED <<connectorVars, aiVars, photoVars>>
                  \/ ConnectorStep(t) /\ UNCHANGED <<catalogVars, aiVars, photoVars>>
                  \/ AIStep(t) /\ UNCHANGED <<catalogVars, connectorVars, photoVars>>

PhotoStep(t) == \/ SelfieStep(t) /\ UNCHANGED <<productVars, analyzerVars>>
                \/ AnalyzerStep(t) /\ UNCHANGED <<productVars, selfieVars>>

OnProducts(t) == open[t] # None /\ open[t].service \in {"catalog", "connector", "ai"}
Dies(t) == /\ OnProducts(t)
           /\ CatalogDies(t)
           /\ UNCHANGED <<connectorVars, aiVars, photoVars>>

SelfieHost == /\ Time \/ Sweep \/ SelfieDies \/ SelfieRestarts
              /\ UNCHANGED <<productVars, analyzerVars>>

Host == \/ CacheExpires /\ UNCHANGED <<connectorVars, aiVars, photoVars>>
        \/ SelfieHost
        \/ AnalyzerHost /\ UNCHANGED <<productVars, selfieVars>>

Next == Host \/ \E t \in Tasks : Submits(t) \/ ProductStep(t) \/ PhotoStep(t) \/ Dies(t)

\* Where products are worked on, every await is answered or times out, and
\* the loop comes round to each coroutine that can go on.  Where photos are,
\* nothing is asked of the runs: time passes, a service that died is started
\* again, and the loop comes round to its sweeper.
Spec == /\ Init /\ [][Next]_vars
        /\ \A t \in Tasks : WF_reqVars(ProductStep(t))
        /\ WF_selfieVars(Time) /\ WF_selfieVars(Sweep) /\ WF_selfieVars(SelfieRestarts)

TypeOK == /\ RequestsTypeOK
          /\ CatalogTypeOK /\ ConnectorTypeOK /\ AITypeOK
          /\ SelfieTypeOK /\ AnalyzerTypeOK

\* Whatever fails, times out or is tried again, every run over products comes
\* to its end.
RunsFinish == \A t \in Tasks : OnProducts(t) ~> open[t] = None
=============================================================================
