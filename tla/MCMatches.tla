------------------------------ MODULE MCMatches ------------------------------
(***************************************************************************)
(* Matches and what is counted of them: recommendation-service,            *)
(* season-compatibility-service and analytics-service, one of them at work *)
(* in each behaviour (OneService).  A recommendation asked for twice, and  *)
(* one for no season; two results for an item, also in the wrong order;    *)
(* events of the first of two days, two matches of them of one product.    *)
(***************************************************************************)
EXTENDS Recommendation, Compatibility, Analytics

ASSUME MatchesAssumption == \A w \in Work :
  \/ w.service = "recommendation" /\ w.kind = "recommend"
  \/ w.service = "compatibility" /\ w.kind = "ai result" /\ w.as \in Nat
  \/ /\ w.service = "analytics"
     /\ w.kind \in {"analysis", "match", "credits", "sync"}
     /\ w.as \in Days

Item(service, kind, by, of, as) ==
  [service |-> service, kind |-> kind, by |-> by, of |-> of, as |-> as]
MCProductsOf == [x1 |-> {"q1", "q2"}, x2 |-> {"q1"}]
MCWork ==
  {Item("recommendation", "recommend", "client", "a1", "season"),
   Item("recommendation", "recommend", "client", "a2", "unknown"),
   Item("compatibility", "ai result", "service", "i1", 0),
   Item("compatibility", "ai result", "service", "i1", 1),
   Item("compatibility", "ai result", "service", "i1", 2),
   Item("compatibility", "ai result", "service", "i2", 1),
   Item("analytics", "analysis", "service", "a1", 1),
   Item("analytics", "match", "service", "x1", 1),
   Item("analytics", "match", "service", "x2", 1),
   Item("analytics", "credits", "service", "c1", 1),
   Item("analytics", "sync", "service", "y1", 1)}

vars == <<reqVars, recommendationVars, compatibilityVars, analyticsVars>>

Init == RequestsInit /\ RecommendationInit /\ CompatibilityInit /\ AnalyticsInit

Recommends(w) == w \in Work /\ w.service = "recommendation"

\* The analytics' clock and jobs matter to the analytics alone.
AnalyticsAtWork == \A w \in Begun : w.service = "analytics"

Submits(t) == /\ Start(t)
              /\ CompatibilityBegins(open'[t])
              /\ open'[t].service # "analytics" => today = 1 /\ raw = {}
              /\ UNCHANGED <<recommendationVars, analyticsVars>>

Step(t) ==
  \/ /\ RecommendationStep(t) \/ (Recommends(open[t]) /\ RecommendationFails(t))
     /\ UNCHANGED <<compatibilityVars, analyticsVars>>
  \/ /\ CompatibilityStep(t) \/ (open[t] \in AIResults /\ CompatibilityFails(t))
     /\ UNCHANGED <<recommendationVars, analyticsVars>>
  \/ /\ AnalyticsStep(t) \/ (open[t] \in Events /\ AnalyticsFails(t))
     /\ UNCHANGED <<recommendationVars, compatibilityVars>>

Next == \/ \E t \in Tasks : Submits(t) \/ Step(t)
        \/ AnalyticsAtWork /\ Jobs /\ UNCHANGED <<recommendationVars, compatibilityVars>>

Spec == Init /\ [][Next]_vars
=============================================================================
