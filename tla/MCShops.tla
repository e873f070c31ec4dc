------------------------------- MODULE MCShops -------------------------------
(***************************************************************************)
(* What happens around a shop: webhook-service, merchant-service and       *)
(* token-service, one of them at work in each behaviour (OneService).      *)
(* Three webhooks; one shop under two domains, installed, uninstalled and  *)
(* installed again; one merchant's token, plain and expiring, under two    *)
(* keys.                                                                   *)
(***************************************************************************)
EXTENDS Webhook, Merchant, Tokens

ASSUME ShopsAssumption == \A w \in Work :
  \/ w.service = "webhook" /\ w.kind = "receive"
  \/ w.service = "merchant" /\ w.kind \in {"sync", "uninstall"}
  \/ w.service = "token" /\ w.kind \in {"put", "get", "delete"}

Item(service, kind, by, of, as) ==
  [service |-> service, kind |-> kind, by |-> by, of |-> of, as |-> as]
MCWork ==
  {Item("webhook", "receive", "client", "w1", "uninstalled"),
   Item("webhook", "receive", "client", "w2", "unknown"),
   Item("webhook", "receive", "service", "w3", "uninstalled"),
   Item("merchant", "sync", "client", "d1", "s1"),
   Item("merchant", "sync", "client", "d2", "s1"),
   Item("merchant", "sync", "service", "d1", "s1"),
   Item("merchant", "uninstall", "service", "d1", "s1"),
   Item("token", "put", "client", "m1", "plain"),
   Item("token", "put", "client", "m1", "expiring"),
   Item("token", "get", "service", "m1", "plain"),
   Item("token", "get", "client", "m1", "plain"),
   Item("token", "delete", "client", "m1", "plain")}

vars == <<reqVars, webhookVars, merchantVars, tokenVars>>

Init == RequestsInit /\ WebhookInit /\ MerchantInit /\ TokenInit

Dies(t) == Ends(t) /\ UNCHANGED <<webhookVars, merchantVars, tokenVars>>

Next == \/ \E t \in Tasks :
             \/ Start(t) /\ UNCHANGED <<webhookVars, merchantVars, tokenVars>>
             \/ WebhookStep(t) /\ UNCHANGED <<merchantVars, tokenVars>>
             \/ MerchantStep(t) /\ UNCHANGED <<webhookVars, tokenVars>>
             \/ TokenStep(t) /\ UNCHANGED <<webhookVars, merchantVars>>
             \/ Dies(t)
        \/ RotateKey /\ UNCHANGED <<webhookVars, merchantVars>>

Spec == Init /\ [][Next]_vars

TypeOK == RequestsTypeOK /\ WebhookTypeOK /\ MerchantTypeOK /\ TokenTypeOK
=============================================================================
