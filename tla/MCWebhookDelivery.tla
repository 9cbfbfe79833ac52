-------------------------- MODULE MCWebhookDelivery --------------------------
(***************************************************************************)
(* Instances of WebhookDelivery for TLC: one delivery, that two workers    *)
(* may have in hand at once.                                               *)
(***************************************************************************)
EXTENDS WebhookDelivery, TLC

CONSTANTS d1, crm

OneEndpoint == (d1 :> crm)
=============================================================================
