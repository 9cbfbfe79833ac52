------------------------ MODULE MCNotificationDelivery ------------------------
(***************************************************************************)
(* Instances of NotificationDelivery for TLC: the two deliveries of one    *)
(* notification, whose recipient has a Slack identity and an address.      *)
(***************************************************************************)
EXTENDS NotificationDelivery, TLC

CONSTANTS slack, email

Channels == (slack :> "SLACK") @@ (email :> "EMAIL")
EmailFallback == (slack :> email) @@ (email :> None)
=============================================================================
