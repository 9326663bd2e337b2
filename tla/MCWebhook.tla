----------------------------- MODULE MCWebhook -----------------------------
(* Instances of WebhookDelivery for TLC. *)
EXTENDS WebhookDelivery, TLC

CONSTANTS e1, e2, r1

TwoEvents == {e1, e2}
OneEvent == {e2}
\* e1: a native event of website 1; e2: an EasyPay confirmation of website 2.
MCSiteOf == e1 :> 1 @@ e2 :> 2
MCFormatOf == e1 :> "NATIVE" @@ e2 :> "EPAY"
MCTypeOf == e1 :> "REVERSED" @@ e2 :> "CONFIRMED"

\* The EasyPay confirmation alone.
OneSiteOf == e2 :> 1
OneFormatOf == e2 :> "EPAY"
OneTypeOf == e2 :> "CONFIRMED"
=============================================================================
