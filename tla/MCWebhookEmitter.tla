-------------------------- MODULE MCWebhookEmitter --------------------------
(* The instance of WebhookEmitter that TLC checks: one event, its emission   *)
(* and a re-delivery side by side, the three attempts of the code, and two   *)
(* resets, imports or restarts under them.                                   *)
EXTENDS WebhookEmitter

CONSTANT e1

MCEvents == {e1}
=============================================================================
