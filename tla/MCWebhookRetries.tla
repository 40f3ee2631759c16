--------------------------- MODULE MCWebhookRetries ---------------------------
(* A workspace with two automations, each of which fires a webhook. *)
EXTENDS WebhookRetries

CONSTANTS hook1, hook2, matcher1, matcher2

OneEach == [w \in Webhooks |-> IF w = hook1 THEN matcher1 ELSE matcher2]
================================================================================
