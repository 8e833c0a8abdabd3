---------------------------- MODULE MCProcessor ----------------------------
(* Instance of WebhookProcessor for TLC. *)
EXTENDS WebhookProcessor, TLC

CONSTANTS d1, d2, w1, w2, a1

\* One delivery retried, one with a single attempt.
TwoBudgets == d1 :> 2 @@ d2 :> 1
=============================================================================
