----------------------------- MODULE MCDelivery ----------------------------
(* Instances of DeliveryWorker for TLC. *)
EXTENDS DeliveryWorker, TLC

CONSTANTS d1, d2, w1, w2, a1

\* The columns' default and the edge of the range: maxRetries = 0.
DefaultAndZero == d1 :> 3 @@ d2 :> 0

\* The default of destination.entity.ts.
OneDefault == d1 :> 3
=============================================================================
