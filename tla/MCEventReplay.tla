--------------------------- MODULE MCEventReplay ---------------------------
(* Instances of EventReplay for TLC. *)
EXTENDS EventReplay

CONSTANTS r1, r2, dA, t1, b1, b2, f1

Request(type, payload) ==
    [tenant |-> t1, type |-> type, payload |-> payload, key |-> NoKey]

\* One webhook event, and one whose payload misses the required field, as
\* createTenant's does.
Calls ==
    r1 :> Request("TENANT.USER_ADDED", {<<"userId", "number">>}) @@
    r2 :> Request("TENANT.CREATED", {<<"name", "string">>})

Subscriptions ==
    [d \in {dA} |-> [tenant |-> t1, type |-> "TENANT.USER_ADDED"]]

AllFanouts == Requests \cup (Batches \X Failures)
=============================================================================
