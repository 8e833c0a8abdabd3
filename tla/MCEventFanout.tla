--------------------------- MODULE MCEventFanout ---------------------------
(* Instances of EventFanout for TLC. *)
EXTENDS EventFanout

CONSTANTS r1, r2, r3, dA, dB, t1, t2, key

Request(tenant, type, payload, k) ==
    [tenant |-> tenant, type |-> type, payload |-> payload, key |-> k]

UserPayload == {<<"userId", "number">>}

\* The same key used by two tenants, beside a call without one.
CrossTenantCalls ==
    r1 :> Request(t1, "TENANT.USER_ADDED", UserPayload, key) @@
    r2 :> Request(t2, "TENANT.USER_ADDED", UserPayload, key) @@
    r3 :> Request(t1, "TENANT.USER_ADDED", UserPayload, NoKey)

\* Two destinations of the event.
Subscriptions ==
    [d \in {dA, dB} |-> [tenant |-> t1, type |-> "TENANT.USER_ADDED"]]
=============================================================================
