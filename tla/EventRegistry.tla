--------------------------- MODULE EventRegistry ---------------------------
(***************************************************************************)
(* EVENT_REGISTRY (events/event.registry.ts): for each event type, whether *)
(* it goes out as a webhook, whether it may be replayed, and the fields    *)
(* its validate() demands of the payload, with their JavaScript type. A    *)
(* payload is the set of its <<field, type>> pairs; values, descriptions,  *)
(* categories and versions (all 1) are left out.                           *)
(***************************************************************************)
EXTENDS TLC

Entry(webhookEnabled, replayable, required) ==
    [webhookEnabled |-> webhookEnabled, replayable |-> replayable,
     required |-> required]

TenantEvents ==
    "TENANT.CREATED" :> Entry(TRUE, TRUE,
        {<<"tenantId", "number">>, <<"ownerId", "number">>}) @@
    "TENANT.DELETED" :> Entry(TRUE, FALSE, {<<"tenantId", "number">>}) @@
    "TENANT.UPDATED" :> Entry(TRUE, TRUE, {<<"tenantId", "number">>})

MembershipEvents ==
    "TENANT.USER_ADDED"   :> Entry(TRUE, TRUE, {<<"userId", "number">>}) @@
    "TENANT.USER_REMOVED" :> Entry(TRUE, TRUE, {<<"userId", "number">>}) @@
    "TENANT.OWNER_TRANSFERRED" :> Entry(TRUE, TRUE,
        {<<"oldOwnerId", "number">>, <<"newOwnerId", "number">>})

BillingEvents ==
    "PLAN.UPGRADED" :> Entry(TRUE, TRUE,
        {<<"oldPlan", "string">>, <<"newPlan", "string">>}) @@
    "PLAN.DOWNGRADED" :> Entry(TRUE, TRUE,
        {<<"oldPlan", "string">>, <<"newPlan", "string">>}) @@
    "SUBSCRIPTION.CANCELLED" :> Entry(TRUE, FALSE,
        {<<"subscriptionId", "string">>})

InvitationEvents ==
    "INVITATION.SENT"     :> Entry(TRUE, FALSE, {<<"email", "string">>}) @@
    "INVITATION.ACCEPTED" :> Entry(TRUE, TRUE, {<<"userId", "number">>}) @@
    "INVITATION.REVOKED"  :> Entry(TRUE, FALSE, {<<"invitationId", "string">>})

AuthEvents ==
    "AUTH.LOGIN_SUCCEEDED" :> Entry(FALSE, FALSE, {<<"userId", "number">>}) @@
    "AUTH.LOGIN_FAILED"    :> Entry(FALSE, FALSE, {<<"email", "string">>})

WebhookEvents ==
    "WEBHOOK.DELIVERY_SUCCEEDED" :> Entry(FALSE, FALSE,
        {<<"deliveryId", "number">>}) @@
    "WEBHOOK.DELIVERY_FAILED" :> Entry(FALSE, FALSE,
        {<<"deliveryId", "number">>})

SystemEvents ==
    "SYSTEM.MAINTENANCE_STARTED" :> Entry(FALSE, FALSE,
        {<<"startedBy", "number">>}) @@
    "SYSTEM.MAINTENANCE_COMPLETED" :> Entry(FALSE, FALSE,
        {<<"completedBy", "number">>})

Registry == TenantEvents @@ MembershipEvents @@ BillingEvents
            @@ InvitationEvents @@ AuthEvents @@ WebhookEvents @@ SystemEvents

EventTypes == DOMAIN Registry

\* logEvent's first two checks: a registered type and a payload it accepts.
Loggable(type, payload) ==
    type \in EventTypes /\ Registry[type].required \subseteq payload
=============================================================================
