--------------------------- MODULE TenantBilling ---------------------------
(***************************************************************************)
(* How a tenant's plan changes: PaymentController.initiateUpgrade lets     *)
(* PaystackService.initializeTenantUpgrade store a payment and announce it *)
(* to Paystack, PaystackWebhookHandler.handleWebhook verifies it and calls *)
(* TenantService.upgradeTenantPlan, and TenantService.downgradeTenantPlan  *)
(* takes plans and API keys back.                                          *)
(*                                                                         *)
(* Each call is a process: the initiation of a payment is named by the     *)
(* payment, the HTTP requests from Paystack that run at the same time are  *)
(* the members of Hooks (one that is over can be used for another), a call *)
(* of downgradeTenantPlan is a member of Downgrades. Each await is a step, *)
(* and tenantRepository.save(copy) writes every column of the copy:        *)
(* TypeORM compares it with the row it finds at the time of the save.      *)
(*                                                                         *)
(* Paystack is external: it can charge a payment announced to it and send  *)
(* charge.success any number of times. Signatures, amounts and who is a    *)
(* member of a tenant are left out, and tenants are not deleted here.      *)
(* Env: "dbError" (a statement fails and has no effect), "httpError" (the  *)
(* announcement fails), "crash" (a call dies).                             *)
(***************************************************************************)
EXTENDS Naturals, FiniteSets

CONSTANTS
    Tenants, Payments, Hooks, Downgrades,
    TenantOf,   \* the tenant of each payment and of each downgrade
    PlanOf,     \* the plan a payment or a downgrade asks for
    NoPayment, NoHook,
    Env

Plan == {"free", "pro", "enterprise"}

ASSUME TenantOfAssumption == TenantOf \in [Payments \cup Downgrades -> Tenants]
ASSUME PlanOfAssumption == PlanOf \in [Payments \cup Downgrades -> Plan]
ASSUME DifferentCalls ==
    /\ Payments \cap Hooks = {} /\ Downgrades \cap (Payments \cup Hooks) = {}
ASSUME NoneAssumption == NoPayment \notin Payments /\ NoHook \notin Hooks
ASSUME BillingEnvAssumption == Env \subseteq {"dbError", "httpError", "crash"}

Upgrades == Payments
Calls == Upgrades \cup Hooks \cup Downgrades

VARIABLES
    tenant,    \* the columns plan and subscriptionExpiry of each tenant
    payment,   \* each payment's row: "absent", "unverified" or "verified"
    charged,   \* payments Paystack took the money for
    keys,      \* rows of `api_keys`
    revoked,   \* the keys whose column active is false
    pc,        \* where each call is
    subject,   \* the payment a hook is about
    copy,      \* the tenant row a call will save
    loaded     \* tenant.apiKeys as a downgrade loaded them

locals == <<pc, subject, copy, loaded>>
vars == <<tenant, payment, charged, keys, revoked, locals>>

\* subscriptionExpiry is null, ahead or past.
TenantRow == [plan : Plan, expiry : {"none", "active", "expired"}]
Free == [plan |-> "free", expiry |-> "none"]

\* createTenant makes a test key. A later key is known by the hook that made
\* it and its payment, which was verified before and is handled only once
\* by the same hook.
TestKey(t) == [tenant |-> t, hook |-> NoHook, payment |-> NoPayment]
LiveKey(h, p) == [tenant |-> TenantOf[p], hook |-> h, payment |-> p]
KeysOf(t) == {k \in keys : k.tenant = t}

Init ==
    /\ tenant = [t \in Tenants |-> Free]
    /\ payment = [p \in Payments |-> "absent"]
    /\ charged = {}
    /\ keys = {TestKey(t) : t \in Tenants}
    /\ revoked = {}
    /\ pc = [c \in Calls |-> "idle"]
    /\ subject = [h \in Hooks |-> NoPayment]
    /\ copy = [c \in Calls |-> Free]
    /\ loaded = [d \in Downgrades |-> {}]

\* The locations of a call that has not started or is over.
Over == {"idle", "returned", "threw"}

Goto(c, location) == pc' = [pc EXCEPT ![c] = location]

\* A statement of c fails: the call answers with an error.
DbError(c) == "dbError" \in Env /\ Goto(c, "threw")

-----------------------------------------------------------------------------
(* initiateUpgrade and initializeTenantUpgrade                             *)

\* The controller loads the tenant with its users. A caller who is not among
\* them by then, or who asks for FREE, is refused.
InitiateUpgrade(p) ==
    /\ pc[p] = "idle"
    /\ \/ PlanOf[p] # "free" /\ Goto(p, "initialize")
       \/ Goto(p, "threw")
    /\ UNCHANGED <<tenant, payment, charged, keys, revoked, subject, copy, loaded>>

\* The payment is stored before Paystack hears of it.
InitializeTenantUpgrade(p) ==
    /\ pc[p] = "initialize"
    /\ \/ /\ payment' = [payment EXCEPT ![p] = "unverified"]
          /\ Goto(p, "post")
       \/ DbError(p) /\ UNCHANGED payment
    /\ UNCHANGED <<tenant, charged, keys, revoked, subject, copy, loaded>>

\* initializePayment: the POST to Paystack. A payment announced to it is at
\* "returned".
InitializePayment(p) ==
    /\ pc[p] = "post"
    /\ \/ Goto(p, "returned")
       \/ "httpError" \in Env /\ Goto(p, "threw")
    /\ UNCHANGED <<tenant, payment, charged, keys, revoked, subject, copy, loaded>>

\* Paystack: the customer pays.
Charge(p) ==
    /\ pc[p] = "returned"
    /\ charged' = charged \cup {p}
    /\ UNCHANGED <<tenant, payment, keys, revoked, locals>>

-----------------------------------------------------------------------------
(* handleWebhook, with upgradeTenantPlan                                   *)

\* Seeded fault of HandleWebhook: the type of the event is not looked at.
HandleWebhookAnyEvent(h) ==
    /\ pc[h] \in Over
    /\ \E p \in Payments : /\ pc[p] = "returned"
                           /\ subject' = [subject EXCEPT ![h] = p]
    /\ Goto(h, "findPayment")
    /\ UNCHANGED <<tenant, payment, charged, keys, revoked, copy, loaded>>

\* Paystack reports something about a payment; charge.success only when it
\* was charged. Other events are answered at once.
HandleWebhook(h) ==
    /\ pc[h] \in Over
    /\ \E p \in Payments :
         /\ pc[p] = "returned"
         /\ subject' = [subject EXCEPT ![h] = p]
         /\ \/ p \in charged /\ Goto(h, "findPayment")
            \/ Goto(h, "returned")
    /\ UNCHANGED <<tenant, payment, charged, keys, revoked, copy, loaded>>

FindPayment(h) ==
    /\ pc[h] = "findPayment"
    /\ \/ payment[subject[h]] = "verified" /\ Goto(h, "returned")
       \/ payment[subject[h]] = "unverified" /\ Goto(h, "savePayment")
       \/ DbError(h)
    /\ UNCHANGED <<tenant, payment, charged, keys, revoked, subject, copy, loaded>>

SavePayment(h) ==
    /\ pc[h] = "savePayment"
    /\ \/ /\ payment' = [payment EXCEPT ![subject[h]] = "verified"]
          /\ Goto(h, "findTenant")
       \/ DbError(h) /\ UNCHANGED payment
    /\ UNCHANGED <<tenant, charged, keys, revoked, subject, copy, loaded>>

\* The two refusals of upgradeTenantPlan.
UpgradeRefused(old, new) ==
    \/ old = new
    \/ old = "enterprise"
    \/ old = "pro" /\ new = "free"

\* Seeded fault of FindTenant: no API key is made for the new plan.
FindTenantKeyless(h) ==
    /\ pc[h] = "findTenant"
    /\ LET row == tenant[TenantOf[subject[h]]]
           new == PlanOf[subject[h]]
       IN  \/ /\ UpgradeRefused(row.plan, new)
              /\ Goto(h, "threw")
              /\ UNCHANGED copy
           \/ /\ ~UpgradeRefused(row.plan, new)
              /\ copy' = [copy EXCEPT ![h] = [plan |-> new, expiry |-> "active"]]
              /\ Goto(h, "saveTenant")
    /\ UNCHANGED <<tenant, payment, charged, keys, revoked, subject, loaded>>

FindTenant(h) ==
    /\ pc[h] = "findTenant"
    /\ LET row == tenant[TenantOf[subject[h]]]
           new == PlanOf[subject[h]]
       IN  \/ /\ UpgradeRefused(row.plan, new)
              /\ Goto(h, "threw")
              /\ UNCHANGED copy
           \/ /\ ~UpgradeRefused(row.plan, new)
              /\ copy' = [copy EXCEPT ![h] = [plan |-> new, expiry |-> "active"]]
              /\ Goto(h, "createKey")
           \/ DbError(h) /\ UNCHANGED copy
    /\ UNCHANGED <<tenant, payment, charged, keys, revoked, subject, loaded>>

\* createApiKey, before the plan is saved
CreateApiKey(h) ==
    /\ pc[h] = "createKey"
    /\ \/ /\ keys' = keys \cup {LiveKey(h, subject[h])}
          /\ Goto(h, "saveTenant")
       \/ DbError(h) /\ UNCHANGED keys
    /\ UNCHANGED <<tenant, payment, charged, revoked, subject, copy, loaded>>

SaveUpgrade(h) ==
    /\ pc[h] = "saveTenant"
    /\ \/ /\ tenant' = [tenant EXCEPT ![TenantOf[subject[h]]] = copy[h]]
          /\ Goto(h, "returned")
       \/ DbError(h) /\ UNCHANGED tenant
    /\ UNCHANGED <<payment, charged, keys, revoked, subject, copy, loaded>>

-----------------------------------------------------------------------------
(* downgradeTenantPlan                                                     *)

\* Seeded fault of DowngradedRow: the expiry stays when the plan goes.
DowngradedRowDated(row, new) ==
    IF row.expiry = "active" /\ new # "free"
    THEN [row EXCEPT !.plan = new] ELSE [row EXCEPT !.plan = "free"]

\* An expired subscription always ends on FREE.
DowngradedRow(row, new) ==
    IF row.expiry = "active" /\ new # "free"
    THEN [row EXCEPT !.plan = new] ELSE Free

FindForDowngrade(d) ==
    /\ pc[d] = "idle"
    /\ LET row == tenant[TenantOf[d]]
           new == DowngradedRow(row, PlanOf[d])
       IN  \/ /\ row.plan = "free"
              /\ Goto(d, "threw")
              /\ UNCHANGED <<copy, loaded>>
           \/ /\ row.plan # "free"
              /\ copy' = [copy EXCEPT ![d] = new]
              /\ loaded' = [loaded EXCEPT ![d] = KeysOf(TenantOf[d])]
              /\ Goto(d, IF new.plan = "free" THEN "revoke" ELSE "saveTenant")
           \/ DbError(d) /\ UNCHANGED <<copy, loaded>>
    /\ UNCHANGED <<tenant, payment, charged, keys, revoked, subject>>

\* Seeded fault of RevokeTenantKeys: only the free test key is revoked.
RevokeTestKey(d) ==
    /\ pc[d] = "revoke"
    /\ revoked' = revoked \cup {TestKey(TenantOf[d])}
    /\ Goto(d, "saveTenant")
    /\ UNCHANGED <<tenant, payment, charged, keys, subject, copy, loaded>>

\* revokeTenantKeys: all keys of the tenant, the test key included
RevokeTenantKeys(d) ==
    /\ pc[d] = "revoke"
    /\ \/ /\ revoked' = revoked \cup KeysOf(TenantOf[d])
          /\ Goto(d, "saveTenant")
       \/ DbError(d) /\ UNCHANGED revoked
    /\ UNCHANGED <<tenant, payment, charged, keys, subject, copy, loaded>>

\* The save also writes the loaded relation apiKeys back: a key made since
\* would lose its tenant, which the column tenantId (NOT NULL) refuses.
SaveDowngrade(d) ==
    /\ pc[d] = "saveTenant"
    /\ \/ /\ loaded[d] = KeysOf(TenantOf[d])
          /\ tenant' = [tenant EXCEPT ![TenantOf[d]] = copy[d]]
          /\ Goto(d, "returned")
       \/ /\ loaded[d] # KeysOf(TenantOf[d])
          /\ Goto(d, "threw")
          /\ UNCHANGED tenant
       \/ DbError(d) /\ UNCHANGED tenant
    /\ UNCHANGED <<payment, charged, keys, revoked, subject, copy, loaded>>

-----------------------------------------------------------------------------
(* Time and faults.                                                        *)

Expire(t) ==
    /\ tenant[t].expiry = "active"
    /\ tenant' = [tenant EXCEPT ![t].expiry = "expired"]
    /\ UNCHANGED <<payment, charged, keys, revoked, locals>>

Crash(c) ==
    /\ "crash" \in Env
    /\ pc[c] \notin Over
    /\ Goto(c, "threw")
    /\ UNCHANGED <<tenant, payment, charged, keys, revoked, subject, copy, loaded>>

UpgradeStep(p) ==
    InitiateUpgrade(p) \/ InitializeTenantUpgrade(p) \/ InitializePayment(p)

HookStep(h) ==
    \/ FindPayment(h) \/ SavePayment(h)
    \/ FindTenant(h) \/ CreateApiKey(h) \/ SaveUpgrade(h)

DowngradeStep(d) ==
    FindForDowngrade(d) \/ RevokeTenantKeys(d) \/ SaveDowngrade(d)

Next ==
    \/ \E p \in Upgrades : UpgradeStep(p) \/ Charge(p)
    \/ \E h \in Hooks : HandleWebhook(h) \/ HookStep(h)
    \/ \E d \in Downgrades : DowngradeStep(d)
    \/ \E t \in Tenants : Expire(t)
    \/ \E c \in Calls : Crash(c)

Spec == Init /\ [][Next]_vars

-----------------------------------------------------------------------------
(* Properties.                                                             *)

\* Every variable stays in its type, a plan has an expiry exactly when it is
\* not FREE, and only stored payments are charged.
TypeOK ==
    /\ tenant \in [Tenants -> TenantRow]
    /\ \A t \in Tenants : tenant[t].plan = "free" <=> tenant[t].expiry = "none"
    /\ payment \in [Payments -> {"absent", "unverified", "verified"}]
    /\ charged \subseteq {p \in Payments : payment[p] # "absent"}
    /\ keys \subseteq {TestKey(t) : t \in Tenants}
                  \cup {LiveKey(h, p) : h \in Hooks, p \in Payments}
    /\ revoked \subseteq keys
    /\ subject \in [Hooks -> Payments \cup {NoPayment}]
    /\ copy \in [Calls -> TenantRow]
    /\ loaded \in [Downgrades -> SUBSET keys]

\* No downgrade of t has started.
Undowngraded(t) ==
    \A d \in Downgrades : TenantOf[d] = t => pc[d] = "idle"

\* A tenant on PRO or ENTERPRISE paid for that very plan, until somebody asks
\* for a downgrade, and paid for some plan ever after: webhooks for other
\* events, repeated and interleaved webhooks and crashes give nothing away.
PlanIsPaid ==
    \A t \in Tenants : tenant[t].plan # "free" =>
      \E p \in charged : /\ payment[p] = "verified"
                         /\ TenantOf[p] = t
                         /\ Undowngraded(t) => PlanOf[p] = tenant[t].plan

\* Until somebody downgrades it, a tenant on a paid plan holds an active key
\* besides its test key: the key is made before the plan is saved, so that a
\* crash between the two leaves a key too many and never a plan without one.
PaidPlanHasKey ==
    \A t \in Tenants : tenant[t].plan # "free" /\ Undowngraded(t) =>
      \E k \in KeysOf(t) \ revoked : k # TestKey(t)

\* When a downgrade to FREE returns, the tenant holds no active key, although
\* a webhook may make one between the revocation and the save.
DowngradeLeavesNoKey ==
    [][\A d \in Downgrades :
         SaveDowngrade(d) /\ pc'[d] = "returned" /\ copy[d].plan = "free"
           => KeysOf(TenantOf[d]) \subseteq revoked]_vars
=============================================================================
