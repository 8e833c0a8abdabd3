------------------------- MODULE TenantBillingProofs ------------------------
(***************************************************************************)
(* What TenantBilling promises about plans, payments and keys, for any     *)
(* tenants, payments, webhooks and downgrades, and any faults.             *)
(***************************************************************************)
EXTENDS TenantBilling, TLAPS

USE TenantOfAssumption, PlanOfAssumption, DifferentCalls, NoneAssumption

-----------------------------------------------------------------------------
(* Types, and what a call knows at its locations.                          *)

Location == Over \cup {"initialize", "post", "findPayment", "savePayment", "findTenant",
                        "createKey", "saveTenant", "revoke"}

Dated(row) == row.plan = "free" <=> row.expiry = "none"

\* A payment that Paystack knows of is stored, is for a plan to pay for, and
\* only such a one can be verified.
PaymentInv ==
    \A p \in Payments :
      /\ pc[p] \in {"initialize", "post", "returned"} => PlanOf[p] # "free"
      /\ pc[p] \in {"post", "returned"} => payment[p] # "absent"
      /\ payment[p] = "verified" \/ p \in charged => pc[p] = "returned"

\* A webhook that goes on is about a payment that was charged; from
\* findTenant on it is verified, and what will be saved is the plan it is for.
HookInv ==
    \A h \in Hooks :
      /\ pc[h] \in {"findPayment", "savePayment", "findTenant", "createKey", "saveTenant"}
           => subject[h] \in charged
      /\ pc[h] \in {"findTenant", "createKey", "saveTenant"}
           => payment[subject[h]] = "verified"
      /\ pc[h] \in {"createKey", "saveTenant"}
           => copy[h] = [plan |-> PlanOf[subject[h]], expiry |-> "active"]
      /\ pc[h] = "saveTenant" => LiveKey(h, subject[h]) \in keys

Typed ==
    /\ TypeOK
    /\ pc \in [Calls -> Location]
    /\ \A c \in Calls : Dated(copy[c])
    /\ PaymentInv
    /\ HookInv

USE DEF Calls, Upgrades, Location, Over

LEMMA InitTyped == Init => Typed
  BY DEF Init, Typed, TypeOK, TenantRow, Plan, Free, Dated, PaymentInv, HookInv

LEMMA UpgradeStepTyped ==
  ASSUME Typed, NEW p \in Payments, UpgradeStep(p) \/ Charge(p)
  PROVE  Typed'
<1> USE DEF Typed, TypeOK, PaymentInv, HookInv, Goto, DbError
<1>1. CASE InitiateUpgrade(p)
  BY <1>1 DEF InitiateUpgrade
<1>2. CASE InitializeTenantUpgrade(p)
  BY <1>2 DEF InitializeTenantUpgrade
<1>3. CASE InitializePayment(p)
  BY <1>3 DEF InitializePayment
<1>4. CASE Charge(p)
  BY <1>4 DEF Charge, locals
<1> QED
  BY <1>1, <1>2, <1>3, <1>4 DEF UpgradeStep

LEMMA HookStepTyped ==
  ASSUME Typed, NEW h \in Hooks, HandleWebhook(h) \/ HookStep(h)
  PROVE  Typed'
<1> USE DEF Typed, TypeOK, PaymentInv, HookInv, Goto, DbError
<1>1. CASE HandleWebhook(h)
  BY <1>1 DEF HandleWebhook
<1>2. CASE FindPayment(h)
  <2>1. /\ UNCHANGED <<tenant, payment, charged, keys, revoked, subject, copy, loaded>>
        /\ pc[h] = "findPayment" /\ pc' = [pc EXCEPT ![h] = pc'[h]]
        /\ pc'[h] \in {"returned", "savePayment", "threw"}
    BY <1>2 DEF FindPayment
  <2> QED
    BY <2>1
<1>3. CASE SavePayment(h)
  BY <1>3 DEF SavePayment
<1>4. CASE FindTenant(h)
  <2> DEFINE row == [plan |-> PlanOf[subject[h]], expiry |-> "active"]
  <2>1. subject[h] \in Payments /\ PlanOf[subject[h]] \in Plan /\ PlanOf[subject[h]] # "free"
    BY <1>4 DEF FindTenant
  <2>2. copy' = copy \/ copy' = [copy EXCEPT ![h] = row]
    BY <1>4 DEF FindTenant
  <2>3. row \in TenantRow /\ Dated(row)
    BY <2>1 DEF TenantRow, Dated
  <2>4. /\ copy' \in [Calls -> TenantRow] /\ \A c \in Calls : Dated(copy'[c])
        /\ \A x \in Hooks : x # h => copy'[x] = copy[x]
    BY <2>2, <2>3
  <2>5. /\ UNCHANGED <<tenant, payment, charged, keys, revoked, subject, loaded>>
        /\ pc[h] = "findTenant" /\ pc' = [pc EXCEPT ![h] = pc'[h]]
        /\ \/ pc'[h] = "threw"
           \/ pc'[h] = "createKey" /\ copy'[h] = row
    BY <1>4 DEF FindTenant
  <2> QED
    BY <2>4, <2>5
<1>5. CASE CreateApiKey(h)
  BY <1>5 DEF CreateApiKey
<1>6. CASE SaveUpgrade(h)
  <2>1. TenantOf[subject[h]] \in Tenants /\ copy[h] \in TenantRow /\ Dated(copy[h])
    BY <1>6 DEF SaveUpgrade
  <2>2. tenant' = tenant \/ tenant' = [tenant EXCEPT ![TenantOf[subject[h]]] = copy[h]]
    BY <1>6 DEF SaveUpgrade
  <2>3. tenant' \in [Tenants -> TenantRow] /\ \A t \in Tenants : Dated(tenant'[t])
    BY <2>1, <2>2 DEF Dated
  <2>4. /\ UNCHANGED <<payment, charged, keys, revoked, subject, copy, loaded>>
        /\ pc' = [pc EXCEPT ![h] = pc'[h]] /\ pc'[h] \in {"returned", "threw"}
    BY <1>6 DEF SaveUpgrade
  <2> QED
    BY <2>3, <2>4 DEF Dated
<1> QED
  BY <1>1, <1>2, <1>3, <1>4, <1>5, <1>6 DEF HookStep

\* A step of a downgrade leaves payments and webhooks alone.
LEMMA DowngradeMoveTyped ==
  ASSUME Typed, NEW d \in Downgrades,
         UNCHANGED <<payment, charged, keys, subject>>,
         tenant' \in [Tenants -> TenantRow], \A t \in Tenants : Dated(tenant'[t]),
         copy' \in [Calls -> TenantRow], \A c \in Calls : Dated(copy'[c]),
         \A h \in Hooks : copy'[h] = copy[h],
         revoked' \subseteq keys, loaded' \in [Downgrades -> SUBSET keys],
         pc' = [pc EXCEPT ![d] = pc'[d]], pc'[d] \in Location
  PROVE  Typed'
<1>1. \A c \in Payments \cup Hooks : pc'[c] = pc[c]
  BY DEF Typed
<1>2. TypeOK'
  <2>1. \A t \in Tenants : tenant'[t].plan = "free" <=> tenant'[t].expiry = "none"
    BY DEF Dated
  <2>2. /\ payment' \in [Payments -> {"absent", "unverified", "verified"}]
        /\ charged' \subseteq {p \in Payments : payment'[p] # "absent"}
        /\ subject' \in [Hooks -> Payments \cup {NoPayment}]
        /\ keys' \subseteq {TestKey(t) : t \in Tenants}
                        \cup {LiveKey(x, p) : x \in Hooks, p \in Payments}
    BY DEF Typed, TypeOK
  <2> QED
    BY <2>1, <2>2 DEF TypeOK
<1>3. PaymentInv'
  BY <1>1 DEF Typed, PaymentInv
<1>4. HookInv'
  <2>1. \A h \in Hooks : pc'[h] = pc[h] /\ copy'[h] = copy[h] /\ subject'[h] = subject[h]
    BY <1>1
  <2> QED
    BY <2>1 DEF Typed, HookInv
<1> QED
  BY <1>2, <1>3, <1>4 DEF Typed

LEMMA DowngradeStepTyped ==
  ASSUME Typed, NEW d \in Downgrades, DowngradeStep(d)
  PROVE  Typed'
<1>1. /\ TenantOf[d] \in Tenants /\ PlanOf[d] \in Plan
      /\ pc \in [Calls -> Location] /\ copy \in [Calls -> TenantRow]
      /\ loaded \in [Downgrades -> SUBSET keys] /\ revoked \subseteq keys
      /\ tenant \in [Tenants -> TenantRow] /\ \A t \in Tenants : Dated(tenant[t])
      /\ \A c \in Calls : Dated(copy[c])
  BY DEF Typed, TypeOK, Dated
<1>2. CASE FindForDowngrade(d)
  <2> DEFINE row == DowngradedRow(tenant[TenantOf[d]], PlanOf[d])
  <2>1. row \in TenantRow /\ Dated(row)
    BY <1>1 DEF DowngradedRow, TenantRow, Dated, Plan, Free
  <2>2. copy' = copy \/ copy' = [copy EXCEPT ![d] = row]
    BY <1>2 DEF FindForDowngrade
  <2>3. /\ copy' \in [Calls -> TenantRow] /\ \A c \in Calls : Dated(copy'[c])
        /\ \A h \in Hooks : copy'[h] = copy[h]
    BY <1>1, <2>1, <2>2
  <2>4. /\ UNCHANGED <<tenant, payment, charged, keys, revoked, subject>>
        /\ pc' = [pc EXCEPT ![d] = pc'[d]] /\ pc'[d] \in {"threw", "revoke", "saveTenant"}
        /\ loaded' \in [Downgrades -> SUBSET keys]
    BY <1>1, <1>2 DEF FindForDowngrade, KeysOf, Goto, DbError
  <2> QED
    BY <1>1, <2>3, <2>4, DowngradeMoveTyped
<1>3. CASE RevokeTenantKeys(d)
  <2>1. /\ UNCHANGED <<tenant, payment, charged, keys, subject, copy, loaded>>
        /\ revoked' \subseteq keys
        /\ pc' = [pc EXCEPT ![d] = pc'[d]] /\ pc'[d] \in {"saveTenant", "threw"}
    BY <1>1, <1>3 DEF RevokeTenantKeys, KeysOf, Goto, DbError
  <2> QED
    BY <1>1, <2>1, DowngradeMoveTyped
<1>4. CASE SaveDowngrade(d)
  <2>1. tenant' = tenant \/ tenant' = [tenant EXCEPT ![TenantOf[d]] = copy[d]]
    BY <1>4 DEF SaveDowngrade
  <2>2. tenant' \in [Tenants -> TenantRow] /\ \A t \in Tenants : Dated(tenant'[t])
    BY <1>1, <2>1
  <2>3. /\ UNCHANGED <<payment, charged, keys, revoked, subject, copy, loaded>>
        /\ pc' = [pc EXCEPT ![d] = pc'[d]] /\ pc'[d] \in {"returned", "threw"}
    BY <1>1, <1>4 DEF SaveDowngrade, Goto, DbError
  <2> QED
    BY <1>1, <2>2, <2>3, DowngradeMoveTyped
<1> QED
  BY <1>2, <1>3, <1>4 DEF DowngradeStep

LEMMA ExpireTyped ==
  ASSUME Typed, NEW t \in Tenants, Expire(t)
  PROVE  Typed'
<1>1. /\ tenant' \in [Tenants -> TenantRow] /\ \A x \in Tenants : Dated(tenant'[x])
      /\ UNCHANGED <<payment, charged, keys, revoked, pc, subject, copy, loaded>>
  BY DEF Typed, TypeOK, Expire, locals, TenantRow, Dated
<1> QED
  BY <1>1 DEF Typed, TypeOK, PaymentInv, HookInv, Dated

LEMMA CrashTyped ==
  ASSUME Typed, NEW c \in Calls, Crash(c)
  PROVE  Typed'
  BY DEF Typed, TypeOK, PaymentInv, HookInv, Crash, Goto

LEMMA StepTyped == Typed /\ [Next]_vars => Typed'
<1> SUFFICES ASSUME Typed, [Next]_vars PROVE Typed'
  OBVIOUS
<1>1. CASE UNCHANGED vars
  BY <1>1 DEF vars, locals, Typed, TypeOK, PaymentInv, HookInv
<1> QED
  BY <1>1, UpgradeStepTyped, HookStepTyped, DowngradeStepTyped, ExpireTyped, CrashTyped
     DEF Next

LEMMA AlwaysTyped == Spec => []Typed
  BY InitTyped, StepTyped, PTL DEF Spec

\* Every variable of TenantBilling keeps its type, a tenant has an expiry
\* exactly while it is on a paid plan, and only stored payments are charged.
THEOREM TypeCorrect == Spec => []TypeOK
<1>1. Typed => TypeOK
  BY DEF Typed
<1> QED
  BY <1>1, AlwaysTyped, PTL

-----------------------------------------------------------------------------
(* What no step takes back, and how a plan changes.                        *)

LEMMA Monotone ==
  ASSUME Typed, [Next]_vars
  PROVE  /\ charged \subseteq charged' /\ keys \subseteq keys'
         /\ \A p \in Payments : payment[p] = "verified" => payment'[p] = "verified"
         /\ \A d \in Downgrades : pc[d] # "idle" => pc'[d] # "idle"
<1> USE DEF Typed, TypeOK, PaymentInv, HookInv, Goto, DbError
<1> DEFINE Kept == /\ charged \subseteq charged' /\ keys \subseteq keys'
                   /\ \A p \in Payments : payment[p] = "verified" => payment'[p] = "verified"
                   /\ \A d \in Downgrades : pc[d] # "idle" => pc'[d] # "idle"
<1>1. ASSUME NEW p \in Payments, UpgradeStep(p) \/ Charge(p) PROVE Kept
  BY <1>1 DEF UpgradeStep, InitiateUpgrade, InitializeTenantUpgrade, InitializePayment,
              Charge, locals
<1>2. ASSUME NEW h \in Hooks, HandleWebhook(h) \/ HookStep(h) PROVE Kept
  BY <1>2 DEF HookStep, HandleWebhook, FindPayment, SavePayment, FindTenant,
              CreateApiKey, SaveUpgrade
<1>3. ASSUME NEW d \in Downgrades, DowngradeStep(d) PROVE Kept
  BY <1>3 DEF DowngradeStep, FindForDowngrade, RevokeTenantKeys, SaveDowngrade
<1>4. ASSUME NEW t \in Tenants, Expire(t) PROVE Kept
  BY <1>4 DEF Expire, locals
<1>5. ASSUME NEW c \in Calls, Crash(c) PROVE Kept
  BY <1>5 DEF Crash
<1>6. CASE UNCHANGED vars
  BY <1>6 DEF vars, locals
<1> QED
  BY <1>1, <1>2, <1>3, <1>4, <1>5, <1>6 DEF Next

\* A call c has saved its copy of tenant t.
Saved(c, t) ==
    /\ pc[c] = "saveTenant" /\ pc'[c] = "returned"
    /\ tenant'[t] = copy[c] /\ UNCHANGED <<keys, revoked>>

LEMMA PlanChanges ==
  ASSUME Typed, [Next]_vars, NEW t \in Tenants
  PROVE  \/ tenant'[t].plan = tenant[t].plan
         \/ \E h \in Hooks : Saved(h, t) /\ TenantOf[subject[h]] = t
         \/ \E d \in Downgrades : Saved(d, t) /\ TenantOf[d] = t
<1> USE DEF Typed, TypeOK, HookInv
<1>1. CASE tenant' = tenant
  BY <1>1
<1>2. ASSUME NEW h \in Hooks, SaveUpgrade(h) PROVE
        tenant'[t].plan = tenant[t].plan \/ (Saved(h, t) /\ TenantOf[subject[h]] = t)
  BY <1>2 DEF SaveUpgrade, Saved, Goto, DbError
<1>3. ASSUME NEW d \in Downgrades, SaveDowngrade(d) PROVE
        tenant'[t].plan = tenant[t].plan \/ (Saved(d, t) /\ TenantOf[d] = t)
  BY <1>3 DEF SaveDowngrade, Saved, Goto, DbError
<1>4. ASSUME NEW x \in Tenants, Expire(x) PROVE tenant'[t].plan = tenant[t].plan
  BY <1>4 DEF Expire, TenantRow
<1>5. \/ tenant' = tenant
      \/ \E h \in Hooks : SaveUpgrade(h)
      \/ \E d \in Downgrades : SaveDowngrade(d)
      \/ \E x \in Tenants : Expire(x)
  BY DEF Next, vars, UpgradeStep, InitiateUpgrade, InitializeTenantUpgrade,
         InitializePayment, Charge, HookStep, HandleWebhook, FindPayment, SavePayment,
         FindTenant, CreateApiKey, DowngradeStep, FindForDowngrade, RevokeTenantKeys, Crash
<1> QED
  BY <1>1, <1>2, <1>3, <1>4, <1>5

-----------------------------------------------------------------------------
(* No plan without a payment.                                              *)

Paid(p, t) == p \in charged /\ payment[p] = "verified" /\ TenantOf[p] = t

\* A downgrade only goes on for a tenant that was on a paid plan.
PaidInv ==
    /\ PlanIsPaid
    /\ \A d \in Downgrades :
         pc[d] \in {"revoke", "saveTenant"} => \E p \in Payments : Paid(p, TenantOf[d])

\* A downgrade that goes on did so by a step of its own, or was not touched.
LEMMA DowngradeUntouched ==
  ASSUME Typed, [Next]_vars, NEW d \in Downgrades, pc'[d] \in {"revoke", "saveTenant"},
         ~FindForDowngrade(d), ~RevokeTenantKeys(d)
  PROVE  pc'[d] = pc[d] /\ copy'[d] = copy[d] /\ loaded'[d] = loaded[d]
<1> DEFINE Kept == pc'[d] = pc[d] /\ copy'[d] = copy[d] /\ loaded'[d] = loaded[d]
<1>1. ASSUME NEW p \in Payments, UpgradeStep(p) \/ Charge(p) PROVE Kept
  BY <1>1 DEF UpgradeStep, InitiateUpgrade, InitializeTenantUpgrade, InitializePayment,
              Charge, locals, Goto, DbError, Typed, TypeOK
<1>2. ASSUME NEW h \in Hooks, HandleWebhook(h) \/ HookStep(h) PROVE Kept
  BY <1>2 DEF HookStep, HandleWebhook, FindPayment, SavePayment, FindTenant, CreateApiKey,
              SaveUpgrade, Goto, DbError, Typed, TypeOK
<1>3. ASSUME NEW e \in Downgrades, DowngradeStep(e) PROVE Kept
  <2>1. CASE e # d
    BY <1>3, <2>1 DEF DowngradeStep, FindForDowngrade, RevokeTenantKeys, SaveDowngrade,
                      Goto, DbError, Typed, TypeOK
  <2>2. CASE e = d
    BY <1>3, <2>2 DEF DowngradeStep, SaveDowngrade, Goto, DbError, Typed
  <2> QED
    BY <2>1, <2>2
<1>4. ASSUME NEW t \in Tenants, Expire(t) PROVE Kept
  BY <1>4 DEF Expire, locals
<1>5. ASSUME NEW c \in Calls, Crash(c) PROVE Kept
  BY <1>5 DEF Crash, Goto, Typed
<1>6. CASE UNCHANGED vars
  BY <1>6 DEF vars, locals
<1> QED
  BY <1>1, <1>2, <1>3, <1>4, <1>5, <1>6 DEF Next

LEMMA DowngradeGoesOn ==
  ASSUME Typed, [Next]_vars, NEW d \in Downgrades, pc'[d] \in {"revoke", "saveTenant"}
  PROVE  pc[d] \in {"revoke", "saveTenant"} \/ FindForDowngrade(d)
<1>1. RevokeTenantKeys(d) => pc[d] = "revoke"
  BY DEF RevokeTenantKeys
<1> QED
  BY <1>1, DowngradeUntouched

LEMMA PaidStep == Typed /\ PaidInv /\ [Next]_vars => PaidInv'
<1> SUFFICES ASSUME Typed, PaidInv, [Next]_vars PROVE PaidInv'
  OBVIOUS
<1>1. \A p \in Payments, t \in Tenants : Paid(p, t) => Paid(p, t)'
  BY Monotone DEF Paid
<1>2. charged \subseteq Payments
  BY DEF Typed, TypeOK
<1>3. \A t \in Tenants : Undowngraded(t)' => Undowngraded(t)
  BY Monotone DEF Undowngraded
<1>4. ASSUME NEW t \in Tenants, tenant'[t].plan # "free"
      PROVE  \E p \in charged' : /\ payment'[p] = "verified" /\ TenantOf[p] = t
                                 /\ Undowngraded(t)' => PlanOf[p] = tenant'[t].plan
  <2>1. CASE tenant'[t].plan = tenant[t].plan
    <3>1. PICK p \in charged : /\ payment[p] = "verified" /\ TenantOf[p] = t
                               /\ Undowngraded(t) => PlanOf[p] = tenant[t].plan
      BY <1>4, <2>1 DEF PaidInv, PlanIsPaid
    <3>2. p \in charged' /\ payment'[p] = "verified"
      BY <1>2, <3>1, Monotone
    <3> QED
      BY <1>3, <2>1, <3>1, <3>2
  <2>2. ASSUME NEW h \in Hooks, Saved(h, t), TenantOf[subject[h]] = t
        PROVE  /\ subject[h] \in charged' /\ payment'[subject[h]] = "verified"
               /\ PlanOf[subject[h]] = tenant'[t].plan
    <3>1. /\ subject[h] \in charged /\ payment[subject[h]] = "verified"
          /\ copy[h] = [plan |-> PlanOf[subject[h]], expiry |-> "active"]
          /\ tenant'[t] = copy[h]
      BY <2>2 DEF Saved, Typed, HookInv
    <3>2. subject[h] \in charged' /\ payment'[subject[h]] = "verified"
      BY <1>2, <3>1, Monotone
    <3>3. tenant'[t].plan = PlanOf[subject[h]]
      BY <3>1
    <3> QED
      BY <3>2, <3>3
  <2>3. ASSUME NEW d \in Downgrades, Saved(d, t), TenantOf[d] = t
        PROVE  ~Undowngraded(t)' /\ \E p \in Payments : Paid(p, t)'
    BY <1>1, <2>3 DEF Saved, Undowngraded, PaidInv
  <2> QED
    BY <2>1, <2>2, <2>3, PlanChanges DEF Paid
<1>5. ASSUME NEW d \in Downgrades, pc'[d] \in {"revoke", "saveTenant"}
      PROVE  \E p \in Payments : Paid(p, TenantOf[d])'
  <2>1. pc[d] \in {"revoke", "saveTenant"} \/ FindForDowngrade(d)
    BY <1>5, DowngradeGoesOn
  <2>2. CASE pc[d] \in {"revoke", "saveTenant"}
    BY <1>1, <2>2 DEF PaidInv
  <2>3. CASE FindForDowngrade(d)
    <3>1. tenant[TenantOf[d]].plan # "free"
      BY <1>5, <2>3 DEF FindForDowngrade, Goto, DbError, Typed
    <3>2. \E p \in Payments : Paid(p, TenantOf[d])
      BY <1>2, <3>1 DEF PaidInv, PlanIsPaid, Paid
    <3> QED
      BY <1>1, <3>2
  <2> QED
    BY <2>1, <2>2, <2>3
<1>6. PlanIsPaid'
  BY <1>4 DEF PlanIsPaid
<1> QED
  BY <1>5, <1>6 DEF PaidInv, Paid

\* A tenant on PRO or ENTERPRISE paid for that very plan, until somebody asks
\* for a downgrade, and paid for some plan ever after.
THEOREM PlansArePaid == Spec => []PlanIsPaid
<1>1. Init => PaidInv
  BY DEF Init, PaidInv, PlanIsPaid, Free
<1>2. PaidInv => PlanIsPaid
  BY DEF PaidInv
<1> QED
  BY <1>1, <1>2, PaidStep, AlwaysTyped, PTL DEF Spec

-----------------------------------------------------------------------------
(* What the keys of a tenant are worth.                                    *)

\* A key is revoked only by a downgrade of its tenant.
KeyInv ==
    /\ \A t \in Tenants : Undowngraded(t) => \A k \in revoked : k.tenant # t
    /\ PaidPlanHasKey

LEMMA Revocations ==
  ASSUME Typed, [Next]_vars
  PROVE  \/ revoked' = revoked
         \/ \E d \in Downgrades : /\ pc[d] = "revoke" /\ revoked' = revoked \cup KeysOf(TenantOf[d])
<1>1. ASSUME NEW d \in Downgrades, DowngradeStep(d)
      PROVE  \/ revoked' = revoked
             \/ pc[d] = "revoke" /\ revoked' = revoked \cup KeysOf(TenantOf[d])
  BY <1>1 DEF DowngradeStep, FindForDowngrade, RevokeTenantKeys, SaveDowngrade
<1> QED
  BY <1>1 DEF Next, vars, UpgradeStep, InitiateUpgrade, InitializeTenantUpgrade,
     InitializePayment, Charge, HookStep, HandleWebhook, FindPayment, SavePayment,
     FindTenant, CreateApiKey, SaveUpgrade, Expire, Crash

LEMMA KeyStep == Typed /\ KeyInv /\ [Next]_vars => KeyInv'
<1> SUFFICES ASSUME Typed, KeyInv, [Next]_vars PROVE KeyInv'
  OBVIOUS
<1>1. \A t \in Tenants : Undowngraded(t)' => Undowngraded(t)
  BY Monotone DEF Undowngraded
<1>2. ASSUME NEW t \in Tenants, Undowngraded(t)', NEW k \in revoked' PROVE k.tenant # t
  <2>1. \A d \in Downgrades : pc[d] = "revoke" => TenantOf[d] # t
    BY <1>1, <1>2 DEF Undowngraded
  <2>2. k \in revoked => k.tenant # t
    BY <1>1, <1>2 DEF KeyInv
  <2> QED
    BY <1>2, <2>1, <2>2, Revocations DEF KeysOf
<1>3. ASSUME NEW t \in Tenants, tenant'[t].plan # "free", Undowngraded(t)'
      PROVE  \E k \in keys' : k.tenant = t /\ k \notin revoked' /\ k # TestKey(t)
  <2>1. \E k \in keys : k.tenant = t /\ k # TestKey(t)
    <3>1. CASE tenant'[t].plan = tenant[t].plan
      BY <1>1, <1>3, <3>1 DEF KeyInv, PaidPlanHasKey, KeysOf
    <3>2. ASSUME NEW h \in Hooks, Saved(h, t), TenantOf[subject[h]] = t
          PROVE  LiveKey(h, subject[h]) \in keys
      BY <3>2 DEF Saved, Typed, HookInv
    <3>3. ASSUME NEW h \in Hooks, TenantOf[subject[h]] = t
          PROVE  /\ LiveKey(h, subject[h]).tenant = t
                 /\ LiveKey(h, subject[h]).hook # TestKey(t).hook
      BY <3>3 DEF LiveKey, TestKey
    <3>4. ASSUME NEW d \in Downgrades, Saved(d, t), TenantOf[d] = t PROVE FALSE
      BY <1>3, <3>4 DEF Saved, Undowngraded
    <3> QED
      BY <3>1, <3>2, <3>3, <3>4, PlanChanges
  <2> QED
    BY <1>2, <1>3, <2>1, Monotone
<1>4. PaidPlanHasKey'
  BY <1>3 DEF PaidPlanHasKey, KeysOf
<1> QED
  BY <1>2, <1>4 DEF KeyInv

\* Until somebody downgrades it, a tenant on a paid plan holds an active key
\* besides its test key, wherever a call fails or dies.
THEOREM PaidPlansHaveKeys == Spec => []PaidPlanHasKey
<1>1. Init => KeyInv
  BY DEF Init, KeyInv, PaidPlanHasKey, Free
<1>2. KeyInv => PaidPlanHasKey
  BY DEF KeyInv
<1> QED
  BY <1>1, <1>2, KeyStep, AlwaysTyped, PTL DEF Spec

\* What a downgrade loaded is still there; once it is about to save FREE, all
\* of it is revoked.
LoadedInv ==
    \A d \in Downgrades :
      /\ pc[d] \in {"revoke", "saveTenant"} => loaded[d] \subseteq KeysOf(TenantOf[d])
      /\ pc[d] = "saveTenant" /\ copy[d].plan = "free" => loaded[d] \subseteq revoked

LEMMA LoadedStep == Typed /\ LoadedInv /\ [Next]_vars => LoadedInv'
<1> SUFFICES ASSUME Typed, LoadedInv, [Next]_vars, NEW d \in Downgrades
             PROVE  /\ pc'[d] \in {"revoke", "saveTenant"}
                         => loaded'[d] \subseteq KeysOf(TenantOf[d])'
                    /\ pc'[d] = "saveTenant" /\ copy'[d].plan = "free"
                         => loaded'[d] \subseteq revoked'
  BY DEF LoadedInv
<1>1. KeysOf(TenantOf[d]) \subseteq KeysOf(TenantOf[d])'
  BY Monotone DEF KeysOf
<1>2. revoked \subseteq revoked'
  BY Revocations
<1>3. CASE FindForDowngrade(d)
  <2>1. pc'[d] \in {"revoke", "saveTenant"} => loaded'[d] = KeysOf(TenantOf[d])
    BY <1>3 DEF FindForDowngrade, Goto, DbError, Typed, TypeOK
  <2>2. pc'[d] = "saveTenant" => copy'[d].plan # "free"
    BY <1>3 DEF FindForDowngrade, Goto, DbError, Typed, TypeOK
  <2> QED
    BY <1>1, <2>1, <2>2
<1>4. CASE RevokeTenantKeys(d)
  <2>1. pc[d] = "revoke" /\ loaded' = loaded
    BY <1>4 DEF RevokeTenantKeys
  <2>2. pc'[d] = "saveTenant" => KeysOf(TenantOf[d]) \subseteq revoked'
    BY <1>4 DEF RevokeTenantKeys, Goto, DbError, Typed
  <2> QED
    BY <1>1, <2>1, <2>2 DEF LoadedInv
<1>5. CASE /\ ~FindForDowngrade(d) /\ ~RevokeTenantKeys(d)
           /\ pc'[d] \in {"revoke", "saveTenant"}
  <2>1. pc'[d] = pc[d] /\ copy'[d] = copy[d] /\ loaded'[d] = loaded[d]
    BY <1>5, DowngradeUntouched
  <2> QED
    BY <1>1, <1>2, <2>1 DEF LoadedInv
<1> QED
  BY <1>3, <1>4, <1>5

\* When a downgrade to FREE returns, the tenant holds no active key, although
\* a webhook may make one between the revocation and the save.
THEOREM DowngradesLeaveNoKey == Spec => DowngradeLeavesNoKey
<1>1. Init => LoadedInv
  BY DEF Init, LoadedInv
<1>2. Typed /\ LoadedInv /\ [Next]_vars =>
        [\A d \in Downgrades : SaveDowngrade(d) /\ pc'[d] = "returned" /\ copy[d].plan = "free"
           => KeysOf(TenantOf[d]) \subseteq revoked]_vars
  <2>1. ASSUME Typed, LoadedInv, NEW d \in Downgrades, SaveDowngrade(d),
               pc'[d] = "returned", copy[d].plan = "free"
        PROVE  KeysOf(TenantOf[d]) \subseteq revoked
    <3>1. loaded[d] = KeysOf(TenantOf[d]) /\ pc[d] = "saveTenant"
      BY <2>1 DEF SaveDowngrade, Goto, DbError, Typed
    <3> QED
      BY <2>1, <3>1 DEF LoadedInv
  <2> QED
    BY <2>1
<1> QED
  BY <1>1, <1>2, LoadedStep, AlwaysTyped, PTL DEF Spec, DowngradeLeavesNoKey
=============================================================================
