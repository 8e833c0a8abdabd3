----------------------- MODULE TenantMembershipProofs -----------------------
(***************************************************************************)
(* What TenantMembership promises about tenants, members and invitations,  *)
(* for any users and calls.                                                *)
(***************************************************************************)
EXTENDS TenantMembership, TLAPS

USE DifferentCalls, UserOfAssumption, TenantOfAssumption, InvitationAssumption,
    NoTenantAssumption DEF Tenants, PlanChanges, Calls

-----------------------------------------------------------------------------
(* Types, and the names of tenants.                                        *)

Location == {"idle", "insert", "key", "findUser", "saveUser", "add", "saveTenant",
             "findRemoved", "log", "delete", "findInvitation", "saveInvitation",
             "findTenant", "savePlan", "inserted", "over"}

Typed == TypeOK /\ pc \in [Calls -> Location]

\* The calls whose steps are shared.
Joins == Creates \cup Adds \cup Accepts
Saves == Adds \cup Accepts \cup Removes

USE DEF Joins, Saves

\* A step of the call c moves only c and its own copies.
OwnStep(c) ==
    /\ pc' = [pc EXCEPT ![c] = pc'[c]] /\ pc'[c] \in Location
    /\ copy' = [copy EXCEPT ![c] = copy'[c]]
    /\ mine' = [mine EXCEPT ![c] = mine'[c]]

LEMMA InitTyped == Init => Typed
  BY DEF Init, Typed, TypeOK, Location, Copy, NoCopy

LEMMA ThrowTyped ==
  ASSUME Typed, NEW c \in Calls, Throw(c)
  PROVE  Typed' /\ OwnStep(c) /\ UNCHANGED rows
<1> HIDE DEF Calls
<1>1. NoCopy \in Copy
  BY DEF NoCopy, Copy
<1> QED
  BY <1>1 DEF Throw, Goto, Typed, TypeOK, OwnStep, Location, rows, Exists

LEMMA CreateStepTyped ==
  ASSUME Typed, NEW c \in Creates, CreateStep(c)
  PROVE  Typed' /\ OwnStep(c)
<1> USE DEF Typed, TypeOK, Goto, OwnStep, Location, rows, Exists
<1>1. CASE CreateTenant(c)
  BY <1>1 DEF CreateTenant
<1>2. CASE InsertTenant(c)
  BY <1>2 DEF InsertTenant
<1>3. CASE CreateTestKey(c) /\ ~Throw(c)
  BY <1>3 DEF CreateTestKey, Refuse
<1> QED
  BY <1>1, <1>2, <1>3, ThrowTyped DEF CreateStep

LEMMA UserStepTyped ==
  ASSUME Typed, NEW c \in Joins \cup Removes, FindUser(c) \/ SaveUser(c) \/ LogEvent(c)
  PROVE  Typed' /\ OwnStep(c)
<1>1. c \in Calls /\ UserOf[c] \in Users /\ TenantOf[c] \in Tenants
  OBVIOUS
<1>2. Target(c) \in Tenants \cup {NoTenant}
  BY <1>1 DEF Target
<1> HIDE DEF Calls
<1>3. CASE FindUser(c) /\ ~Throw(c)
  <2>1. /\ mine' = [mine EXCEPT ![c] = TenantsOf(UserOf[c])]
        /\ pc' = [pc EXCEPT ![c] = "saveUser"] /\ UNCHANGED <<rows, copy>>
    BY <1>3 DEF FindUser, Refuse, Goto
  <2>2. TenantsOf(UserOf[c]) \in SUBSET Tenants
    BY DEF TenantsOf
  <2> QED
    BY <1>1, <2>1, <2>2 DEF Typed, TypeOK, OwnStep, Location, rows, Exists
<1>4. CASE SaveUser(c) /\ ~Throw(c)
  <2>1. /\ mine' = [mine EXCEPT ![c] = {}] /\ UNCHANGED <<plan, keys, invitation, logged, copy>>
        /\ \A t \in mine[c] : Exists(t)
        /\ current' = [current EXCEPT ![UserOf[c]] = Target(c)]
        /\ pc' = [pc EXCEPT ![c] = IF c \in Creates THEN "key" ELSE "log"]
        /\ members' = {row \in members : row[2] # UserOf[c]}
                         \cup {<<t, UserOf[c]>> : t \in mine[c]}
    BY <1>4 DEF SaveUser, Refuse, Resume, Goto
  <2>2. members' \subseteq {t \in Tenants : Exists(t)} \X Users
    BY <1>1, <2>1 DEF Typed, TypeOK
  <2>3. current' \in [Users -> Tenants \cup {NoTenant}]
    BY <1>1, <1>2, <2>1 DEF Typed, TypeOK
  <2> QED
    BY <1>1, <2>1, <2>2, <2>3 DEF Typed, TypeOK, OwnStep, Location, Exists
<1>5. CASE LogEvent(c) /\ ~Throw(c)
  <2>1. /\ UNCHANGED <<plan, members, current, keys, invitation, copy, mine>>
        /\ pc' = [pc EXCEPT ![c] = IF c \in Accepts THEN "saveInvitation" ELSE "over"]
    BY <1>5 DEF LogEvent, Refuse, Goto
  <2> QED
    BY <1>1, <2>1 DEF Typed, TypeOK, OwnStep, Location, Exists
<1> QED
  BY <1>1, <1>3, <1>4, <1>5, ThrowTyped

LEMMA SaveStepTyped ==
  ASSUME Typed, NEW c \in Saves,
         SaveTenant(c) \/ FindForRemove(c) \/ FindRemoved(c) \/ FindForAdd(c)
  PROVE  Typed' /\ OwnStep(c)
<1>1. c \in Calls /\ UserOf[c] \in Users /\ TenantOf[c] \in Tenants
  OBVIOUS
<1> HIDE DEF Calls
<1>2. ASSUME NEW users \in SUBSET Users, Load(c, users), Exists(TenantOf[c])
      PROVE  Typed' /\ OwnStep(c)
  <2>1. [plan |-> plan[TenantOf[c]], users |-> users, keys |-> {}] \in Copy
    BY <1>1, <1>2 DEF Copy, Typed, TypeOK, Exists
  <2> QED
    BY <1>1, <1>2, <2>1 DEF Load, Goto, Typed, TypeOK, OwnStep, Location, rows, Exists
<1>3. CASE SaveTenant(c)
  <2>1. /\ plan' = [plan EXCEPT ![TenantOf[c]] = copy[c].plan]
        /\ members' = {row \in members : row[1] # TenantOf[c]}
                        \cup {<<TenantOf[c], u>> : u \in copy[c].users}
        /\ copy' = [copy EXCEPT ![c] = NoCopy]
        /\ UNCHANGED <<current, keys, invitation, logged, mine>>
        /\ pc' = [pc EXCEPT ![c] = IF c \in Removes THEN "findRemoved" ELSE "findUser"]
    BY <1>3 DEF SaveTenant, Goto
  <2>2. copy[c].plan \in {"free", "paid"} /\ copy[c].users \in SUBSET Users
    BY <1>1 DEF Typed, TypeOK, Copy
  <2>3. /\ plan' \in [Tenants -> {"none", "free", "paid"}]
        /\ \A t \in Tenants : plan'[t] = "none" => plan[t] = "none" /\ t # TenantOf[c]
    BY <1>1, <2>1, <2>2 DEF Typed, TypeOK
  <2>4. /\ members' \subseteq {t \in Tenants : plan'[t] # "none"} \X Users
        /\ keys' \subseteq {k \in Creates \cup Upgrades : plan'[TenantOf[k]] # "none"}
    BY <1>1, <2>1, <2>2, <2>3 DEF Calls, Typed, TypeOK, Exists
  <2>5. copy' \in [Calls -> Copy]
    BY <2>1 DEF Typed, TypeOK, Copy, NoCopy
  <2>6. OwnStep(c) /\ pc' \in [Calls -> Location]
    BY <1>1, <2>1 DEF Typed, TypeOK, OwnStep, Location
  <2> QED
    BY <2>1, <2>3, <2>4, <2>5, <2>6 DEF Typed, TypeOK, Exists
<1>4. CASE FindForRemove(c)
  <2>1. MembersOf(TenantOf[c]) \ {UserOf[c]} \in SUBSET Users
    BY DEF MembersOf
  <2> QED
    BY <1>2, <1>4, <2>1 DEF FindForRemove, RemoveRefused
<1>5. CASE FindRemoved(c)
  BY <1>1, <1>5 DEF FindRemoved, Goto, Typed, TypeOK, OwnStep, Location, rows, Exists
<1>6. CASE FindForAdd(c)
  <2>1. MembersOf(TenantOf[c]) \cup {UserOf[c]} \in SUBSET Users
    BY <1>1 DEF MembersOf
  <2>2. Exists(TenantOf[c])
    BY <1>6 DEF FindForAdd, AddRefused, Exists
  <2> QED
    BY <1>2, <1>6, <2>1, <2>2 DEF FindForAdd
<1> QED
  BY <1>3, <1>4, <1>5, <1>6

LEMMA OtherStepTyped ==
  ASSUME Typed, NEW c \in Calls,
         \/ c \in Deletes /\ DeleteStep(c)
         \/ c \in Invites /\ InviteStep(c)
         \/ c \in Accepts /\ AcceptStep(c)
         \/ c \in Invites \cup Accepts /\ SaveInvitation(c)
  PROVE  Typed' /\ OwnStep(c)
<1>1. TenantOf[c] \in Tenants
  OBVIOUS
<1>2. CASE DeleteTenant(c)
  <2>1. \A t \in Tenants : plan'[t] = "none" => plan[t] = "none" \/ t = TenantOf[c]
    BY <1>1, <1>2 DEF DeleteTenant, Typed, TypeOK
  <2>2. /\ members' \subseteq {t \in Tenants : plan'[t] # "none"} \X Users
        /\ keys' \subseteq {k \in Creates \cup Upgrades : plan'[TenantOf[k]] # "none"}
    BY <1>1, <1>2, <2>1 DEF DeleteTenant, KeysOf, Typed, TypeOK, Exists
  <2> QED
    BY <1>1, <1>2, <2>2 DEF DeleteTenant, Goto, Typed, TypeOK, OwnStep, Location, Exists
<1>3. CASE SaveInvitation(c) /\ c \in Invites \cup Accepts
  <2>1. /\ pc' = [pc EXCEPT ![c] = "over"]
        /\ UNCHANGED <<plan, members, current, keys, logged, copy, mine>>
    BY <1>3 DEF SaveInvitation, Goto
  <2>2. invitation' \in [Invites -> {"absent", "open", "expired", "accepted"}]
    BY <1>3 DEF SaveInvitation, Typed, TypeOK
  <2> HIDE DEF Calls
  <2> QED
    BY <2>1, <2>2 DEF Typed, TypeOK, OwnStep, Location, Exists
<1>4. CASE FindForDelete(c) \/ InviteStep(c) \/ AcceptStep(c)
  BY <1>4 DEF FindForDelete, InviteStep, FindForInvite, FindInvitation, AcceptStep,
     AcceptTenantInvitation, FindInvitingTenant, Goto, Typed, TypeOK, OwnStep, Location,
     rows, Exists
<1> QED
  BY <1>2, <1>3, <1>4 DEF DeleteStep

LEMMA PlanStepTyped ==
  ASSUME Typed, NEW c \in PlanChanges,
         \/ c \in Upgrades /\ UpgradeStep(c)
         \/ c \in Downgrades /\ FindForDowngrade(c)
         \/ SavePlan(c)
  PROVE  Typed' /\ OwnStep(c)
<1>1. c \in Calls /\ TenantOf[c] \in Tenants /\ keys \subseteq Calls
  BY DEF Typed, TypeOK
<1> HIDE DEF Calls
<1>2. ASSUME NEW new \in Copy, copy' = [copy EXCEPT ![c] = new], UNCHANGED <<rows, mine>>,
             Goto(c, "key") \/ Goto(c, "savePlan")
      PROVE  Typed' /\ OwnStep(c)
  BY <1>1, <1>2 DEF Goto, Typed, TypeOK, OwnStep, Location, rows, Exists
<1>3. CASE c \in Upgrades /\ FindForUpgrade(c)
  <2>1. [NoCopy EXCEPT !.plan = "paid"] \in Copy
    BY DEF NoCopy, Copy
  <2> QED
    BY <1>2, <1>3, <2>1 DEF FindForUpgrade
<1>4. CASE c \in Upgrades /\ CreateApiKey(c)
  BY <1>1, <1>4 DEF CreateApiKey, Goto, Typed, TypeOK, OwnStep, Location, Exists
<1>5. CASE c \in Downgrades /\ FindForDowngrade(c)
  <2>1. KeysOf(TenantOf[c]) \in SUBSET Calls
    BY <1>1 DEF KeysOf
  <2>2. \A new \in {"free", "paid"} :
          [plan |-> new, users |-> {}, keys |-> KeysOf(TenantOf[c])] \in Copy
    BY <2>1 DEF Copy
  <2> QED
    BY <1>2, <1>5, <2>2 DEF FindForDowngrade
<1>6. CASE SavePlan(c)
  <2>1. /\ plan' = [plan EXCEPT ![TenantOf[c]] = copy[c].plan]
        /\ copy' = [copy EXCEPT ![c] = NoCopy]
        /\ UNCHANGED <<members, current, keys, invitation, logged, mine>>
        /\ pc' = [pc EXCEPT ![c] = IF Exists(TenantOf[c]) THEN "over" ELSE "inserted"]
    BY <1>6 DEF SavePlan, Goto
  <2>2. copy[c].plan \in {"free", "paid"}
    BY <1>1 DEF Typed, TypeOK, Copy
  <2>3. /\ plan' \in [Tenants -> {"none", "free", "paid"}]
        /\ \A t \in Tenants : plan'[t] = "none" => plan[t] = "none"
    BY <1>1, <2>1, <2>2 DEF Typed, TypeOK
  <2>4. /\ members' \subseteq {t \in Tenants : plan'[t] # "none"} \X Users
        /\ keys' \subseteq {k \in Creates \cup Upgrades : plan'[TenantOf[k]] # "none"}
    BY <2>1, <2>3 DEF Calls, Typed, TypeOK, Exists
  <2>5. copy' \in [Calls -> Copy]
    BY <2>1 DEF Typed, TypeOK, Copy, NoCopy
  <2>6. OwnStep(c) /\ pc' \in [Calls -> Location]
    BY <1>1, <2>1 DEF Typed, TypeOK, OwnStep, Location
  <2> QED
    BY <2>1, <2>3, <2>4, <2>5, <2>6 DEF Typed, TypeOK, Exists
<1> QED
  BY <1>3, <1>4, <1>5, <1>6 DEF UpgradeStep

\* Time moves no call.
LEMMA WorldTyped ==
  ASSUME Typed, (\E i \in Invites : Expire(i)) \/ UNCHANGED vars
  PROVE  Typed' /\ UNCHANGED locals
  BY DEF Expire, vars, rows, locals, Typed, TypeOK, Exists

LEMMA StepTyped ==
  ASSUME Typed, [Next]_vars
  PROVE  Typed' /\ (UNCHANGED locals \/ \E c \in Calls : OwnStep(c))
  BY CreateStepTyped, UserStepTyped, SaveStepTyped, OtherStepTyped, PlanStepTyped, WorldTyped
     DEF Next, RemoveStep

LEMMA AlwaysTyped == Spec => []Typed
  BY InitTyped, StepTyped, PTL DEF Spec

\* Every variable of TenantMembership keeps its type, and only tenants with a
\* row have members and keys.
THEOREM TypeCorrect == Spec => []TypeOK
<1>1. Typed => TypeOK
  BY DEF Typed
<1> QED
  BY <1>1, AlwaysTyped, PTL

-----------------------------------------------------------------------------
(* Names.                                                                  *)

\* At most one tenant comes into being in a step, under a name that is free.
LEMMA NewTenants ==
  ASSUME Typed, [Next]_vars
  PROVE  \E n \in Tenants \cup {NoTenant} :
           /\ \A t \in Tenants : t # n /\ Exists(t)' => Exists(t)
           /\ n \in Tenants => ~NameTaken(n)
<1> DEFINE Fresh(n) == /\ \A t \in Tenants : t # n /\ Exists(t)' => Exists(t)
                       /\ n \in Tenants => ~NameTaken(n)
<1>1. ASSUME UNCHANGED plan PROVE Fresh(NoTenant)
  BY <1>1 DEF Exists
<1>2. ASSUME NEW c \in Creates, InsertTenant(c) PROVE Fresh(c)
  BY <1>2 DEF InsertTenant, Exists, Typed, TypeOK
<1>3. ASSUME NEW c \in Saves, SaveTenant(c)
      PROVE  Fresh(NoTenant) \/ Fresh(TenantOf[c])
  BY <1>3 DEF SaveTenant, Exists, Typed, TypeOK
<1>4. ASSUME NEW c \in Deletes, DeleteTenant(c) PROVE Fresh(NoTenant)
  BY <1>4 DEF DeleteTenant, Exists, Typed, TypeOK
<1>5. ASSUME NEW c \in PlanChanges, SavePlan(c)
      PROVE  Fresh(NoTenant) \/ Fresh(TenantOf[c])
  BY <1>5 DEF SavePlan, Exists, Typed, TypeOK
<1>6. \/ UNCHANGED plan
      \/ \E c \in Creates : InsertTenant(c)
      \/ \E c \in Saves : SaveTenant(c)
      \/ \E c \in Deletes : DeleteTenant(c)
      \/ \E c \in PlanChanges : SavePlan(c)
  BY DEF Next, vars, rows, CreateStep, CreateTenant, CreateTestKey, Refuse, Throw, FindForAdd,
     Load, RemoveStep, FindForRemove, FindRemoved, FindUser, SaveUser, LogEvent, DeleteStep,
     FindForDelete, InviteStep, FindForInvite, FindInvitation, Expire, AcceptStep,
     AcceptTenantInvitation, FindInvitingTenant, SaveInvitation, UpgradeStep, FindForUpgrade,
     CreateApiKey, FindForDowngrade
<1>7. \A c \in Saves \cup PlanChanges : TenantOf[c] \in Tenants
  OBVIOUS
<1> HIDE DEF Fresh
<1>8. \E n \in Tenants \cup {NoTenant} : Fresh(n)
  BY <1>1, <1>2, <1>3, <1>4, <1>5, <1>6, <1>7
<1> QED
  BY <1>8 DEF Fresh

\* No two tenants have one name, though createTenant checks in one step and
\* inserts in another, and a deleted tenant may be saved again.
THEOREM NamesAreUnique == Spec => []OneTenantPerName
<1>1. Init => OneTenantPerName
  BY DEF Init, OneTenantPerName, Exists
<1>2. Typed /\ OneTenantPerName /\ [Next]_vars => OneTenantPerName'
  BY NewTenants DEF OneTenantPerName, NameTaken
<1> QED
  BY <1>1, <1>2, AlwaysTyped, PTL DEF Spec

-----------------------------------------------------------------------------
(* Being active in a tenant, and accepting an invitation.                  *)

StepOf(c) ==
    \/ c \in Creates /\ CreateStep(c)
    \/ c \in Adds \cup Accepts /\ FindForAdd(c)
    \/ c \in Removes /\ RemoveStep(c)
    \/ c \in Saves /\ SaveTenant(c)
    \/ c \in Joins \cup Removes /\ (FindUser(c) \/ SaveUser(c) \/ LogEvent(c))
    \/ c \in Deletes /\ DeleteStep(c)
    \/ c \in Invites /\ InviteStep(c)
    \/ c \in Accepts /\ AcceptStep(c)
    \/ c \in Invites \cup Accepts /\ SaveInvitation(c)
    \/ c \in Upgrades /\ UpgradeStep(c)
    \/ c \in Downgrades /\ FindForDowngrade(c)
    \/ c \in PlanChanges /\ SavePlan(c)

LEMMA StepsHaveOwners ==
  ASSUME Typed, [Next]_vars
  PROVE  \/ UNCHANGED <<members, current, logged, locals>>
         \/ \E c \in Calls : StepOf(c) /\ OwnStep(c)
<1>1. \A c \in Calls : StepOf(c) => OwnStep(c)
  BY CreateStepTyped, UserStepTyped, SaveStepTyped, OtherStepTyped, PlanStepTyped
     DEF StepOf, RemoveStep
<1>2. \/ \E c \in Calls : StepOf(c)
      \/ \E i \in Invites : Expire(i)
      \/ UNCHANGED vars
  BY DEF Next, StepOf
<1> QED
  BY <1>1, <1>2 DEF Expire, vars, rows, locals

\* A user about to be saved was loaded as a member of his target.
TargetInv ==
    \A c \in Joins \cup Removes :
      pc[c] = "saveUser" => Target(c) \in mine[c] \cup {NoTenant}

\* Only the invited user gets past findTenant, and the event is logged when
\* the invitation is about to be marked.
AcceptInv ==
    \A c \in Accepts :
      /\ pc[c] \in {"add", "saveTenant", "findUser", "saveUser", "log", "saveInvitation"}
           => UserOf[c] = UserOf[InvitationOf[c]]
      /\ pc[c] = "saveInvitation" => <<"TENANT.USER_ADDED", TenantOf[c], UserOf[c]>> \in logged

LEMMA TargetStep == Typed /\ TargetInv /\ [Next]_vars => TargetInv'
<1> SUFFICES ASSUME Typed, TargetInv, [Next]_vars, NEW c \in Joins \cup Removes,
                    pc'[c] = "saveUser"
             PROVE  Target(c) \in mine'[c] \cup {NoTenant}
  BY DEF TargetInv, Target
<1>1. c \in Calls
  OBVIOUS
<1>2. CASE UNCHANGED <<members, current, logged, locals>>
  BY <1>2 DEF TargetInv, locals
<1>3. ASSUME NEW d \in Calls, d # c, OwnStep(d) PROVE Target(c) \in mine'[c] \cup {NoTenant}
  BY <1>1, <1>3 DEF TargetInv, OwnStep, Typed, TypeOK
<1>4. CASE StepOf(c)
  <2>1. FindUser(c) /\ ~Throw(c)
    BY <1>1, <1>4 DEF StepOf, Typed, Goto, CreateStep, CreateTenant, InsertTenant, CreateTestKey,
       Refuse, Throw, FindForAdd, Load, RemoveStep, FindForRemove, FindRemoved, SaveTenant,
       SaveUser, Resume, LogEvent, DeleteStep, FindForDelete, DeleteTenant, InviteStep,
       FindForInvite, FindInvitation, AcceptStep, AcceptTenantInvitation, FindInvitingTenant,
       SaveInvitation
  <2> QED
    BY <1>1, <2>1 DEF FindUser, Refuse, Typed, TypeOK
<1> QED
  BY <1>2, <1>3, <1>4, StepsHaveOwners

\* Whenever a user becomes active in a tenant he is a member of it at that
\* moment, although his memberships were read in an earlier step.
THEOREM ActiveMeansMember == Spec => ActiveWhereMember
<1> DEFINE Joined == \A u \in Users :
             current'[u] \notin {current[u], NoTenant} => <<current'[u], u>> \in members'
<1>1. Init => TargetInv
  BY DEF Init, TargetInv
<1>2. ASSUME Typed, TargetInv, [Next]_vars PROVE Joined
  <2>1. UNCHANGED current \/ \E c \in Joins \cup Removes : SaveUser(c) /\ ~Throw(c)
    BY <1>2 DEF Next, vars, rows, CreateStep, CreateTenant, InsertTenant, CreateTestKey, Refuse,
       Throw, FindForAdd, Load, RemoveStep, FindForRemove, FindRemoved, SaveTenant, FindUser,
       LogEvent, DeleteStep, FindForDelete, DeleteTenant, InviteStep, FindForInvite,
       FindInvitation, Expire, AcceptStep, AcceptTenantInvitation, FindInvitingTenant,
       SaveInvitation, UpgradeStep, FindForUpgrade, CreateApiKey, FindForDowngrade, SavePlan
  <2>2. ASSUME NEW c \in Joins \cup Removes, SaveUser(c), ~Throw(c) PROVE Joined
    <3>1. /\ members' = {row \in members : row[2] # UserOf[c]}
                           \cup {<<t, UserOf[c]>> : t \in mine[c]}
          /\ current' = [current EXCEPT ![UserOf[c]] = Target(c)]
          /\ Target(c) \in mine[c] \cup {NoTenant}
      BY <1>2, <2>2 DEF SaveUser, Refuse, TargetInv
    <3> QED
      BY <3>1 DEF Typed, TypeOK
  <2>3. UNCHANGED current => Joined
    OBVIOUS
  <2> QED
    BY <2>1, <2>2, <2>3
<1>3. Typed /\ TargetInv /\ [Next]_vars => [Joined]_vars
  BY <1>2
<1> QED
  BY <1>1, <1>3, TargetStep, AlwaysTyped, PTL DEF Spec, ActiveWhereMember

LEMMA AcceptStepOf ==
  ASSUME Typed, AcceptInv, NEW c \in Accepts, StepOf(c), OwnStep(c)
  PROVE  /\ pc'[c] \in {"add", "saveTenant", "findUser", "saveUser", "log", "saveInvitation"}
              => UserOf[c] = UserOf[InvitationOf[c]]
         /\ pc'[c] = "saveInvitation"
              => <<"TENANT.USER_ADDED", TenantOf[c], UserOf[c]>> \in logged'
<1> USE DEF Typed, AcceptInv, Goto
<1>1. c \in Calls /\ c \notin Creates \cup Removes \cup Deletes \cup Invites \cup Adds
  OBVIOUS
<1>2. CASE FindForAdd(c)
  BY <1>1, <1>2 DEF FindForAdd, AddStart, Load
<1>3. CASE SaveTenant(c)
  BY <1>1, <1>3 DEF SaveTenant
<1>4. CASE FindUser(c)
  BY <1>1, <1>4 DEF FindUser, Refuse, Throw
<1>5. CASE SaveUser(c)
  BY <1>1, <1>5 DEF SaveUser, Refuse, Throw, Resume
<1>6. CASE LogEvent(c)
  <2>1. EventType(c) = "TENANT.USER_ADDED"
    BY <1>1 DEF EventType
  <2> QED
    BY <1>1, <1>6, <2>1 DEF LogEvent, Refuse, Throw
<1>7. CASE AcceptStep(c)
  BY <1>1, <1>7 DEF AcceptStep, AcceptTenantInvitation, FindInvitingTenant, AcceptRefused
<1>8. CASE SaveInvitation(c)
  BY <1>1, <1>8 DEF SaveInvitation
<1> QED
  BY <1>1, <1>2, <1>3, <1>4, <1>5, <1>6, <1>7, <1>8 DEF StepOf

LEMMA LoggedGrows == [Next]_vars => logged \subseteq logged'
  BY DEF Next, vars, rows, CreateStep, CreateTenant, InsertTenant, CreateTestKey, Refuse,
     Throw, FindForAdd, Load, RemoveStep, FindForRemove, FindRemoved, SaveTenant, FindUser,
     SaveUser, LogEvent, DeleteStep, FindForDelete, DeleteTenant, InviteStep, FindForInvite,
     FindInvitation, Expire, AcceptStep, AcceptTenantInvitation, FindInvitingTenant,
     SaveInvitation, UpgradeStep, FindForUpgrade, CreateApiKey, FindForDowngrade, SavePlan

LEMMA AcceptInvStep == Typed /\ AcceptInv /\ [Next]_vars => AcceptInv'
<1> SUFFICES ASSUME Typed, AcceptInv, [Next]_vars, NEW c \in Accepts
             PROVE  /\ pc'[c] \in {"add", "saveTenant", "findUser", "saveUser", "log",
                                   "saveInvitation"} => UserOf[c] = UserOf[InvitationOf[c]]
                    /\ pc'[c] = "saveInvitation"
                         => <<"TENANT.USER_ADDED", TenantOf[c], UserOf[c]>> \in logged'
  BY DEF AcceptInv
<1>1. CASE pc'[c] = pc[c]
  BY <1>1, LoggedGrows DEF AcceptInv
<1>2. CASE StepOf(c) /\ OwnStep(c)
  BY <1>2, AcceptStepOf
<1>3. ASSUME NEW d \in Calls, d # c, OwnStep(d) PROVE pc'[c] = pc[c]
  BY <1>3 DEF OwnStep, Typed
<1>4. UNCHANGED locals => pc'[c] = pc[c]
  BY DEF locals
<1> QED
  BY <1>1, <1>2, <1>3, <1>4, StepsHaveOwners

\* An accepted invitation was preceded by the event that the very user it was
\* sent to joined.
THEOREM AcceptedWasAnnounced == Spec => []AcceptedIsAnnounced
<1>1. Init => AcceptInv /\ AcceptedIsAnnounced
  BY DEF Init, AcceptInv, AcceptedIsAnnounced
<1>2. ASSUME Typed, AcceptInv, AcceptedIsAnnounced, [Next]_vars PROVE AcceptedIsAnnounced'
  <2>1. \/ \A i \in Invites : invitation'[i] = "accepted" => invitation[i] = "accepted"
        \/ \E c \in Accepts : SaveInvitation(c)
    <3>1. ASSUME NEW c \in Invites, SaveInvitation(c)
          PROVE  \A i \in Invites : invitation'[i] = "accepted" => invitation[i] = "accepted"
      BY <1>2, <3>1 DEF SaveInvitation, Typed, TypeOK
    <3>2. ASSUME NEW x \in Invites, Expire(x)
          PROVE  \A i \in Invites : invitation'[i] = "accepted" => invitation[i] = "accepted"
      BY <1>2, <3>2 DEF Expire, Typed, TypeOK
    <3>3. \/ UNCHANGED invitation
          \/ \E c \in Invites \cup Accepts : SaveInvitation(c)
          \/ \E i \in Invites : Expire(i)
      BY <1>2 DEF Next, vars, rows, CreateStep, CreateTenant, InsertTenant, CreateTestKey, Refuse,
         Throw, FindForAdd, Load, RemoveStep, FindForRemove, FindRemoved, SaveTenant,
         FindUser, SaveUser, LogEvent, DeleteStep, FindForDelete, DeleteTenant, InviteStep,
         FindForInvite, FindInvitation, AcceptStep, AcceptTenantInvitation,
         FindInvitingTenant, UpgradeStep, FindForUpgrade, CreateApiKey, FindForDowngrade,
         SavePlan
    <3> QED
      BY <3>1, <3>2, <3>3
  <2>2. ASSUME NEW c \in Accepts, SaveInvitation(c) PROVE AcceptedIsAnnounced'
    <3>1. /\ invitation' = [invitation EXCEPT ![InvitationOf[c]] = "accepted"]
          /\ UserOf[c] = UserOf[InvitationOf[c]] /\ TenantOf[c] = TenantOf[InvitationOf[c]]
          /\ <<"TENANT.USER_ADDED", TenantOf[c], UserOf[c]>> \in logged
      BY <1>2, <2>2 DEF SaveInvitation, AcceptInv
    <3> QED
      BY <1>2, <3>1, LoggedGrows DEF AcceptedIsAnnounced, Typed, TypeOK
  <2> QED
    BY <1>2, <2>1, <2>2, LoggedGrows DEF AcceptedIsAnnounced
<1> QED
  BY <1>1, <1>2, AcceptInvStep, AlwaysTyped, PTL DEF Spec

-----------------------------------------------------------------------------
(* Owners.                                                                 *)

\* A user who makes and joins only t is in no other tenant, and nobody saves
\* him into one.
OnlyIn(t) ==
    LET u == UserOf[t] IN
      /\ \A x \in Tenants : <<x, u>> \in members => x = t
      /\ \A c \in Calls : /\ u \in copy[c].users => TenantOf[c] = t
                          /\ c \notin Deletes \cup PlanChanges /\ UserOf[c] = u => mine[c] \subseteq {t}
      /\ \A c \in Removes : UserOf[c] = u => pc[c] \in {"idle", "over"}

\* Until a change of its plan inserts t again, the owner is in every copy of
\* his tenant that is about to be saved with its users.
Kept(t) ==
    /\ OnlyIn(t)
    /\ Exists(t) /\ ~Reinserted(t) => <<t, UserOf[t]>> \in members
    /\ \A c \in Saves : TenantOf[c] = t /\ pc[c] = "saveTenant" /\ ~Reinserted(t)
                        => UserOf[t] \in copy[c].users

OwnerInv == \A t \in Tenants : Exclusive(UserOf[t], t) => Kept(t)

\* A call that inserted a tenant again is over.
LEMMA ReinsertedStays ==
  ASSUME Typed, [Next]_vars, NEW t \in Tenants, Reinserted(t)
  PROVE  Reinserted(t)'
<1>1. PICK c \in PlanChanges : TenantOf[c] = t /\ pc[c] = "inserted"
  BY DEF Reinserted
<1>2. c \in Calls /\ c \notin Joins \cup Removes \cup Deletes \cup Invites
  OBVIOUS
<1>3. ~StepOf(c)
  BY <1>1, <1>2 DEF StepOf, UpgradeStep, FindForUpgrade, CreateApiKey, FindForDowngrade,
     SavePlan
<1>4. ASSUME NEW d \in Calls, d # c, OwnStep(d) PROVE pc'[c] = pc[c]
  BY <1>2, <1>4 DEF OwnStep, Typed
<1>5. pc'[c] = pc[c]
  BY <1>3, <1>4, StepsHaveOwners DEF locals
<1> QED
  BY <1>1, <1>5 DEF Reinserted

LEMMA OwnerStep ==
  ASSUME Typed, TargetInv, OwnerInv, [Next]_vars, NEW t \in Tenants, Exclusive(UserOf[t], t)
  PROVE  Kept(t)'
<1> DEFINE u == UserOf[t]
           Clean == ~Reinserted(t)'
<1>1. /\ OnlyIn(t) /\ (Exists(t) /\ Clean => <<t, u>> \in members)
      /\ \A c \in Saves : TenantOf[c] = t /\ pc[c] = "saveTenant" /\ Clean
                          => u \in copy[c].users
      /\ u \in Users /\ t \in Creates /\ TenantOf[t] = t
  BY ReinsertedStays DEF OwnerInv, Kept
<1> HIDE DEF Clean
<1>2. \A c \in Joins : UserOf[c] = u => TenantOf[c] = t
  BY DEF Exclusive
<1>3. \A c \in Calls : c \notin Deletes \cup PlanChanges => UserOf[c] \in Users
  OBVIOUS
\* What any step of c has to do for the goal, apart from plans and members.
<1>4. ASSUME NEW c \in Calls, OwnStep(c),
             \A x \in Tenants : <<x, u>> \in members' => x = t,
             Exists(t)' /\ Clean => <<t, u>> \in members',
             u \in copy'[c].users => TenantOf[c] = t,
             c \notin Deletes \cup PlanChanges /\ UserOf[c] = u => mine'[c] \subseteq {t},
             c \in Removes /\ UserOf[c] = u => pc'[c] \in {"idle", "over"},
             c \in Saves /\ TenantOf[c] = t /\ pc'[c] = "saveTenant" /\ Clean
               => u \in copy'[c].users
      PROVE  Kept(t)'
  <2>1. \A d \in Calls : d # c => pc'[d] = pc[d] /\ copy'[d] = copy[d] /\ mine'[d] = mine[d]
    BY <1>4 DEF OwnStep, Typed, TypeOK
  <2>2. \A d \in Calls : /\ u \in copy'[d].users => TenantOf[d] = t
                         /\ d \notin Deletes \cup PlanChanges /\ UserOf[d] = u => mine'[d] \subseteq {t}
    BY <1>1, <1>4, <2>1 DEF OnlyIn
  <2>3. \A d \in Removes : UserOf[d] = u => pc'[d] \in {"idle", "over"}
    BY <1>1, <1>4, <2>1 DEF OnlyIn
  <2>4. \A d \in Saves : TenantOf[d] = t /\ pc'[d] = "saveTenant" /\ Clean
                           => u \in copy'[d].users
    BY <1>1, <1>4, <2>1
  <2> QED
    BY <1>4, <2>2, <2>3, <2>4 DEF Kept, OnlyIn, Clean
\* A step that writes neither plans nor members, and loads no tenant.
<1>5. ASSUME NEW c \in Calls, OwnStep(c), UNCHANGED <<plan, members>>,
             copy'[c] = copy[c] \/ copy'[c] = NoCopy,
             \/ mine'[c] \in {mine[c], {}}
             \/ c \notin Deletes \cup PlanChanges /\ mine'[c] = TenantsOf(UserOf[c]),
             c \in Removes => pc[c] # "idle" /\ (pc'[c] = "over" \/ pc[c] # "over"),
             pc'[c] # "saveTenant"
      PROVE  Kept(t)'
  <2>1. u \in copy'[c].users => TenantOf[c] = t
    BY <1>1, <1>5 DEF OnlyIn, NoCopy
  <2>2. c \notin Deletes \cup PlanChanges /\ UserOf[c] = u => mine'[c] \subseteq {t}
    BY <1>1, <1>5 DEF OnlyIn, TenantsOf
  <2>3. c \in Removes /\ UserOf[c] = u => pc'[c] \in {"idle", "over"}
    BY <1>1, <1>5 DEF OnlyIn
  <2> QED
    BY <1>1, <1>4, <1>5, <2>1, <2>2, <2>3 DEF OnlyIn, Exists
<1>6. ASSUME NEW c \in Creates, InsertTenant(c), OwnStep(c) PROVE Kept(t)'
  <2>1. /\ members' = members \cup {<<c, UserOf[c]>>} /\ UNCHANGED <<copy, mine>>
        /\ plan' = [plan EXCEPT ![c] = "free"] /\ pc'[c] # "saveTenant"
    BY <1>6 DEF InsertTenant, Goto, Typed
  <2>2. \A x \in Tenants : <<x, u>> \in members' => x = t
    BY <1>1, <1>2, <2>1 DEF OnlyIn
  <2>3. Exists(t)' /\ Clean => <<t, u>> \in members'
    BY <1>1, <2>1 DEF Exists, Typed, TypeOK
  <2>4. c \in Calls /\ c \notin Saves
    OBVIOUS
  <2> QED
    BY <1>1, <1>4, <1>6, <2>1, <2>2, <2>3, <2>4 DEF OnlyIn
<1>7. ASSUME NEW c \in Adds \cup Accepts, FindForAdd(c), OwnStep(c) PROVE Kept(t)'
  <2>1. /\ copy'[c].users = MembersOf(TenantOf[c]) \cup {UserOf[c]}
        /\ UNCHANGED <<plan, members, mine>> /\ Exists(TenantOf[c])
    BY <1>7 DEF FindForAdd, AddRefused, Load, rows, Exists, Typed, TypeOK
  <2>2. /\ TenantOf[c] \in Tenants /\ c \in Calls /\ c \notin Removes /\ c \notin Deletes \cup PlanChanges
        /\ UserOf[c] = u => TenantOf[c] = t
    BY <1>2
  <2>3. u \in copy'[c].users => TenantOf[c] = t
    BY <1>1, <2>1, <2>2 DEF OnlyIn, MembersOf
  <2>4. TenantOf[c] = t /\ Clean => u \in copy'[c].users
    BY <1>1, <2>1 DEF MembersOf
  <2> QED
    BY <1>1, <1>4, <1>7, <2>1, <2>2, <2>3, <2>4 DEF OnlyIn, Exists
<1>8. ASSUME NEW c \in Removes, FindForRemove(c), OwnStep(c) PROVE Kept(t)'
  <2>1. /\ copy'[c].users = MembersOf(TenantOf[c]) \ {UserOf[c]}
        /\ UNCHANGED <<plan, members, mine>> /\ Exists(TenantOf[c])
        /\ UserOf[c] # UserOf[TenantOf[c]] /\ UserOf[c] \in MembersOf(TenantOf[c])
    BY <1>8 DEF FindForRemove, RemoveRefused, Load, rows, Typed, TypeOK
  <2>2. TenantOf[c] \in Tenants /\ c \in Calls /\ c \notin Deletes \cup PlanChanges
    OBVIOUS
  <2>3. u \in MembersOf(TenantOf[c]) => TenantOf[c] = t
    BY <1>1, <2>2 DEF OnlyIn, MembersOf
  <2>4. UserOf[c] # u
    BY <2>1, <2>3
  <2>5. TenantOf[c] = t /\ Clean => u \in copy'[c].users
    BY <1>1, <2>1, <2>4 DEF MembersOf
  <2> QED
    BY <1>1, <1>4, <1>8, <2>1, <2>2, <2>3, <2>4, <2>5 DEF OnlyIn, Exists
<1>9. ASSUME NEW c \in Saves, SaveTenant(c), OwnStep(c) PROVE Kept(t)'
  <2>1. /\ members' = {row \in members : row[1] # TenantOf[c]}
                        \cup {<<TenantOf[c], x>> : x \in copy[c].users}
        /\ plan' = [plan EXCEPT ![TenantOf[c]] = copy[c].plan]
        /\ copy'[c] = NoCopy /\ mine' = mine
        /\ pc[c] = "saveTenant" /\ pc'[c] # "saveTenant"
    BY <1>9 DEF SaveTenant, Goto, Typed, TypeOK
  <2>2. TenantOf[c] \in Tenants /\ c \in Calls /\ c \notin Deletes \cup PlanChanges
    OBVIOUS
  <2>3. \A x \in Tenants : <<x, u>> \in members' => x = t
    BY <1>1, <2>1, <2>2 DEF OnlyIn
  <2>4. Exists(t)' /\ Clean => <<t, u>> \in members'
    BY <1>1, <1>9, <2>1, <2>2 DEF Exists, Typed, TypeOK
  <2>5. c \in Removes => UserOf[c] # u
    BY <1>1, <2>1 DEF OnlyIn
  <2>6. u \notin copy'[c].users
    BY <2>1 DEF NoCopy
  <2> QED
    BY <1>1, <1>4, <1>9, <2>1, <2>2, <2>3, <2>4, <2>5, <2>6 DEF OnlyIn
<1>10. ASSUME NEW c \in Joins \cup Removes, SaveUser(c), ~Throw(c), OwnStep(c) PROVE Kept(t)'
  <2>1. /\ members' = {row \in members : row[2] # UserOf[c]}
                        \cup {<<x, UserOf[c]>> : x \in mine[c]}
        /\ mine'[c] = {} /\ UNCHANGED <<plan, copy>>
        /\ pc[c] = "saveUser" /\ pc'[c] # "saveTenant"
    BY <1>10 DEF SaveUser, Refuse, Resume, Goto, Typed, TypeOK
  <2>2. c \in Calls /\ c \notin Deletes \cup PlanChanges /\ UserOf[c] \in Users
    OBVIOUS
  <2>3. c \in Removes => UserOf[c] # u
    BY <1>1, <2>1 DEF OnlyIn
  <2>4. UserOf[c] = u => t \in mine[c] /\ mine[c] \subseteq {t}
    <3>1. UserOf[c] = u => c \in Joins /\ TenantOf[c] = t /\ Target(c) = t /\ t # NoTenant
      BY <1>1, <1>2, <2>3 DEF Target
    <3> QED
      BY <1>1, <2>1, <2>2, <3>1 DEF TargetInv, OnlyIn
  <2>5. \A x \in Tenants : <<x, u>> \in members' => x = t
    BY <1>1, <2>1, <2>4 DEF OnlyIn
  <2>6. Exists(t)' /\ Clean => <<t, u>> \in members'
    BY <1>1, <2>1, <2>4 DEF Exists
  <2> QED
    BY <1>1, <1>4, <1>10, <2>1, <2>2, <2>3, <2>5, <2>6 DEF OnlyIn
<1>11. ASSUME NEW c \in Deletes, DeleteTenant(c), OwnStep(c) PROVE Kept(t)'
  <2>1. /\ members' = {row \in members : row[1] # TenantOf[c]}
        /\ plan' = [plan EXCEPT ![TenantOf[c]] = "none"]
        /\ UNCHANGED <<copy, mine>> /\ pc'[c] # "saveTenant"
    BY <1>11 DEF DeleteTenant, Goto, Typed
  <2>2. c \in Calls /\ c \notin Removes /\ c \notin Saves
    OBVIOUS
  <2>3. Exists(t)' /\ Clean => <<t, u>> \in members'
    BY <1>1, <2>1 DEF Exists, Typed, TypeOK
  <2> QED
    BY <1>1, <1>4, <1>11, <2>1, <2>2, <2>3 DEF OnlyIn
<1>12. ASSUME UNCHANGED <<members, locals, plan>> PROVE Kept(t)'
  BY <1>1, <1>12 DEF Kept, OnlyIn, locals, Exists, Clean
<1>13. ASSUME NEW c \in PlanChanges, StepOf(c), OwnStep(c) PROVE Kept(t)'
  <2>1. /\ c \in Calls /\ TenantOf[c] \in Tenants
        /\ c \notin Joins \cup Removes \cup Deletes \cup Invites
    OBVIOUS
  <2>2. \/ c \in Upgrades /\ UpgradeStep(c)
        \/ c \in Downgrades /\ FindForDowngrade(c)
        \/ SavePlan(c)
    BY <1>13, <2>1 DEF StepOf
  <2>3. UNCHANGED <<members, mine>> /\ copy'[c].users \in {copy[c].users, {}}
    BY <2>1, <2>2 DEF UpgradeStep, FindForUpgrade, CreateApiKey, FindForDowngrade, SavePlan,
       NoCopy, rows, Typed, TypeOK
  <2>4. u \in copy'[c].users => TenantOf[c] = t
    BY <1>1, <2>1, <2>3 DEF OnlyIn
  <2>5. Exists(t)' /\ Clean => Exists(t)
    <3>1. CASE SavePlan(c)
      BY <1>13, <2>1, <3>1 DEF SavePlan, Goto, Clean, Reinserted, Exists, Typed, TypeOK
    <3>2. CASE ~SavePlan(c)
      BY <2>2, <3>2 DEF UpgradeStep, FindForUpgrade, CreateApiKey, FindForDowngrade, rows, Exists
    <3> QED
      BY <3>1, <3>2
  <2> QED
    BY <1>1, <1>4, <1>13, <2>1, <2>3, <2>4, <2>5 DEF OnlyIn
<1>14. ASSUME NEW c \in Calls, c \notin PlanChanges, StepOf(c), OwnStep(c) PROVE Kept(t)'
  <2>1. CASE \/ c \in Creates /\ InsertTenant(c)
             \/ c \in Adds \cup Accepts /\ FindForAdd(c)
             \/ c \in Removes /\ FindForRemove(c)
             \/ c \in Saves /\ SaveTenant(c)
             \/ c \in Joins \cup Removes /\ SaveUser(c) /\ ~Throw(c)
             \/ c \in Deletes /\ DeleteTenant(c)
    BY <1>6, <1>7, <1>8, <1>9, <1>10, <1>11, <1>14, <2>1
  <2>2. CASE \/ c \in Creates /\ (CreateTenant(c) \/ (CreateTestKey(c) /\ ~Throw(c)))
             \/ c \in Removes /\ FindRemoved(c)
             \/ c \in Joins \cup Removes /\ FindUser(c) /\ ~Throw(c)
             \/ c \in Joins \cup Removes /\ LogEvent(c) /\ ~Throw(c)
             \/ c \in Deletes /\ FindForDelete(c)
             \/ c \in Invites /\ InviteStep(c)
             \/ c \in Accepts /\ AcceptStep(c)
             \/ c \in Invites \cup Accepts /\ SaveInvitation(c)
    <3> DEFINE Small == /\ UNCHANGED <<plan, members, copy>> /\ pc'[c] # "saveTenant"
                        /\ \/ mine'[c] \in {mine[c], {}}
                           \/ c \notin Deletes \cup PlanChanges /\ mine'[c] = TenantsOf(UserOf[c])
                        /\ c \in Removes => pc[c] # "idle" /\ pc[c] # "over"
    <3> USE DEF Goto, rows, Typed, TypeOK
    <3>2. ASSUME c \in Creates, CreateTenant(c) \/ (CreateTestKey(c) /\ ~Throw(c)) PROVE Small
      BY <3>2 DEF CreateTenant, CreateTestKey, Refuse
    <3>3. ASSUME c \in Removes, FindRemoved(c) PROVE Small
      BY <3>3 DEF FindRemoved
    <3>4. ASSUME c \in Joins \cup Removes, ~Throw(c), FindUser(c) PROVE Small
      BY <3>4 DEF FindUser, Refuse
    <3>5. ASSUME c \in Joins \cup Removes, ~Throw(c), LogEvent(c) PROVE Small
      BY <3>5 DEF LogEvent, Refuse
    <3>6. ASSUME c \in Deletes, FindForDelete(c) PROVE Small
      BY <3>6 DEF FindForDelete
    <3>7. ASSUME c \in Invites, InviteStep(c) PROVE Small
      BY <3>7 DEF InviteStep, FindForInvite, FindInvitation
    <3>8. ASSUME c \in Accepts, AcceptStep(c) PROVE Small
      BY <3>8 DEF AcceptStep, AcceptTenantInvitation, FindInvitingTenant
    <3>9. ASSUME c \in Invites \cup Accepts, SaveInvitation(c) PROVE Small
      BY <3>9 DEF SaveInvitation
    <3> HIDE DEF Goto, rows, Typed, TypeOK, Small
    <3>1. Small
      BY <2>2, <3>2, <3>3, <3>4, <3>5, <3>6, <3>7, <3>8, <3>9
    <3> USE DEF Small
    <3> QED
      BY <1>5, <1>14, <3>1
  <2>3. CASE /\ Throw(c)
             /\ \/ c \in Creates /\ CreateTestKey(c)
                \/ c \in Joins \cup Removes /\ (FindUser(c) \/ SaveUser(c) \/ LogEvent(c))
    <3>1. /\ UNCHANGED <<plan, members>> /\ pc'[c] = "over"
          /\ copy'[c] = NoCopy /\ mine'[c] = {}
      BY <2>3 DEF Throw, Goto, rows, Typed, TypeOK
    <3>2. pc[c] # "idle"
      BY <2>3 DEF CreateTestKey, FindUser, SaveUser, LogEvent
    <3> QED
      BY <1>5, <1>14, <3>1, <3>2
  <2> HIDE DEF Calls, Joins, Saves
  <2>4. CASE c \in Creates /\ CreateStep(c)
    BY <2>1, <2>2, <2>3, <2>4 DEF CreateStep
  <2>5. CASE c \in Removes /\ RemoveStep(c)
    BY <2>1, <2>2, <2>5 DEF RemoveStep
  <2>6. CASE c \in Deletes /\ DeleteStep(c)
    BY <2>1, <2>2, <2>6 DEF DeleteStep
  <2>7. CASE c \in Joins \cup Removes /\ (FindUser(c) \/ SaveUser(c) \/ LogEvent(c))
    BY <2>1, <2>2, <2>3, <2>7
  <2> QED
    BY <1>14, <2>1, <2>2, <2>4, <2>5, <2>6, <2>7 DEF StepOf
<1>15. CASE UNCHANGED vars \/ \E i \in Invites : Expire(i)
  <2>1. UNCHANGED <<members, locals, plan>>
    BY <1>15 DEF vars, rows, locals, Expire
  <2> QED
    BY <1>12, <2>1
<1>16. \A c \in Calls : StepOf(c) => OwnStep(c)
  BY CreateStepTyped, UserStepTyped, SaveStepTyped, OtherStepTyped, PlanStepTyped
     DEF StepOf, RemoveStep
<1>17. (\E c \in Calls : StepOf(c)) \/ UNCHANGED vars \/ \E i \in Invites : Expire(i)
  BY DEF Next, StepOf
<1> HIDE DEF Calls
<1> QED
  BY <1>14, <1>15, <1>16, <1>17, <1>13

\* An owner who makes and joins no other tenant stays a member of his tenant,
\* whatever stale copies of it the calls that add and remove users save, unless
\* a change of its plan, saved after the tenant was deleted, inserts it again.
THEOREM OwnersAreMembers == Spec => []OwnerIsMember
<1>1. Init => OwnerInv /\ TargetInv
  BY DEF Init, OwnerInv, Kept, OnlyIn, TargetInv, Exists, NoCopy
<1>2. Typed /\ TargetInv /\ OwnerInv /\ [Next]_vars => OwnerInv'
  BY OwnerStep DEF OwnerInv, Exclusive
<1>3. OwnerInv => OwnerIsMember
  BY DEF OwnerInv, Kept, OwnerIsMember
<1> QED
  BY <1>1, <1>2, <1>3, TargetStep, AlwaysTyped, PTL DEF Spec
=============================================================================
