-------------------------- MODULE TenantMembership --------------------------
(***************************************************************************)
(* Who belongs to which tenant: createTenant, addUserToTenant,             *)
(* removeUserFromTenant, deleteTenant, inviteUserToTenant,                 *)
(* acceptTenantInvitation, upgradeTenantPlan and downgradeTenantPlan of    *)
(* TenantService, with UserService.setCurrentTenant, which three of them   *)
(* call.                                                                   *)
(*                                                                         *)
(* Each call is a process, named by a member of its set; a tenant is named *)
(* by the call that creates it, an invitation by the call that sends it.   *)
(* Each await that reads or writes shared rows is a step. The relation     *)
(* tenant_users is loaded from both sides: TypeORM's save compares the     *)
(* relation in the copy with the rows it finds at the time of the save,    *)
(* inserts and deletes the difference, and inserts a row that is gone.     *)
(* So a save of a tenant brings its members back to what they were when it *)
(* was loaded, and a save of a user the tenants he was in. A change of the *)
(* plan loads and saves a tenant without its users.                        *)
(*                                                                         *)
(* Plans are "free" or "paid": which paid plan, when it ends, payments and *)
(* the revocation of keys are TenantBilling's. Users are never deleted,    *)
(* names stand for slugs too, the address of an invitation is its user,    *)
(* and notices to listeners and mails are left out. A failed statement or  *)
(* a dead process ends a call where it stands and writes nothing; nothing  *)
(* obliges a call to go on here, so every such end is among the behaviours *)
(* without an action.                                                      *)
(***************************************************************************)
EXTENDS EventRegistry, FiniteSets

CONSTANTS
    Users,
    Creates, Adds, Removes, Deletes, Invites, Accepts,
    Upgrades, Downgrades,                               \* the calls
    UserOf,        \* the user a call is about: who creates, is added, ...
    TenantOf,      \* the tenant a call is about
    NameOf,        \* the name each call of createTenant asks for
    InviterOf,     \* who sends each invitation
    InvitationOf,  \* the invitation each call of acceptTenantInvitation uses
    NoTenant

Tenants == Creates
PlanChanges == Upgrades \cup Downgrades
Calls == Creates \cup Adds \cup Removes \cup Deletes \cup Invites \cup Accepts
           \cup PlanChanges

ASSUME DifferentCalls ==
    /\ Creates \cap (Adds \cup Removes \cup Deletes \cup Invites \cup Accepts) = {}
    /\ Adds \cap (Removes \cup Deletes \cup Invites \cup Accepts) = {}
    /\ Removes \cap (Deletes \cup Invites \cup Accepts) = {}
    /\ Deletes \cap (Invites \cup Accepts) = {} /\ Invites \cap Accepts = {}
    /\ PlanChanges \cap (Creates \cup Adds \cup Removes) = {}
    /\ PlanChanges \cap (Deletes \cup Invites \cup Accepts) = {}
    /\ Upgrades \cap Downgrades = {}
ASSUME UserOfAssumption == UserOf \in [Calls \ (Deletes \cup PlanChanges) -> Users]
ASSUME TenantOfAssumption ==
    /\ TenantOf \in [Calls -> Tenants]
    /\ \A c \in Creates : TenantOf[c] = c
    /\ \A c \in Accepts : TenantOf[c] = TenantOf[InvitationOf[c]]
ASSUME InvitationAssumption ==
    /\ InviterOf \in [Invites -> Users]
    /\ InvitationOf \in [Accepts -> Invites]
ASSUME NoTenantAssumption == NoTenant \notin Tenants

VARIABLES
    plan,        \* each tenant's column plan, "none" without a row
    members,     \* rows <<tenant, user>> of tenant_users
    current,     \* users.currentTenantId
    keys,        \* rows of `api_keys`, named by the calls that made them
    invitation,  \* each invitation's row
    logged,      \* rows of `events`: <<type, tenant, user>>
    pc,          \* where each call is
    copy,        \* the tenant a call will save, with a loaded relation
    mine         \* the tenants of the user setCurrentTenant will save

rows == <<plan, members, current, keys, invitation, logged>>
locals == <<pc, copy, mine>>
vars == <<rows, locals>>

Exists(t) == plan[t] # "none"
MembersOf(t) == {u \in Users : <<t, u>> \in members}
TenantsOf(u) == {t \in Tenants : <<t, u>> \in members}
KeysOf(t) == {k \in keys : TenantOf[k] = t}

\* The unique index on tenants.name.
NameTaken(t) == \E o \in Tenants \ {t} : Exists(o) /\ NameOf[o] = NameOf[t]

Copy == [plan : {"free", "paid"}, users : SUBSET Users, keys : SUBSET Calls]
NoCopy == [plan |-> "free", users |-> {}, keys |-> {}]

Init ==
    /\ plan = [t \in Tenants |-> "none"]
    /\ members = {}
    /\ current = [u \in Users |-> NoTenant]
    /\ keys = {}
    /\ invitation = [i \in Invites |-> "absent"]
    /\ logged = {}
    /\ pc = [c \in Calls |-> "idle"]
    /\ copy = [c \in Calls |-> NoCopy]
    /\ mine = [c \in Calls |-> {}]

Goto(c, location) == pc' = [pc EXCEPT ![c] = location]

\* The call is over, with an exception: nothing is written. A local that is
\* not used again is reset, here and below.
Throw(c) ==
    /\ Goto(c, "over")
    /\ copy' = [copy EXCEPT ![c] = NoCopy]
    /\ mine' = [mine EXCEPT ![c] = {}]
    /\ UNCHANGED rows

\* A call that is refused before it wrote anything has done nothing: there the
\* refusals are only guards. Later, the call throws exactly when the condition
\* holds.
Refuse(c, condition) == condition /\ Throw(c)

-----------------------------------------------------------------------------
(* createTenant                                                            *)

\* findOne by name, and the owner
CreateTenant(c) ==
    /\ pc[c] = "idle"
    /\ ~NameTaken(c)
    /\ Goto(c, "insert")
    /\ UNCHANGED <<rows, copy, mine>>

\* Seeded fault of InsertTenant: the index on the name is not unique.
InsertTenantUnindexed(c) ==
    /\ pc[c] = "insert"
    /\ plan' = [plan EXCEPT ![c] = "free"]
    /\ members' = members \cup {<<c, UserOf[c]>>}
    /\ Goto(c, "findUser")
    /\ UNCHANGED <<current, keys, invitation, logged, copy, mine>>

\* tenantRepository.save of the new tenant, with its owner as first member
InsertTenant(c) ==
    /\ pc[c] = "insert"
    /\ ~NameTaken(c)
    /\ plan' = [plan EXCEPT ![c] = "free"]
    /\ members' = members \cup {<<c, UserOf[c]>>}
    /\ Goto(c, "findUser")
    /\ UNCHANGED <<current, keys, invitation, logged, copy, mine>>

\* Seeded fault of CreateTestKey: keys have no foreign key to their tenant.
CreateTestKeyUnchecked(c) ==
    /\ pc[c] = "key"
    /\ keys' = keys \cup {c}
    /\ Goto(c, "log")
    /\ UNCHANGED <<plan, members, current, invitation, logged, copy, mine>>

\* createTestAPIkey; the tenant may have been deleted meanwhile
CreateTestKey(c) ==
    /\ pc[c] = "key"
    /\ \/ Refuse(c, ~Exists(c))
       \/ /\ Exists(c)
          /\ keys' = keys \cup {c}
          /\ Goto(c, "log")
          /\ UNCHANGED <<plan, members, current, invitation, logged, copy, mine>>

-----------------------------------------------------------------------------
(* setCurrentTenant(user, target)                                          *)

Target(c) == IF c \in Removes THEN NoTenant ELSE TenantOf[c]

\* The user with his tenants; he must belong to the target.
FindUser(c) ==
    /\ pc[c] = "findUser"
    /\ LET own == TenantsOf(UserOf[c])
           outsider == Target(c) \notin own \cup {NoTenant}
       IN  \/ Refuse(c, outsider)
           \/ /\ ~outsider
              /\ mine' = [mine EXCEPT ![c] = own]
              /\ Goto(c, "saveUser")
              /\ UNCHANGED <<rows, copy>>

Resume(c) == Goto(c, IF c \in Creates THEN "key" ELSE "log")

\* Seeded fault of SaveUser: only the column is updated.
SaveUserColumn(c) ==
    /\ pc[c] = "saveUser"
    /\ current' = [current EXCEPT ![UserOf[c]] = Target(c)]
    /\ Resume(c)
    /\ UNCHANGED <<plan, members, keys, invitation, logged, copy, mine>>

\* userRepository.save writes the loaded tenants back as well; the foreign
\* key of tenant_users refuses one that is gone.
SaveUser(c) ==
    /\ pc[c] = "saveUser"
    /\ LET u == UserOf[c]
           others == {row \in members : row[2] # u}
           gone == \E t \in mine[c] : ~Exists(t)
       IN  \/ Refuse(c, gone)
           \/ /\ ~gone
              /\ members' = others \cup {<<t, u>> : t \in mine[c]}
              /\ current' = [current EXCEPT ![u] = Target(c)]
              /\ mine' = [mine EXCEPT ![c] = {}]
              /\ Resume(c)
              /\ UNCHANGED <<plan, keys, invitation, logged, copy>>

-----------------------------------------------------------------------------
(* addUserToTenant, called alone and by acceptTenantInvitation, and        *)
(* removeUserFromTenant.                                                   *)

\* The tenant with its users is loaded and changed in memory.
Load(c, users) ==
    /\ copy' = [copy EXCEPT ![c] = [plan |-> plan[TenantOf[c]],
                                    users |-> users, keys |-> {}]]
    /\ Goto(c, "saveTenant")
    /\ UNCHANGED <<rows, mine>>

AddStart(c) == IF c \in Adds THEN "idle" ELSE "add"

AddRefused(c) ==
    \/ plan[TenantOf[c]] \in {"none", "free"}
    \/ UserOf[c] \in MembersOf(TenantOf[c])

\* Seeded fault of FindForAdd: the new user replaces the users.
FindForAddAlone(c) ==
    /\ pc[c] = AddStart(c)
    /\ ~AddRefused(c)
    /\ Load(c, {UserOf[c]})

FindForAdd(c) ==
    /\ pc[c] = AddStart(c)
    /\ ~AddRefused(c)
    /\ Load(c, MembersOf(TenantOf[c]) \cup {UserOf[c]})

RemoveRefused(c) ==
    \/ ~Exists(TenantOf[c])
    \/ UserOf[c] = UserOf[TenantOf[c]]   \* the owner
    \/ UserOf[c] \notin MembersOf(TenantOf[c])

FindForRemove(c) ==
    /\ pc[c] = "idle"
    /\ ~RemoveRefused(c)
    /\ Load(c, MembersOf(TenantOf[c]) \ {UserOf[c]})

\* A tenant deleted since is inserted again, unless its name was taken.
SaveTenant(c) ==
    /\ pc[c] = "saveTenant"
    /\ LET t == TenantOf[c]
           others == {row \in members : row[1] # t}
       IN  /\ Exists(t) \/ ~NameTaken(t)
           /\ plan' = [plan EXCEPT ![t] = copy[c].plan]
           /\ members' = others \cup {<<t, u>> : u \in copy[c].users}
    /\ copy' = [copy EXCEPT ![c] = NoCopy]
    /\ Goto(c, IF c \in Removes THEN "findRemoved" ELSE "findUser")
    /\ UNCHANGED <<current, keys, invitation, logged, mine>>

\* A removed user who was active in the tenant is active nowhere.
FindRemoved(c) ==
    /\ pc[c] = "findRemoved"
    /\ Goto(c, IF current[UserOf[c]] = TenantOf[c] THEN "findUser" ELSE "log")
    /\ UNCHANGED <<rows, copy, mine>>

-----------------------------------------------------------------------------
(* logEvent at the end of a call; EventFanout has the details.             *)

EventType(c) ==
    CASE c \in Creates -> "TENANT.CREATED"
      [] c \in Removes -> "TENANT.USER_REMOVED"
      [] OTHER -> "TENANT.USER_ADDED"

\* createTenant passes { name }, the others { userId }.
Payload(c) ==
    IF c \in Creates THEN {<<"name", "string">>} ELSE {<<"userId", "number">>}

\* A refused payload throws, although all the rest is done.
LogEvent(c) ==
    /\ pc[c] = "log"
    /\ LET accepted == Loggable(EventType(c), Payload(c))
       IN  \/ Refuse(c, ~accepted)
           \/ /\ accepted
              /\ logged' = logged \cup {<<EventType(c), TenantOf[c], UserOf[c]>>}
              /\ Goto(c, IF c \in Accepts THEN "saveInvitation" ELSE "over")
              /\ UNCHANGED <<plan, members, current, keys, invitation, copy, mine>>

-----------------------------------------------------------------------------
(* deleteTenant                                                            *)

FindForDelete(c) ==
    /\ pc[c] = "idle"
    /\ Exists(TenantOf[c])
    /\ Goto(c, "delete")
    /\ UNCHANGED <<rows, copy, mine>>

\* Members and keys go with the tenant; invitations, events and the current
\* tenant of a user have no foreign key and stay.
DeleteTenant(c) ==
    /\ pc[c] = "delete"
    /\ plan' = [plan EXCEPT ![TenantOf[c]] = "none"]
    /\ members' = {row \in members : row[1] # TenantOf[c]}
    /\ keys' = keys \ KeysOf(TenantOf[c])
    /\ Goto(c, "over")
    /\ UNCHANGED <<current, invitation, logged, copy, mine>>

-----------------------------------------------------------------------------
(* upgradeTenantPlan and downgradeTenantPlan                               *)

\* The tenant is loaded without its users. PRO may become ENTERPRISE; other
\* upgrades of a paid plan are refused.
FindForUpgrade(c) ==
    /\ pc[c] = "idle"
    /\ Exists(TenantOf[c])
    /\ copy' = [copy EXCEPT ![c] = [NoCopy EXCEPT !.plan = "paid"]]
    /\ Goto(c, "key")
    /\ UNCHANGED <<rows, mine>>

\* createApiKey; the foreign key refuses it for a tenant that is gone.
CreateApiKey(c) ==
    /\ pc[c] = "key"
    /\ Exists(TenantOf[c])
    /\ keys' = keys \cup {c}
    /\ Goto(c, "savePlan")
    /\ UNCHANGED <<plan, members, current, invitation, logged, copy, mine>>

\* The tenant is loaded with its keys. It ends on FREE when that is asked for
\* or the subscription is over, and revokeTenantKeys then writes a column that
\* is left out here.
FindForDowngrade(c) ==
    /\ pc[c] = "idle"
    /\ plan[TenantOf[c]] = "paid"
    /\ \E new \in {"free", "paid"} :
         copy' = [copy EXCEPT ![c] = [plan |-> new, users |-> {},
                                      keys |-> KeysOf(TenantOf[c])]]
    /\ Goto(c, "savePlan")
    /\ UNCHANGED <<rows, mine>>

\* Writes the columns and leaves the members alone. A tenant deleted since is
\* "inserted" again, unless its name was taken, and has no members then. The
\* relation apiKeys of a downgrade is written back too: a key made since would
\* lose its tenant, which the column tenantId (NOT NULL) refuses.
SavePlan(c) ==
    /\ pc[c] = "savePlan"
    /\ LET t == TenantOf[c]
       IN  /\ Exists(t) \/ ~NameTaken(t)
           /\ c \in Downgrades => KeysOf(t) \subseteq copy[c].keys
           /\ plan' = [plan EXCEPT ![t] = copy[c].plan]
           /\ Goto(c, IF Exists(t) THEN "over" ELSE "inserted")
    /\ copy' = [copy EXCEPT ![c] = NoCopy]
    /\ UNCHANGED <<members, current, keys, invitation, logged, mine>>

-----------------------------------------------------------------------------
(* inviteUserToTenant and acceptTenantInvitation. A row that is not        *)
(* accepted is "open" until its seven days are over, then "expired".       *)

InviteRefused(i) ==
    \/ plan[TenantOf[i]] \in {"none", "free"}
    \/ InviterOf[i] \notin MembersOf(TenantOf[i])
    \/ UserOf[i] \in MembersOf(TenantOf[i])

FindForInvite(i) ==
    /\ pc[i] = "idle"
    /\ ~InviteRefused(i)
    /\ Goto(i, "findInvitation")
    /\ UNCHANGED <<rows, copy, mine>>

\* Invitations of i's user to i's tenant that are not accepted.
Pending(i) ==
    {j \in Invites : /\ TenantOf[j] = TenantOf[i]
                     /\ UserOf[j] = UserOf[i]
                     /\ invitation[j] \in {"open", "expired"}}

FindInvitation(i) ==
    /\ pc[i] = "findInvitation"
    /\ Pending(i) = {}
    /\ Goto(i, "saveInvitation")
    /\ UNCHANGED <<rows, copy, mine>>

\* Stores a new invitation, or the accepted one.
SaveInvitation(c) ==
    /\ pc[c] = "saveInvitation"
    /\ invitation' = IF c \in Invites
                     THEN [invitation EXCEPT ![c] = "open"]
                     ELSE [invitation EXCEPT ![InvitationOf[c]] = "accepted"]
    /\ Goto(c, "over")
    /\ UNCHANGED <<plan, members, current, keys, logged, copy, mine>>

AcceptTenantInvitation(c) ==
    /\ pc[c] = "idle"
    /\ invitation[InvitationOf[c]] = "open"
    /\ Goto(c, "findTenant")
    /\ UNCHANGED <<rows, copy, mine>>

\* Seeded fault of AcceptRefused: anybody may use the token.
AcceptRefusedAnybody(c) == ~Exists(TenantOf[c])

AcceptRefused(c) ==
    \/ ~Exists(TenantOf[c])
    \/ UserOf[c] # UserOf[InvitationOf[c]]

FindInvitingTenant(c) ==
    /\ pc[c] = "findTenant"
    /\ ~AcceptRefused(c)
    /\ Goto(c, "add")
    /\ UNCHANGED <<rows, copy, mine>>

-----------------------------------------------------------------------------
(* Time.                                                                   *)

Expire(i) ==
    /\ invitation[i] = "open"
    /\ invitation' = [invitation EXCEPT ![i] = "expired"]
    /\ UNCHANGED <<plan, members, current, keys, logged, locals>>

CreateStep(c) == CreateTenant(c) \/ InsertTenant(c) \/ CreateTestKey(c)
RemoveStep(c) == FindForRemove(c) \/ FindRemoved(c)
DeleteStep(c) == FindForDelete(c) \/ DeleteTenant(c)
InviteStep(i) == FindForInvite(i) \/ FindInvitation(i)
AcceptStep(c) == AcceptTenantInvitation(c) \/ FindInvitingTenant(c)
UpgradeStep(c) == FindForUpgrade(c) \/ CreateApiKey(c)

Next ==
    \/ \E c \in Creates : CreateStep(c)
    \/ \E c \in Adds \cup Accepts : FindForAdd(c)
    \/ \E c \in Removes : RemoveStep(c)
    \/ \E c \in Adds \cup Accepts \cup Removes : SaveTenant(c)
    \/ \E c \in Creates \cup Adds \cup Accepts \cup Removes :
         FindUser(c) \/ SaveUser(c) \/ LogEvent(c)
    \/ \E c \in Deletes : DeleteStep(c)
    \/ \E i \in Invites : InviteStep(i) \/ Expire(i)
    \/ \E c \in Accepts : AcceptStep(c)
    \/ \E c \in Invites \cup Accepts : SaveInvitation(c)
    \/ \E c \in Upgrades : UpgradeStep(c)
    \/ \E c \in Downgrades : FindForDowngrade(c)
    \/ \E c \in PlanChanges : SavePlan(c)

Spec == Init /\ [][Next]_vars

-----------------------------------------------------------------------------
(* Properties.                                                             *)

\* Every variable stays in its type, and only tenants with a row have members
\* and keys, though tenants are deleted beside every other call.
TypeOK ==
    /\ plan \in [Tenants -> {"none", "free", "paid"}]
    /\ members \subseteq {t \in Tenants : Exists(t)} \X Users
    /\ current \in [Users -> Tenants \cup {NoTenant}]
    /\ keys \subseteq {k \in Creates \cup Upgrades : Exists(TenantOf[k])}
    /\ invitation \in [Invites -> {"absent", "open", "expired", "accepted"}]
    /\ copy \in [Calls -> Copy]
    /\ mine \in [Calls -> SUBSET Tenants]

\* No two tenants have one name: the check of createTenant may be out of
\* date, and a tenant deleted and saved again by another call returns under
\* a name that may be in use.
OneTenantPerName ==
    \A t \in Tenants : Exists(t) => ~NameTaken(t)

\* setCurrentTenant looks at the memberships in one step and saves in another.
\* All the same, whenever a user becomes active in a tenant he is a member of
\* it at that moment: if he was removed in between, the save of his row, which
\* was loaded with its tenants, makes him a member again.
ActiveWhereMember ==
    [][\A u \in Users :
         current'[u] \notin {current[u], NoTenant} => <<current'[u], u>> \in members']_vars

\* An accepted invitation was preceded by the event that the very user it was
\* sent to joined: acceptTenantInvitation marks it last, after all the steps
\* of addUserToTenant, and only for its own user.
AcceptedIsAnnounced ==
    \A i \in Invites :
      invitation[i] = "accepted" =>
        <<"TENANT.USER_ADDED", TenantOf[i], UserOf[i]>> \in logged

\* u makes or joins no tenant but t.
Exclusive(u, t) ==
    \A c \in Creates \cup Adds \cup Accepts : UserOf[c] = u => TenantOf[c] = t

\* A change of t's plan was about to be saved when t was deleted, and its save
\* inserted t again.
Reinserted(t) ==
    \E c \in PlanChanges : TenantOf[c] = t /\ pc[c] = "inserted"

\* An owner who makes and joins no other tenant stays a member of his tenant,
\* whatever stale copies of it the calls that add and remove users save, and
\* even if it was deleted and one of them inserts it again; except that a
\* change of its plan which does so, from a copy without users, leaves it
\* without its owner.
OwnerIsMember ==
    \A t \in Tenants :
      Exists(t) /\ Exclusive(UserOf[t], t) /\ ~Reinserted(t)
        => <<t, UserOf[t]>> \in members
=============================================================================
