------------------------- MODULE MCTenantMembership -------------------------
(* Instance of TenantMembership for TLC. *)
EXTENDS TenantMembership

CONSTANTS u1, u2, u3, c1, c2, a1, r1, d1, i1, x1, x2, p1, p2

\* u1 and u2 race on a name. u3 is invited to the tenant of u1, added and
\* removed; the token of the invitation is used by u3 and by u2. p1 upgrades
\* that tenant, p2 downgrades it.
SharedTenant ==
    [c \in Calls \ (Deletes \cup PlanChanges) |-> CASE c = c1 -> u1
                               [] c \in {c2, x2} -> u2
                               [] c \in {a1, r1, i1, x1} -> u3]
FirstOrOwn == [c \in Calls |-> IF c = c2 THEN c2 ELSE c1]
SameName == [c \in Creates |-> "acme"]
ByOwner == [i \in Invites |-> u1]
OneInvitation == [x \in Accepts |-> i1]
=============================================================================
