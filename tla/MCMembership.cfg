SPECIFICATION Spec
CONSTANTS
    u1 = u1
    u2 = u2
    u3 = u3
    c1 = c1
    c2 = c2
    a1 = a1
    r1 = r1
    d1 = d1
    i1 = i1
    x1 = x1
    x2 = x2
    p1 = p1
    p2 = p2
    NoTenant = NoTenant
    Users = {u1, u2, u3}
    Creates = {c1, c2}
    Adds = {a1}
    Removes = {r1}
    Deletes = {d1}
    Invites = {i1}
    Accepts = {x1, x2}
    Upgrades = {p1}
    Downgrades = {p2}
    UserOf <- SharedTenant
    TenantOf <- FirstOrOwn
    NameOf <- SameName
    InviterOf <- ByOwner
    InvitationOf <- OneInvitation
CHECK_DEADLOCK FALSE
INVARIANTS TypeOK OneTenantPerName AcceptedIsAnnounced OwnerIsMember
PROPERTY ActiveWhereMember
