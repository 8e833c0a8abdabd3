SPECIFICATION Spec
CONSTANTS
    t1 = t1
    p1 = p1
    p2 = p2
    h1 = h1
    h2 = h2
    g1 = g1
    g2 = g2
    NoPayment = NoPayment
    NoHook = NoHook
    Tenants = {t1}
    Payments = {p1, p2}
    Hooks = {h1, h2}
    Downgrades = {g1, g2}
    TenantOf <- OneTenant
    PlanOf <- TwoPlans
    Env = {"dbError", "httpError", "crash"}
SYMMETRY AnyHook
CHECK_DEADLOCK FALSE
INVARIANTS TypeOK PlanIsPaid PaidPlanHasKey
PROPERTY DowngradeLeavesNoKey
