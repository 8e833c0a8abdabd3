SPECIFICATION Spec
CONSTANTS
    q1 = q1
    q2 = q2
    q3 = q3
    q4 = q4
    q5 = q5
    k1 = k1
    t1 = t1
    NoKey = NoKey
    Requests = {q1, q2, q3, q4, q5}
    Keys = {k1}
    Tenants = {t1}
    KeyOf <- MCKeyOf
    RouteOf <- MCRouteOf
    TenantOf <- MCTenantOf
    PlanLimit <- MCPlanLimit
    Days <- MCDays
    GuardEnv = {"dbError", "redisError", "resend", "crash"}
SYMMETRY Symmetry
CHECK_DEADLOCK FALSE
INVARIANTS DailyLimit RefusalEarned CountersEnd
