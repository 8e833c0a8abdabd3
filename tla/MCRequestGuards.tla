--------------------------- MODULE MCRequestGuards --------------------------
(* Instance of RequestGuards for TLC, with limits that four requests pass  *)
(* and one request with an API key for a route that wants a JWT.           *)
EXTENDS RequestGuards, TLC

CONSTANTS q1, q2, q3, q4, q5, k1, t1

MCKeyOf == [q \in Requests |-> k1]
MCRouteOf == [q \in Requests |-> IF q = q5 THEN "skipTenant" ELSE "public"]
MCTenantOf == [k \in Keys |-> t1]
MCPlanLimit == "free" :> 2 @@ "pro" :> 3 @@ "enterprise" :> -1
MCDays == 0 .. 1
Symmetry == Permutations({q1, q2, q3, q4})
=============================================================================
