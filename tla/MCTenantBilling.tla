-------------------------- MODULE MCTenantBilling --------------------------
(* Instance of TenantBilling for TLC. *)
EXTENDS TenantBilling, TLC

CONSTANTS t1, p1, p2, h1, h2, g1, g2

\* One tenant that pays for two plans at once, a downgrade to FREE and one
\* to PRO.
OneTenant == [c \in {p1, p2, g1, g2} |-> t1]
TwoPlans == p1 :> "pro" @@ p2 :> "enterprise" @@ g1 :> "free" @@ g2 :> "pro"

\* The requests of Paystack are interchangeable.
AnyHook == Permutations(Hooks)
=============================================================================
