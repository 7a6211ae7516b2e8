------------------------- MODULE MCBillingPlatform -------------------------
(***************************************************************************)
(* Instances of BillingPlatform for TLC: two requests of one tenant, which *)
(* conflict unless they overlap.                                           *)
(***************************************************************************)
EXTENDS BillingPlatform

CONSTANTS r1, r2, a

MCRequests == {r1, r2}
MCTenants == {a}
MCTenantOf == [r \in MCRequests |-> a]
MCVerdicts == [r \in MCRequests |-> {0}]
=============================================================================
