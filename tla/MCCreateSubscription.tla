------------------------ MODULE MCCreateSubscription ------------------------
(***************************************************************************)
(* Instances of CreateSubscription for TLC: two tenants, a and b.  A       *)
(* request with a bad body may lack the claims as well.                    *)
(***************************************************************************)
EXTENDS CreateSubscription

CONSTANTS a, b, RequestsOfB

MCTenants == {a, b}
MCTenantOf == [r \in Requests |-> IF r \in RequestsOfB THEN b ELSE a]
MCVerdicts == [r \in Requests |-> IF r \in BadBody THEN {0, 401} ELSE {0}]
=============================================================================
