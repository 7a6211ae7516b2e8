--------------------------- MODULE MCCreateTenant ---------------------------
(***************************************************************************)
(* Instances of CreateTenant for TLC: administrators try a name twice and  *)
(* a variant of it in lower case; the fourth request may be anything,      *)
(* and the schema rejects it, or the table does if the schema is missing.  *)
(***************************************************************************)
EXTENDS CreateTenant, TLC

CONSTANTS first, again, variant, odd, v1

MCRequests == {first, again, variant, odd}
MCNames == {"Acme", "acme", "Odd"}
MCNameOf == (first :> "Acme") @@ (again :> "Acme") @@ (variant :> "acme") @@ (odd :> "Odd")
MCLower == ("Acme" :> "acme") @@ ("acme" :> "acme") @@ ("Odd" :> "odd")
MCKindsOf == [r \in MCRequests |-> IF r = odd THEN Kinds ELSE {"admin"}]
MCRejects == v1 :> {odd}

Symmetry == Permutations(Containers) \cup Permutations({first, again})
=============================================================================
