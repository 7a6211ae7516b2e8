--------------------------- MODULE MCIngestEvent ---------------------------
(***************************************************************************)
(* Instances of IngestEvent for TLC: tenants ta and tb use the same key,   *)
(* one event of tenant ta has none, event bad has a bad quantity, and its  *)
(* requests may lack the claims.                                           *)
(***************************************************************************)
EXTENDS IngestEvent

CONSTANTS ta, tb, key, ea, eb, plain, bad

MCEvents == {ea, eb, plain, bad}
MCTenantOf == [e \in MCEvents |-> IF e = eb THEN tb ELSE ta]
MCKeyOf == [e \in MCEvents |-> CASE e = plain -> NoKey
                                 [] e = bad   -> bad
                                 [] OTHER     -> key]
MCTypeOf == [e \in MCEvents |-> IF e = eb THEN "custom" ELSE "api_call"]
MCQuantityOf == [e \in MCEvents |-> CASE e = ea  -> 2
                                      [] e = bad -> BadQuantity
                                      [] OTHER   -> NoQuantity]
MCVerdicts == [e \in MCEvents |-> IF e = bad THEN {0, 401} ELSE {0}]

NoSchema == VALID_EVENT_TYPES \cup {"other"}
=============================================================================
