-------------------------- MODULE MCListInvoices ----------------------------
(***************************************************************************)
(* Instances of ListInvoices for TLC: invoice 3 is another tenant's.       *)
(***************************************************************************)
EXTENDS ListInvoices

MCInvoices == 1 .. 5
MCMatching == MCInvoices \ {3}

\* No limit, one that is clamped up, one, and one that is clamped down.
MCAskedLimits == {0, -4, 1, 9}
=============================================================================
