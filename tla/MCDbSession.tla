---------------------------- MODULE MCDbSession ----------------------------
(***************************************************************************)
(* Instances of DbSession for TLC: no definition of their own.             *)
(***************************************************************************)
EXTENDS DbSession, TLC
=============================================================================
