--------------------------- MODULE MCSqsConsumer ---------------------------
(***************************************************************************)
(* Instances of SqsConsumer for TLC.  The configurations differ in the     *)
(* faults they allow; well-formed messages and invocations are symmetric.  *)
(* The symmetry is used by the safety configurations only.                 *)
(***************************************************************************)
EXTENDS SqsConsumer, TLC

Symmetry == Permutations(Messages \ Malformed) \cup Permutations(Invocations)
=============================================================================
