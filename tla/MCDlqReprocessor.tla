-------------------------- MODULE MCDlqReprocessor --------------------------
(***************************************************************************)
(* Instances of DlqReprocessor for TLC: one operator caps the replay, the  *)
(* other replays everything.                                               *)
(***************************************************************************)
EXTENDS DlqReprocessor

CONSTANTS capped, unlimited, Cap

MCReplayers == {capped, unlimited}
MCMaxMessages == [i \in MCReplayers |-> IF i = capped THEN Cap ELSE 0]
=============================================================================
