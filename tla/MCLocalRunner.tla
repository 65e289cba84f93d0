--------------------------- MODULE MCLocalRunner ---------------------------
(***************************************************************************)
(* Instances of LocalRunner for TLC.                                       *)
(***************************************************************************)
EXTENDS LocalRunner

Approvals == [r \in Runs |-> "APPROVAL_EXPIRATION"]
OnLocalRunner == [r \in Runs |-> "LOCAL_RUNNER"]
=============================================================================
