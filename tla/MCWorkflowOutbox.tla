-------------------------- MODULE MCWorkflowOutbox --------------------------
(***************************************************************************)
(* Instances of WorkflowOutbox for TLC.                                    *)
(***************************************************************************)
EXTENDS WorkflowOutbox, TLC

CONSTANTS a, h     \* a run of each kind: an approval's and a handoff's

BothKinds == [r \in {a, h} |-> IF r = a THEN "APPROVAL_EXPIRATION" ELSE "HANDOFF_FOLLOW_UP"]
KindOfRuns == [r \in Runs |-> BothKinds[r]]
OnTemporal == [r \in Runs |-> "TEMPORAL"]

\* Dispatchers and owners are interchangeable (used without liveness only).
Interchangeable == Permutations(Dispatchers) \cup Permutations(Owners)
=============================================================================
