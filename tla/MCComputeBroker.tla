--------------------------- MODULE MCComputeBroker ---------------------------
(***************************************************************************)
(* Instances of ComputeBroker for TLC.                                     *)
(***************************************************************************)
EXTENDS ComputeBroker, TLC

\* Executions, requests of a kind and container ids are interchangeable.
Interchangeable ==
  Permutations(Executions) \cup Permutations(Callers) \cup Permutations(Resolvers)
    \cup Permutations(Containers)
=============================================================================
