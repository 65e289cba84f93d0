----------------------------- MODULE MCToolRuns -----------------------------
(* Two executions of one session, of every kind and interchangeable, with one   *)
(* retry and native loops of two steps; a single one where it must end.         *)
EXTENDS ToolRuns, TLC

CONSTANTS r1, r2

Executions == {r1, r2}
Symmetric == Permutations(Executions)

One == {r1}
=============================================================================
