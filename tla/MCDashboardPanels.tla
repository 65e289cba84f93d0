------------------------ MODULE MCDashboardPanels ------------------------
(***************************************************************************)
(* The dashboard with two representatives and an owner of few clicks.      *)
(***************************************************************************)
EXTENDS DashboardPanels, TLC

\* The representatives are interchangeable.
Symmetry == Permutations(Representatives)

=============================================================================
