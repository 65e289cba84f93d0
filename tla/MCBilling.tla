----------------------------- MODULE MCBilling -----------------------------
(***************************************************************************)
(* Instances of Billing for TLC.                                           *)
(***************************************************************************)
EXTENDS Billing

CONSTANTS e1, e2, p, s     \* two executions, a Pass and a sponsorship

EstimateOf == [e \in Executions |-> 1]
ChargeOf == [e \in Executions |-> IF e = e1 THEN 1 ELSE 3]
PlanOf == [i \in Invoices |-> IF i = p THEN "PASS" ELSE "SPONSOR"]
StarsOf == [i \in Invoices |-> IF i = p THEN 1 ELSE 2]

Wallets ==
  {[exists |-> FALSE, balance |-> 0, sponsor |-> 0, stars |-> 0],
   [exists |-> TRUE, balance |-> 1, sponsor |-> 1, stars |-> 0]}
Budgets == {NoBudget, 1}
=============================================================================
