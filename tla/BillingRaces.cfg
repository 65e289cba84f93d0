\* Two executions and two payments on one conversation and one wallet.
CONSTANTS
  e1 = e1
  e2 = e2
  p = p
  s = s
  Executions = {e1, e2}
  Approved = {e2}
  Estimate <- EstimateOf
  Charge <- ChargeOf
  Invoices = {p, s}
  Plan <- PlanOf
  Stars <- StarsOf
  PassCredits = 2
  DeepHelpCredits = 3
  InitialBudgets <- Budgets
  InitialWallets <- Wallets
  NoBudget = NoBudget
  NoInvoice = NoInvoice
  MaxCharges = 2
  MaxFaults = 1
SPECIFICATION Spec
INVARIANTS
  TypeOK
  PaymentsCountOnce
  StarsAddUp
  NoCreditFromNothing
  ChargedMeansCredited
CHECK_DEADLOCK FALSE
