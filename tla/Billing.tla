------------------------------- MODULE Billing -------------------------------
(***************************************************************************)
(* Credits and payments of one conversation and its owner's wallet: the    *)
(* broker charges executions (applyExecutionBilling) while the Telegram    *)
(* bot sells plans (createPlanInvoice to confirmInvoicePayment).           *)
(*                                                                         *)
(* Each side is one transaction at READ COMMITTED: a read sees what was    *)
(* committed, an UPDATE locks its row until the commit (and waits for it), *)
(* and what it writes appears at the commit.  The broker locks the         *)
(* conversation before the wallet, the bot the wallet before the           *)
(* conversation; Postgres breaks the deadlock by aborting one of them.     *)
(*                                                                         *)
(* Telegram and grammY are external: updates are handled one at a time,    *)
(* one that was not acknowledged when the bot died comes again, and a      *)
(* customer is charged only after the pre-checkout query was answered yes. *)
(***************************************************************************)
EXTENDS Integers, FiniteSets, Functions

CONSTANTS
  Executions,        \* executions to be charged
  Approved,          \* those an owner approved: their budget is not looked at
  Estimate,          \* [Executions -> Nat], estimateCreditUsage before the run
  Charge,            \* [Executions -> Nat], credits to charge after it
  Invoices,          \* invoices the bot may create
  Plan,              \* [Invoices -> plan type]
  Stars,             \* [Invoices -> Nat], the amount paid
  PassCredits, DeepHelpCredits,    \* computeCreditsForPlan
  InitialBudgets,    \* values of the conversation's budget to begin with
  InitialWallets,    \* values of the wallet row to begin with
  NoBudget,          \* computeBudgetRemainingCredits is NULL
  NoInvoice,         \* the bot handles no invoice
  MaxCharges,        \* bound: payments a customer makes on one invoice
  MaxFaults          \* bound: throws and crashes per behaviour

PlanType == {"PASS", "DEEP_HELP", "SPONSOR"}
WalletRow == [exists : BOOLEAN, balance : Nat, sponsor : Nat, stars : Nat]

ASSUME BillingAssumption ==
  /\ IsFiniteSet(Invoices)
  /\ Approved \subseteq Executions
  /\ Estimate \in [Executions -> Nat] /\ Charge \in [Executions -> Nat]
  /\ Plan \in [Invoices -> PlanType] /\ Stars \in [Invoices -> Nat]
  /\ PassCredits \in Nat /\ DeepHelpCredits \in Nat
  /\ NoBudget \notin Nat /\ NoInvoice \notin Invoices
  /\ InitialBudgets \subseteq Nat \cup {NoBudget}
  /\ \A w \in InitialWallets :
       w \in WalletRow /\ w.stars = 0 /\ (~w.exists => w.balance = 0 /\ w.sponsor = 0)
  /\ MaxCharges \in Nat /\ MaxFaults \in Nat

VARIABLES
  budget,      \* the conversation's computeBudgetRemainingCredits
  wallet,      \* the owner's Wallet row
  invoice,     \* [Invoices -> status]
  bill,        \* [Executions -> the broker's request, from launch to billing]
  bot,         \* the update the bot handles
  sent,        \* invoices the customer has in the chat
  updates,     \* [Invoices -> Nat], successful_payment updates not acknowledged
  ledger,      \* [Executions -> PLAN_DEBIT entries]
  charges,     \* [Invoices -> Nat], times the customer was charged
  credited,    \* [Invoices -> Nat], payments committed
  failed,      \* invoices one of whose payment transactions failed
  issued,      \* credits ever put into each pool
  faults

vars == <<budget, wallet, invoice, bill, bot, sent, updates, ledger, charges, credited,
          failed, issued, faults>>
rows == <<budget, wallet, invoice, ledger>>
telegram == <<sent, updates, charges>>
history == <<credited, failed, issued>>

NoDebits == [conversation |-> 0, owner |-> 0, sponsor |-> 0, unsettled |-> 0]
NotBilled == [pc |-> "idle", budget |-> NoBudget,
              wallet |-> [exists |-> FALSE, balance |-> 0, sponsor |-> 0, stars |-> 0]]
NoUpdate == [pc |-> "idle", inv |-> NoInvoice, budget |-> NoBudget, wallet |-> FALSE]

Credits(b) == IF b = NoBudget THEN 0 ELSE b

Init ==
  /\ budget \in InitialBudgets
  /\ wallet \in InitialWallets
  /\ invoice = [i \in Invoices |-> "ABSENT"]
  /\ bill = [e \in Executions |-> NotBilled]
  /\ bot = NoUpdate
  /\ sent = {}
  /\ updates = [i \in Invoices |-> 0]
  /\ ledger = [e \in Executions |-> NoDebits]
  /\ charges = [i \in Invoices |-> 0]
  /\ credited = [i \in Invoices |-> 0]
  /\ failed = {}
  /\ issued = [budget |-> Credits(budget), balance |-> wallet.balance,
               sponsor |-> wallet.sponsor]
  /\ faults = 0

InvoiceStatus == {"PENDING", "PAID", "FULFILLED", "FAILED"}
BillStep == {"idle", "launched", "wallet", "debit", "conversation", "commit", "billed",
             "unbilled"}
BotStep == {"idle", "deliver", "undelivered", "pay", "conversation", "commit", "reply"}
Budget == Nat \cup {NoBudget}
BillRow == [pc : BillStep, budget : Budget, wallet : WalletRow]
BotRow == [pc : BotStep, inv : Invoices \cup {NoInvoice}, budget : Budget, wallet : BOOLEAN]
IssuedRow == [budget : Nat, balance : Nat, sponsor : Nat]
DebitRow == [conversation : Nat, owner : Nat, sponsor : Nat, unsettled : Nat]

TypeOK ==
  /\ budget \in Budget
  /\ wallet \in WalletRow
  /\ invoice \in [Invoices -> InvoiceStatus \cup {"ABSENT"}]
  /\ bill \in [Executions -> BillRow]
  /\ bot \in BotRow
  /\ sent \subseteq Invoices
  /\ updates \in [Invoices -> Nat]
  /\ ledger \in [Executions -> DebitRow]
  /\ charges \in [Invoices -> Nat]
  /\ credited \in [Invoices -> Nat]
  /\ failed \subseteq Invoices
  /\ issued \in IssuedRow
  /\ faults \in Nat

Fault == faults < MaxFaults /\ faults' = faults + 1

\* Row locks, from the UPDATE to the end of its transaction.  Of a sponsorship's
\* conversation nothing is updated.
BotUpdatesConversation == Plan[bot.inv] # "SPONSOR"
ConversationLocked ==
  \/ bot.pc = "commit" /\ BotUpdatesConversation
  \/ \E e \in Executions : bill[e].pc \in {"conversation", "commit"}
BillHoldsWallet(e) == bill[e].pc = "commit" /\ bill[e].wallet.exists
BotHoldsWallet == bot.pc \in {"conversation", "commit"} /\ bot.wallet
WalletLocked == BotHoldsWallet \/ \E e \in Executions : BillHoldsWallet(e)

-----------------------------------------------------------------------------
(* The broker: a check of the budget, the run, and its billing.            *)

BillTo(e, pc) == bill' = [bill EXCEPT ![e].pc = pc]

\* summarizeBudgetAvailability and resolveEffectiveDecision's last question, on
\* rows read when the request began; a request that asks for more is denied.  An
\* approved execution runs without the question being asked.
TotalAvailable == Credits(budget) + wallet.balance + wallet.sponsor

Launch(e) ==
  /\ bill[e].pc = "idle"
  /\ e \notin Approved => Estimate[e] <= TotalAvailable
  /\ BillTo(e, "launched")
  /\ UNCHANGED <<rows, bot, telegram, history, faults>>

ReadConversation(e) ==
  /\ bill[e].pc = "launched"
  /\ bill' = [bill EXCEPT ![e] = [pc |-> "wallet", budget |-> budget, wallet |-> @.wallet]]
  /\ UNCHANGED <<rows, bot, telegram, history, faults>>

ReadWallet(e) ==
  /\ bill[e].pc = "wallet"
  /\ bill' = [bill EXCEPT ![e] = [pc |-> "debit", budget |-> @.budget, wallet |-> wallet]]
  /\ UNCHANGED <<rows, bot, telegram, history, faults>>

UpdateConversation(e) ==
  /\ bill[e].pc = "debit"
  /\ ~ConversationLocked
  /\ BillTo(e, "conversation")
  /\ UNCHANGED <<rows, bot, telegram, history, faults>>

\* Without a wallet row there is nothing to update.
UpdateWallet(e) ==
  /\ bill[e].pc = "conversation"
  /\ bill[e].wallet.exists => ~WalletLocked
  /\ BillTo(e, "commit")
  /\ UNCHANGED <<rows, bot, telegram, history, faults>>

\* Mutant: a pool is debited without looking at what it holds.
Taken_Whole(pool, due) == due

\* What a pool gives.
Taken(pool, due) == IF pool < due THEN pool ELSE due

\* The three pools in turn; a charge nothing was found for is "unsettled",
\* what is left of one that was met in part is not recorded.
Debits(b, w, due) ==
  LET fromConversation == Taken(Credits(b), due)
      fromOwner == Taken(w.balance, due - fromConversation)
      fromSponsor == Taken(w.sponsor, due - fromConversation - fromOwner)
  IN [conversation |-> fromConversation, owner |-> fromOwner, sponsor |-> fromSponsor,
      unsettled |-> IF fromConversation + fromOwner + fromSponsor = 0 THEN due ELSE 0]

\* Mutant: the row is written back as it was read.
DebitedWallet_WholeRow(w, d) ==
  IF w.exists THEN [w EXCEPT !.balance = @ - d.owner, !.sponsor = @ - d.sponsor] ELSE wallet

\* Both pools get absolute values, computed from what was read.
DebitedWallet(w, d) ==
  IF w.exists
  THEN [exists |-> wallet.exists, stars |-> wallet.stars,
        balance |-> w.balance - d.owner, sponsor |-> w.sponsor - d.sponsor]
  ELSE wallet

\* So does the conversation's budget; a NULL one is written back.
CommitBilling(e) ==
  LET b == bill[e].budget
      d == Debits(b, bill[e].wallet, Charge[e])
  IN
  /\ bill[e].pc = "commit"
  /\ budget' = IF b = NoBudget THEN NoBudget ELSE b - d.conversation
  /\ wallet' = DebitedWallet(bill[e].wallet, d)
  /\ ledger' = [ledger EXCEPT ![e] = d]
  /\ BillTo(e, "billed")
  /\ UNCHANGED <<invoice, bot, telegram, history, faults>>

-----------------------------------------------------------------------------
(* The bot: invoices.                                                      *)

\* createPlanInvoice, then replyWithInvoice.
CreateInvoice(i) ==
  /\ bot.pc = "idle"
  /\ invoice[i] = "ABSENT"
  /\ invoice' = [invoice EXCEPT ![i] = "PENDING"]
  /\ bot' = [NoUpdate EXCEPT !.pc = "deliver", !.inv = i]
  /\ UNCHANGED <<budget, wallet, bill, telegram, ledger, history, faults>>

DeliverInvoice ==
  /\ bot.pc = "deliver"
  /\ sent' = sent \cup {bot.inv}
  /\ bot' = NoUpdate
  /\ UNCHANGED <<rows, bill, updates, charges, history, faults>>

\* The call throws, though the customer may have got the invoice.
DeliveryThrows ==
  /\ Fault
  /\ bot.pc = "deliver"
  /\ sent' \in {sent, sent \cup {bot.inv}}
  /\ bot' = [bot EXCEPT !.pc = "undelivered"]
  /\ UNCHANGED <<rows, bill, updates, charges, history>>

\* markInvoiceDeliveryFailed.
MarkDeliveryFailed ==
  /\ bot.pc = "undelivered"
  /\ invoice' = IF invoice[bot.inv] = "PENDING"
                THEN [invoice EXCEPT ![bot.inv] = "FAILED"] ELSE invoice
  /\ bot' = NoUpdate
  /\ UNCHANGED <<budget, wallet, bill, telegram, ledger, history, faults>>

\* validatePendingInvoice.
IsPayable(status) == status = "PENDING"

\* The pre-checkout query is answered yes and the customer is charged.
PreCheckout(i) ==
  /\ bot.pc = "idle"
  /\ i \in sent
  /\ IsPayable(invoice[i])
  /\ charges[i] < MaxCharges
  /\ charges' = [charges EXCEPT ![i] = @ + 1]
  /\ updates' = [updates EXCEPT ![i] = @ + 1]
  /\ UNCHANGED <<rows, bill, bot, sent, history, faults>>

-----------------------------------------------------------------------------
(* The bot: confirmInvoicePayment.                                         *)

\* Mutant: a payment seen before is credited again.
AlreadyPaid_Never(status) == FALSE

AlreadyPaid(status) == status \in {"PAID", "FULFILLED"}

\* Mutant: the update is acknowledged before it was handled.
BeginPayment_AckFirst(i) ==
  /\ bot.pc = "idle"
  /\ updates[i] > 0
  /\ updates' = [updates EXCEPT ![i] = @ - 1]
  /\ bot' = [pc |-> IF AlreadyPaid(invoice[i]) THEN "reply" ELSE "pay",
             inv |-> i, budget |-> budget, wallet |-> wallet.exists]
  /\ UNCHANGED <<rows, bill, sent, charges, history, faults>>

\* The transaction's one read: the invoice with its wallet and conversation.
BeginPayment(i) ==
  /\ bot.pc = "idle"
  /\ updates[i] > 0
  /\ bot' = [pc |-> IF AlreadyPaid(invoice[i]) THEN "reply" ELSE "pay",
             inv |-> i, budget |-> budget, wallet |-> wallet.exists]
  /\ UNCHANGED <<rows, bill, telegram, history, faults>>

\* The invoice, which nobody else touches, then the wallet.
CreditWallet ==
  /\ bot.pc = "pay"
  /\ bot.wallet => ~WalletLocked
  /\ bot' = [bot EXCEPT !.pc = "conversation"]
  /\ UNCHANGED <<rows, bill, telegram, history, faults>>

CreditConversation ==
  /\ bot.pc = "conversation"
  /\ BotUpdatesConversation => ~ConversationLocked
  /\ bot' = [bot EXCEPT !.pc = "commit"]
  /\ UNCHANGED <<rows, bill, telegram, history, faults>>

computeCreditsForPlan(plan) ==
  CASE plan = "DEEP_HELP" -> DeepHelpCredits
    [] plan = "PASS" -> PassCredits
    [] OTHER -> 0

\* Mutant: the plan's credits are added twice.
GrantedBudget_Twice(b, plan) ==
  Credits(b) + computeCreditsForPlan(plan) + computeCreditsForPlan(plan)

\* The new budget, from the one that was read.
GrantedBudget(b, plan) == Credits(b) + computeCreditsForPlan(plan)

\* increment for a row that was there, create for one that was not.
CreditedWallet(i) ==
  LET sponsored == IF Plan[i] = "SPONSOR" THEN Stars[i] ELSE 0 IN
  IF bot.wallet
  THEN [exists |-> wallet.exists, balance |-> wallet.balance,
        sponsor |-> wallet.sponsor + sponsored, stars |-> wallet.stars + Stars[i]]
  ELSE [exists |-> TRUE, balance |-> 0, sponsor |-> sponsored, stars |-> Stars[i]]

CommitPayment ==
  LET i == bot.inv IN
  /\ bot.pc = "commit"
  /\ invoice' = [invoice EXCEPT ![i] = IF Plan[i] = "SPONSOR" THEN "FULFILLED" ELSE "PAID"]
  /\ wallet' = CreditedWallet(i)
  /\ budget' = IF Plan[i] = "SPONSOR" THEN budget ELSE GrantedBudget(bot.budget, Plan[i])
  /\ credited' = [credited EXCEPT ![i] = @ + 1]
  /\ issued' = [budget |-> issued.budget + computeCreditsForPlan(Plan[i]),
                balance |-> issued.balance,
                sponsor |-> issued.sponsor + (IF Plan[i] = "SPONSOR" THEN Stars[i] ELSE 0)]
  /\ bot' = [bot EXCEPT !.pc = "reply"]
  /\ UNCHANGED <<bill, telegram, ledger, failed, faults>>

\* The handler returns; grammY asks for the next update.
AcknowledgePayment ==
  /\ bot.pc = "reply"
  /\ updates' = [updates EXCEPT ![bot.inv] = @ - 1]
  /\ bot' = NoUpdate
  /\ UNCHANGED <<rows, bill, sent, charges, history, faults>>

-----------------------------------------------------------------------------
(* Aborted transactions, crashes.                                          *)

\* The handler catches what the transaction throws, answers the customer, and
\* the update counts as handled.
PaymentAborts ==
  /\ bot.pc \in {"pay", "conversation", "commit"}
  /\ failed' = failed \cup {bot.inv}
  /\ bot' = [bot EXCEPT !.pc = "reply"]
  /\ UNCHANGED <<rows, bill, telegram, credited, issued>>

\* executeTool throws: the execution is finished and never billed.
BillingAborts(e) ==
  /\ bill[e].pc \in {"launched", "wallet", "debit", "conversation", "commit"}
  /\ BillTo(e, "unbilled")
  /\ UNCHANGED <<rows, bot, telegram, history>>

\* Each waits for the row the other holds.
Deadlocked(e) ==
  /\ bill[e].pc = "conversation" /\ bill[e].wallet.exists
  /\ bot.pc = "conversation" /\ bot.wallet /\ BotUpdatesConversation

BreakDeadlock(e) ==
  /\ Deadlocked(e)
  /\ PaymentAborts \/ BillingAborts(e)
  /\ UNCHANGED faults

BotCrash ==
  /\ Fault
  /\ bot.pc # "idle"
  /\ bot' = NoUpdate
  /\ UNCHANGED <<rows, bill, telegram, history>>

Next ==
  \/ \E e \in Executions :
       \/ Launch(e) \/ ReadConversation(e) \/ ReadWallet(e)
       \/ UpdateConversation(e) \/ UpdateWallet(e) \/ CommitBilling(e)
       \/ BreakDeadlock(e)
       \/ Fault /\ BillingAborts(e)
  \/ \E i \in Invoices : CreateInvoice(i) \/ PreCheckout(i) \/ BeginPayment(i)
  \/ DeliverInvoice \/ DeliveryThrows \/ MarkDeliveryFailed
  \/ CreditWallet \/ CreditConversation \/ CommitPayment \/ AcknowledgePayment
  \/ Fault /\ PaymentAborts
  \/ BotCrash

Spec == Init /\ [][Next]_vars

-----------------------------------------------------------------------------
\* A payment is booked once, however often its update comes and wherever the
\* bot died, and it is booked exactly when its invoice is shown as paid.
PaymentsCountOnce ==
  \A i \in Invoices : credited[i] = IF invoice[i] \in {"PAID", "FULFILLED"} THEN 1 ELSE 0

\* The stars in the wallet are those of the payments: the broker's absolute
\* writes to the same row never lose one.
StarsAddUp ==
  wallet.stars = SumFunction([i \in Invoices |-> Stars[i] * credited[i]])

\* No pool ever holds more than was put into it, although both sides write
\* what they computed from an old read, and none is overdrawn.
NoCreditFromNothing ==
  /\ Credits(budget) \in 0..issued.budget
  /\ wallet.balance \in 0..issued.balance
  /\ wallet.sponsor \in 0..issued.sponsor

\* A closed invoice stays closed: one whose delivery failed is never paid, even
\* if the customer did get it, and a paid one never fails.
ClosedInvoicesStayClosed ==
  [][\A i \in Invoices :
       invoice[i] \in {"FAILED", "PAID", "FULFILLED"} => invoice'[i] = invoice[i]]_invoice

\* Once no update of an invoice is left to handle, a customer who was charged for
\* it has been credited, unless a payment transaction failed.
ChargedMeansCredited ==
  \A i \in Invoices :
    charges[i] > 0 /\ updates[i] = 0 /\ i \notin failed => credited[i] = 1
=============================================================================
