--------------------------- MODULE Billing_proofs ---------------------------
(***************************************************************************)
(* Proofs about Billing, for any number of executions and invoices, any    *)
(* prices, charges and initial balances.                                   *)
(*                                                                         *)
(* What the bot knows while it handles an update (BotKnows) decides that a *)
(* payment counts once; that every old read is bounded by what was issued  *)
(* (ReadsAreBounded) decides that absolute writes create no credit; and    *)
(* what a payment knows of its wallet (WalletIsKnown) decides that the     *)
(* wallet's stars are the sum of the payments.                             *)
(***************************************************************************)
EXTENDS Billing, FiniteSetTheorems, WellFoundedInduction, TLAPS

\* The bot delivers an invoice nobody was charged for; it pays one that is still
\* pending, whose update is not acknowledged; and when it replies the payment
\* has been credited or its transaction failed.
BotKnows ==
  /\ bot.pc # "idle" => bot.inv \in Invoices
  /\ bot.pc \in {"deliver", "undelivered"} => charges[bot.inv] = 0
  /\ bot.pc \in {"pay", "conversation", "commit"} => invoice[bot.inv] = "PENDING"
  /\ bot.pc \in {"pay", "conversation", "commit", "reply"} => updates[bot.inv] > 0
  /\ bot.pc = "reply" => invoice[bot.inv] \in {"PAID", "FULFILLED"} \/ bot.inv \in failed

\* Each update stands for a charge, and nobody is charged for an invoice that was
\* not created or not delivered.
ChargesAreApproved ==
  \A i \in Invoices :
    /\ updates[i] <= charges[i]
    /\ invoice[i] \in {"ABSENT", "FAILED"} => charges[i] = 0

\* What a request remembers of a pool is no more than was ever issued.
ReadsAreBounded ==
  /\ Credits(bot.budget) <= issued.budget
  /\ \A e \in Executions : /\ Credits(bill[e].budget) <= issued.budget
                           /\ bill[e].wallet.balance <= issued.balance
                           /\ bill[e].wallet.sponsor <= issued.sponsor

IInv ==
  /\ TypeOK
  /\ BotKnows /\ ChargesAreApproved /\ PaymentsCountOnce /\ ChargedMeansCredited
  /\ NoCreditFromNothing /\ ReadsAreBounded

-----------------------------------------------------------------------------
(* The debit of three pools.                                               *)

LEMMA TakenIsCovered ==
  ASSUME NEW pool \in Nat, NEW due \in Nat
  PROVE  /\ Taken(pool, due) \in Nat
         /\ Taken(pool, due) <= pool
         /\ Taken(pool, due) <= due
         /\ Taken(pool, due) < due => Taken(pool, due) = pool
BY DEF Taken

\* No pool is overdrawn, no execution is charged more than it cost, and a charge
\* is met in part only when all three pools are empty afterwards
\* (applyExecutionBilling's three debits).
THEOREM DebitsAreExhaustive ==
  ASSUME NEW b \in Budget, NEW w \in WalletRow, NEW due \in Nat
  PROVE  LET d == Debits(b, w, due) IN
         /\ d \in DebitRow
         /\ d.conversation <= Credits(b)
         /\ d.owner <= w.balance
         /\ d.sponsor <= w.sponsor
         /\ d.conversation + d.owner + d.sponsor <= due
         /\ d.conversation + d.owner + d.sponsor < due =>
              /\ d.conversation = Credits(b)
              /\ d.owner = w.balance
              /\ d.sponsor = w.sponsor
<1> DEFINE x == Taken(Credits(b), due)
           y == Taken(w.balance, due - x)
           z == Taken(w.sponsor, due - x - y)
<1>1. Credits(b) \in Nat /\ w.balance \in Nat /\ w.sponsor \in Nat
  BY BillingAssumption DEF Credits, Budget, WalletRow
<1>2. /\ x \in Nat /\ x <= Credits(b) /\ x <= due
      /\ x < due => x = Credits(b)
  BY <1>1, TakenIsCovered
<1>3. due - x \in Nat
  BY <1>2
<1>4. /\ y \in Nat /\ y <= w.balance /\ y <= due - x
      /\ y < due - x => y = w.balance
  BY <1>1, <1>3, TakenIsCovered
<1>5. due - x - y \in Nat
  BY <1>2, <1>4
<1>6. /\ z \in Nat /\ z <= w.sponsor /\ z <= due - x - y
      /\ z < due - x - y => z = w.sponsor
  BY <1>1, <1>5, TakenIsCovered
<1>7. Debits(b, w, due) =
        [conversation |-> x, owner |-> y, sponsor |-> z,
         unsettled |-> IF x + y + z = 0 THEN due ELSE 0]
  BY DEF Debits
<1> HIDE DEF x, y, z
<1>8. /\ x + y + z <= due
      /\ x + y + z < due => x = Credits(b) /\ y = w.balance /\ z = w.sponsor
  BY <1>1, <1>2, <1>4, <1>6
<1>9. Debits(b, w, due) \in DebitRow
  BY <1>2, <1>4, <1>6, <1>7 DEF DebitRow
<1> QED
  BY <1>2, <1>4, <1>6, <1>7, <1>8, <1>9

-----------------------------------------------------------------------------
(* What the actions write.                                                 *)

LEMMA BillUpdates ==
  ASSUME TypeOK, NEW e \in Executions, NEW pc \in BillStep
  PROVE  /\ [bill EXCEPT ![e].pc = pc] \in [Executions -> BillRow]
         /\ [bill EXCEPT ![e] = [pc |-> pc, budget |-> budget, wallet |-> @.wallet]]
              \in [Executions -> BillRow]
         /\ [bill EXCEPT ![e] = [pc |-> pc, budget |-> @.budget, wallet |-> wallet]]
              \in [Executions -> BillRow]
BY DEF TypeOK, BillRow

\* No action but the two reads changes what a request remembers.
LEMMA BillFrame ==
  ASSUME TypeOK, NEW e \in Executions, NEW pc, bill' = [bill EXCEPT ![e].pc = pc]
  PROVE  \A f \in Executions : /\ bill'[f].budget = bill[f].budget
                               /\ bill'[f].wallet = bill[f].wallet
BY DEF TypeOK, BillRow

LEMMA BotUpdates ==
  ASSUME TypeOK, NEW pc \in BotStep
  PROVE  /\ [bot EXCEPT !.pc = pc] \in BotRow
         /\ NoUpdate \in BotRow
         /\ \A i \in Invoices : [NoUpdate EXCEPT !.pc = pc, !.inv = i] \in BotRow
         /\ \A i \in Invoices :
              [pc |-> pc, inv |-> i, budget |-> budget, wallet |-> wallet.exists] \in BotRow
BY DEF TypeOK, BotRow, BotStep, NoUpdate, Budget, WalletRow

LEMMA PlanCreditsNat == \A plan : computeCreditsForPlan(plan) \in Nat
BY BillingAssumption DEF computeCreditsForPlan

\* The broker's debit leaves each pool between nothing and what it read.
LEMMA CommitBillingWrites ==
  ASSUME TypeOK, NEW e \in Executions, CommitBilling(e)
  PROVE  /\ budget' \in Budget
         /\ Credits(budget') <= Credits(bill[e].budget)
         /\ wallet' \in WalletRow
         /\ wallet'.stars = wallet.stars
         /\ \/ wallet' = wallet
            \/ /\ wallet'.balance <= bill[e].wallet.balance
               /\ wallet'.sponsor <= bill[e].wallet.sponsor
         /\ ledger' \in [Executions -> DebitRow]
<1> DEFINE b == bill[e].budget
           w == bill[e].wallet
           d == Debits(b, w, Charge[e])
<1>1. b \in Budget /\ w \in WalletRow /\ wallet \in WalletRow /\ Charge[e] \in Nat
  BY BillingAssumption DEF TypeOK, BillRow
<1>2. /\ d \in DebitRow
      /\ d.conversation <= Credits(b)
      /\ d.owner <= w.balance
      /\ d.sponsor <= w.sponsor
  BY <1>1, DebitsAreExhaustive
<1>3. /\ budget' = IF b = NoBudget THEN NoBudget ELSE b - d.conversation
      /\ wallet' = DebitedWallet(w, d)
      /\ ledger' = [ledger EXCEPT ![e] = d]
  BY DEF CommitBilling
<1> HIDE DEF b, w, d
<1>4. /\ d.conversation \in Nat /\ d.owner \in Nat /\ d.sponsor \in Nat
      /\ w.balance \in Nat /\ w.sponsor \in Nat
  BY <1>1, <1>2 DEF DebitRow, WalletRow
<1>5. budget' \in Budget /\ Credits(budget') <= Credits(b)
  BY <1>1, <1>2, <1>3, <1>4, BillingAssumption DEF Budget, Credits
<1>6. w.balance - d.owner \in Nat /\ w.sponsor - d.sponsor \in Nat
  BY <1>2, <1>4
<1>7. /\ wallet' \in WalletRow
      /\ wallet'.stars = wallet.stars
      /\ \/ wallet' = wallet
         \/ wallet'.balance <= w.balance /\ wallet'.sponsor <= w.sponsor
  BY <1>1, <1>3, <1>4, <1>6 DEF DebitedWallet, WalletRow
<1>8. ledger' \in [Executions -> DebitRow]
  BY <1>2, <1>3 DEF TypeOK
<1> QED
  BY <1>5, <1>7, <1>8 DEF b, w

\* The bot's payment adds to each pool what is issued with it.
LEMMA CommitPaymentWrites ==
  ASSUME IInv, CommitPayment
  PROVE  /\ bot.inv \in Invoices
         /\ budget' \in Budget
         /\ wallet' \in WalletRow
         /\ issued' \in IssuedRow
         /\ issued'.budget >= issued.budget
         /\ issued'.balance = issued.balance
         /\ issued'.sponsor >= issued.sponsor
         /\ Credits(budget') <= issued'.budget
         /\ wallet'.balance <= issued'.balance
         /\ wallet'.sponsor <= issued'.sponsor
<1> DEFINE i == bot.inv
           c == computeCreditsForPlan(Plan[i])
           s == IF Plan[i] = "SPONSOR" THEN Stars[i] ELSE 0
<1>1. i \in Invoices
  BY DEF IInv, BotKnows, CommitPayment
<1>2. c \in Nat /\ s \in Nat /\ Stars[i] \in Nat
  BY <1>1, PlanCreditsNat, BillingAssumption
<1>3. /\ budget' = IF Plan[i] = "SPONSOR" THEN budget ELSE Credits(bot.budget) + c
      /\ wallet' = CreditedWallet(i)
      /\ issued' = [budget |-> issued.budget + c, balance |-> issued.balance,
                    sponsor |-> issued.sponsor + s]
  BY DEF CommitPayment, GrantedBudget
<1>4. CreditedWallet(i) =
        IF bot.wallet
        THEN [exists |-> wallet.exists, balance |-> wallet.balance,
              sponsor |-> wallet.sponsor + s, stars |-> wallet.stars + Stars[i]]
        ELSE [exists |-> TRUE, balance |-> 0, sponsor |-> s, stars |-> Stars[i]]
  BY DEF CreditedWallet
<1> HIDE DEF i, c, s
<1>5. /\ budget \in Budget /\ bot.budget \in Budget
      /\ wallet \in WalletRow /\ issued \in IssuedRow
  BY DEF IInv, TypeOK, BotRow
<1>6. /\ Credits(budget) \in Nat /\ Credits(bot.budget) \in Nat
      /\ issued.budget \in Nat /\ issued.balance \in Nat /\ issued.sponsor \in Nat
      /\ wallet.balance \in Nat /\ wallet.sponsor \in Nat /\ wallet.stars \in Nat
  BY <1>5, BillingAssumption DEF Budget, Credits, IssuedRow, WalletRow
<1>7. /\ Credits(budget) <= issued.budget /\ Credits(bot.budget) <= issued.budget
      /\ wallet.balance <= issued.balance /\ wallet.sponsor <= issued.sponsor
  BY <1>6 DEF IInv, NoCreditFromNothing, ReadsAreBounded
<1>8. /\ issued' \in IssuedRow
      /\ issued'.budget = issued.budget + c
      /\ issued'.balance = issued.balance
      /\ issued'.sponsor = issued.sponsor + s
  BY <1>2, <1>3, <1>5, <1>6 DEF IssuedRow
<1>9. /\ budget' \in Budget
      /\ Credits(budget') <= issued'.budget
  <2>1. CASE Plan[i] = "SPONSOR"
    BY <2>1, <1>2, <1>3, <1>5, <1>6, <1>7, <1>8
  <2>2. CASE Plan[i] # "SPONSOR"
    <3>1. budget' = Credits(bot.budget) + c /\ budget' \in Nat
      BY <2>2, <1>2, <1>3, <1>6
    <3>2. Credits(budget') = budget'
      BY <3>1, BillingAssumption DEF Credits
    <3> QED
      BY <3>1, <3>2, <1>2, <1>6, <1>7, <1>8 DEF Budget
  <2> QED
    BY <2>1, <2>2
<1>10. /\ wallet' \in WalletRow
       /\ wallet'.balance <= issued'.balance
       /\ wallet'.sponsor <= issued'.sponsor
  <2>1. CASE bot.wallet
    BY <2>1, <1>2, <1>3, <1>4, <1>5, <1>6, <1>7, <1>8 DEF WalletRow
  <2>2. CASE ~bot.wallet
    BY <2>2, <1>2, <1>3, <1>4, <1>6, <1>8 DEF WalletRow
  <2> QED
    BY <2>1, <2>2
<1> QED
  BY <1>1, <1>2, <1>6, <1>8, <1>9, <1>10 DEF i

-----------------------------------------------------------------------------
(* Who changes what.                                                       *)

\* What a broker's request does besides its reads and its commit.
LEMMA BrokerMoves ==
  ASSUME TypeOK, NEW e \in Executions,
         Launch(e) \/ UpdateConversation(e) \/ UpdateWallet(e) \/ BillingAborts(e)
  PROVE  /\ bill' \in [Executions -> BillRow]
         /\ \A f \in Executions : /\ bill'[f].budget = bill[f].budget
                                  /\ bill'[f].wallet = bill[f].wallet
         /\ UNCHANGED <<budget, wallet, ledger, issued>>
<1>1. PICK pc \in BillStep : bill' = [bill EXCEPT ![e].pc = pc]
  BY DEF Launch, UpdateConversation, UpdateWallet, BillingAborts, BillTo, BillStep
<1>2. bill' \in [Executions -> BillRow]
  BY <1>1, BillUpdates
<1>3. \A f \in Executions : bill'[f].budget = bill[f].budget /\ bill'[f].wallet = bill[f].wallet
  BY <1>1, BillFrame
<1> QED
  BY <1>2, <1>3
  DEF Launch, UpdateConversation, UpdateWallet, BillingAborts, rows, history

\* The broker takes no part in the payments.
LEMMA BrokerKeepsPayments ==
  ASSUME NEW e \in Executions,
         \/ Launch(e) \/ ReadConversation(e) \/ ReadWallet(e) \/ UpdateConversation(e)
         \/ UpdateWallet(e) \/ CommitBilling(e) \/ BillingAborts(e)
  PROVE  UNCHANGED <<invoice, bot, sent, updates, charges, credited, failed, issued>>
BY DEF Launch, ReadConversation, ReadWallet, UpdateConversation, UpdateWallet, CommitBilling,
       BillingAborts, rows, telegram, history

LEMMA NoUpdateIsIdle == NoUpdate.pc = "idle" /\ Credits(NoUpdate.budget) = 0
BY DEF NoUpdate, Credits

\* The bot goes on with the update it has.
LEMMA BotMoves ==
  ASSUME TypeOK, NEW pc \in BotStep, bot' = [bot EXCEPT !.pc = pc]
  PROVE  /\ bot' \in BotRow
         /\ bot'.pc = pc /\ bot'.inv = bot.inv /\ bot'.budget = bot.budget
<1>1. bot \in BotRow
  BY DEF TypeOK
<1> QED
  BY <1>1 DEF BotRow

\* The bot goes on, or is done, and writes no row of the wallet or conversation.
LEMMA BotOnly ==
  ASSUME TypeOK,
         \/ DeliverInvoice \/ DeliveryThrows \/ MarkDeliveryFailed \/ CreditWallet
         \/ CreditConversation \/ AcknowledgePayment \/ PaymentAborts \/ BotCrash
  PROVE  /\ bot' = NoUpdate \/ \E pc \in BotStep : bot' = [bot EXCEPT !.pc = pc]
         /\ UNCHANGED <<budget, wallet, bill, ledger, issued>>
BY DEF DeliverInvoice, DeliveryThrows, MarkDeliveryFailed, CreditWallet, CreditConversation,
       AcknowledgePayment, PaymentAborts, BotCrash, BotStep, rows, history

-----------------------------------------------------------------------------
(* Types.                                                                  *)

\* Every step keeps the types, given the invariant it starts from.
LEMMA TypeStep ==
  ASSUME IInv, [Next]_vars
  PROVE  TypeOK'
<1> USE DEF Fault
<1>0. TypeOK
  BY DEF IInv
<1>1. ASSUME NEW e \in Executions,
             Launch(e) \/ UpdateConversation(e) \/ UpdateWallet(e) \/ BillingAborts(e),
             faults' \in Nat
      PROVE  TypeOK'
  <2>1. bill' \in [Executions -> BillRow] /\ UNCHANGED <<budget, wallet, ledger, issued>>
    BY <1>0, <1>1, BrokerMoves
  <2>2. UNCHANGED <<invoice, bot, sent, updates, charges, credited, failed>>
    BY <1>1, BrokerKeepsPayments
  <2> QED
    BY <1>0, <1>1, <2>1, <2>2 DEF TypeOK
<1>2. ASSUME NEW e \in Executions, ReadConversation(e) \/ ReadWallet(e)
      PROVE  TypeOK'
  <2>1. bill' \in [Executions -> BillRow]
    <3>1. "wallet" \in BillStep /\ "debit" \in BillStep
      BY DEF BillStep
    <3>2. CASE ReadConversation(e)
      BY <1>0, <3>1, <3>2, BillUpdates, Zenon DEF ReadConversation
    <3>3. CASE ReadWallet(e)
      BY <1>0, <3>1, <3>3, BillUpdates, Zenon DEF ReadWallet
    <3> QED
      BY <1>2, <3>2, <3>3
  <2>2. UNCHANGED <<budget, wallet, invoice, bot, sent, updates, ledger, charges, credited,
                    failed, issued, faults>>
    BY <1>2 DEF ReadConversation, ReadWallet, rows, telegram, history
  <2> QED
    BY <1>0, <2>1, <2>2 DEF TypeOK
<1>3. ASSUME NEW e \in Executions, CommitBilling(e)
      PROVE  TypeOK'
  <2>1. bill' \in [Executions -> BillRow]
    BY <1>0, <1>3, BillUpdates DEF CommitBilling, BillTo, BillStep
  <2> QED
    BY <1>0, <1>3, <2>1, CommitBillingWrites DEF CommitBilling, TypeOK, telegram, history
<1>4. ASSUME bot' \in BotRow,
             \/ DeliverInvoice \/ DeliveryThrows \/ MarkDeliveryFailed \/ CreditWallet
             \/ CreditConversation \/ AcknowledgePayment \/ PaymentAborts \/ BotCrash,
             faults' \in Nat
      PROVE  TypeOK'
  <2>1. UNCHANGED <<budget, wallet, bill, ledger, issued>>
    BY <1>0, <1>4, BotOnly
  <2>2. bot.inv \in Invoices
    BY <1>4 DEF IInv, BotKnows, DeliverInvoice, DeliveryThrows, MarkDeliveryFailed, CreditWallet,
                CreditConversation, AcknowledgePayment, PaymentAborts, BotCrash
  <2>3. /\ invoice' \in [Invoices -> InvoiceStatus \cup {"ABSENT"}]
        /\ UNCHANGED <<charges, credited>>
    BY <1>0, <1>4, <2>2
    DEF TypeOK, InvoiceStatus, DeliverInvoice, DeliveryThrows, MarkDeliveryFailed, CreditWallet,
        CreditConversation, AcknowledgePayment, PaymentAborts, BotCrash, rows, telegram, history
  <2>5. sent' \subseteq Invoices /\ failed' \subseteq Invoices
    BY <1>0, <1>4, <2>2, Zenon
    DEF TypeOK, DeliverInvoice, DeliveryThrows, MarkDeliveryFailed, CreditWallet,
        CreditConversation, AcknowledgePayment, PaymentAborts, BotCrash, telegram, history
  <2>4. updates' \in [Invoices -> Nat]
    <3>1. CASE AcknowledgePayment
      <4>1. updates[bot.inv] \in Nat /\ updates[bot.inv] > 0
        BY <1>0, <2>2, <3>1 DEF TypeOK, IInv, BotKnows, AcknowledgePayment
      <4> QED
        BY <1>0, <2>2, <3>1, <4>1 DEF TypeOK, AcknowledgePayment
    <3>2. CASE ~AcknowledgePayment
      BY <1>0, <1>4, <3>2
      DEF TypeOK, DeliverInvoice, DeliveryThrows, MarkDeliveryFailed, CreditWallet,
          CreditConversation, PaymentAborts, BotCrash, telegram
    <3> QED
      BY <3>1, <3>2
  <2> QED
    BY <1>0, <1>4, <2>1, <2>3, <2>4, <2>5 DEF TypeOK
<1>5. ASSUME NEW i \in Invoices, CreateInvoice(i)
      PROVE  TypeOK'
  <2>1. bot' \in BotRow
    BY <1>0, <1>5, BotUpdates DEF CreateInvoice, BotStep
  <2> QED
    BY <1>0, <1>5, <2>1 DEF CreateInvoice, TypeOK, InvoiceStatus, telegram, history
<1>6. ASSUME NEW i \in Invoices, PreCheckout(i)
      PROVE  TypeOK'
  BY <1>0, <1>6 DEF PreCheckout, TypeOK, rows, history
<1>7. ASSUME NEW i \in Invoices, BeginPayment(i)
      PROVE  TypeOK'
  <2>1. bot' \in BotRow
    BY <1>0, <1>7, BotUpdates DEF BeginPayment, BotStep
  <2> QED
    BY <1>0, <1>7, <2>1 DEF BeginPayment, TypeOK, rows, telegram, history
<1>8. ASSUME CommitPayment
      PROVE  TypeOK'
  <2>1. bot' \in BotRow
    BY <1>0, <1>8, BotUpdates DEF CommitPayment, BotStep
  <2>2. /\ bot.inv \in Invoices
        /\ budget' \in Budget /\ wallet' \in WalletRow /\ issued' \in IssuedRow
    BY <1>8, CommitPaymentWrites
  <2>3. /\ invoice' \in [Invoices -> InvoiceStatus \cup {"ABSENT"}]
        /\ credited' \in [Invoices -> Nat]
    BY <1>0, <1>8, <2>2 DEF CommitPayment, TypeOK, InvoiceStatus
  <2> QED
    BY <1>0, <1>8, <2>1, <2>2, <2>3 DEF CommitPayment, TypeOK, telegram
<1>9. ASSUME \/ DeliverInvoice \/ DeliveryThrows \/ MarkDeliveryFailed \/ CreditWallet
             \/ CreditConversation \/ AcknowledgePayment \/ PaymentAborts \/ BotCrash
      PROVE  bot' \in BotRow
  <2>1. bot' = NoUpdate \/ \E pc \in BotStep : bot' = [bot EXCEPT !.pc = pc]
    BY <1>0, <1>9, BotOnly
  <2> QED
    BY <1>0, <2>1, BotUpdates, BotMoves DEF BotStep
<1>10. faults \in Nat
  BY <1>0 DEF TypeOK
<1>11. CASE UNCHANGED vars
  BY <1>0, <1>11 DEF vars, TypeOK
<1>12. CASE Next
  <2>1. ASSUME NEW e \in Executions,
               \/ Launch(e) \/ ReadConversation(e) \/ ReadWallet(e)
               \/ UpdateConversation(e) \/ UpdateWallet(e) \/ CommitBilling(e)
        PROVE  TypeOK'
    BY <2>1, <1>1, <1>2, <1>3, <1>10 DEF Launch, UpdateConversation, UpdateWallet
  <2>2. ASSUME NEW e \in Executions, BreakDeadlock(e) \/ (Fault /\ BillingAborts(e))
        PROVE  TypeOK'
    BY <2>2, <1>1, <1>4, <1>9, <1>10 DEF BreakDeadlock
  <2>3. ASSUME \/ DeliverInvoice \/ DeliveryThrows \/ MarkDeliveryFailed \/ CreditWallet
               \/ CreditConversation \/ AcknowledgePayment \/ (Fault /\ PaymentAborts)
               \/ BotCrash
        PROVE  TypeOK'
    <3>1. faults' \in Nat
      BY <2>3, <1>10 DEF DeliverInvoice, DeliveryThrows, MarkDeliveryFailed, CreditWallet,
                         CreditConversation, AcknowledgePayment, BotCrash
    <3> QED
      BY <2>3, <3>1, <1>4, <1>9
  <2> QED
    BY <1>12, <2>1, <2>2, <2>3, <1>5, <1>6, <1>7, <1>8 DEF Next
<1> QED
  BY <1>11, <1>12

-----------------------------------------------------------------------------
(* Payments.                                                               *)

Payments == BotKnows /\ ChargesAreApproved /\ PaymentsCountOnce /\ ChargedMeansCredited

\* Every step keeps what is known of the payments.
LEMMA PaymentStep ==
  ASSUME IInv, [Next]_vars
  PROVE  Payments'
<1> USE DEF Payments
<1>0. TypeOK /\ Payments
  BY DEF IInv
<1>1. ASSUME UNCHANGED <<invoice, bot, sent, updates, charges, credited, failed>>
      PROVE  Payments'
  BY <1>0, <1>1 DEF BotKnows, ChargesAreApproved, PaymentsCountOnce, ChargedMeansCredited
<1> DEFINE Types == /\ invoice \in [Invoices -> InvoiceStatus \cup {"ABSENT"}]
                    /\ updates \in [Invoices -> Nat]
                    /\ charges \in [Invoices -> Nat]
                    /\ credited \in [Invoices -> Nat]
                    /\ failed \subseteq Invoices
<1>2. Types
  BY <1>0 DEF TypeOK
<1>3. ASSUME NEW i \in Invoices, CreateInvoice(i)
      PROVE  Payments'
  <2>1. bot'.pc = "deliver" /\ bot'.inv = i
    BY <1>3 DEF CreateInvoice, NoUpdate
  <2>2. /\ invoice[i] = "ABSENT" /\ invoice' = [invoice EXCEPT ![i] = "PENDING"]
        /\ UNCHANGED <<updates, charges, credited, failed>>
    BY <1>3 DEF CreateInvoice, telegram, history
  <2> QED
    BY <1>0, <1>2, <2>1, <2>2
    DEF InvoiceStatus, BotKnows, ChargesAreApproved, PaymentsCountOnce, ChargedMeansCredited
<1>4. ASSUME bot' = NoUpdate, UNCHANGED <<invoice, updates, charges, credited, failed>>
      PROVE  Payments'
  BY <1>0, <1>4, NoUpdateIsIdle
  DEF BotKnows, ChargesAreApproved, PaymentsCountOnce, ChargedMeansCredited
<1>5. ASSUME DeliverInvoice \/ BotCrash
      PROVE  Payments'
  BY <1>4, <1>5 DEF DeliverInvoice, BotCrash, rows, telegram, history
<1>6. ASSUME DeliveryThrows
      PROVE  Payments'
  <2>1. /\ bot'.pc = "undelivered" /\ bot'.inv = bot.inv /\ bot.pc = "deliver"
        /\ UNCHANGED <<invoice, updates, charges, credited, failed>>
    BY <1>0, <1>6, BotMoves DEF DeliveryThrows, BotStep, rows, history
  <2> QED
    BY <1>0, <2>1 DEF BotKnows, ChargesAreApproved, PaymentsCountOnce, ChargedMeansCredited
<1>7. ASSUME MarkDeliveryFailed
      PROVE  Payments'
  <2>1. /\ bot.pc = "undelivered"
        /\ invoice' = IF invoice[bot.inv] = "PENDING"
                      THEN [invoice EXCEPT ![bot.inv] = "FAILED"] ELSE invoice
        /\ bot'.pc = "idle"
        /\ UNCHANGED <<updates, charges, credited, failed>>
    BY <1>7, NoUpdateIsIdle DEF MarkDeliveryFailed, telegram, history
  <2> QED
    BY <1>0, <1>2, <2>1
    DEF InvoiceStatus, BotKnows, ChargesAreApproved, PaymentsCountOnce, ChargedMeansCredited
<1>8. ASSUME NEW i \in Invoices, PreCheckout(i)
      PROVE  Payments'
  <2>1. /\ bot.pc = "idle" /\ invoice[i] = "PENDING"
        /\ charges' = [charges EXCEPT ![i] = @ + 1]
        /\ updates' = [updates EXCEPT ![i] = @ + 1]
        /\ UNCHANGED <<invoice, bot, credited, failed>>
    BY <1>8 DEF PreCheckout, IsPayable, rows, history
  <2>2. charges[i] \in Nat /\ updates[i] \in Nat
    BY <1>2
  <2> QED
    BY <1>0, <1>2, <2>1, <2>2
    DEF BotKnows, ChargesAreApproved, PaymentsCountOnce, ChargedMeansCredited
<1>9. ASSUME NEW i \in Invoices, BeginPayment(i)
      PROVE  Payments'
  <2>1. /\ updates[i] > 0
        /\ bot'.pc = IF invoice[i] \in {"PAID", "FULFILLED"} THEN "reply" ELSE "pay"
        /\ bot'.inv = i
        /\ UNCHANGED <<invoice, updates, charges, credited, failed>>
    BY <1>9 DEF BeginPayment, AlreadyPaid, rows, telegram, history
  <2>2. invoice[i] \in {"PAID", "FULFILLED", "PENDING"}
    BY <1>0, <1>2, <2>1 DEF InvoiceStatus, ChargesAreApproved
  <2> QED
    BY <1>0, <2>1, <2>2 DEF BotKnows, ChargesAreApproved, PaymentsCountOnce, ChargedMeansCredited
<1>10. ASSUME CreditWallet \/ CreditConversation
       PROVE  Payments'
  <2>1. /\ bot.pc \in {"pay", "conversation"} /\ bot'.pc \in {"conversation", "commit"}
        /\ bot'.inv = bot.inv
        /\ UNCHANGED <<invoice, updates, charges, credited, failed>>
    BY <1>0, <1>10, BotMoves
    DEF CreditWallet, CreditConversation, BotStep, rows, telegram, history
  <2> QED
    BY <1>0, <2>1 DEF BotKnows, ChargesAreApproved, PaymentsCountOnce, ChargedMeansCredited
<1>11. ASSUME CommitPayment
       PROVE  Payments'
  <2>1. /\ bot.pc = "commit" /\ bot'.pc = "reply" /\ bot'.inv = bot.inv
        /\ invoice' = [invoice EXCEPT ![bot.inv] =
                         IF Plan[bot.inv] = "SPONSOR" THEN "FULFILLED" ELSE "PAID"]
        /\ credited' = [credited EXCEPT ![bot.inv] = @ + 1]
        /\ UNCHANGED <<updates, charges, failed>>
    BY <1>0, <1>11, BotMoves DEF CommitPayment, BotStep, telegram
  <2>2. bot.inv \in Invoices /\ invoice[bot.inv] = "PENDING" /\ updates[bot.inv] > 0
    BY <1>0, <2>1 DEF BotKnows
  <2>3. credited[bot.inv] = 0
    BY <1>0, <2>2 DEF PaymentsCountOnce
  <2> QED
    BY <1>0, <1>2, <2>1, <2>2, <2>3
    DEF BotKnows, ChargesAreApproved, PaymentsCountOnce, ChargedMeansCredited
<1>12. ASSUME AcknowledgePayment
       PROVE  Payments'
  <2>1. /\ bot.pc = "reply" /\ bot'.pc = "idle"
        /\ updates' = [updates EXCEPT ![bot.inv] = @ - 1]
        /\ UNCHANGED <<invoice, charges, credited, failed>>
    BY <1>12, NoUpdateIsIdle DEF AcknowledgePayment, rows, history
  <2>2. /\ bot.inv \in Invoices
        /\ invoice[bot.inv] \in {"PAID", "FULFILLED"} \/ bot.inv \in failed
    BY <1>0, <2>1 DEF BotKnows
  <2>3. updates[bot.inv] \in Nat
    BY <1>2, <2>2
  <2>4. BotKnows'
    BY <2>1 DEF BotKnows
  <2>5. ChargesAreApproved' /\ PaymentsCountOnce'
    BY <1>0, <1>2, <2>1, <2>2, <2>3 DEF ChargesAreApproved, PaymentsCountOnce
  <2>6. ChargedMeansCredited'
    BY <1>0, <1>2, <2>1, <2>2, <2>3 DEF ChargedMeansCredited, PaymentsCountOnce
  <2> QED
    BY <2>4, <2>5, <2>6
<1>13. ASSUME PaymentAborts
       PROVE  Payments'
  <2>1. /\ bot.pc \in {"pay", "conversation", "commit"}
        /\ bot'.pc = "reply" /\ bot'.inv = bot.inv
        /\ failed' = failed \cup {bot.inv}
        /\ UNCHANGED <<invoice, updates, charges, credited>>
    BY <1>0, <1>13, BotMoves DEF PaymentAborts, BotStep, rows, telegram
  <2> QED
    BY <1>0, <2>1 DEF BotKnows, ChargesAreApproved, PaymentsCountOnce, ChargedMeansCredited
<1>14. CASE UNCHANGED vars
  BY <1>1, <1>14 DEF vars
<1>15. CASE Next
  <2>1. ASSUME NEW e \in Executions,
               \/ Launch(e) \/ ReadConversation(e) \/ ReadWallet(e) \/ UpdateConversation(e)
               \/ UpdateWallet(e) \/ CommitBilling(e) \/ BillingAborts(e)
        PROVE  Payments'
    BY <2>1, <1>1, BrokerKeepsPayments
  <2>2. ASSUME NEW e \in Executions, BreakDeadlock(e)
        PROVE  Payments'
    BY <2>1, <2>2, <1>13 DEF BreakDeadlock
  <2> QED
    BY <1>15, <2>1, <2>2, <1>3, <1>5, <1>6, <1>7, <1>8, <1>9, <1>10, <1>11, <1>12, <1>13
    DEF Next
<1> QED
  BY <1>14, <1>15

-----------------------------------------------------------------------------
(* Pools.                                                                  *)

Pools == NoCreditFromNothing /\ ReadsAreBounded

\* Every step keeps the pools within what was issued.
LEMMA PoolStep ==
  ASSUME IInv, [Next]_vars
  PROVE  Pools'
<1>0. TypeOK /\ NoCreditFromNothing /\ ReadsAreBounded
  BY DEF IInv
<1> DEFINE Bounded(b, w, s) ==
             /\ Credits(b) <= s.budget
             /\ w.balance <= s.balance /\ w.sponsor <= s.sponsor
           Remembered(s) ==
             /\ Credits(bot.budget) <= s.budget
             /\ \A e \in Executions : Bounded(bill[e].budget, bill[e].wallet, s)
<1>1. \A b \in Budget : Credits(b) \in Nat
  BY BillingAssumption DEF Budget, Credits
<1>2. TypeOK'
  BY TypeStep
<1>3. Bounded(budget, wallet, issued) /\ Remembered(issued)
  <2>1. issued \in IssuedRow
    BY <1>0 DEF TypeOK
  <2> QED
    BY <1>0, <2>1 DEF NoCreditFromNothing, ReadsAreBounded, IssuedRow
<1>4. ASSUME Bounded(budget', wallet', issued'), Remembered(issued)'
      PROVE  Pools'
  <2>1. /\ Credits(budget') \in Nat
        /\ wallet'.balance \in Nat /\ wallet'.sponsor \in Nat
        /\ issued'.budget \in Nat /\ issued'.balance \in Nat /\ issued'.sponsor \in Nat
    BY <1>1, <1>2 DEF TypeOK, WalletRow, IssuedRow
  <2> QED
    BY <1>4, <2>1 DEF Pools, NoCreditFromNothing, ReadsAreBounded
<1>5. ASSUME UNCHANGED <<budget, wallet, issued, bill>>,
             bot'.budget = bot.budget \/ Credits(bot'.budget) = 0
      PROVE  Pools'
  <2>1. issued.budget \in Nat
    BY <1>0 DEF TypeOK, IssuedRow
  <2> QED
    BY <1>3, <1>4, <1>5, <2>1
<1>6. ASSUME NEW e \in Executions,
             Launch(e) \/ UpdateConversation(e) \/ UpdateWallet(e) \/ BillingAborts(e)
      PROVE  Pools'
  BY <1>0, <1>3, <1>4, <1>6, BrokerMoves, BrokerKeepsPayments
<1>7. ASSUME NEW e \in Executions, ReadConversation(e) \/ ReadWallet(e)
      PROVE  Pools'
  <2>1. /\ UNCHANGED <<budget, wallet, issued, bot>>
        /\ \A f \in Executions :
             /\ bill'[f].budget \in {bill[f].budget, budget}
             /\ bill'[f].wallet \in {bill[f].wallet, wallet}
    BY <1>0, <1>7 DEF TypeOK, ReadConversation, ReadWallet, rows, history
  <2> QED
    BY <1>3, <1>4, <2>1
<1>8. ASSUME NEW e \in Executions, CommitBilling(e)
      PROVE  Pools'
  <2>1. /\ UNCHANGED <<issued, bot>>
        /\ \A f \in Executions : /\ bill'[f].budget = bill[f].budget
                                 /\ bill'[f].wallet = bill[f].wallet
    BY <1>0, <1>8, BillFrame DEF CommitBilling, BillTo, history
  <2>2. Bounded(budget', wallet', issued)
    <3>1. /\ Credits(budget') <= Credits(bill[e].budget)
          /\ \/ wallet' = wallet
             \/ /\ wallet'.balance <= bill[e].wallet.balance
                /\ wallet'.sponsor <= bill[e].wallet.sponsor
      BY <1>0, <1>8, CommitBillingWrites
    <3>2. /\ bill[e].budget \in Budget /\ bill[e].wallet \in WalletRow
          /\ budget' \in Budget /\ wallet' \in WalletRow /\ issued \in IssuedRow
      BY <1>0, <1>2 DEF TypeOK, BillRow
    <3>3. /\ Credits(bill[e].budget) \in Nat /\ Credits(budget') \in Nat
          /\ bill[e].wallet.balance \in Nat /\ bill[e].wallet.sponsor \in Nat
          /\ wallet'.balance \in Nat /\ wallet'.sponsor \in Nat
          /\ issued.budget \in Nat /\ issued.balance \in Nat /\ issued.sponsor \in Nat
      BY <1>1, <3>2 DEF WalletRow, IssuedRow
    <3> QED
      BY <1>3, <3>1, <3>3
  <2> QED
    BY <1>3, <1>4, <2>1, <2>2
<1>9. ASSUME \/ DeliverInvoice \/ DeliveryThrows \/ MarkDeliveryFailed \/ CreditWallet
             \/ CreditConversation \/ AcknowledgePayment \/ PaymentAborts \/ BotCrash
      PROVE  Pools'
  <2>1. /\ bot' = NoUpdate \/ \E pc \in BotStep : bot' = [bot EXCEPT !.pc = pc]
        /\ UNCHANGED <<budget, wallet, issued, bill>>
    BY <1>0, <1>9, BotOnly
  <2>2. bot'.budget = bot.budget \/ Credits(bot'.budget) = 0
    BY <1>0, <2>1, BotMoves, NoUpdateIsIdle
  <2> QED
    BY <1>5, <2>1, <2>2
<1>10. ASSUME NEW i \in Invoices, CreateInvoice(i) \/ PreCheckout(i)
       PROVE  Pools'
  <2>1. UNCHANGED <<budget, wallet, issued, bill>>
    BY <1>10 DEF CreateInvoice, PreCheckout, rows, history
  <2>2. bot'.budget = bot.budget \/ Credits(bot'.budget) = 0
    BY <1>10 DEF CreateInvoice, PreCheckout, NoUpdate, Credits
  <2> QED
    BY <1>5, <2>1, <2>2
<1>11. ASSUME NEW i \in Invoices, BeginPayment(i)
       PROVE  Pools'
  <2>1. UNCHANGED <<budget, wallet, issued, bill>> /\ bot'.budget = budget
    BY <1>11 DEF BeginPayment, rows, history
  <2> QED
    BY <1>3, <1>4, <2>1
<1>12. ASSUME CommitPayment
       PROVE  Pools'
  <2>1. /\ Bounded(budget', wallet', issued')
        /\ issued'.budget >= issued.budget
        /\ issued'.balance = issued.balance
        /\ issued'.sponsor >= issued.sponsor
    BY <1>12, CommitPaymentWrites
  <2>2. UNCHANGED bill /\ bot'.budget = bot.budget
    BY <1>0, <1>12, BotMoves DEF CommitPayment, BotStep
  <2>3. /\ issued.budget \in Nat /\ issued.balance \in Nat /\ issued.sponsor \in Nat
        /\ issued'.budget \in Nat /\ issued'.balance \in Nat /\ issued'.sponsor \in Nat
        /\ Credits(bot.budget) \in Nat
    BY <1>0, <1>1, <1>2 DEF TypeOK, IssuedRow, BotRow
  <2>4. \A e \in Executions : /\ Credits(bill[e].budget) \in Nat
                              /\ bill[e].wallet.balance \in Nat
                              /\ bill[e].wallet.sponsor \in Nat
    BY <1>0, <1>1 DEF TypeOK, BillRow, WalletRow
  <2>5. Remembered(issued)'
    BY <1>3, <2>1, <2>2, <2>3, <2>4
  <2> QED
    BY <1>4, <2>1, <2>5
<1>13. CASE UNCHANGED vars
  BY <1>5, <1>13 DEF vars
<1>14. CASE Next
  <2>1. ASSUME NEW e \in Executions, BreakDeadlock(e)
        PROVE  Pools'
    BY <2>1, <1>6, <1>9 DEF BreakDeadlock
  <2> QED
    BY <1>14, <2>1, <1>6, <1>7, <1>8, <1>9, <1>10, <1>11, <1>12 DEF Next
<1> QED
  BY <1>13, <1>14

-----------------------------------------------------------------------------
(* The invariant and what it is for.                                       *)

LEMMA InitInvariant == Init => IInv
<1> SUFFICES ASSUME Init PROVE IInv
  OBVIOUS
<1>1. /\ budget \in Budget /\ wallet \in WalletRow
      /\ Credits(budget) \in Nat /\ wallet.balance \in Nat /\ wallet.sponsor \in Nat
  BY BillingAssumption DEF Init, Budget, Credits, WalletRow
<1>2. /\ NotBilled \in BillRow /\ Credits(NotBilled.budget) = 0
      /\ NotBilled.wallet.balance = 0 /\ NotBilled.wallet.sponsor = 0
  BY DEF NotBilled, BillRow, BillStep, Budget, WalletRow, Credits
<1>3. NoUpdate \in BotRow /\ NoUpdate.pc = "idle" /\ Credits(NoUpdate.budget) = 0
  BY DEF NoUpdate, BotRow, BotStep, Budget, Credits
<1>4. issued \in IssuedRow
  BY <1>1 DEF Init, IssuedRow
<1>5. bill \in [Executions -> BillRow]
  BY <1>2 DEF Init
<1>6. ledger \in [Executions -> DebitRow]
  BY DEF Init, DebitRow, NoDebits
<1>7. TypeOK
  BY <1>1, <1>3, <1>4, <1>5, <1>6 DEF Init, TypeOK
<1>8. BotKnows /\ ChargesAreApproved /\ PaymentsCountOnce /\ ChargedMeansCredited
  BY <1>3 DEF Init, BotKnows, ChargesAreApproved, PaymentsCountOnce, ChargedMeansCredited
<1>9. NoCreditFromNothing
  BY <1>1 DEF Init, NoCreditFromNothing
<1>10. ReadsAreBounded
  BY <1>1, <1>2, <1>3 DEF Init, ReadsAreBounded
<1> QED
  BY <1>7, <1>8, <1>9, <1>10 DEF IInv

\* Every reachable state satisfies the invariant.
THEOREM InvariantHolds == Spec => []IInv
<1>1. IInv /\ [Next]_vars => IInv'
  BY TypeStep, PaymentStep, PoolStep DEF IInv, Payments, Pools
<1> QED
  BY <1>1, InitInvariant, PTL DEF Spec

\* Every variable keeps the type its table or message has.
THEOREM TypeCorrect == Spec => []TypeOK
<1>1. IInv => TypeOK
  BY DEF IInv
<1> QED
  BY <1>1, InvariantHolds, PTL

\* confirmInvoicePayment books a payment once, whatever comes again.
THEOREM PaymentsAreBookedOnce == Spec => []PaymentsCountOnce
<1>1. IInv => PaymentsCountOnce
  BY DEF IInv
<1> QED
  BY <1>1, InvariantHolds, PTL

\* A customer who was charged is credited, wherever the bot died, unless the
\* payment's own transaction failed.
THEOREM NoPaymentIsForgotten == Spec => []ChargedMeansCredited
<1>1. IInv => ChargedMeansCredited
  BY DEF IInv
<1> QED
  BY <1>1, InvariantHolds, PTL

\* applyExecutionBilling and confirmInvoicePayment, whose absolute writes race,
\* may lose credits and debits but never create a credit or overdraw a pool.
THEOREM NothingIsCreated == Spec => []NoCreditFromNothing
<1>1. IInv => NoCreditFromNothing
  BY DEF IInv
<1> QED
  BY <1>1, InvariantHolds, PTL

\* A closed invoice is never opened or closed otherwise.
THEOREM ClosedStaysClosed == Spec => ClosedInvoicesStayClosed
<1> DEFINE Closed == {"FAILED", "PAID", "FULFILLED"}
           Stay == \A i \in Invoices : invoice[i] \in Closed => invoice'[i] = invoice[i]
<1>1. ASSUME IInv, [Next]_vars
      PROVE  [Stay]_invoice
  <2>1. invoice \in [Invoices -> InvoiceStatus \cup {"ABSENT"}]
    BY <1>1 DEF IInv, TypeOK
  <2>2. ASSUME NEW j \in Invoices, invoice[j] \notin Closed,
               NEW v, invoice' = [invoice EXCEPT ![j] = v]
        PROVE  Stay
    BY <2>1, <2>2
  <2>3. ASSUME NEW j \in Invoices, CreateInvoice(j)
        PROVE  Stay
    BY <2>2, <2>3 DEF CreateInvoice
  <2>4. ASSUME MarkDeliveryFailed
        PROVE  invoice' = invoice \/ Stay
    <3>1. bot.inv \in Invoices
      BY <1>1, <2>4 DEF IInv, BotKnows, MarkDeliveryFailed
    <3> QED
      BY <2>2, <2>4, <3>1 DEF MarkDeliveryFailed
  <2>5. ASSUME CommitPayment
        PROVE  Stay
    <3>1. bot.inv \in Invoices /\ invoice[bot.inv] = "PENDING"
      BY <1>1, <2>5 DEF IInv, BotKnows, CommitPayment
    <3> QED
      BY <2>2, <2>5, <3>1 DEF CommitPayment
  <2>6. ASSUME NEW e \in Executions,
               \/ Launch(e) \/ ReadConversation(e) \/ ReadWallet(e) \/ UpdateConversation(e)
               \/ UpdateWallet(e) \/ CommitBilling(e) \/ BillingAborts(e)
        PROVE  invoice' = invoice
    BY <2>6, BrokerKeepsPayments
  <2>7. ASSUME NEW j \in Invoices, PreCheckout(j) \/ BeginPayment(j)
        PROVE  invoice' = invoice
    BY <2>7 DEF PreCheckout, BeginPayment, rows
  <2>8. ASSUME \/ DeliverInvoice \/ DeliveryThrows \/ CreditWallet \/ CreditConversation
               \/ AcknowledgePayment \/ PaymentAborts \/ BotCrash
        PROVE  invoice' = invoice
    BY <2>8 DEF DeliverInvoice, DeliveryThrows, CreditWallet, CreditConversation,
                AcknowledgePayment, PaymentAborts, BotCrash, rows
  <2>9. CASE UNCHANGED vars
    BY <2>9 DEF vars
  <2>10. CASE Next
    <3>1. ASSUME NEW e \in Executions, BreakDeadlock(e)
          PROVE  invoice' = invoice
      BY <3>1, <2>6, <2>8 DEF BreakDeadlock
    <3> HIDE DEF Stay
    <3> QED
      BY <2>10, <3>1, <2>3, <2>4, <2>5, <2>6, <2>7, <2>8 DEF Next
  <2> QED
    BY <1>1, <2>9, <2>10
<1> HIDE DEF Stay
<1>2. IInv /\ [Next]_vars => [Stay]_invoice
  BY <1>1
<1>3. [Stay]_invoice => [\A i \in Invoices :
        invoice[i] \in {"FAILED", "PAID", "FULFILLED"} => invoice'[i] = invoice[i]]_invoice
  BY DEF Stay
<1> QED
  BY <1>2, <1>3, InvariantHolds, PTL DEF Spec, ClosedInvoicesStayClosed
-----------------------------------------------------------------------------
(* Finite sums.  The library defines SumFunction by recursion over sets of  *)
(* indices; each fact about it is proved on the least set that breaks it.   *)

\* A property that some subset of a finite set has, a least one has.
LEMMA LeastSubset ==
    ASSUME NEW S, IsFiniteSet(S), NEW B, B \subseteq SUBSET S, B # {}
    PROVE  \E s \in B : \A t \in B : t \subseteq s => t = s
<1>1. IsWellFoundedOn(StrictSubsetOrdering(S), SUBSET S)
    BY FS_StrictSubsetOrderingWellFounded, FS_FiniteSubsetsOfFinite
<1>2. PICK s \in B : \A t \in B : ~(<<t, s>> \in StrictSubsetOrdering(S))
    BY <1>1, WFMin
<1>3. \A t \in B : t \subseteq s => t = s
    BY <1>2 DEF StrictSubsetOrdering
<1> QED
    BY <1>3

\* The summands in the order SumFunction takes them, and its recursion: g is the sum
\* of every part of T.
Pick(s) == CHOOSE x \in s : TRUE
IsSum(f, T, g) ==
    g = [s \in SUBSET T |-> IF s = {} THEN 0 ELSE f[Pick(s)] + g[s \ {Pick(s)}]]

LEMMA Picked == \A s : s # {} => Pick(s) \in s
    BY DEF Pick

\* A sum of integers is one.
LEMMA SumsAreIntegers ==
    ASSUME NEW T, IsFiniteSet(T), NEW f, \A x \in T : f[x] \in Int, NEW g, IsSum(f, T, g)
    PROVE  \A s \in SUBSET T : g[s] \in Int
<1> SUFFICES ASSUME NEW s0 \in SUBSET T, g[s0] \notin Int PROVE FALSE
    OBVIOUS
<1> DEFINE B == {s \in SUBSET T : g[s] \notin Int}
<1>1. PICK s \in B : \A t \in B : t \subseteq s => t = s
    <2>1. B \subseteq SUBSET T /\ B # {}
        OBVIOUS
    <2> HIDE DEF B
    <2> QED
        BY <2>1, LeastSubset
<1>2. s # {} /\ g[s] = f[Pick(s)] + g[s \ {Pick(s)}]
    <2>1. g[s] = IF s = {} THEN 0 ELSE f[Pick(s)] + g[s \ {Pick(s)}]
        BY <1>1 DEF IsSum
    <2>2. g[s] \notin Int
        BY <1>1
    <2> QED
        BY <2>1, <2>2
<1>3. Pick(s) \in s
    BY <1>2, Picked
<1>4. s \ {Pick(s)} \notin B
    BY <1>1, <1>3
<1> QED
    BY <1>2, <1>3, <1>4, f[Pick(s)] \in Int, g[s \ {Pick(s)}] \in Int

\* Two such sums agree on what both know.
LEMMA SumsAgree ==
    ASSUME NEW T, NEW U, IsFiniteSet(T), NEW f,
           NEW g, IsSum(f, T, g), NEW h, IsSum(f, U, h), U \subseteq T
    PROVE  \A s \in SUBSET U : g[s] = h[s]
<1> SUFFICES ASSUME NEW s0 \in SUBSET U, g[s0] # h[s0] PROVE FALSE
    OBVIOUS
<1> DEFINE B == {s \in SUBSET U : g[s] # h[s]}
<1>1. PICK s \in B : \A t \in B : t \subseteq s => t = s
    <2>1. B \subseteq SUBSET T /\ B # {}
        OBVIOUS
    <2> HIDE DEF B
    <2> QED
        BY <2>1, LeastSubset
<1>2. /\ g[s] = IF s = {} THEN 0 ELSE f[Pick(s)] + g[s \ {Pick(s)}]
      /\ h[s] = IF s = {} THEN 0 ELSE f[Pick(s)] + h[s \ {Pick(s)}]
    BY <1>1 DEF IsSum
<1>3. s # {}
    BY <1>1, <1>2
<1>4. Pick(s) \in s
    BY <1>3, Picked
<1>5. s \ {Pick(s)} \notin B
    BY <1>1, <1>4
<1> QED
    BY <1>1, <1>2, <1>3, <1>5

\* The recursion has a solution: the least part without one would get it from its own
\* parts.
LEMMA SumExists ==
    ASSUME NEW T, IsFiniteSet(T), NEW f
    PROVE  \E g : IsSum(f, T, g)
<1> SUFFICES ASSUME ~\E g : IsSum(f, T, g) PROVE FALSE
    OBVIOUS
<1> DEFINE B == {s \in SUBSET T : ~\E g : IsSum(f, s, g)}
<1>1. PICK S \in B : \A t \in B : t \subseteq S => t = S
    <2>1. B \subseteq SUBSET T /\ B # {}
        OBVIOUS
    <2> HIDE DEF B
    <2> QED
        BY <2>1, LeastSubset
<1> DEFINE Of(u) == CHOOSE g : IsSum(f, u, g)
           G == [s \in SUBSET S |->
                   IF s = {} THEN 0 ELSE f[Pick(s)] + Of(s \ {Pick(s)})[s \ {Pick(s)}]]
<1>2. \A u \in SUBSET S : u # S => IsSum(f, u, Of(u))
    BY <1>1
<1>3. \A u \in SUBSET S : IsFiniteSet(u)
    BY <1>1, FS_Subset
<1> HIDE DEF B, Of
<1>4. ASSUME NEW u \in SUBSET S, u # S PROVE Of(u)[u] = G[u]
    <2>1. Of(u)[u] = IF u = {} THEN 0 ELSE f[Pick(u)] + Of(u)[u \ {Pick(u)}]
        BY <1>2, <1>4 DEF IsSum
    <2>2. CASE u = {}
        BY <2>1, <2>2
    <2>3. CASE u # {}
        <3> DEFINE v == u \ {Pick(u)}
        <3>1. v \in SUBSET u /\ v \in SUBSET S /\ v # S
            BY <2>3, <1>4
        <3>2. IsSum(f, v, Of(v)) /\ IsSum(f, u, Of(u))
            BY <3>1, <1>2, <1>4
        <3>3. Of(u)[v] = Of(v)[v]
            BY <3>1, <3>2, <1>3, SumsAgree
        <3> QED
            BY <2>1, <2>3, <3>3
    <2> QED
        BY <2>2, <2>3
<1>5. \A s \in SUBSET S : s # {} => s \ {Pick(s)} \in SUBSET S /\ s \ {Pick(s)} # S
    BY Picked
<1>6. IsSum(f, S, G)
    <2> SUFFICES ASSUME NEW s \in SUBSET S
                 PROVE  G[s] = IF s = {} THEN 0 ELSE f[Pick(s)] + G[s \ {Pick(s)}]
        BY DEF IsSum
    <2> QED
        BY <1>4, <1>5
<1> QED
    BY <1>1, <1>6 DEF B

\* SumFunction is such a sum, taken at the whole.
LEMMA SumUnfolds ==
    ASSUME NEW f, IsFiniteSet(DOMAIN f)
    PROVE  \E g : IsSum(f, DOMAIN f, g) /\ g[DOMAIN f] = SumFunction(f)
<1> DEFINE S == DOMAIN f
           Body(g) == [s \in SUBSET S |->
                         IF s = {} THEN 0
                         ELSE f[CHOOSE x \in s : TRUE] + g[s \ {CHOOSE x \in s : TRUE}]]
<1>1. SumFunction(f) = (CHOOSE g : g = Body(g))[S]
    BY DEF SumFunction, SumFunctionOnSet, FoldFunctionOnSet, MapThenFoldSet
<1>2. PICK g : IsSum(f, S, g)
    BY SumExists
<1>3. \A h : h = Body(h) <=> IsSum(f, S, h)
    BY DEF IsSum, Pick
<1> HIDE DEF Body
<1>4. \E h : h = Body(h)
    BY <1>2, <1>3
<1>5. (CHOOSE h : h = Body(h)) = Body(CHOOSE h : h = Body(h))
    BY <1>4
<1> QED
    BY <1>1, <1>3, <1>5

\* One summand that grows makes the sum grow by as much.
LEMMA SumOfOneMore ==
    ASSUME NEW S, IsFiniteSet(S), NEW f \in [S -> Int], NEW h \in [S -> Int], NEW i \in S,
           \A j \in S : j # i => h[j] = f[j]
    PROVE  SumFunction(h) = SumFunction(f) + (h[i] - f[i])
<1>1. PICK g : IsSum(f, S, g) /\ g[S] = SumFunction(f)
    BY SumUnfolds
<1>2. PICK k : IsSum(h, S, k) /\ k[S] = SumFunction(h)
    BY SumUnfolds
<1>3. \A s \in SUBSET S : g[s] \in Int /\ k[s] \in Int
    BY <1>1, <1>2, SumsAreIntegers
<1> DEFINE Differs(s) == k[s] = g[s] + (IF i \in s THEN h[i] - f[i] ELSE 0)
           B == {s \in SUBSET S : ~Differs(s)}
<1>4. SUFFICES ASSUME ~Differs(S) PROVE FALSE
    BY <1>1, <1>2
<1>5. PICK s \in B : \A t \in B : t \subseteq s => t = s
    <2>1. B \subseteq SUBSET S /\ B # {}
        BY <1>4
    <2> HIDE DEF B
    <2> QED
        BY <2>1, LeastSubset
<1>6. /\ g[s] = IF s = {} THEN 0 ELSE f[Pick(s)] + g[s \ {Pick(s)}]
      /\ k[s] = IF s = {} THEN 0 ELSE h[Pick(s)] + k[s \ {Pick(s)}]
    BY <1>1, <1>2, <1>5 DEF IsSum
<1>7. s # {}
    BY <1>5, <1>6
<1> DEFINE t == s \ {Pick(s)}
<1>8. Pick(s) \in s /\ s \in SUBSET S /\ t \in SUBSET S
    BY <1>5, <1>7, Picked
<1>9. Differs(t)
    BY <1>5, <1>8
<1>10. i \in t <=> i \in s /\ i # Pick(s)
    OBVIOUS
<1>11. ~Differs(s)
    BY <1>5
<1>12. g[t] \in Int /\ k[t] \in Int /\ h[Pick(s)] \in Int /\ f[Pick(s)] \in Int
    BY <1>3, <1>8
<1>13. g[s] = f[Pick(s)] + g[t] /\ k[s] = h[Pick(s)] + k[t]
    BY <1>6, <1>7
<1> HIDE DEF t, B
<1>14. CASE Pick(s) = i
    BY <1>9, <1>10, <1>11, <1>12, <1>13, <1>14, <1>8
<1>15. CASE Pick(s) # i
    <2>1. h[Pick(s)] = f[Pick(s)]
        BY <1>15, <1>8
    <2> QED
        BY <1>9, <1>10, <1>11, <1>12, <1>13, <1>15, <2>1
<1> QED
    BY <1>14, <1>15

\* Nothing adds up to nothing.
LEMMA SumOfNothing ==
    ASSUME NEW S, IsFiniteSet(S)
    PROVE  SumFunction([x \in S |-> 0]) = 0
<1> DEFINE f == [x \in S |-> 0]
<1>1. PICK g : IsSum(f, S, g) /\ g[S] = SumFunction(f)
    BY SumUnfolds
<1> DEFINE B == {s \in SUBSET S : g[s] # 0}
<1>2. SUFFICES ASSUME g[S] # 0 PROVE FALSE
    BY <1>1
<1>3. PICK s \in B : \A t \in B : t \subseteq s => t = s
    <2>1. B \subseteq SUBSET S /\ B # {}
        BY <1>2
    <2> HIDE DEF B
    <2> QED
        BY <2>1, LeastSubset
<1>4. g[s] = IF s = {} THEN 0 ELSE f[Pick(s)] + g[s \ {Pick(s)}]
    BY <1>1, <1>3 DEF IsSum
<1>5. s # {}
    BY <1>3, <1>4
<1>6. Pick(s) \in s /\ s \ {Pick(s)} \notin B
    BY <1>3, <1>5, Picked
<1> QED
    BY <1>3, <1>4, <1>5, <1>6

-----------------------------------------------------------------------------
(* Stars.                                                                  *)

\* Whether the owner has a wallet row cannot change while a payment is under way,
\* because payments alone create it; and there are no stars without a row.
WalletIsKnown ==
  /\ bot.pc \in {"pay", "conversation", "commit"} => bot.wallet = wallet.exists
  /\ ~wallet.exists => wallet.stars = 0

Received == [i \in Invoices |-> Stars[i] * credited[i]]

StarsInv == WalletIsKnown /\ wallet.stars = SumFunction(Received)

\* Every step keeps the wallet's stars at the sum of the payments.
LEMMA StarsStep ==
  ASSUME IInv, StarsInv, [Next]_vars
  PROVE  StarsInv'
<1>0. TypeOK /\ bot \in BotRow
  BY DEF IInv, TypeOK
<1>1. ASSUME UNCHANGED <<wallet, credited>>,
             bot'.pc \in {"pay", "conversation", "commit"} =>
               \/ bot'.wallet = wallet.exists
               \/ bot'.wallet = bot.wallet /\ bot.pc \in {"pay", "conversation", "commit"}
      PROVE  StarsInv'
  BY <1>1 DEF StarsInv, WalletIsKnown, Received
<1>2. ASSUME NEW e \in Executions,
             \/ Launch(e) \/ ReadConversation(e) \/ ReadWallet(e) \/ UpdateConversation(e)
             \/ UpdateWallet(e) \/ BillingAborts(e)
      PROVE  StarsInv'
  <2>1. UNCHANGED <<bot, wallet, credited>>
    BY <1>2, BrokerKeepsPayments
    DEF Launch, ReadConversation, ReadWallet, UpdateConversation, UpdateWallet, BillingAborts,
        rows
  <2> QED
    BY <1>1, <2>1
<1>3. ASSUME NEW e \in Executions, CommitBilling(e)
      PROVE  StarsInv'
  <2>1. UNCHANGED <<bot, credited>>
    BY <1>3, BrokerKeepsPayments
  <2>2. wallet'.exists = wallet.exists /\ wallet'.stars = wallet.stars
    BY <1>0, <1>3 DEF CommitBilling, DebitedWallet, WalletRow, TypeOK
  <2> QED
    BY <2>1, <2>2 DEF StarsInv, WalletIsKnown, Received
<1>4. ASSUME DeliverInvoice \/ DeliveryThrows \/ MarkDeliveryFailed \/ AcknowledgePayment
             \/ PaymentAborts \/ BotCrash
      PROVE  StarsInv'
  <2>1. bot'.pc \in {"idle", "undelivered", "reply"}
    BY <1>0, <1>4 DEF DeliverInvoice, DeliveryThrows, MarkDeliveryFailed, AcknowledgePayment,
                     PaymentAborts, BotCrash, NoUpdate, BotRow
  <2>2. UNCHANGED <<wallet, credited>>
    BY <1>4 DEF DeliverInvoice, DeliveryThrows, MarkDeliveryFailed, AcknowledgePayment,
                PaymentAborts, BotCrash, rows, history
  <2> QED
    BY <1>1, <2>1, <2>2
<1>5. ASSUME CreditWallet \/ CreditConversation
      PROVE  StarsInv'
  <2>1. /\ bot.pc \in {"pay", "conversation"}
        /\ bot'.wallet = bot.wallet
        /\ UNCHANGED <<wallet, credited>>
    BY <1>0, <1>5 DEF CreditWallet, CreditConversation, BotRow, rows, history
  <2> QED
    BY <1>1, <2>1
<1>6. ASSUME NEW i \in Invoices, CreateInvoice(i) \/ PreCheckout(i) \/ BeginPayment(i)
      PROVE  StarsInv'
  <2>1. UNCHANGED <<wallet, credited>>
    BY <1>6 DEF CreateInvoice, PreCheckout, BeginPayment, rows, history
  <2>2. bot'.pc = "deliver" \/ bot' = bot \/ bot'.wallet = wallet.exists
    <3>1. CASE CreateInvoice(i)
      BY <3>1 DEF CreateInvoice, NoUpdate
    <3>2. CASE PreCheckout(i)
      BY <3>2 DEF PreCheckout
    <3>3. CASE BeginPayment(i)
      BY <3>3 DEF BeginPayment
    <3> QED
      BY <1>6, <3>1, <3>2, <3>3
  <2> QED
    BY <1>1, <2>1, <2>2
<1>7. ASSUME CommitPayment
      PROVE  StarsInv'
  <2>0. PICK i \in Invoices : i = bot.inv /\ invoice[i] = "PENDING"
    BY <1>7 DEF IInv, BotKnows, CommitPayment
  <2>1. /\ credited \in [Invoices -> Nat] /\ credited[i] = 0
        /\ credited' = [credited EXCEPT ![i] = 1]
    <3>1. credited \in [Invoices -> Nat] /\ credited[i] = 0
      BY <1>0, <2>0 DEF IInv, TypeOK, PaymentsCountOnce
    <3>2. credited' = [credited EXCEPT ![i] = credited[i] + 1]
      BY <1>7, <2>0 DEF CommitPayment
    <3> QED
      BY <3>1, <3>2
  <2>2. Stars \in [Invoices -> Nat] /\ IsFiniteSet(Invoices)
    BY BillingAssumption
  <2>3. wallet.stars \in Nat /\ bot.wallet = wallet.exists /\ bot'.pc = "reply"
    BY <1>0, <1>7 DEF TypeOK, WalletRow, BotRow, StarsInv, WalletIsKnown, CommitPayment
  <2>4. wallet'.exists = TRUE /\ wallet'.stars = wallet.stars + Stars[i]
    <3>1. wallet' = CreditedWallet(i)
      BY <1>7, <2>0 DEF CommitPayment
    <3>2. CASE bot.wallet
      BY <2>3, <3>1, <3>2 DEF CreditedWallet
    <3>3. CASE ~bot.wallet
      BY <2>0, <2>2, <2>3, <3>1, <3>3 DEF CreditedWallet, StarsInv, WalletIsKnown
    <3> QED
      BY <3>2, <3>3
  <2>5. /\ Received \in [Invoices -> Int] /\ Received' \in [Invoices -> Int]
        /\ \A j \in Invoices : j # i => Received'[j] = Received[j]
        /\ Received[i] = 0 /\ Received'[i] = Stars[i]
    <3>1. \A j \in Invoices : credited[j] \in Nat /\ credited'[j] \in Nat /\ Stars[j] \in Nat
      BY <2>0, <2>1, <2>2
    <3>2. \A m \in Nat, n \in Nat : m * n \in Int
      OBVIOUS
    <3>3. Received \in [Invoices -> Int] /\ Received' \in [Invoices -> Int]
      BY <3>1, <3>2 DEF Received
    <3>4. \A j \in Invoices : j # i => Received'[j] = Received[j]
      BY <2>1 DEF Received
    <3>5. Received[i] = Stars[i] * 0 /\ Received'[i] = Stars[i] * 1
      BY <2>0, <2>1 DEF Received
    <3> QED
      BY <2>0, <3>1, <3>3, <3>4, <3>5
  <2>6. SumFunction(Received') = SumFunction(Received) + (Received'[i] - Received[i])
    <3> HIDE DEF Received
    <3> QED
      BY <2>0, <2>2, <2>5, SumOfOneMore
  <2>7. SumFunction(Received)' = SumFunction(Received')
    OBVIOUS
  <2> QED
    <3>1. Stars[i] \in Nat
      BY <2>0, <2>2
    <3>2. wallet'.stars = SumFunction(Received)'
      BY <2>3, <2>4, <2>5, <2>6, <2>7, <3>1 DEF StarsInv
    <3> QED
      BY <2>3, <2>4, <3>2 DEF StarsInv, WalletIsKnown
<1>8. CASE UNCHANGED vars
  BY <1>1, <1>8 DEF vars
<1>9. CASE Next
  <2>1. ASSUME NEW e \in Executions, BreakDeadlock(e)
        PROVE  StarsInv'
    BY <2>1, <1>2, <1>4 DEF BreakDeadlock
  <2> QED
    BY <1>9, <2>1, <1>2, <1>3, <1>4, <1>5, <1>6, <1>7 DEF Next
<1> QED
  BY <1>8, <1>9

\* confirmInvoicePayment's stars all stay in the wallet: they are the sum of the
\* payments made, although applyExecutionBilling writes the same row.
THEOREM StarsAreTheirPayments == Spec => []StarsAddUp
<1>1. Init => StarsInv
  <2> SUFFICES ASSUME Init PROVE StarsInv
    OBVIOUS
  <2>1. WalletIsKnown /\ wallet.stars = 0
    BY BillingAssumption DEF Init, WalletIsKnown, NoUpdate
  <2>2. Received = [i \in Invoices |-> 0]
    <3>1. \A i \in Invoices : Stars[i] \in Nat /\ Stars[i] * 0 = 0
      BY BillingAssumption
    <3>2. \A i \in Invoices : credited[i] = 0
      BY DEF Init
    <3> QED
      BY <3>1, <3>2 DEF Received
  <2> QED
    BY <2>1, <2>2, SumOfNothing, BillingAssumption DEF StarsInv
<1>2. IInv /\ StarsInv /\ [Next]_vars => StarsInv'
  BY StarsStep
<1>3. StarsInv => StarsAddUp
  BY DEF StarsInv, Received, StarsAddUp
<1> QED
  BY <1>1, <1>2, <1>3, InvariantHolds, PTL DEF Spec
=============================================================================
