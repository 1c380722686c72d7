------------------------- MODULE PaymentSettlement -------------------------
(***************************************************************************)
(* The accounts of one customer: payments recorded, verified, rejected,    *)
(* corrected and reversed; the payment status each order derives from      *)
(* them; its invoice; and the postings to the receivables ledger.  The     *)
(* orders themselves go through the steps of OrderLife, to which the       *)
(* order desk, the warehouse and the drivers add what their transactions   *)
(* do to the invoice and the ledger.                                       *)
(*                                                                         *)
(* Every action is one transaction.  All but a correction lock the         *)
(* customer's row or the order's first; a correction locks its payment     *)
(* only, and reads nothing else.  Amounts are whole units of money.        *)
(***************************************************************************)
EXTENDS OrderLife, Integers, FiniteSets, Functions

CONSTANTS
  GrandTotal,   \* the grand total of each order
  Payments,     \* identities of payments rows
  Cheques,      \* bank and number of cheques, issuer and number of money orders
  Cash,         \* what stands for them in a cash payment
  Unlinked,     \* what stands for the order in a payment of none
  MaxAmount,    \* bound: the largest amount anyone types in
  MaxVersion    \* bound: the version after which no payment is corrected again

ASSUME GrandTotalAssumption == GrandTotal \in [Orders -> Nat \ {0}]
ASSUME NamesAssumption == Cash \notin Cheques /\ Unlinked \notin Orders
ASSUME RowsAssumption == IsFiniteSet(Payments)
ASSUME BoundsAssumption == MaxAmount \in Nat \ {0} /\ MaxVersion \in Nat

VARIABLES
  payment,  \* payments, status "NONE" for no row
  invoice,  \* invoices, at most one an order: its status and amount_paid
  ledger    \* receivable_transactions

vars == <<lifeVars, payment, invoice, ledger>>

-----------------------------------------------------------------------------
TransactionStatuses == {"PENDING_VERIFICATION", "VERIFIED", "REJECTED", "REVERSED"}
InvoiceStatuses     == {"NONE", "ISSUED", "PAID", "VOID"}
Instruments         == Cheques \cup {Cash}
Amounts             == 1 .. MaxAmount

(* What recording counts against an order's total and against a second use of
   the same cheque; pending payments count. *)
Active == {"PENDING_VERIFICATION", "VERIFIED"}

NoPayment == [status |-> "NONE", order |-> Unlinked, amount |-> 0,
              instrument |-> Cash, version |-> 0]

PaymentsOf(rows, statuses, o) ==
  {p \in Payments : rows[p].status \in statuses /\ rows[p].order = o}

AmountOf(rows, ps) == SumFunctionOnSet([p \in Payments |-> rows[p].amount], ps)

Collected(o)      == AmountOf(payment, PaymentsOf(payment, Active, o))
Verified(rows, o) == AmountOf(rows, PaymentsOf(rows, {"VERIFIED"}, o))

(* Submission issues the invoice; orders from before that was so have none. *)
Init ==
  /\ LifeInit
  /\ payment = [p \in Payments |-> NoPayment]
  /\ invoice \in [Orders -> {[status |-> s, paid |-> 0] : s \in {"NONE", "ISSUED"}}]
  /\ ledger = {}

-----------------------------------------------------------------------------
(* The receivables ledger posts each event of a source once: ReceivableLedgerService. *)

Post(rows, type, source, amount) ==
  IF \E row \in rows : row.type = type /\ row.source = source
  THEN rows
  ELSE rows \cup {[type |-> type, source |-> source, amount |-> amount]}

Charge(rows, o) == Post(rows, "INVOICE_CHARGE", o, GrandTotal[o])

(* reconcileOrderPaymentStatus: a comparison to the cent. *)
StatusOfVerified(sum, total) ==
  IF sum <= 0 THEN "UNPAID"
  ELSE IF sum < total THEN "PARTIALLY_PAID"
  ELSE IF sum = total THEN "PAID"
  ELSE "OVERPAID"

Reconciled(rows, o) == StatusOfVerified(Verified(rows, o), GrandTotal[o])

(* Invoices: InvoiceGeneratorService. *)
IssuedUnpaid(rows, o) == [status |-> "ISSUED", paid |-> 0]  \* mutated

Issued(rows, o) == [status |-> "ISSUED", paid |-> Verified(rows, o)]

SyncedPartially(inv, rows, o) ==  \* mutated
  IF inv.status \in {"NONE", "VOID"} THEN inv
  ELSE [status |-> IF Verified(rows, o) >= GrandTotal[o] THEN "PAID"
                   ELSE IF Verified(rows, o) > 0 THEN "PARTIALLY_PAID" ELSE "ISSUED",
        paid   |-> Verified(rows, o)]

Synced(inv, rows, o) ==
  IF inv.status \in {"NONE", "VOID"} THEN inv
  ELSE [status |-> IF Verified(rows, o) >= GrandTotal[o] THEN "PAID" ELSE "ISSUED",
        paid   |-> Verified(rows, o)]

Voided(inv) == IF inv.status = "NONE" THEN inv ELSE [inv EXCEPT !.status = "VOID"]

Invoiceable == {"SUBMITTED", "APPROVED", "PROCESSING", "COMPLETED"}
Chargeable  == {"APPROVED", "PROCESSING", "COMPLETED"}

GenerateForOrder(o) ==
  /\ invoice[o].status = "NONE"
  /\ status[o] \in Invoiceable
  /\ invoice' = [invoice EXCEPT ![o] = Issued(payment, o)]
  /\ ledger' = IF status[o] \in Chargeable THEN Charge(ledger, o) ELSE ledger
  /\ UNCHANGED <<lifeVars, payment>>

-----------------------------------------------------------------------------
(* Payments: PaymentService, PaymentVerificationService, PaymentReversalService. *)

WithinUnverified(o, amount) ==  \* mutated
  Verified(payment, o) + amount <= GrandTotal[o]

WithinOutstanding(o, amount) == Collected(o) + amount <= GrandTotal[o]

NotInUse(instrument) ==
  instrument = Cash \/ \A p \in Payments :
    payment[p].status \in Active => payment[p].instrument # instrument

RecordPayment(p, o, amount, instrument) ==
  /\ payment[p].status = "NONE"
  /\ o # Unlinked => status[o] \notin {"CANCELLED", "REJECTED"} /\ WithinOutstanding(o, amount)
  /\ NotInUse(instrument)
  /\ payment' = [payment EXCEPT ![p] =
       [status |-> "PENDING_VERIFICATION", order |-> o, amount |-> amount,
        instrument |-> instrument, version |-> 1]]
  /\ UNCHANGED <<lifeVars, invoice, ledger>>

Advanced(p, from, to) ==
  /\ payment[p].status = from
  /\ payment' = [payment EXCEPT ![p].status = to, ![p].version = @ + 1]

SettleOnly(o) ==  \* mutated
  /\ settlement' = [settlement EXCEPT ![o] = Reconciled(payment', o)]
  /\ UNCHANGED <<status, approved, delivered>>
  /\ invoice' = [invoice EXCEPT ![o] = Synced(@, payment', o)]

(* The order's part of a verification: the new status, the invoice, completion. *)
SettleVerified(o) ==
  /\ LET paid == Reconciled(payment', o)
     IN  /\ settlement' = [settlement EXCEPT ![o] = paid]
         /\ status' = [status EXCEPT ![o] = AfterEvaluation(o, paid, delivered[o])]
  /\ UNCHANGED <<approved, delivered>>
  /\ invoice' = [invoice EXCEPT ![o] = Synced(@, payment', o)]

VerifyPayment(p) ==
  /\ Advanced(p, "PENDING_VERIFICATION", "VERIFIED")
  /\ \/ payment[p].order # Unlinked /\ SettleVerified(payment[p].order)
     \/ payment[p].order = Unlinked /\ UNCHANGED <<lifeVars, invoice>>
  /\ ledger' = Post(ledger, "PAYMENT", p, payment[p].amount)

ReconcileNothing(o) ==  \* mutated
  UNCHANGED lifeVars

(* Rejection and reversal recompute the order's payment status, nothing else of it. *)
Reconcile(o) ==
  \/ o = Unlinked /\ UNCHANGED lifeVars
  \/ /\ o # Unlinked
     /\ settlement' = [settlement EXCEPT ![o] = Reconciled(payment', o)]
     /\ UNCHANGED <<status, approved, delivered>>

RejectPayment(p) ==
  /\ Advanced(p, "PENDING_VERIFICATION", "REJECTED")
  /\ Reconcile(payment[p].order)
  /\ UNCHANGED <<invoice, ledger>>

CorrectableOrReversed == {"REJECTED", "REVERSED"}  \* mutated

Correctable == {"REJECTED"}

CorrectAndResubmit(p, amount, instrument) ==
  /\ payment[p].status \in Correctable
  /\ payment[p].version < MaxVersion
  /\ instrument = Cash <=> payment[p].instrument = Cash
  /\ payment' = [payment EXCEPT
       ![p].status = "PENDING_VERIFICATION", ![p].amount = amount,
       ![p].instrument = instrument, ![p].version = @ + 1]
  /\ UNCHANGED <<lifeVars, invoice, ledger>>

ReversePayment(p) ==
  /\ Advanced(p, "VERIFIED", "REVERSED")
  /\ Reconcile(payment[p].order)
  /\ ledger' = Post(ledger, "PAYMENT_REVERSAL", p, payment[p].amount)
  /\ UNCHANGED invoice

-----------------------------------------------------------------------------
(* What the transactions on the order do to its invoice and the ledger. *)

ApproveOrder(o) ==
  /\ Approve(o)
  /\ invoice' = [invoice EXCEPT ![o] = IF @.status = "NONE" THEN Issued(payment, o) ELSE @]
  /\ ledger' = IF invoice'[o].status # "VOID" THEN Charge(ledger, o) ELSE ledger
  /\ UNCHANGED payment

WithdrawOrder(o) ==
  /\ Reject(o) \/ Cancel(o)
  /\ invoice' = [invoice EXCEPT ![o] = Voided(@)]
  /\ UNCHANGED <<payment, ledger>>

HandleGoods(o) ==
  /\ Work(o) \/ Ship(o)
  /\ UNCHANGED <<payment, invoice, ledger>>

CompleteDelivery(o) ==
  /\ \E all \in BOOLEAN : Deliver(o, all)
  /\ invoice' = [invoice EXCEPT ![o] = Synced(@, payment, o)]
  /\ UNCHANGED <<payment, ledger>>

OrderStep(o) ==
  \/ ApproveOrder(o)
  \/ WithdrawOrder(o)
  \/ HandleGoods(o)
  \/ CompleteDelivery(o)
  \/ GenerateForOrder(o)

(* The form of the payments page has no field for an order.                *)
RecordAtDesk(p) ==
  \E amount \in Amounts, instrument \in Instruments : RecordPayment(p, Unlinked, amount, instrument)

(* The modal of an order's page checks the amount against what the page shows
   as outstanding, old or not; the transaction checks it again. *)
RecordOnOrder(p) ==
  \E o \in Orders, amount \in Amounts, instrument \in Instruments :
    RecordPayment(p, o, amount, instrument)

PaymentsPage(p) ==
  \/ RecordAtDesk(p)
  \/ VerifyPayment(p)
  \/ RejectPayment(p)
  \/ ReversePayment(p)

(* No page corrects a payment: it is a call of the interface.              *)
PaymentStep(p) ==
  \/ PaymentsPage(p)
  \/ RecordOnOrder(p)
  \/ \E amount \in Amounts, instrument \in Instruments : CorrectAndResubmit(p, amount, instrument)

Next ==
  \/ \E o \in Orders : OrderStep(o)
  \/ \E p \in Payments : PaymentStep(p)

Spec == Init /\ [][Next]_vars

-----------------------------------------------------------------------------
(* Properties. *)

PaymentRows == [status : TransactionStatuses \cup {"NONE"}, order : Orders \cup {Unlinked},
                amount : Nat, instrument : Instruments, version : Nat]
InvoiceRows == [status : InvoiceStatuses, paid : Nat]
LedgerRows  == [type : {"INVOICE_CHARGE", "PAYMENT", "PAYMENT_REVERSAL"},
                source : Orders \cup Payments, amount : Nat]

(* Every column keeps its type. *)
TypeOK ==
  /\ LifeTypeOK
  /\ payment \in [Payments -> PaymentRows]
  /\ invoice \in [Orders -> InvoiceRows]
  /\ ledger \subseteq LedgerRows

(* The payment status stored with an order is the one its verified payments add
   up to, although three services and a correction write what it is derived from. *)
SettlementFollowsPayments ==
  \A o \in Orders : settlement[o] = Reconciled(payment, o)

(* Payments that were never corrected never claim more than the order's total,
   however many are pending at once: recording counts the pending ones, and a
   rejection or a reversal only frees what it had claimed. *)
RecordedWithinTotal ==
  \A o \in Orders :
    AmountOf(payment, {p \in PaymentsOf(payment, Active, o) : payment[p].version <= 2})
      <= GrandTotal[o]

(* What the ledger credits the customer with, less what reversals took back, is
   what stands verified: nothing is credited twice, nothing credited is changed
   afterwards, and a reversal takes back exactly what was credited. *)
Posted(type) ==
  SumFunctionOnSet([row \in ledger |-> row.amount], {row \in ledger : row.type = type})

LedgerBalances ==
  Posted("PAYMENT") - Posted("PAYMENT_REVERSAL") =
    AmountOf(payment, {p \in Payments : payment[p].status = "VERIFIED"})

(* A standing invoice never asks for money that was verified as received. *)
InvoiceCountsVerified ==
  \A o \in Orders : invoice[o].status \in {"ISSUED", "PAID"} =>
    invoice[o].paid >= Verified(payment, o)

(* The step that completes an order finds the books agreeing: approved, charged,
   its invoice paid, and verified payments of exactly the grand total. *)
CompletionIsSettled ==
  [][\A o \in Orders : status[o] # "COMPLETED" /\ status'[o] = "COMPLETED" =>
       /\ approved[o]
       /\ \E row \in ledger : row.type = "INVOICE_CHARGE" /\ row.source = o
       /\ invoice'[o].status = "PAID"
       /\ Verified(payment', o) = GrandTotal[o]]_vars

(* Payments move an order only as the abstract steps say: a verification raises
   its settlement and may complete it, a reversal lowers it, a rejection or a
   correction leaves it alone. *)
PaymentsKeepLife == LifeSpec
=============================================================================
