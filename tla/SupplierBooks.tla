---------------------------- MODULE SupplierBooks ----------------------------
(***************************************************************************)
(* One supplier's accounts payable: bills, payments and their reversals,   *)
(* the sub-ledger of payable transactions with its running balance, and    *)
(* the journal entries the general ledger keeps of the same events.        *)
(*                                                                         *)
(* Each service call is a database transaction of two visible moments.     *)
(* Begin locks the bill or payment it is about, checks it, draws the id of *)
(* its sub-ledger row and reads the rows committed so far, whose balances  *)
(* it will rewrite; Commit makes everything visible at once.  Nothing      *)
(* locks the supplier, so two transactions about different bills overlap.  *)
(***************************************************************************)
EXTENDS GeneralLedger, FiniteSets

CONSTANTS
  Clerks,
  Bills, Payments,
  OnAccount,       \* the bill of a payment made on the supplier's account
  ManualForms,     \* the entries an accountant may write by hand
  MaxAmount,       \* bound on the total of a bill and the amount of a payment
  Days, Today,     \* the dates a form may carry; a reversal is dated today
  FormMethods,     \* the methods of payment a form may carry
  MaxByHand        \* bound on the journals posted or reversed by hand

ASSUME AmountAssumption == MaxAmount \in Nat \ {0}
ASSUME DaysAssumption == Days \subseteq Nat /\ Today \in Days
ASSUME NamesAssumption ==
  /\ IsFiniteSet(Bills) /\ IsFiniteSet(Payments)
  /\ Bills \cap Payments = {}
  /\ OnAccount \notin Bills \cup Payments

VARIABLES
  bill,       \* supplier_bills
  payment,    \* supplier_payments
  rows,       \* payable_transactions that are committed
  lastId,     \* the id sequence of payable_transactions
  journals,   \* journal_entries
  work        \* the transaction each clerk has open

vars == <<bill, payment, rows, lastId, journals, work>>

(* What an entry can be about: a bill, a payment, a piece of paper.        *)
Sources == Bills \cup Payments \cup ManualForms
Methods == {"CASH", "BANK"}

ASSUME FormsAssumption == FormMethods \subseteq Methods
ASSUME PapersAssumption ==
  ManualForms \subseteq [debit : Accounts, credit : Accounts, amount : 1..MaxAmount]

Amounts == 1..MaxAmount
RowTypes == {"SUPPLIER_BILL", "SUPPLIER_PAYMENT", "PAYMENT_REVERSAL"}
NoBill == [status |-> "NONE", total |-> 0, paid |-> 0, due |-> 0, day |-> Today]
NoPayment ==
  [status |-> "NONE", bill |-> OnAccount, amount |-> 0, method |-> "BANK", day |-> Today]
Idle == [open |-> FALSE]

-----------------------------------------------------------------------------
(* The sub-ledger.                                                         *)

Signed(r) == IF r.type = "SUPPLIER_PAYMENT" THEN -r.amount ELSE r.amount

GetSupplierOutstandingBalance(rs) == SumFunctionOnSet([r \in rs |-> Signed(r)], rs)

UpTo(r, rs) == {s \in rs : s.day < r.day \/ (s.day = r.day /\ s.id <= r.id)}

RunningAt(r, rs) == GetSupplierOutstandingBalance(UpTo(r, rs))

RecalculateLastRow(rs, known) ==   \* mutated: only the newest row gets a balance
  LET seen == {r \in rs : r.id \in known}
  IN {IF r \in seen /\ \A s \in seen : s.id <= r.id
      THEN [r EXCEPT !.running = RunningAt(r, seen)] ELSE r : r \in rs}

(* Rewrites the balances of the rows the transaction knows and leaves the  *)
(* others, committed behind its back, as they are.                         *)
RecalculateRunningBalances(rs, known) ==
  LET seen == {r \in rs : r.id \in known}
  IN {IF r \in seen THEN [r EXCEPT !.running = RunningAt(r, seen)] ELSE r : r \in rs}

-----------------------------------------------------------------------------
(* The journal entries of the three events.                                *)

BillPosted(b) == Entry("SYSTEM", "BILL_POSTED", b, "EXPENSE", "PAYABLE", bill[b].total)

PaymentCompleted(p, pay) ==
  Entry("SYSTEM", "BILL_PAYMENT", p, "PAYABLE", pay.method, pay.amount)

PaymentReversed(p, pay) ==
  Entry("SYSTEM", "BILL_PAYMENT_REVERSED", p, pay.method, "PAYABLE", pay.amount)

-----------------------------------------------------------------------------
(* What is on the books when the model starts: nothing, or a bill, and     *)
(* perhaps its payment, from the days before there was a general ledger.   *)

Row(id, type, source, b, amount, day) ==
  [id |-> id, type |-> type, source |-> source, bill |-> b, amount |-> amount,
   day |-> day, running |-> 0]

Fresh ==
  /\ bill = [b \in Bills |-> NoBill]
  /\ payment = [p \in Payments |-> NoPayment]
  /\ rows = {}
  /\ lastId = 0

OldBill(b, total, paid) ==
  bill = [x \in Bills |-> IF x # b THEN NoBill ELSE
            [status |-> IF paid = total THEN "PAID" ELSE "POSTED",
             total |-> total, paid |-> paid, due |-> total - paid, day |-> Today]]

UnpaidOldBill(b, total) ==
  /\ OldBill(b, total, 0)
  /\ payment = [p \in Payments |-> NoPayment]
  /\ lastId = 1
  /\ rows = RecalculateRunningBalances(
       {Row(1, "SUPPLIER_BILL", b, b, total, Today)}, {1})

PaidOldBill(b, total, p) ==
  /\ OldBill(b, total, total)
  /\ payment = [x \in Payments |-> IF x # p THEN NoPayment ELSE
                  [status |-> "COMPLETED", bill |-> b, amount |-> total,
                   method |-> "CASH", day |-> Today]]
  /\ lastId = 2
  /\ rows = RecalculateRunningBalances(
       {Row(1, "SUPPLIER_BILL", b, b, total, Today),
        Row(2, "SUPPLIER_PAYMENT", p, b, total, Today)}, {1, 2})

Init ==
  /\ \/ Fresh
     \/ \E b \in Bills, total \in Amounts : UnpaidOldBill(b, total)
     \/ \E b \in Bills, total \in Amounts, p \in Payments : PaidOldBill(b, total, p)
  /\ journals = {}
  /\ work = [c \in Clerks |-> Idle]

-----------------------------------------------------------------------------
(* A transaction about one bill or payment waits while another holds it.   *)

Busy(c) == work[c].open

Held(x) == \E c \in Clerks : Busy(c) /\ x \in {work[c].row.source, work[c].row.bill}

Free(b) == b = OnAccount \/ ~Held(b)

Begin(c, type, source, b, amount, day, method) ==
  /\ ~Busy(c)
  /\ lastId' = lastId + 1
  /\ work' = [work EXCEPT ![c] =
       [open |-> TRUE, row |-> Row(lastId + 1, type, source, b, amount, day),
        method |-> method, known |-> {r.id : r \in rows} \cup {lastId + 1}]]
  /\ UNCHANGED <<bill, payment, rows, journals>>

Recorded(c) ==
  /\ Busy(c)
  /\ rows' = RecalculateRunningBalances(rows \cup {work[c].row}, work[c].known)
  /\ work' = [work EXCEPT ![c] = Idle]
  /\ UNCHANGED lastId

-----------------------------------------------------------------------------
(* Bills: a form makes a draft and, in a transaction of its own, posts it; *)
(* a draft that was left can be posted from the list of bills.             *)

BillForm == [total : Amounts, day : Days]

CreateBill(b, f) ==
  /\ bill[b].status = "NONE"
  /\ bill' = [bill EXCEPT ![b] =
       [status |-> "DRAFT", total |-> f.total, paid |-> 0, due |-> f.total, day |-> f.day]]
  /\ UNCHANGED <<payment, rows, lastId, journals, work>>

RowOf(source, type) == {r \in rows : r.source = source /\ r.type = type}

BeginSupplierBillAgain(c, b) ==   \* mutated: a bill that is posted already is posted again
  /\ bill[b].status # "NONE"
  /\ Free(b)
  /\ Begin(c, "SUPPLIER_BILL", b, b, bill[b].total, bill[b].day, "BANK")

BeginSupplierBill(c, b) ==
  /\ bill[b].status # "NONE"
  /\ Free(b)
  /\ bill[b].status = "DRAFT" \/ RowOf(b, "SUPPLIER_BILL") = {}
  /\ Begin(c, "SUPPLIER_BILL", b, b, bill[b].total, bill[b].day, "BANK")

RecordSupplierBill(c) ==
  /\ Recorded(c)
  /\ work[c].row.type = "SUPPLIER_BILL"
  /\ LET b == work[c].row.source
     IN /\ bill' = [bill EXCEPT ![b].status = "POSTED"]
        /\ journals' = CreateAndPostJournal(journals, BillPosted(b))
  /\ UNCHANGED payment

-----------------------------------------------------------------------------
(* Payments, against a bill or on account, and their reversal.             *)

PaymentForm ==
  [bill : Bills \cup {OnAccount}, amount : Amounts, day : Days, method : FormMethods]

Payable(b, amount) ==
  /\ bill[b].status \in {"POSTED", "PARTIALLY_PAID"}
  /\ amount <= bill[b].due

BeginSupplierPayment(c, p, f) ==
  /\ payment[p].status = "NONE"
  /\ ~Held(p)
  /\ Free(f.bill)
  /\ f.bill # OnAccount => Payable(f.bill, f.amount)
  /\ Begin(c, "SUPPLIER_PAYMENT", p, f.bill, f.amount, f.day, f.method)

Paid(b, amount) ==
  [bill[b] EXCEPT !.paid = @ + amount, !.due = @ - amount,
                  !.status = IF bill[b].due = amount THEN "PAID" ELSE "PARTIALLY_PAID"]

RecordSupplierPayment(c) ==
  /\ Recorded(c)
  /\ work[c].row.type = "SUPPLIER_PAYMENT"
  /\ LET r == work[c].row
         pay == [status |-> "COMPLETED", bill |-> r.bill, amount |-> r.amount,
                 method |-> work[c].method, day |-> r.day]
     IN /\ payment' = [payment EXCEPT ![r.source] = pay]
        /\ bill' = [b \in Bills |-> IF b = r.bill THEN Paid(b, r.amount) ELSE bill[b]]
        /\ journals' = CreateAndPostJournal(journals, PaymentCompleted(r.source, pay))

BeginPaymentReversal(c, p) ==
  /\ payment[p].status = "COMPLETED"
  /\ ~Held(p)
  /\ Free(payment[p].bill)
  /\ Begin(c, "PAYMENT_REVERSAL", p, payment[p].bill, payment[p].amount, Today,
           payment[p].method)

NonNegative(n) == IF n < 0 THEN 0 ELSE n

RestoredInFull(b, amount) ==   \* mutated: the bill is owed in full again
  [bill[b] EXCEPT !.paid = 0, !.due = bill[b].total, !.status = "POSTED"]

Restored(b, amount) ==
  LET paid == NonNegative(bill[b].paid - amount)
  IN [bill[b] EXCEPT !.paid = paid, !.due = @ + amount,
                     !.status = IF paid = 0 THEN "POSTED" ELSE "PARTIALLY_PAID"]

RecordPaymentReversal(c) ==
  /\ Recorded(c)
  /\ work[c].row.type = "PAYMENT_REVERSAL"
  /\ LET r == work[c].row
     IN /\ payment' = [payment EXCEPT ![r.source].status = "REVERSED"]
        /\ bill' = [b \in Bills |-> IF b = r.bill THEN Restored(b, r.amount) ELSE bill[b]]
        /\ journals' =
             CreateAndPostJournal(journals, PaymentReversed(r.source, payment[r.source]))

-----------------------------------------------------------------------------
(* The accountant's own work on the ledger.                                *)

Posted == {b \in Bills : bill[b].status \in {"POSTED", "PARTIALLY_PAID", "PAID"}}
Made == {p \in Payments : payment[p].status \in {"COMPLETED", "REVERSED"}}
TakenBack == {p \in Payments : payment[p].status = "REVERSED"}

(* What happened before there was a ledger and is not in it yet.           *)
Unposted ==
  {BillPosted(b) : b \in {x \in Posted : ~HasEntry(journals, "BILL_POSTED", x)}} \cup
  {PaymentCompleted(p, payment[p]) :
     p \in {x \in Made : ~HasEntry(journals, "BILL_PAYMENT", x)}} \cup
  {PaymentReversed(p, payment[p]) :
     p \in {x \in TakenBack : ~HasEntry(journals, "BILL_PAYMENT_REVERSED", x)}}

SyncUnpostedHistoricalEvents ==
  /\ Unposted # {}
  /\ journals' = journals \cup Unposted
  /\ UNCHANGED <<bill, payment, rows, lastId, work>>

ByHand == {j \in journals : j.type # "SYSTEM"}

StoreManualJournal(f) ==
  /\ Cardinality(ByHand) < MaxByHand
  /\ ~HasEntry(journals, "MANUAL", f)
  /\ journals' =
       CreateAndPostJournal(journals,
         Entry("MANUAL", "MANUAL", f, f.debit, f.credit, f.amount))
  /\ UNCHANGED <<bill, payment, rows, lastId, work>>

ReverseByHand(j) ==
  /\ Cardinality(ByHand) < MaxByHand
  /\ Reversible(j)
  /\ journals' = ReverseJournal(journals, j)
  /\ UNCHANGED <<bill, payment, rows, lastId, work>>

Next ==
  \/ \E b \in Bills, f \in BillForm : CreateBill(b, f)
  \/ \E c \in Clerks, b \in Bills : BeginSupplierBill(c, b)
  \/ \E c \in Clerks, p \in Payments, f \in PaymentForm : BeginSupplierPayment(c, p, f)
  \/ \E c \in Clerks, p \in Payments : BeginPaymentReversal(c, p)
  \/ \E c \in Clerks : RecordSupplierBill(c)
  \/ \E c \in Clerks : RecordSupplierPayment(c)
  \/ \E c \in Clerks : RecordPaymentReversal(c)
  \/ SyncUnpostedHistoricalEvents
  \/ \E f \in ManualForms : StoreManualJournal(f)
  \/ \E j \in journals : ReverseByHand(j)

Spec == Init /\ [][Next]_vars

-----------------------------------------------------------------------------
(* Every row, bill, payment and entry is of its kind, and an event has one *)
(* row in the sub-ledger and one entry in the journal, finished or not.    *)
BooksTypeOK ==
  /\ bill \in [Bills ->
       [status : {"NONE", "DRAFT", "POSTED", "PARTIALLY_PAID", "PAID"},
        total : 0..MaxAmount, paid : 0..MaxAmount, due : 0..MaxAmount, day : Days]]
  /\ payment \in [Payments ->
       [status : {"NONE", "COMPLETED", "REVERSED"}, bill : Bills \cup {OnAccount},
        amount : 0..MaxAmount, method : Methods, day : Days]]
  /\ rows \subseteq [id : 1..lastId, type : RowTypes, source : Bills \cup Payments,
                     bill : Bills \cup {OnAccount}, amount : Amounts, day : Days,
                     running : Int]
  /\ journals \subseteq Entries(Sources, Amounts)
  /\ \A c \in Clerks : Busy(c) => work[c].known \subseteq 1..lastId
  /\ \A r, s \in rows \cup {work[c].row : c \in {x \in Clerks : Busy(x)}} :
       (r.source = s.source /\ r.type = s.type) => r.id = s.id
  /\ \A j, k \in journals : SourceEvent(j) = SourceEvent(k) => j = k

(* The bill, the sub-ledger and the general ledger tell one story.  What a *)
(* bill counts as paid is what its payments that stand add up to; what the *)
(* supplier is owed by the sub-ledger is what the bills have due less what *)
(* was paid on account; and the accounts, with what a sync would still     *)
(* post, have moved by the same amounts.                                   *)
Standing(b) == {p \in Payments : payment[p].status = "COMPLETED" /\ payment[p].bill = b}
PaidFrom(method) ==
  {p \in Payments : payment[p].status = "COMPLETED" /\ payment[p].method = method}
PaidBy(ps) == SumFunctionOnSet([p \in Payments |-> payment[p].amount], ps)
DueOn(bs) == SumFunctionOnSet([b \in Bills |-> bill[b].due], bs)

BooksAgree ==
  /\ \A b \in Bills :
       /\ bill[b].paid = PaidBy(Standing(b))
       /\ bill[b].paid + bill[b].due = bill[b].total
       /\ b \in Posted => (bill[b].status = "PAID") = (bill[b].due = 0)
  /\ GetSupplierOutstandingBalance(rows) = DueOn(Posted) - PaidBy(Standing(OnAccount))
  /\ LET system == {j \in journals : j.type = "SYSTEM"} \cup Unposted
     IN /\ Moved(system, "PAYABLE") = -GetSupplierOutstandingBalance(rows)
        /\ \A method \in Methods : Moved(system, method) = -PaidBy(PaidFrom(method))

(* A transaction that knew every row when it read them leaves a sub-ledger *)
(* whose running balances add up, in the order the statement prints them,  *)
(* whatever overlapping postings had left before it.                       *)
AddsUp(rs) == \A r \in rs : r.running = RunningAt(r, rs)

QuietBalancesAddUp ==
  [][\A c \in Clerks :
       (Busy(c) /\ ~Busy(c)' /\ {r.id : r \in rows} \subseteq work[c].known)
         => AddsUp(rows')]_vars
=============================================================================
