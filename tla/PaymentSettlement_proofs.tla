---------------------- MODULE PaymentSettlement_proofs ----------------------
(***************************************************************************)
(* What PaymentSettlement promises for every set of orders and payments.   *)
(***************************************************************************)
EXTENDS PaymentSettlement, OperatorLemmas

-----------------------------------------------------------------------------
(* The inductive invariant. *)

(* A payment that is there is worth something, and one that was rejected has
   been through two versions at least. *)
PaymentsNumbered ==
  \A p \in Payments :
    /\ payment[p].status # "NONE" => payment[p].amount \in Amounts /\ payment[p].version >= 1
    /\ payment[p].status = "REJECTED" => payment[p].version >= 2

(* The ledger credits a payment only once it is verified, and takes back only
   what was reversed. *)
CreditsFollowPayments ==
  \A row \in ledger :
    /\ row.type = "PAYMENT" =>
         row.source \in Payments /\ payment[row.source].status \in {"VERIFIED", "REVERSED"}
    /\ row.type = "PAYMENT_REVERSAL" =>
         row.source \in Payments /\ payment[row.source].status = "REVERSED"

(* Approval left an invoice and a charge, and only it lets goods out; an invoice
   is voided with its order. *)
ApprovedIsCharged ==
  \A o \in Orders :
    /\ approved[o] => /\ invoice[o].status # "NONE"
                      /\ \E row \in ledger : row.type = "INVOICE_CHARGE" /\ row.source = o
    /\ delivered[o] => approved[o]
    /\ invoice[o].status = "VOID" => status[o] \in {"CANCELLED", "REJECTED"}

Books ==
  /\ TypeOK
  /\ IsFiniteSet(ledger)
  /\ PaymentsNumbered
  /\ CreditsFollowPayments
  /\ ApprovedIsCharged

-----------------------------------------------------------------------------
(* Amounts of payments. *)

(* Payments of whole amounts add up to a whole amount. *)
LEMMA AmountType ==
  ASSUME NEW rows \in [Payments -> PaymentRows], NEW ps \in SUBSET Payments
  PROVE  AmountOf(rows, ps) \in Nat
<1> DEFINE f == [p \in Payments |-> rows[p].amount]
<1>1. \A p \in ps : f[p] \in Nat
  BY DEF PaymentRows
<1>2. IsFiniteSet(ps)
  BY RowsAssumption, FS_Subset
<1> HIDE DEF f
<1> QED
  BY <1>1, <1>2, SumNat DEF AmountOf, f

(* The payments of a part are worth no more than the payments of the whole. *)
LEMMA AmountOfPart ==
  ASSUME NEW rows \in [Payments -> PaymentRows],
         NEW ps \in SUBSET Payments, NEW qs \in SUBSET ps
  PROVE  AmountOf(rows, qs) <= AmountOf(rows, ps)
<1> DEFINE f == [p \in Payments |-> rows[p].amount]
<1>1. \A p \in ps : f[p] \in Nat
  BY DEF PaymentRows
<1>2. IsFiniteSet(ps)
  BY RowsAssumption, FS_Subset
<1> HIDE DEF f
<1> QED
  BY <1>1, <1>2, SumSubset DEF AmountOf, f

(* rows and after differ at most in the row of p. *)
OneRowChanged(rows, after, p) ==
  /\ rows \in [Payments -> PaymentRows]
  /\ after \in [Payments -> PaymentRows]
  /\ \A q \in Payments \ {p} : after[q] = rows[q]

(* When one payment changes, the amount moves by what it contributes after less
   what it contributed before. *)
LEMMA AmountMoved ==
  ASSUME NEW rows, NEW after, NEW p \in Payments, OneRowChanged(rows, after, p),
         NEW ps \in SUBSET Payments, NEW qs \in SUBSET Payments, ps \ {p} = qs \ {p}
  PROVE  AmountOf(after, qs) =
           AmountOf(rows, ps) + (IF p \in qs THEN after[p].amount ELSE 0)
                              - (IF p \in ps THEN rows[p].amount ELSE 0)
<1> DEFINE f == [q \in Payments |-> rows[q].amount]
           g == [q \in Payments |-> after[q].amount]
<1>1. /\ \A q \in ps : f[q] \in Int
      /\ \A q \in qs : g[q] \in Int
      /\ \A q \in ps \cap qs : q # p => g[q] = f[q]
  BY DEF OneRowChanged, PaymentRows
<1>2. IsFiniteSet(ps) /\ IsFiniteSet(qs)
  BY RowsAssumption, FS_Subset
<1>3. f[p] = rows[p].amount /\ g[p] = after[p].amount
  OBVIOUS
<1>4. AmountOf(rows, ps) = SumFunctionOnSet(f, ps) /\ AmountOf(after, qs) = SumFunctionOnSet(g, qs)
  BY DEF AmountOf
<1> HIDE DEF f, g
<1>5. SumFunctionOnSet(g, qs) =
        SumFunctionOnSet(f, ps) + (IF p \in qs THEN g[p] ELSE 0) - (IF p \in ps THEN f[p] ELSE 0)
  BY <1>1, <1>2, SumMoved
<1> QED
  BY <1>3, <1>4, <1>5

(* A payment that is not among an order's verified ones before or after a change
   does not move their sum. *)
LEMMA VerifiedUntouched ==
  ASSUME NEW rows, NEW after, NEW p \in Payments, OneRowChanged(rows, after, p), NEW o,
         rows[p].status # "VERIFIED" \/ rows[p].order # o,
         after[p].status # "VERIFIED" \/ after[p].order # o
  PROVE  Verified(after, o) = Verified(rows, o)
<1> DEFINE ps == PaymentsOf(rows, {"VERIFIED"}, o)
           qs == PaymentsOf(after, {"VERIFIED"}, o)
<1>1. /\ ps \in SUBSET Payments /\ qs \in SUBSET Payments
      /\ ps \ {p} = qs \ {p} /\ p \notin ps /\ p \notin qs
  BY DEF PaymentsOf, OneRowChanged
<1>2. AmountOf(rows, ps) \in Nat
  BY <1>1, AmountType DEF OneRowChanged
<1> HIDE DEF ps, qs
<1>3. AmountOf(after, qs) = AmountOf(rows, ps) + 0 - 0
  BY <1>1, AmountMoved
<1> QED
  BY <1>2, <1>3 DEF Verified, ps, qs

(* A payment that becomes verified adds its amount to the sum of its order. *)
LEMMA VerifiedGains ==
  ASSUME NEW rows, NEW after, NEW p \in Payments, OneRowChanged(rows, after, p), NEW o,
         rows[p].status # "VERIFIED", after[p].status = "VERIFIED", after[p].order = o
  PROVE  Verified(after, o) = Verified(rows, o) + after[p].amount
<1> DEFINE ps == PaymentsOf(rows, {"VERIFIED"}, o)
           qs == PaymentsOf(after, {"VERIFIED"}, o)
<1>1. /\ ps \in SUBSET Payments /\ qs \in SUBSET Payments
      /\ ps \ {p} = qs \ {p} /\ p \notin ps /\ p \in qs
  BY DEF PaymentsOf, OneRowChanged
<1>2. AmountOf(rows, ps) \in Nat /\ after[p].amount \in Nat
  BY <1>1, AmountType DEF OneRowChanged, PaymentRows
<1> HIDE DEF ps, qs
<1>3. AmountOf(after, qs) = AmountOf(rows, ps) + after[p].amount - 0
  BY <1>1, AmountMoved
<1> QED
  BY <1>2, <1>3 DEF Verified, ps, qs

(* What is verified of an order is a whole amount. *)
LEMMA VerifiedType ==
  ASSUME NEW rows \in [Payments -> PaymentRows], NEW o
  PROVE  Verified(rows, o) \in Nat
<1>1. PaymentsOf(rows, {"VERIFIED"}, o) \in SUBSET Payments
  BY DEF PaymentsOf
<1> QED
  BY <1>1, AmountType DEF Verified

-----------------------------------------------------------------------------
(* What the steps of a payment do to its row. *)

(* Recording writes one row. *)
LEMMA RecordEffect ==
  ASSUME TypeOK, NEW p \in Payments, NEW o \in Orders \cup {Unlinked}, NEW amount \in Amounts,
         NEW instrument \in Instruments, RecordPayment(p, o, amount, instrument)
  PROVE  /\ OneRowChanged(payment, payment', p)
         /\ payment'[p] = [status |-> "PENDING_VERIFICATION", order |-> o, amount |-> amount,
                           instrument |-> instrument, version |-> 1]
<1>1. amount \in Nat
  BY BoundsAssumption DEF Amounts
<1> DEFINE row == [status |-> "PENDING_VERIFICATION", order |-> o, amount |-> amount,
                   instrument |-> instrument, version |-> 1]
<1>2. row \in PaymentRows
  BY <1>1 DEF PaymentRows, TransactionStatuses
<1>3. payment' = [payment EXCEPT ![p] = row] /\ payment \in [Payments -> PaymentRows]
  BY DEF RecordPayment, TypeOK
<1> HIDE DEF row
<1>4. OneRowChanged(payment, payment', p) /\ payment'[p] = row
  BY <1>2, <1>3 DEF OneRowChanged
<1> QED
  BY <1>4 DEF row

(* A decision changes the status and the version of one row. *)
LEMMA AdvancedEffect ==
  ASSUME TypeOK, NEW p \in Payments, NEW from, NEW to \in TransactionStatuses,
         Advanced(p, from, to)
  PROVE  /\ OneRowChanged(payment, payment', p)
         /\ payment[p].status = from /\ payment'[p].status = to
         /\ payment'[p].version = payment[p].version + 1
         /\ payment'[p].order = payment[p].order /\ payment'[p].amount = payment[p].amount
<1>1. payment[p].status = from
  BY DEF Advanced
<1>2. payment' = [payment EXCEPT ![p].status = to, ![p].version = @ + 1]
  BY DEF Advanced
<1>3. payment \in [Payments -> PaymentRows] /\ payment[p] \in PaymentRows
  BY DEF TypeOK
<1>4. /\ payment'[p].status = to /\ payment'[p].version = payment[p].version + 1
      /\ payment'[p].order = payment[p].order /\ payment'[p].amount = payment[p].amount
  BY <1>2, <1>3 DEF PaymentRows
<1>5. payment' \in [Payments -> PaymentRows]
  BY <1>2, <1>3 DEF PaymentRows
<1>6. \A q \in Payments \ {p} : payment'[q] = payment[q]
  BY <1>2, <1>3
<1> QED
  BY <1>1, <1>3, <1>4, <1>5, <1>6 DEF OneRowChanged

(* A correction changes one row, and makes it pending. *)
LEMMA CorrectEffect ==
  ASSUME TypeOK, NEW p \in Payments, NEW amount \in Amounts, NEW instrument \in Instruments,
         CorrectAndResubmit(p, amount, instrument)
  PROVE  /\ OneRowChanged(payment, payment', p)
         /\ payment[p].status = "REJECTED" /\ payment'[p].status = "PENDING_VERIFICATION"
         /\ payment'[p].version = payment[p].version + 1
         /\ payment'[p].order = payment[p].order /\ payment'[p].amount = amount
<1>1. payment[p].status = "REJECTED"
  BY DEF CorrectAndResubmit, Correctable
<1>2. payment' = [payment EXCEPT
        ![p].status = "PENDING_VERIFICATION", ![p].amount = amount,
        ![p].instrument = instrument, ![p].version = @ + 1]
  BY DEF CorrectAndResubmit
<1>3. payment \in [Payments -> PaymentRows] /\ payment[p] \in PaymentRows /\ amount \in Nat
  BY BoundsAssumption DEF TypeOK, Amounts
<1>4. /\ payment'[p].status = "PENDING_VERIFICATION"
      /\ payment'[p].version = payment[p].version + 1
      /\ payment'[p].order = payment[p].order /\ payment'[p].amount = amount
  BY <1>2, <1>3 DEF PaymentRows
<1>5. payment' \in [Payments -> PaymentRows]
  BY <1>2, <1>3 DEF PaymentRows, TransactionStatuses
<1>6. \A q \in Payments \ {p} : payment'[q] = payment[q]
  BY <1>2, <1>3
<1> QED
  BY <1>1, <1>3, <1>4, <1>5, <1>6 DEF OneRowChanged

-----------------------------------------------------------------------------
(* What a posting does to the ledger. *)

(* Afterwards the event is in the ledger, and nothing else has become part of it. *)
LEMMA PostEffect ==
  ASSUME NEW rows, rows \subseteq LedgerRows, IsFiniteSet(rows),
         NEW type \in {"INVOICE_CHARGE", "PAYMENT", "PAYMENT_REVERSAL"},
         NEW source \in Orders \cup Payments, NEW amount \in Nat
  PROVE  /\ Post(rows, type, source, amount) \subseteq LedgerRows
         /\ IsFiniteSet(Post(rows, type, source, amount))
         /\ rows \subseteq Post(rows, type, source, amount)
         /\ \E row \in Post(rows, type, source, amount) : row.type = type /\ row.source = source
         /\ \A row \in Post(rows, type, source, amount) :
              row \in rows \/ (row.type = type /\ row.source = source)
<1> DEFINE new == [type |-> type, source |-> source, amount |-> amount]
<1>1. new \in LedgerRows /\ new.type = type /\ new.source = source
  BY DEF LedgerRows
<1>2. \/ /\ Post(rows, type, source, amount) = rows
         /\ \E row \in rows : row.type = type /\ row.source = source
      \/ Post(rows, type, source, amount) = rows \cup {new}
  BY DEF Post
<1>3. IsFiniteSet(rows \cup {new})
  BY FS_AddElement
<1> HIDE DEF new
<1> QED
  BY <1>1, <1>2, <1>3

(* The sum of one type of event. *)
PostedIn(rows, type) ==
  SumFunctionOnSet([row \in rows |-> row.amount], {row \in rows : row.type = type})

(* An event that was not in the ledger adds its amount to the sum of its type,
   and to no other sum. *)
LEMMA PostedGains ==
  ASSUME NEW rows, rows \subseteq LedgerRows, IsFiniteSet(rows),
         NEW type \in {"INVOICE_CHARGE", "PAYMENT", "PAYMENT_REVERSAL"},
         NEW source \in Orders \cup Payments, NEW amount \in Nat,
         \A row \in rows : ~ (row.type = type /\ row.source = source), NEW other
  PROVE  PostedIn(Post(rows, type, source, amount), other) =
           PostedIn(rows, other) + (IF other = type THEN amount ELSE 0)
<1> DEFINE new == [type |-> type, source |-> source, amount |-> amount]
           after == rows \cup {new}
           f == [row \in rows |-> row.amount]
           g == [row \in after |-> row.amount]
           T == {row \in rows : row.type = other}
           U == {row \in after : row.type = other}
<1>1. Post(rows, type, source, amount) = after
  BY DEF Post
<1>2. new \in LedgerRows /\ new \notin rows /\ new.type = type /\ new.amount = amount
  BY DEF LedgerRows
<1>3. IsFiniteSet(T) /\ IsFiniteSet(U)
  <2>1. IsFiniteSet(after)
    BY FS_AddElement
  <2>2. T \in SUBSET rows /\ U \in SUBSET after
    OBVIOUS
  <2> HIDE DEF after, T, U
  <2> QED
    BY <2>1, <2>2, FS_Subset
<1>4. T \ {new} = U \ {new} /\ new \notin T /\ (new \in U <=> other = type)
  BY <1>2
<1>5. /\ \A y \in T : f[y] \in Int
      /\ \A y \in U : g[y] \in Int
      /\ \A y \in T \cap U : y # new => g[y] = f[y]
  BY <1>2 DEF LedgerRows
<1>6. g[new] = amount
  BY <1>2
<1>7. SumFunctionOnSet(f, T) \in Int
  BY <1>3, <1>5, SumType
<1> HIDE DEF new, after, f, g, T, U
<1>8. SumFunctionOnSet(g, U) = SumFunctionOnSet(f, T) + (IF new \in U THEN g[new] ELSE 0)
                                 - (IF new \in T THEN f[new] ELSE 0)
  BY <1>3, <1>4, <1>5, SumMoved
<1>9. /\ PostedIn(rows, other) = SumFunctionOnSet(f, T)
      /\ PostedIn(after, other) = SumFunctionOnSet(g, U)
  BY DEF PostedIn, f, g, T, U
<1> QED
  BY <1>1, <1>4, <1>6, <1>7, <1>8, <1>9

(* The sum of one type of event is a whole amount. *)
LEMMA PostedType ==
  ASSUME NEW rows, rows \subseteq LedgerRows, IsFiniteSet(rows), NEW type
  PROVE  PostedIn(rows, type) \in Nat
<1> DEFINE f == [row \in rows |-> row.amount]
           T == {row \in rows : row.type = type}
<1>1. IsFiniteSet(T)
  BY FS_Subset
<1>2. \A y \in T : f[y] \in Nat
  BY DEF LedgerRows
<1> HIDE DEF f, T
<1>3. SumFunctionOnSet(f, T) \in Nat
  BY <1>1, <1>2, SumNat
<1> QED
  BY <1>3 DEF PostedIn, f, T

-----------------------------------------------------------------------------
(* The inductive invariant, action by action. *)

(* The steps of Next, one per action of the code. *)
LEMMA NextSteps ==
  ASSUME Next
  PROVE  \/ \E o \in Orders : ApproveOrder(o) \/ WithdrawOrder(o) \/ HandleGoods(o)
                                \/ CompleteDelivery(o) \/ GenerateForOrder(o)
         \/ \E p \in Payments, o \in Orders \cup {Unlinked}, amount \in Amounts,
               instrument \in Instruments : RecordPayment(p, o, amount, instrument)
         \/ \E p \in Payments : VerifyPayment(p) \/ RejectPayment(p) \/ ReversePayment(p)
         \/ \E p \in Payments, amount \in Amounts, instrument \in Instruments :
               CorrectAndResubmit(p, amount, instrument)
<1>1. \A p \in Payments : RecordAtDesk(p) \/ RecordOnOrder(p) =>
        \E o \in Orders \cup {Unlinked}, amount \in Amounts, instrument \in Instruments :
          RecordPayment(p, o, amount, instrument)
  BY DEF RecordAtDesk, RecordOnOrder
<1>2. CASE \E o \in Orders : OrderStep(o)
  BY <1>2 DEF OrderStep
<1>3. CASE \E p \in Payments : PaymentStep(p)
  BY <1>1, <1>3 DEF PaymentStep, PaymentsPage
<1> QED
  BY <1>2, <1>3 DEF Next

(* The status an order's payments amount to is one of the four. *)
LEMMA ReconciledType ==
  ASSUME NEW rows, NEW o
  PROVE  Reconciled(rows, o) \in PaymentStatuses
BY DEF Reconciled, StatusOfVerified, PaymentStatuses

(* The completion rule leaves an order with a status, and closes none but one
   the warehouse works on. *)
LEMMA EvaluationType ==
  ASSUME LifeTypeOK, NEW o \in Orders, NEW paid, NEW all
  PROVE  /\ AfterEvaluation(o, paid, all) \in OrderStatuses
         /\ status[o] \in {"CANCELLED", "REJECTED"} =>
              AfterEvaluation(o, paid, all) = status[o]
BY DEF LifeTypeOK, AfterEvaluation, OrderStatuses

(* What the services write into an invoice is an invoice. *)
LEMMA InvoiceType ==
  ASSUME NEW rows \in [Payments -> PaymentRows], NEW inv \in InvoiceRows, NEW o
  PROVE  /\ Issued(rows, o) \in InvoiceRows /\ Issued(rows, o).status = "ISSUED"
         /\ Synced(inv, rows, o) \in InvoiceRows
         /\ Synced(inv, rows, o).status \in {"NONE", "VOID"} =>
              Synced(inv, rows, o).status = inv.status
         /\ inv.status = "NONE" => Synced(inv, rows, o).status = "NONE"
         /\ Synced(inv, rows, o).status = "NONE" => inv.status = "NONE"
         /\ Voided(inv) \in InvoiceRows
         /\ inv.status # "NONE" => Voided(inv).status = "VOID"
<1>1. Verified(rows, o) \in Nat
  BY VerifiedType
<1>2. Issued(rows, o) \in InvoiceRows /\ Issued(rows, o).status = "ISSUED"
  BY <1>1 DEF Issued, InvoiceRows, InvoiceStatuses
<1>3. CASE inv.status \in {"NONE", "VOID"}
  BY <1>2, <1>3 DEF Synced, Voided, InvoiceRows, InvoiceStatuses
<1>4. CASE inv.status \notin {"NONE", "VOID"}
  <2>1. Synced(inv, rows, o) =
          [status |-> IF Verified(rows, o) >= GrandTotal[o] THEN "PAID" ELSE "ISSUED",
           paid   |-> Verified(rows, o)]
    BY <1>4 DEF Synced
  <2>2. Synced(inv, rows, o) \in InvoiceRows /\ Synced(inv, rows, o).status \in {"PAID", "ISSUED"}
    BY <1>1, <2>1 DEF InvoiceRows, InvoiceStatuses
  <2>3. Voided(inv) \in InvoiceRows /\ (inv.status # "NONE" => Voided(inv).status = "VOID")
    BY DEF Voided, InvoiceRows, InvoiceStatuses
  <2> QED
    BY <1>2, <1>4, <2>2, <2>3
<1> QED
  BY <1>3, <1>4

(* The first state satisfies the invariant. *)
LEMMA BooksInit ==
  ASSUME Init
  PROVE  Books
<1>1. LifeTypeOK
  BY DEF Init, LifeInit, LifeTypeOK, OrderStatuses, PaymentStatuses
<1>2. payment \in [Payments -> PaymentRows]
  BY DEF Init, NoPayment, PaymentRows, Instruments
<1>3. invoice \in [Orders -> InvoiceRows] /\ \A o \in Orders : invoice[o].status # "VOID"
  BY DEF Init, InvoiceRows, InvoiceStatuses
<1>4. ledger = {} /\ IsFiniteSet(ledger)
  BY FS_EmptySet DEF Init
<1>5. PaymentsNumbered
  BY DEF Init, NoPayment, PaymentsNumbered
<1>6. CreditsFollowPayments
  BY <1>4 DEF CreditsFollowPayments
<1>7. ApprovedIsCharged
  BY <1>3 DEF Init, LifeInit, ApprovedIsCharged
<1> QED
  BY <1>1, <1>2, <1>3, <1>4, <1>5, <1>6, <1>7 DEF Books, TypeOK

(* The steps of an order leave the payments alone, and the ledger at most gains
   the order's charge. *)
LEMMA OrderStepBooks ==
  ASSUME Books, NEW o \in Orders, UNCHANGED payment, LifeTypeOK',
         invoice' \in [Orders -> InvoiceRows],
         ledger' \in {ledger, Charge(ledger, o)},
         ApprovedIsCharged'
  PROVE  Books'
<1>1. /\ ledger' \subseteq LedgerRows /\ IsFiniteSet(ledger')
      /\ \A row \in ledger' : row \in ledger \/ row.type = "INVOICE_CHARGE"
  <2>1. GrandTotal[o] \in Nat
    BY GrandTotalAssumption
  <2> QED
    BY <2>1, PostEffect DEF Charge, Books, TypeOK
<1>2. CreditsFollowPayments'
  BY <1>1 DEF CreditsFollowPayments, Books
<1>3. PaymentsNumbered'
  BY DEF PaymentsNumbered, Books
<1> QED
  BY <1>1, <1>2, <1>3 DEF Books, TypeOK

(* Approval. *)
LEMMA BooksApprove ==
  ASSUME Books, NEW o \in Orders, ApproveOrder(o)
  PROVE  Books'
<1>1. /\ status[o] \in Reviewable /\ status' = [status EXCEPT ![o] = "APPROVED"]
      /\ approved' = [approved EXCEPT ![o] = TRUE] /\ UNCHANGED <<settlement, delivered>>
      /\ UNCHANGED payment
  BY DEF ApproveOrder, Approve
<1>2. LifeTypeOK'
  BY <1>1 DEF Books, TypeOK, LifeTypeOK, OrderStatuses
<1>3. Issued(payment, o) \in InvoiceRows /\ Issued(payment, o).status = "ISSUED"
  BY InvoiceType DEF Books, TypeOK
<1>4. /\ invoice' \in [Orders -> InvoiceRows]
      /\ invoice'[o].status \notin {"NONE", "VOID"}
      /\ \A i \in Orders \ {o} : invoice'[i] = invoice[i]
  <2>1. invoice' = [invoice EXCEPT ![o] = IF @.status = "NONE" THEN Issued(payment, o) ELSE @]
    BY DEF ApproveOrder
  <2>2. invoice[o].status # "VOID"
    BY <1>1 DEF Books, ApprovedIsCharged, Reviewable
  <2> QED
    BY <1>3, <2>1, <2>2 DEF Books, TypeOK
<1>5. ledger' = Charge(ledger, o)
  BY <1>4 DEF ApproveOrder
<1>6. ledger \subseteq ledger' /\ \E row \in ledger' : row.type = "INVOICE_CHARGE" /\ row.source = o
  <2>1. GrandTotal[o] \in Nat
    BY GrandTotalAssumption
  <2> QED
    BY <1>5, <2>1, PostEffect DEF Charge, Books, TypeOK
<1>7. ApprovedIsCharged'
  <2> SUFFICES ASSUME NEW i \in Orders
               PROVE  /\ approved'[i] =>
                           /\ invoice'[i].status # "NONE"
                           /\ \E row \in ledger' : row.type = "INVOICE_CHARGE" /\ row.source = i
                      /\ delivered'[i] => approved'[i]
                      /\ invoice'[i].status = "VOID" => status'[i] \in {"CANCELLED", "REJECTED"}
    BY DEF ApprovedIsCharged
  <2>1. CASE i = o
    BY <1>1, <1>4, <1>6, <2>1 DEF Books, TypeOK, LifeTypeOK
  <2>2. CASE i # o
    BY <1>1, <1>4, <1>6, <2>2 DEF Books, TypeOK, LifeTypeOK, ApprovedIsCharged
  <2> QED
    BY <2>1, <2>2
<1> QED
  BY <1>1, <1>2, <1>4, <1>5, <1>7, OrderStepBooks

(* Rejection and cancellation of an order. *)
LEMMA BooksWithdraw ==
  ASSUME Books, NEW o \in Orders, WithdrawOrder(o)
  PROVE  Books'
<1>1. /\ \E s \in {"CANCELLED", "REJECTED"} : status' = [status EXCEPT ![o] = s]
      /\ delivered' \in {delivered, [delivered EXCEPT ![o] = FALSE]}
      /\ UNCHANGED <<settlement, approved, payment, ledger>>
      /\ invoice' = [invoice EXCEPT ![o] = Voided(@)]
  BY DEF WithdrawOrder, Reject, Cancel
<1>2. LifeTypeOK'
  BY <1>1 DEF Books, TypeOK, LifeTypeOK, OrderStatuses
<1>3. /\ Voided(invoice[o]) \in InvoiceRows
      /\ invoice[o].status # "NONE" => Voided(invoice[o]).status = "VOID"
  BY InvoiceType DEF Books, TypeOK
<1>4. /\ invoice' \in [Orders -> InvoiceRows]
      /\ invoice'[o] = Voided(invoice[o])
      /\ \A i \in Orders \ {o} : invoice'[i] = invoice[i]
  BY <1>1, <1>3 DEF Books, TypeOK
<1>5. ApprovedIsCharged'
  <2> SUFFICES ASSUME NEW i \in Orders
               PROVE  /\ approved'[i] =>
                           /\ invoice'[i].status # "NONE"
                           /\ \E row \in ledger' : row.type = "INVOICE_CHARGE" /\ row.source = i
                      /\ delivered'[i] => approved'[i]
                      /\ invoice'[i].status = "VOID" => status'[i] \in {"CANCELLED", "REJECTED"}
    BY DEF ApprovedIsCharged
  <2>1. CASE i = o
    BY <1>1, <1>3, <1>4, <2>1 DEF Books, TypeOK, LifeTypeOK, ApprovedIsCharged
  <2>2. CASE i # o
    BY <1>1, <1>4, <2>2 DEF Books, TypeOK, LifeTypeOK, ApprovedIsCharged
  <2> QED
    BY <2>1, <2>2
<1> QED
  BY <1>1, <1>2, <1>4, <1>5, OrderStepBooks

(* The warehouse and the drivers. *)
LEMMA BooksHandleGoods ==
  ASSUME Books, NEW o \in Orders, HandleGoods(o)
  PROVE  Books'
<1>1. /\ \/ status' = status
         \/ status[o] \notin Closed /\ status' = [status EXCEPT ![o] = "PROCESSING"]
      /\ delivered' = [delivered EXCEPT ![o] = FALSE]
      /\ UNCHANGED <<settlement, approved, payment, invoice, ledger>>
  BY DEF HandleGoods, Work, Ship
<1>2. LifeTypeOK'
  BY <1>1 DEF Books, TypeOK, LifeTypeOK, OrderStatuses
<1>3. ApprovedIsCharged'
  BY <1>1 DEF Books, TypeOK, LifeTypeOK, ApprovedIsCharged, Closed
<1> QED
  BY <1>1, <1>2, <1>3, OrderStepBooks DEF Books, TypeOK

(* A completed delivery. *)
LEMMA BooksCompleteDelivery ==
  ASSUME Books, NEW o \in Orders, CompleteDelivery(o)
  PROVE  Books'
<1>1. PICK all \in BOOLEAN : Deliver(o, all)
  BY DEF CompleteDelivery
<1>2. /\ approved[o] /\ delivered' = [delivered EXCEPT ![o] = all]
      /\ status' = [status EXCEPT ![o] = AfterEvaluation(o, settlement[o], all)]
      /\ UNCHANGED <<settlement, approved, payment, ledger>>
      /\ invoice' = [invoice EXCEPT ![o] = Synced(@, payment, o)]
  BY <1>1 DEF CompleteDelivery, Deliver
<1>3. /\ AfterEvaluation(o, settlement[o], all) \in OrderStatuses
      /\ status[o] \in {"CANCELLED", "REJECTED"} =>
           AfterEvaluation(o, settlement[o], all) = status[o]
  BY EvaluationType DEF Books, TypeOK
<1>4. LifeTypeOK'
  BY <1>2, <1>3 DEF Books, TypeOK, LifeTypeOK
<1> DEFINE inv == Synced(invoice[o], payment, o)
<1>5. /\ inv \in InvoiceRows
      /\ inv.status \in {"NONE", "VOID"} => inv.status = invoice[o].status
  BY InvoiceType DEF Books, TypeOK
<1>6. /\ invoice' \in [Orders -> InvoiceRows] /\ invoice'[o] = inv
      /\ \A i \in Orders \ {o} : invoice'[i] = invoice[i]
  BY <1>2, <1>5 DEF Books, TypeOK
<1> HIDE DEF inv
<1>7. ApprovedIsCharged'
  <2> SUFFICES ASSUME NEW i \in Orders
               PROVE  /\ approved'[i] =>
                           /\ invoice'[i].status # "NONE"
                           /\ \E row \in ledger' : row.type = "INVOICE_CHARGE" /\ row.source = i
                      /\ delivered'[i] => approved'[i]
                      /\ invoice'[i].status = "VOID" => status'[i] \in {"CANCELLED", "REJECTED"}
    BY DEF ApprovedIsCharged
  <2>1. CASE i = o
    BY <1>2, <1>3, <1>5, <1>6, <2>1 DEF Books, TypeOK, LifeTypeOK, ApprovedIsCharged
  <2>2. CASE i # o
    BY <1>2, <1>6, <2>2 DEF Books, TypeOK, LifeTypeOK, ApprovedIsCharged
  <2> QED
    BY <2>1, <2>2
<1> QED
  BY <1>2, <1>4, <1>6, <1>7, OrderStepBooks

(* An invoice made out by hand. *)
LEMMA BooksGenerate ==
  ASSUME Books, NEW o \in Orders, GenerateForOrder(o)
  PROVE  Books'
<1>1. /\ invoice' = [invoice EXCEPT ![o] = Issued(payment, o)]
      /\ ledger' \in {ledger, Charge(ledger, o)}
      /\ UNCHANGED <<status, settlement, approved, delivered, payment>>
  BY DEF GenerateForOrder, lifeVars
<1>2. LifeTypeOK'
  BY <1>1 DEF Books, TypeOK, LifeTypeOK
<1>3. Issued(payment, o) \in InvoiceRows /\ Issued(payment, o).status = "ISSUED"
  BY InvoiceType DEF Books, TypeOK
<1>4. /\ invoice' \in [Orders -> InvoiceRows]
      /\ invoice'[o].status = "ISSUED"
      /\ \A i \in Orders \ {o} : invoice'[i] = invoice[i]
  BY <1>1, <1>3 DEF Books, TypeOK
<1>5. ledger \subseteq ledger'
  <2>1. GrandTotal[o] \in Nat
    BY GrandTotalAssumption
  <2> QED
    BY <1>1, <2>1, PostEffect DEF Charge, Books, TypeOK
<1>6. ApprovedIsCharged'
  BY <1>1, <1>4, <1>5 DEF Books, ApprovedIsCharged
<1> QED
  BY <1>1, <1>2, <1>4, <1>6, OrderStepBooks

(* A step that only changes the row of one payment that the ledger does not know,
   and leaves it worth something and unverified. *)
LEMMA PendingStepBooks ==
  ASSUME Books, NEW p \in Payments, OneRowChanged(payment, payment', p),
         payment[p].status \in {"NONE", "PENDING_VERIFICATION", "REJECTED"},
         payment'[p].amount \in Amounts, payment'[p].version >= 1,
         payment'[p].status = "REJECTED" => payment'[p].version >= 2,
         LifeTypeOK', UNCHANGED <<status, approved, delivered, invoice, ledger>>
  PROVE  Books'
<1>1. PaymentsNumbered'
  BY DEF OneRowChanged, PaymentsNumbered, Books
<1>2. CreditsFollowPayments'
  BY DEF OneRowChanged, CreditsFollowPayments, Books
<1>3. ApprovedIsCharged'
  BY DEF ApprovedIsCharged, Books
<1> QED
  BY <1>1, <1>2, <1>3 DEF Books, TypeOK, OneRowChanged

(* Recording. *)
LEMMA BooksRecord ==
  ASSUME Books, NEW p \in Payments, NEW o \in Orders \cup {Unlinked}, NEW amount \in Amounts,
         NEW instrument \in Instruments, RecordPayment(p, o, amount, instrument)
  PROVE  Books'
<1>1. TypeOK
  BY DEF Books
<1>2. /\ OneRowChanged(payment, payment', p)
      /\ payment'[p] = [status |-> "PENDING_VERIFICATION", order |-> o, amount |-> amount,
                        instrument |-> instrument, version |-> 1]
  BY <1>1, RecordEffect
<1>3. payment[p].status = "NONE" /\ UNCHANGED <<lifeVars, invoice, ledger>>
  BY DEF RecordPayment
<1>4. LifeTypeOK'
  BY <1>1, <1>3 DEF TypeOK, LifeTypeOK, lifeVars
<1>5. /\ payment'[p].amount \in Amounts /\ payment'[p].version >= 1
      /\ payment'[p].status # "REJECTED"
  BY <1>2
<1> QED
  BY <1>2, <1>3, <1>4, <1>5, PendingStepBooks DEF lifeVars

(* A correction. *)
LEMMA BooksCorrect ==
  ASSUME Books, NEW p \in Payments, NEW amount \in Amounts, NEW instrument \in Instruments,
         CorrectAndResubmit(p, amount, instrument)
  PROVE  Books'
<1>1. TypeOK
  BY DEF Books
<1>2. /\ OneRowChanged(payment, payment', p)
      /\ payment[p].status = "REJECTED" /\ payment'[p].status = "PENDING_VERIFICATION"
      /\ payment'[p].amount = amount /\ payment'[p].version >= 1
  BY <1>1, CorrectEffect DEF TypeOK, PaymentRows
<1>3. UNCHANGED <<lifeVars, invoice, ledger>>
  BY DEF CorrectAndResubmit
<1>4. LifeTypeOK'
  BY <1>1, <1>3 DEF TypeOK, LifeTypeOK, lifeVars
<1> QED
  BY <1>2, <1>3, <1>4, PendingStepBooks DEF lifeVars

(* Recomputing an order's payment status touches nothing else of it. *)
LEMMA ReconcileEffect ==
  ASSUME TypeOK, NEW o \in Orders \cup {Unlinked}, Reconcile(o)
  PROVE  LifeTypeOK' /\ UNCHANGED <<status, approved, delivered>>
<1>1. CASE UNCHANGED lifeVars
  BY <1>1 DEF TypeOK, LifeTypeOK, lifeVars
<1>2. CASE /\ o # Unlinked
           /\ settlement' = [settlement EXCEPT ![o] = Reconciled(payment', o)]
           /\ UNCHANGED <<status, approved, delivered>>
  <2>1. Reconciled(payment', o) \in PaymentStatuses
    BY ReconciledType
  <2> QED
    BY <1>2, <2>1 DEF TypeOK, LifeTypeOK
<1> QED
  BY <1>1, <1>2 DEF Reconcile

(* A rejection. *)
LEMMA BooksRejectPayment ==
  ASSUME Books, NEW p \in Payments, RejectPayment(p)
  PROVE  Books'
<1>1. TypeOK
  BY DEF Books
<1>2. "REJECTED" \in TransactionStatuses
  BY DEF TransactionStatuses
<1>3. /\ OneRowChanged(payment, payment', p)
      /\ payment[p].status = "PENDING_VERIFICATION" /\ payment'[p].status = "REJECTED"
      /\ payment'[p].version = payment[p].version + 1
      /\ payment'[p].amount = payment[p].amount
  BY <1>1, <1>2, AdvancedEffect DEF RejectPayment
<1>4. payment[p].order \in Orders \cup {Unlinked}
  BY <1>1 DEF TypeOK, PaymentRows
<1>5. LifeTypeOK' /\ UNCHANGED <<status, approved, delivered>>
  BY <1>1, <1>4, ReconcileEffect DEF RejectPayment
<1>6. UNCHANGED <<invoice, ledger>>
  BY DEF RejectPayment
<1>7. /\ payment'[p].amount \in Amounts
      /\ payment'[p].version >= 1 /\ payment'[p].version >= 2
  BY <1>3 DEF Books, PaymentsNumbered, TypeOK, PaymentRows
<1> QED
  BY <1>3, <1>5, <1>6, <1>7, PendingStepBooks

(* A verification or a reversal: one more posting, for a payment that now has the
   status the posting stands for. *)
LEMMA PostingStepBooks ==
  ASSUME Books, NEW p \in Payments, OneRowChanged(payment, payment', p),
         payment'[p].amount \in Amounts, payment'[p].version >= 1,
         NEW type \in {"PAYMENT", "PAYMENT_REVERSAL"},
         \/ /\ type = "PAYMENT" /\ payment'[p].status = "VERIFIED"
            /\ payment[p].status = "PENDING_VERIFICATION"
         \/ type = "PAYMENT_REVERSAL" /\ payment'[p].status = "REVERSED",
         ledger' = Post(ledger, type, p, payment[p].amount),
         LifeTypeOK', invoice' \in [Orders -> InvoiceRows],
         UNCHANGED <<approved, delivered>>,
         \A o \in Orders : status[o] \in {"CANCELLED", "REJECTED"} => status'[o] = status[o],
         \A o \in Orders : /\ invoice'[o].status = "NONE" => invoice[o].status = "NONE"
                           /\ invoice'[o].status = "VOID" => invoice[o].status = "VOID"
  PROVE  Books'
<1>1. PaymentsNumbered'
  BY DEF OneRowChanged, PaymentsNumbered, Books
<1>2. /\ ledger' \subseteq LedgerRows /\ IsFiniteSet(ledger') /\ ledger \subseteq ledger'
      /\ \A row \in ledger' : row \in ledger \/ (row.type = type /\ row.source = p)
  <2>1. payment[p].amount \in Nat
    BY DEF Books, TypeOK, PaymentRows
  <2> QED
    BY <2>1, PostEffect DEF Books, TypeOK
<1>3. CreditsFollowPayments'
  <2> SUFFICES ASSUME NEW row \in ledger'
               PROVE  /\ row.type = "PAYMENT" =>
                           /\ row.source \in Payments
                           /\ payment'[row.source].status \in {"VERIFIED", "REVERSED"}
                      /\ row.type = "PAYMENT_REVERSAL" =>
                           row.source \in Payments /\ payment'[row.source].status = "REVERSED"
    BY DEF CreditsFollowPayments
  <2>1. CASE row.type = type /\ row.source = p
    BY <2>1
  <2>2. CASE row \in ledger /\ row.source # p
    BY <2>2 DEF CreditsFollowPayments, Books, OneRowChanged
  <2>3. CASE row \in ledger /\ row.source = p
    BY <2>3 DEF CreditsFollowPayments, Books
  <2> QED
    BY <1>2, <2>1, <2>2, <2>3
<1>4. ApprovedIsCharged'
  BY <1>2 DEF ApprovedIsCharged, Books
<1> QED
  BY <1>1, <1>2, <1>3, <1>4 DEF Books, TypeOK, OneRowChanged

(* What a verification does to the order and its invoice. *)
LEMMA SettleEffect ==
  ASSUME Books, payment' \in [Payments -> PaymentRows], NEW o \in Orders, SettleVerified(o)
  PROVE  /\ LifeTypeOK' /\ invoice' \in [Orders -> InvoiceRows]
         /\ UNCHANGED <<approved, delivered>>
         /\ settlement' = [settlement EXCEPT ![o] = Reconciled(payment', o)]
         /\ status' = [status EXCEPT
              ![o] = AfterEvaluation(o, Reconciled(payment', o), delivered[o])]
         /\ invoice'[o] = Synced(invoice[o], payment', o)
         /\ \A i \in Orders \ {o} : invoice'[i] = invoice[i]
         /\ \A i \in Orders : status[i] \in {"CANCELLED", "REJECTED"} => status'[i] = status[i]
         /\ \A i \in Orders : /\ invoice'[i].status = "NONE" => invoice[i].status = "NONE"
                              /\ invoice'[i].status = "VOID" => invoice[i].status = "VOID"
<1> DEFINE paid == Reconciled(payment', o)
           inv == Synced(invoice[o], payment', o)
<1>1. /\ settlement' = [settlement EXCEPT ![o] = paid]
      /\ status' = [status EXCEPT ![o] = AfterEvaluation(o, paid, delivered[o])]
      /\ UNCHANGED <<approved, delivered>>
      /\ invoice' = [invoice EXCEPT ![o] = inv]
  BY DEF SettleVerified
<1>2. paid \in PaymentStatuses
  BY ReconciledType
<1>3. LifeTypeOK
  BY DEF Books, TypeOK
<1> HIDE DEF paid
<1>4. /\ AfterEvaluation(o, paid, delivered[o]) \in OrderStatuses
      /\ status[o] \in {"CANCELLED", "REJECTED"} =>
           AfterEvaluation(o, paid, delivered[o]) = status[o]
  BY <1>3, EvaluationType
<1>5. /\ inv \in InvoiceRows
      /\ inv.status \in {"NONE", "VOID"} => inv.status = invoice[o].status
  BY InvoiceType DEF Books, TypeOK
<1> HIDE DEF inv
<1>6. LifeTypeOK'
  BY <1>1, <1>2, <1>3, <1>4 DEF LifeTypeOK
<1>7. /\ invoice' \in [Orders -> InvoiceRows] /\ invoice'[o] = inv
      /\ \A i \in Orders \ {o} : invoice'[i] = invoice[i]
  BY <1>1, <1>5 DEF Books, TypeOK
<1>8. \A i \in Orders : status[i] \in {"CANCELLED", "REJECTED"} => status'[i] = status[i]
  BY <1>1, <1>3, <1>4 DEF LifeTypeOK
<1>9. \A i \in Orders : /\ invoice'[i].status = "NONE" => invoice[i].status = "NONE"
                        /\ invoice'[i].status = "VOID" => invoice[i].status = "VOID"
  BY <1>5, <1>7
<1> QED
  BY <1>1, <1>6, <1>7, <1>8, <1>9 DEF paid, inv

(* A verification. *)
LEMMA BooksVerify ==
  ASSUME Books, NEW p \in Payments, VerifyPayment(p)
  PROVE  Books'
<1>1. TypeOK
  BY DEF Books
<1>2. "VERIFIED" \in TransactionStatuses
  BY DEF TransactionStatuses
<1>3. /\ OneRowChanged(payment, payment', p)
      /\ payment[p].status = "PENDING_VERIFICATION" /\ payment'[p].status = "VERIFIED"
      /\ payment'[p].version = payment[p].version + 1
      /\ payment'[p].amount = payment[p].amount
  BY <1>1, <1>2, AdvancedEffect DEF VerifyPayment
<1>4. payment'[p].amount \in Amounts /\ payment'[p].version >= 1
  BY <1>3 DEF Books, PaymentsNumbered, TypeOK, PaymentRows
<1>5. ledger' = Post(ledger, "PAYMENT", p, payment[p].amount)
  BY DEF VerifyPayment
<1>6. CASE payment[p].order # Unlinked /\ SettleVerified(payment[p].order)
  <2>1. payment[p].order \in Orders /\ payment' \in [Payments -> PaymentRows]
    BY <1>1, <1>3, <1>6 DEF TypeOK, PaymentRows, OneRowChanged
  <2>2. /\ LifeTypeOK' /\ invoice' \in [Orders -> InvoiceRows]
        /\ UNCHANGED <<approved, delivered>>
        /\ \A i \in Orders : status[i] \in {"CANCELLED", "REJECTED"} => status'[i] = status[i]
        /\ \A i \in Orders : /\ invoice'[i].status = "NONE" => invoice[i].status = "NONE"
                             /\ invoice'[i].status = "VOID" => invoice[i].status = "VOID"
    BY <1>6, <2>1, SettleEffect
  <2> QED
    BY <1>3, <1>4, <1>5, <2>2, PostingStepBooks
<1>7. CASE UNCHANGED <<lifeVars, invoice>>
  <2>1. LifeTypeOK'
    BY <1>1, <1>7 DEF TypeOK, LifeTypeOK, lifeVars
  <2>2. /\ invoice' \in [Orders -> InvoiceRows] /\ UNCHANGED <<approved, delivered>>
        /\ UNCHANGED <<status, invoice>>
    BY <1>1, <1>7 DEF TypeOK, lifeVars
  <2> QED
    BY <1>3, <1>4, <1>5, <2>1, <2>2, PostingStepBooks
<1> QED
  BY <1>6, <1>7 DEF VerifyPayment

(* A reversal. *)
LEMMA BooksReverse ==
  ASSUME Books, NEW p \in Payments, ReversePayment(p)
  PROVE  Books'
<1>1. TypeOK
  BY DEF Books
<1>2. "REVERSED" \in TransactionStatuses
  BY DEF TransactionStatuses
<1>3. /\ OneRowChanged(payment, payment', p)
      /\ payment[p].status = "VERIFIED" /\ payment'[p].status = "REVERSED"
      /\ payment'[p].version = payment[p].version + 1
      /\ payment'[p].amount = payment[p].amount
  BY <1>1, <1>2, AdvancedEffect DEF ReversePayment
<1>4. payment'[p].amount \in Amounts /\ payment'[p].version >= 1
  BY <1>3 DEF Books, PaymentsNumbered, TypeOK, PaymentRows
<1>5. payment[p].order \in Orders \cup {Unlinked}
  BY <1>1 DEF TypeOK, PaymentRows
<1>6. LifeTypeOK' /\ UNCHANGED <<status, approved, delivered>>
  BY <1>1, <1>5, ReconcileEffect DEF ReversePayment
<1>7. /\ ledger' = Post(ledger, "PAYMENT_REVERSAL", p, payment[p].amount)
      /\ invoice' = invoice /\ invoice' \in [Orders -> InvoiceRows]
  BY <1>1 DEF ReversePayment, TypeOK
<1> QED
  BY <1>3, <1>4, <1>6, <1>7, PostingStepBooks

(* No step breaks the invariant. *)
LEMMA BooksStep ==
  ASSUME Books, [Next]_vars
  PROVE  Books'
<1>1. CASE UNCHANGED vars
  BY <1>1 DEF vars, lifeVars, Books, TypeOK, LifeTypeOK, PaymentsNumbered,
              CreditsFollowPayments, ApprovedIsCharged
<1>2. CASE Next
  BY <1>2, NextSteps, BooksApprove, BooksWithdraw, BooksHandleGoods, BooksCompleteDelivery,
     BooksGenerate, BooksRecord, BooksVerify, BooksRejectPayment, BooksReverse, BooksCorrect
<1> QED
  BY <1>1, <1>2

(* The accounts stay in order: types, a ledger that follows the payments, and
   charged orders. *)
THEOREM AccountsInOrder == Spec => []Books
<1>1. Init => Books
  BY BooksInit
<1>2. Books /\ [Next]_vars => Books'
  BY BooksStep
<1> QED
  BY <1>1, <1>2, PTL DEF Spec

(* Every column keeps its type, whatever the orders and payments. *)
THEOREM AccountsTyped == Spec => []TypeOK
<1>1. Books => TypeOK
  BY DEF Books
<1> QED
  BY <1>1, AccountsInOrder, PTL

-----------------------------------------------------------------------------
(* The payment status of an order follows its payments. *)

(* Nothing is verified in the first state. *)
LEMMA NothingVerifiedInit ==
  ASSUME Init, NEW o
  PROVE  Verified(payment, o) = 0
<1>1. PaymentsOf(payment, {"VERIFIED"}, o) = {}
  BY DEF Init, NoPayment, PaymentsOf
<1> QED
  BY <1>1, SumEmpty DEF Verified, AmountOf

(* What one step does to what is verified of an order, and to the payment status
   stored with it: nothing, or the sum moves by the amount of one payment and
   the status is recomputed from it. *)
LEMMA VerifiedStep ==
  ASSUME Books, [Next]_vars, NEW o \in Orders
  PROVE  \/ /\ Verified(payment', o) = Verified(payment, o)
            /\ settlement'[o] \in {settlement[o], Reconciled(payment', o)}
         \/ \E p \in Payments :
              /\ VerifyPayment(p) /\ payment[p].order = o
              /\ Verified(payment', o) = Verified(payment, o) + payment[p].amount
              /\ settlement'[o] = Reconciled(payment', o)
         \/ \E p \in Payments :
              /\ ReversePayment(p) /\ payment[p].order = o
              /\ Verified(payment', o) + payment[p].amount = Verified(payment, o)
              /\ settlement'[o] = Reconciled(payment', o)
<1>1. TypeOK
  BY DEF Books
<1>2. CASE \E i \in Orders : ApproveOrder(i) \/ WithdrawOrder(i) \/ HandleGoods(i)
                                \/ CompleteDelivery(i) \/ GenerateForOrder(i)
  <2>1. UNCHANGED <<settlement, payment>>
    BY <1>2 DEF ApproveOrder, WithdrawOrder, HandleGoods, CompleteDelivery, GenerateForOrder,
                Approve, Reject, Cancel, Work, Ship, Deliver, lifeVars
  <2> QED
    BY <2>1
<1>3. ASSUME NEW p \in Payments, NEW i \in Orders \cup {Unlinked}, NEW amount \in Amounts,
             NEW instrument \in Instruments, RecordPayment(p, i, amount, instrument)
      PROVE  Verified(payment', o) = Verified(payment, o) /\ settlement'[o] = settlement[o]
  <2>1. /\ OneRowChanged(payment, payment', p)
        /\ payment'[p] = [status |-> "PENDING_VERIFICATION", order |-> i, amount |-> amount,
                          instrument |-> instrument, version |-> 1]
    BY <1>1, <1>3, RecordEffect
  <2>2. payment[p].status = "NONE" /\ settlement' = settlement
    BY <1>3 DEF RecordPayment, lifeVars
  <2> QED
    BY <2>1, <2>2, VerifiedUntouched
<1>4. ASSUME NEW p \in Payments, NEW amount \in Amounts, NEW instrument \in Instruments,
             CorrectAndResubmit(p, amount, instrument)
      PROVE  Verified(payment', o) = Verified(payment, o) /\ settlement'[o] = settlement[o]
  <2>1. /\ OneRowChanged(payment, payment', p) /\ payment[p].status = "REJECTED"
        /\ payment'[p].status = "PENDING_VERIFICATION"
    BY <1>1, <1>4, CorrectEffect
  <2>2. settlement' = settlement
    BY <1>4 DEF CorrectAndResubmit, lifeVars
  <2> QED
    BY <2>1, <2>2, VerifiedUntouched
<1>5. ASSUME NEW i \in Orders \cup {Unlinked}, Reconcile(i)
      PROVE  /\ settlement'[o] \in {settlement[o], Reconciled(payment', o)}
             /\ i = o => settlement'[o] = Reconciled(payment', o)
  BY <1>1, <1>5, NamesAssumption DEF Reconcile, lifeVars, TypeOK, LifeTypeOK
<1>6. ASSUME NEW p \in Payments, RejectPayment(p)
      PROVE  /\ Verified(payment', o) = Verified(payment, o)
             /\ settlement'[o] \in {settlement[o], Reconciled(payment', o)}
  <2>1. "REJECTED" \in TransactionStatuses
    BY DEF TransactionStatuses
  <2>2. /\ OneRowChanged(payment, payment', p) /\ payment'[p].status = "REJECTED"
        /\ payment[p].status = "PENDING_VERIFICATION"
    BY <1>1, <1>6, <2>1, AdvancedEffect DEF RejectPayment
  <2>3. payment[p].order \in Orders \cup {Unlinked} /\ Reconcile(payment[p].order)
    BY <1>1, <1>6 DEF RejectPayment, TypeOK, PaymentRows
  <2> QED
    BY <1>5, <2>2, <2>3, VerifiedUntouched
<1>7. ASSUME NEW p \in Payments, ReversePayment(p)
      PROVE  \/ /\ Verified(payment', o) = Verified(payment, o)
                /\ settlement'[o] \in {settlement[o], Reconciled(payment', o)}
             \/ /\ payment[p].order = o
                /\ Verified(payment', o) + payment[p].amount = Verified(payment, o)
                /\ settlement'[o] = Reconciled(payment', o)
  <2>1. "REVERSED" \in TransactionStatuses
    BY DEF TransactionStatuses
  <2>2. /\ OneRowChanged(payment, payment', p) /\ payment'[p].status = "REVERSED"
        /\ payment[p].status = "VERIFIED" /\ payment'[p].order = payment[p].order
    BY <1>1, <1>7, <2>1, AdvancedEffect DEF ReversePayment
  <2>3. payment[p].order \in Orders \cup {Unlinked} /\ Reconcile(payment[p].order)
    BY <1>1, <1>7 DEF ReversePayment, TypeOK, PaymentRows
  <2>4. CASE payment[p].order = o
    <3>1. OneRowChanged(payment', payment, p)
      BY <2>2 DEF OneRowChanged
    <3>2. Verified(payment, o) = Verified(payment', o) + payment[p].amount
      BY <2>2, <2>4, <3>1, VerifiedGains
    <3> QED
      BY <1>5, <2>3, <2>4, <3>2
  <2>5. CASE payment[p].order # o
    BY <1>5, <2>2, <2>3, <2>5, VerifiedUntouched
  <2> QED
    BY <2>4, <2>5
<1>8. ASSUME NEW p \in Payments, VerifyPayment(p)
      PROVE  \/ /\ Verified(payment', o) = Verified(payment, o)
                /\ settlement'[o] \in {settlement[o], Reconciled(payment', o)}
             \/ /\ payment[p].order = o
                /\ Verified(payment', o) = Verified(payment, o) + payment[p].amount
                /\ settlement'[o] = Reconciled(payment', o)
  <2>1. "VERIFIED" \in TransactionStatuses
    BY DEF TransactionStatuses
  <2>2. /\ OneRowChanged(payment, payment', p) /\ payment'[p].status = "VERIFIED"
        /\ payment[p].status = "PENDING_VERIFICATION" /\ payment'[p].order = payment[p].order
        /\ payment'[p].amount = payment[p].amount
    BY <1>1, <1>8, <2>1, AdvancedEffect DEF VerifyPayment
  <2>3. \/ payment[p].order # Unlinked /\ SettleVerified(payment[p].order)
        \/ payment[p].order = Unlinked /\ UNCHANGED <<lifeVars, invoice>>
    BY <1>8 DEF VerifyPayment
  <2>4. payment[p].order \in Orders \cup {Unlinked} /\ payment' \in [Payments -> PaymentRows]
    BY <1>1, <2>2 DEF TypeOK, PaymentRows, OneRowChanged
  <2>5. CASE payment[p].order = o
    <3>1. Verified(payment', o) = Verified(payment, o) + payment[p].amount
      BY <2>2, <2>5, VerifiedGains
    <3>2. settlement'[o] = Reconciled(payment', o)
      <4>1. SettleVerified(o)
        BY <2>3, <2>5, NamesAssumption
      <4>2. settlement' = [settlement EXCEPT ![o] = Reconciled(payment', o)]
        BY <2>4, <4>1, SettleEffect
      <4> QED
        BY <1>1, <4>2 DEF TypeOK, LifeTypeOK
    <3> QED
      BY <2>5, <3>1, <3>2
  <2>6. CASE payment[p].order # o
    <3>1. Verified(payment', o) = Verified(payment, o)
      BY <2>2, <2>6, VerifiedUntouched
    <3>2. settlement'[o] = settlement[o]
      <4>1. CASE payment[p].order = Unlinked
        BY <2>3, <4>1 DEF lifeVars
      <4>2. CASE payment[p].order # Unlinked
        <5>1. settlement' = [settlement EXCEPT
                ![payment[p].order] = Reconciled(payment', payment[p].order)]
          BY <2>3, <2>4, <4>2, SettleEffect
        <5> QED
          BY <1>1, <2>6, <5>1 DEF TypeOK, LifeTypeOK
      <4> QED
        BY <4>1, <4>2
    <3> QED
      BY <3>1, <3>2
  <2> QED
    BY <2>5, <2>6
<1>9. CASE UNCHANGED vars
  BY <1>9 DEF vars, lifeVars
<1>10. CASE Next
  BY <1>2, <1>3, <1>4, <1>6, <1>7, <1>8, <1>10, NextSteps
<1> QED
  BY <1>9, <1>10

(* The payment status stored with an order is the one its verified payments add
   up to. *)
THEOREM SettlementIsDerived == Spec => []SettlementFollowsPayments
<1>1. Init => SettlementFollowsPayments
  <2> SUFFICES ASSUME Init, NEW o \in Orders
               PROVE  settlement[o] = Reconciled(payment, o)
    BY DEF SettlementFollowsPayments
  <2>1. Verified(payment, o) = 0
    BY NothingVerifiedInit
  <2> QED
    BY <2>1 DEF Init, LifeInit, Reconciled, StatusOfVerified
<1>2. Books /\ SettlementFollowsPayments /\ [Next]_vars => SettlementFollowsPayments'
  <2> SUFFICES ASSUME Books, SettlementFollowsPayments, [Next]_vars, NEW o \in Orders
               PROVE  settlement'[o] = Reconciled(payment', o)
    BY DEF SettlementFollowsPayments
  <2>1. settlement[o] = Reconciled(payment, o)
    BY DEF SettlementFollowsPayments
  <2>2. CASE /\ Verified(payment', o) = Verified(payment, o)
             /\ settlement'[o] \in {settlement[o], Reconciled(payment', o)}
    BY <2>1, <2>2 DEF Reconciled
  <2> QED
    BY <2>2, VerifiedStep
<1> QED
  BY <1>1, <1>2, AccountsInOrder, PTL DEF Spec

-----------------------------------------------------------------------------
(* Never more recorded than the order is worth. *)

(* The payments RecordedWithinTotal adds up. *)
NeverCorrected(rows, o) == {p \in PaymentsOf(rows, Active, o) : rows[p].version <= 2}

(* When the only change is to a payment that does not count afterwards, or that
   counted before for as much, the sum has not grown. *)
LEMMA CountedShrinks ==
  ASSUME NEW rows, NEW after, NEW p \in Payments, OneRowChanged(rows, after, p), NEW o,
         p \in NeverCorrected(after, o) =>
           p \in NeverCorrected(rows, o) /\ after[p].amount = rows[p].amount
  PROVE  AmountOf(after, NeverCorrected(after, o)) <= AmountOf(rows, NeverCorrected(rows, o))
<1> DEFINE ps == NeverCorrected(rows, o)
           qs == NeverCorrected(after, o)
<1>1. ps \in SUBSET Payments /\ qs \in SUBSET Payments /\ ps \ {p} = qs \ {p}
  BY DEF NeverCorrected, PaymentsOf, OneRowChanged
<1>2. AmountOf(rows, ps) \in Nat /\ rows[p].amount \in Nat
  BY <1>1, AmountType DEF OneRowChanged, PaymentRows
<1>3. p \in qs => p \in ps /\ after[p].amount = rows[p].amount
  OBVIOUS
<1> HIDE DEF ps, qs
<1>4. AmountOf(after, qs) = AmountOf(rows, ps) + (IF p \in qs THEN after[p].amount ELSE 0)
                              - (IF p \in ps THEN rows[p].amount ELSE 0)
  BY <1>1, AmountMoved
<1>5. AmountOf(after, qs) <= AmountOf(rows, ps)
  BY <1>2, <1>3, <1>4
<1> QED
  BY <1>5 DEF ps, qs

(* One step of a payment. *)
LEMMA RecordedStep ==
  ASSUME Books, RecordedWithinTotal, [Next]_vars, NEW o \in Orders
  PROVE  AmountOf(payment', NeverCorrected(payment', o)) <= GrandTotal[o]
<1>1. TypeOK
  BY DEF Books
<1>2. AmountOf(payment, NeverCorrected(payment, o)) <= GrandTotal[o]
  BY DEF RecordedWithinTotal, NeverCorrected
<1>3. /\ \A i : AmountOf(payment, NeverCorrected(payment, i)) \in Nat
      /\ GrandTotal[o] \in Nat
  <2>1. \A i : NeverCorrected(payment, i) \in SUBSET Payments
    BY DEF NeverCorrected, PaymentsOf
  <2> QED
    BY <1>1, <2>1, AmountType, GrandTotalAssumption DEF TypeOK
<1>4. ASSUME NEW p \in Payments, OneRowChanged(payment, payment', p),
             p \in NeverCorrected(payment', o) =>
               p \in NeverCorrected(payment, o) /\ payment'[p].amount = payment[p].amount
      PROVE  AmountOf(payment', NeverCorrected(payment', o)) <= GrandTotal[o]
  <2>1. AmountOf(payment', NeverCorrected(payment', o))
          <= AmountOf(payment, NeverCorrected(payment, o))
    BY <1>4, CountedShrinks
  <2>2. AmountOf(payment', NeverCorrected(payment', o)) \in Nat
    <3>1. NeverCorrected(payment', o) \in SUBSET Payments
      BY DEF NeverCorrected, PaymentsOf
    <3> QED
      BY <1>4, <3>1, AmountType DEF OneRowChanged
  <2> QED
    BY <1>2, <1>3, <2>1, <2>2
<1>5. ASSUME UNCHANGED payment
      PROVE  AmountOf(payment', NeverCorrected(payment', o)) <= GrandTotal[o]
  BY <1>2, <1>5
<1>6. CASE \E i \in Orders : ApproveOrder(i) \/ WithdrawOrder(i) \/ HandleGoods(i)
                                \/ CompleteDelivery(i) \/ GenerateForOrder(i)
  BY <1>5, <1>6 DEF ApproveOrder, WithdrawOrder, HandleGoods, CompleteDelivery, GenerateForOrder
<1>7. ASSUME NEW p \in Payments, NEW i \in Orders \cup {Unlinked}, NEW amount \in Amounts,
             NEW instrument \in Instruments, RecordPayment(p, i, amount, instrument)
      PROVE  AmountOf(payment', NeverCorrected(payment', o)) <= GrandTotal[o]
  <2> DEFINE ps == NeverCorrected(payment, o)
             qs == NeverCorrected(payment', o)
  <2>1. /\ OneRowChanged(payment, payment', p)
        /\ payment'[p] = [status |-> "PENDING_VERIFICATION", order |-> i, amount |-> amount,
                          instrument |-> instrument, version |-> 1]
    BY <1>1, <1>7, RecordEffect
  <2>2. payment[p].status = "NONE"
    BY <1>7 DEF RecordPayment
  <2>3. CASE i # o
    <3>1. p \notin qs
      BY <2>1, <2>3 DEF NeverCorrected, PaymentsOf
    <3> QED
      BY <1>4, <2>1, <3>1
  <2>4. CASE i = o
    <3>1. Collected(o) + amount <= GrandTotal[o]
      BY <1>7, <2>4, NamesAssumption DEF RecordPayment, WithinOutstanding
    <3>2. /\ PaymentsOf(payment, Active, o) \in SUBSET Payments
          /\ ps \in SUBSET PaymentsOf(payment, Active, o)
      BY DEF NeverCorrected, PaymentsOf
    <3>3. AmountOf(payment, ps) <= Collected(o) /\ Collected(o) \in Nat
      BY <1>1, <3>2, AmountOfPart, AmountType DEF Collected, TypeOK
    <3>4. /\ ps \in SUBSET Payments /\ qs \in SUBSET Payments
          /\ ps \ {p} = qs \ {p} /\ p \notin ps
      BY <2>1, <2>2 DEF NeverCorrected, PaymentsOf, OneRowChanged, Active
    <3>5. AmountOf(payment, ps) \in Nat /\ amount \in Nat /\ payment'[p].amount = amount
      BY <1>3, <2>1, BoundsAssumption DEF Amounts
    <3> HIDE DEF ps, qs
    <3>6. AmountOf(payment', qs) = AmountOf(payment, ps) + (IF p \in qs THEN amount ELSE 0) - 0
      BY <2>1, <3>4, <3>5, AmountMoved
    <3>7. AmountOf(payment', qs) <= GrandTotal[o]
      BY <1>3, <3>1, <3>3, <3>5, <3>6
    <3> QED
      BY <3>7 DEF qs
  <2> QED
    BY <2>3, <2>4
<1>8. ASSUME NEW p \in Payments, NEW amount \in Amounts, NEW instrument \in Instruments,
             CorrectAndResubmit(p, amount, instrument)
      PROVE  AmountOf(payment', NeverCorrected(payment', o)) <= GrandTotal[o]
  <2>1. /\ OneRowChanged(payment, payment', p) /\ payment[p].status = "REJECTED"
        /\ payment'[p].version = payment[p].version + 1
    BY <1>1, <1>8, CorrectEffect
  <2>2. payment[p].version >= 2 /\ payment[p].version \in Nat
    BY <1>1, <2>1 DEF Books, PaymentsNumbered, TypeOK, PaymentRows
  <2>3. p \notin NeverCorrected(payment', o)
    BY <2>1, <2>2 DEF NeverCorrected
  <2> QED
    BY <1>4, <2>1, <2>3
<1>9. ASSUME NEW p \in Payments, RejectPayment(p) \/ ReversePayment(p)
      PROVE  AmountOf(payment', NeverCorrected(payment', o)) <= GrandTotal[o]
  <2>1. "REJECTED" \in TransactionStatuses /\ "REVERSED" \in TransactionStatuses
    BY DEF TransactionStatuses
  <2>2. /\ OneRowChanged(payment, payment', p)
        /\ payment'[p].status \in {"REJECTED", "REVERSED"}
    BY <1>1, <1>9, <2>1, AdvancedEffect DEF RejectPayment, ReversePayment
  <2>3. p \notin NeverCorrected(payment', o)
    BY <2>2 DEF NeverCorrected, PaymentsOf, Active
  <2> QED
    BY <1>4, <2>2, <2>3
<1>10. ASSUME NEW p \in Payments, VerifyPayment(p)
       PROVE  AmountOf(payment', NeverCorrected(payment', o)) <= GrandTotal[o]
  <2>1. "VERIFIED" \in TransactionStatuses
    BY DEF TransactionStatuses
  <2>2. /\ OneRowChanged(payment, payment', p)
        /\ payment[p].status = "PENDING_VERIFICATION" /\ payment'[p].status = "VERIFIED"
        /\ payment'[p].order = payment[p].order /\ payment'[p].amount = payment[p].amount
        /\ payment'[p].version = payment[p].version + 1
    BY <1>1, <1>10, <2>1, AdvancedEffect DEF VerifyPayment
  <2>3. payment[p].version \in Nat
    BY <1>1 DEF TypeOK, PaymentRows
  <2>4. p \in NeverCorrected(payment', o) => p \in NeverCorrected(payment, o)
    BY <2>2, <2>3 DEF NeverCorrected, PaymentsOf, Active
  <2> QED
    BY <1>4, <2>2, <2>4
<1>11. CASE UNCHANGED vars
  BY <1>5, <1>11 DEF vars
<1>12. CASE Next
  BY <1>6, <1>7, <1>8, <1>9, <1>10, <1>12, NextSteps
<1> QED
  BY <1>11, <1>12

(* Payments that were never corrected never claim more than the order's total. *)
THEOREM NeverOverclaimed == Spec => []RecordedWithinTotal
<1>1. Init => RecordedWithinTotal
  <2> SUFFICES ASSUME Init, NEW o \in Orders
               PROVE  AmountOf(payment, NeverCorrected(payment, o)) <= GrandTotal[o]
    BY DEF RecordedWithinTotal, NeverCorrected
  <2>1. NeverCorrected(payment, o) = {}
    BY DEF Init, NoPayment, NeverCorrected, PaymentsOf, Active
  <2>2. AmountOf(payment, {}) = 0
    BY SumEmpty DEF AmountOf
  <2> QED
    BY <2>1, <2>2, GrandTotalAssumption
<1>2. Books /\ RecordedWithinTotal /\ [Next]_vars => RecordedWithinTotal'
  BY RecordedStep DEF RecordedWithinTotal, NeverCorrected
<1> QED
  BY <1>1, <1>2, AccountsInOrder, PTL DEF Spec

-----------------------------------------------------------------------------
(* The ledger balances with the payments. *)

(* All that is verified, of orders or of none. *)
VerifiedPayments(rows) == {p \in Payments : rows[p].status = "VERIFIED"}

(* LedgerBalances, of a ledger and payments. *)
Balanced(entries, rows) ==
  PostedIn(entries, "PAYMENT") - PostedIn(entries, "PAYMENT_REVERSAL") =
    AmountOf(rows, VerifiedPayments(rows))

(* An order's charge is no payment. *)
LEMMA ChargeKeepsBalance ==
  ASSUME Books, NEW o \in Orders, ledger' \in {ledger, Charge(ledger, o)}, payment' = payment,
         Balanced(ledger, payment)
  PROVE  Balanced(ledger', payment')
<1>1. CASE ledger' = ledger
  BY <1>1
<1>2. CASE ledger' # ledger
  <2>1. ledger' = Post(ledger, "INVOICE_CHARGE", o, GrandTotal[o]) /\ GrandTotal[o] \in Nat
    BY <1>2, GrandTotalAssumption DEF Charge
  <2>2. \A row \in ledger : ~ (row.type = "INVOICE_CHARGE" /\ row.source = o)
    BY <1>2, <2>1 DEF Post
  <2>3. ledger \subseteq LedgerRows /\ IsFiniteSet(ledger)
    BY DEF Books, TypeOK
  <2>4. /\ PostedIn(ledger', "PAYMENT") = PostedIn(ledger, "PAYMENT") + 0
        /\ PostedIn(ledger', "PAYMENT_REVERSAL") = PostedIn(ledger, "PAYMENT_REVERSAL") + 0
    BY <2>1, <2>2, <2>3, PostedGains
  <2>5. /\ PostedIn(ledger, "PAYMENT") \in Nat /\ PostedIn(ledger, "PAYMENT_REVERSAL") \in Nat
    BY <2>3, PostedType
  <2> QED
    BY <2>4, <2>5 DEF Balanced
<1> QED
  BY <1>1, <1>2

(* A payment that is not verified before or after does not count. *)
LEMMA UnverifiedKeepsBalance ==
  ASSUME Books, NEW p \in Payments, OneRowChanged(payment, payment', p), ledger' = ledger,
         payment[p].status # "VERIFIED", payment'[p].status # "VERIFIED",
         Balanced(ledger, payment)
  PROVE  Balanced(ledger', payment')
<1> DEFINE ps == VerifiedPayments(payment)
           qs == VerifiedPayments(payment')
<1>1. /\ ps \in SUBSET Payments /\ qs \in SUBSET Payments
      /\ ps \ {p} = qs \ {p} /\ p \notin ps /\ p \notin qs
  BY DEF VerifiedPayments, OneRowChanged
<1>2. AmountOf(payment, ps) \in Nat
  BY <1>1, AmountType DEF OneRowChanged
<1> HIDE DEF ps, qs
<1>3. AmountOf(payment', qs) = AmountOf(payment, ps) + 0 - 0
  BY <1>1, AmountMoved
<1> QED
  BY <1>2, <1>3 DEF Balanced, ps, qs

(* A verification credits, a reversal takes back, what the payment is worth. *)
LEMMA PostingKeepsBalance ==
  ASSUME Books, NEW p \in Payments, OneRowChanged(payment, payment', p),
         payment'[p].amount = payment[p].amount, NEW type \in {"PAYMENT", "PAYMENT_REVERSAL"},
         \/ /\ type = "PAYMENT" /\ payment[p].status = "PENDING_VERIFICATION"
            /\ payment'[p].status = "VERIFIED"
         \/ /\ type = "PAYMENT_REVERSAL" /\ payment[p].status = "VERIFIED"
            /\ payment'[p].status = "REVERSED",
         ledger' = Post(ledger, type, p, payment[p].amount),
         Balanced(ledger, payment)
  PROVE  Balanced(ledger', payment')
<1> DEFINE ps == VerifiedPayments(payment)
           qs == VerifiedPayments(payment')
           amount == payment[p].amount
<1>1. /\ ps \in SUBSET Payments /\ qs \in SUBSET Payments /\ ps \ {p} = qs \ {p}
      /\ p \in ps <=> type = "PAYMENT_REVERSAL"
      /\ p \in qs <=> type = "PAYMENT"
  BY DEF VerifiedPayments, OneRowChanged
<1>2. AmountOf(payment, ps) \in Nat /\ amount \in Nat
  BY <1>1, AmountType DEF OneRowChanged, PaymentRows
<1>3. ledger \subseteq LedgerRows /\ IsFiniteSet(ledger)
  BY DEF Books, TypeOK
<1>4. \A row \in ledger : ~ (row.type = type /\ row.source = p)
  BY DEF Books, CreditsFollowPayments
<1> HIDE DEF ps, qs, amount
<1>5. AmountOf(payment', qs) = AmountOf(payment, ps)
        + (IF p \in qs THEN payment'[p].amount ELSE 0) - (IF p \in ps THEN payment[p].amount ELSE 0)
  BY <1>1, AmountMoved
<1>6. \A other : PostedIn(ledger', other) =
        PostedIn(ledger, other) + (IF other = type THEN amount ELSE 0)
  BY <1>2, <1>3, <1>4, PostedGains DEF amount
<1>7. /\ PostedIn(ledger, "PAYMENT") \in Nat /\ PostedIn(ledger, "PAYMENT_REVERSAL") \in Nat
  BY <1>3, PostedType
<1>8. PostedIn(ledger, "PAYMENT") - PostedIn(ledger, "PAYMENT_REVERSAL") = AmountOf(payment, ps)
  BY DEF Balanced, ps
<1>9. payment[p].amount = amount /\ payment'[p].amount = amount
  BY DEF amount
<1>10. PostedIn(ledger', "PAYMENT") - PostedIn(ledger', "PAYMENT_REVERSAL") = AmountOf(payment', qs)
  <2>1. CASE type = "PAYMENT"
    <3>1. AmountOf(payment', qs) = AmountOf(payment, ps) + amount - 0
      BY <1>1, <1>5, <1>9, <2>1
    <3>2. /\ PostedIn(ledger', "PAYMENT") = PostedIn(ledger, "PAYMENT") + amount
          /\ PostedIn(ledger', "PAYMENT_REVERSAL") = PostedIn(ledger, "PAYMENT_REVERSAL") + 0
      BY <1>6, <2>1
    <3> QED
      BY <1>2, <1>7, <1>8, <3>1, <3>2
  <2>2. CASE type = "PAYMENT_REVERSAL"
    <3>1. AmountOf(payment', qs) = AmountOf(payment, ps) + 0 - amount
      BY <1>1, <1>5, <1>9, <2>2
    <3>2. /\ PostedIn(ledger', "PAYMENT") = PostedIn(ledger, "PAYMENT") + 0
          /\ PostedIn(ledger', "PAYMENT_REVERSAL") = PostedIn(ledger, "PAYMENT_REVERSAL") + amount
      BY <1>6, <2>2
    <3> QED
      BY <1>2, <1>7, <1>8, <3>1, <3>2
  <2> QED
    BY <2>1, <2>2
<1> QED
  BY <1>10 DEF Balanced, qs

(* One step. *)
LEMMA BalancedStep ==
  ASSUME Books, Balanced(ledger, payment), [Next]_vars
  PROVE  Balanced(ledger', payment')
<1>1. TypeOK
  BY DEF Books
<1>2. /\ "REJECTED" \in TransactionStatuses /\ "REVERSED" \in TransactionStatuses
      /\ "VERIFIED" \in TransactionStatuses
  BY DEF TransactionStatuses
<1>3. ASSUME NEW o \in Orders, ApproveOrder(o) \/ WithdrawOrder(o) \/ HandleGoods(o)
                                 \/ CompleteDelivery(o) \/ GenerateForOrder(o)
      PROVE  Balanced(ledger', payment')
  <2>1. ledger' \in {ledger, Charge(ledger, o)} /\ payment' = payment
    BY <1>3 DEF ApproveOrder, WithdrawOrder, HandleGoods, CompleteDelivery, GenerateForOrder
  <2> QED
    BY <2>1, ChargeKeepsBalance
<1>4. ASSUME NEW p \in Payments, NEW o \in Orders \cup {Unlinked}, NEW amount \in Amounts,
             NEW instrument \in Instruments, RecordPayment(p, o, amount, instrument)
      PROVE  Balanced(ledger', payment')
  <2>1. /\ OneRowChanged(payment, payment', p)
        /\ payment'[p] = [status |-> "PENDING_VERIFICATION", order |-> o, amount |-> amount,
                          instrument |-> instrument, version |-> 1]
    BY <1>1, <1>4, RecordEffect
  <2>2. payment'[p].status = "PENDING_VERIFICATION"
    BY <2>1
  <2>3. payment[p].status = "NONE" /\ ledger' = ledger
    BY <1>4 DEF RecordPayment
  <2> QED
    BY <2>1, <2>2, <2>3, UnverifiedKeepsBalance
<1>5. ASSUME NEW p \in Payments, NEW amount \in Amounts, NEW instrument \in Instruments,
             CorrectAndResubmit(p, amount, instrument)
      PROVE  Balanced(ledger', payment')
  <2>1. /\ OneRowChanged(payment, payment', p) /\ payment[p].status = "REJECTED"
        /\ payment'[p].status = "PENDING_VERIFICATION"
    BY <1>1, <1>5, CorrectEffect
  <2>2. ledger' = ledger
    BY <1>5 DEF CorrectAndResubmit
  <2> QED
    BY <2>1, <2>2, UnverifiedKeepsBalance
<1>6. ASSUME NEW p \in Payments, RejectPayment(p)
      PROVE  Balanced(ledger', payment')
  <2>1. /\ OneRowChanged(payment, payment', p) /\ payment[p].status = "PENDING_VERIFICATION"
        /\ payment'[p].status = "REJECTED"
    BY <1>1, <1>2, <1>6, AdvancedEffect DEF RejectPayment
  <2>2. ledger' = ledger
    BY <1>6 DEF RejectPayment
  <2> QED
    BY <2>1, <2>2, UnverifiedKeepsBalance
<1>7. ASSUME NEW p \in Payments, VerifyPayment(p)
      PROVE  Balanced(ledger', payment')
  <2>1. /\ OneRowChanged(payment, payment', p) /\ payment[p].status = "PENDING_VERIFICATION"
        /\ payment'[p].status = "VERIFIED" /\ payment'[p].amount = payment[p].amount
    BY <1>1, <1>2, <1>7, AdvancedEffect DEF VerifyPayment
  <2>2. ledger' = Post(ledger, "PAYMENT", p, payment[p].amount)
    BY <1>7 DEF VerifyPayment
  <2> QED
    BY <2>1, <2>2, PostingKeepsBalance
<1>8. ASSUME NEW p \in Payments, ReversePayment(p)
      PROVE  Balanced(ledger', payment')
  <2>1. /\ OneRowChanged(payment, payment', p) /\ payment[p].status = "VERIFIED"
        /\ payment'[p].status = "REVERSED" /\ payment'[p].amount = payment[p].amount
    BY <1>1, <1>2, <1>8, AdvancedEffect DEF ReversePayment
  <2>2. ledger' = Post(ledger, "PAYMENT_REVERSAL", p, payment[p].amount)
    BY <1>8 DEF ReversePayment
  <2> QED
    BY <2>1, <2>2, PostingKeepsBalance
<1>9. CASE UNCHANGED vars
  BY <1>9 DEF vars
<1>10. CASE Next
  BY <1>3, <1>4, <1>5, <1>6, <1>7, <1>8, <1>10, NextSteps
<1> QED
  BY <1>9, <1>10

(* What the ledger credits less what it took back is what stands verified. *)
THEOREM LedgerAlwaysBalances == Spec => []LedgerBalances
<1>1. LedgerBalances <=> Balanced(ledger, payment)
  BY DEF LedgerBalances, Balanced, Posted, PostedIn, VerifiedPayments
<1>2. Init => Balanced(ledger, payment)
  <2> SUFFICES ASSUME Init PROVE Balanced(ledger, payment)
    OBVIOUS
  <2>1. VerifiedPayments(payment) = {} /\ ledger = {}
    BY DEF Init, NoPayment, VerifiedPayments
  <2>2. AmountOf(payment, {}) = 0
    BY SumEmpty DEF AmountOf
  <2>3. \A type : PostedIn({}, type) = 0
    <3> TAKE type
    <3>1. {row \in {} : row.type = type} = {}
      OBVIOUS
    <3> QED
      BY <3>1, SumEmpty DEF PostedIn
  <2> QED
    BY <2>1, <2>2, <2>3 DEF Balanced
<1>3. Books /\ Balanced(ledger, payment) /\ [Next]_vars => Balanced(ledger, payment)'
  BY BalancedStep
<1> QED
  BY <1>1, <1>2, <1>3, AccountsInOrder, PTL DEF Spec

-----------------------------------------------------------------------------
(* Invoices count what was verified. *)

(* A standing invoice counts at least so much as received. *)
Counts(inv, sum) == inv.status \in {"ISSUED", "PAID"} => inv.paid >= sum

(* An invoice written by the services counts what is verified at that moment; a
   voided one asks for nothing. *)
LEMMA WrittenCounts ==
  ASSUME NEW rows \in [Payments -> PaymentRows], NEW inv \in InvoiceRows, NEW o
  PROVE  /\ Counts(Issued(rows, o), Verified(rows, o))
         /\ Counts(Synced(inv, rows, o), Verified(rows, o))
         /\ Counts(Voided(inv), Verified(rows, o))
<1>1. Verified(rows, o) \in Nat
  BY VerifiedType
<1>2. Counts(Issued(rows, o), Verified(rows, o))
  BY <1>1 DEF Counts, Issued
<1>3. Counts(Synced(inv, rows, o), Verified(rows, o))
  BY <1>1 DEF Counts, Synced
<1>4. Counts(Voided(inv), Verified(rows, o))
  BY DEF Counts, Voided, InvoiceRows
<1> QED
  BY <1>2, <1>3, <1>4

(* What one step does to an invoice: one of the services writes it, or it stays
   as it is while what is verified of its order does not grow. *)
LEMMA InvoiceStep ==
  ASSUME Books, [Next]_vars, NEW o \in Orders
  PROVE  \/ invoice'[o] = invoice[o] /\ Verified(payment', o) <= Verified(payment, o)
         \/ invoice'[o] \in {Issued(payment', o), Synced(invoice[o], payment', o),
                             Voided(invoice[o])}
<1> DEFINE Stays == invoice'[o] = invoice[o] /\ Verified(payment', o) <= Verified(payment, o)
           Written == invoice'[o] \in {Issued(payment', o), Synced(invoice[o], payment', o),
                                       Voided(invoice[o])}
<1>1. TypeOK
  BY DEF Books
<1>2. /\ "REJECTED" \in TransactionStatuses /\ "REVERSED" \in TransactionStatuses
      /\ "VERIFIED" \in TransactionStatuses
  BY DEF TransactionStatuses
<1>3. Verified(payment, o) \in Nat
  BY <1>1, VerifiedType DEF TypeOK
<1>4. ASSUME invoice'[o] = invoice[o], Verified(payment', o) = Verified(payment, o)
      PROVE  Stays
  BY <1>3, <1>4
<1>5. ASSUME NEW i \in Orders, ApproveOrder(i) \/ WithdrawOrder(i) \/ HandleGoods(i)
                                 \/ CompleteDelivery(i) \/ GenerateForOrder(i)
      PROVE  Stays \/ Written
  <2>1. payment' = payment
    BY <1>5 DEF ApproveOrder, WithdrawOrder, HandleGoods, CompleteDelivery, GenerateForOrder
  <2>2. \/ invoice'[o] = invoice[o]
        \/ Written
    BY <1>1, <1>5, <2>1 DEF ApproveOrder, WithdrawOrder, HandleGoods, CompleteDelivery,
                            GenerateForOrder, TypeOK
  <2> QED
    BY <1>4, <2>1, <2>2
<1>6. ASSUME NEW p \in Payments, OneRowChanged(payment, payment', p), invoice' = invoice,
             payment'[p].status # "VERIFIED", payment'[p].order = payment[p].order
               \/ payment[p].status # "VERIFIED"
      PROVE  Stays
  <2>1. CASE payment[p].status = "VERIFIED" /\ payment[p].order = o
    <3>1. OneRowChanged(payment', payment, p)
      BY <1>6 DEF OneRowChanged
    <3>2. Verified(payment, o) = Verified(payment', o) + payment[p].amount
      BY <1>6, <2>1, <3>1, VerifiedGains
    <3>3. Verified(payment', o) \in Nat /\ payment[p].amount \in Nat
      BY <1>1, <1>6, VerifiedType DEF OneRowChanged, TypeOK, PaymentRows
    <3> QED
      BY <1>6, <3>2, <3>3
  <2>2. CASE ~ (payment[p].status = "VERIFIED" /\ payment[p].order = o)
    BY <1>4, <1>6, <2>2, VerifiedUntouched
  <2> QED
    BY <2>1, <2>2
<1>7. ASSUME NEW p \in Payments, NEW i \in Orders \cup {Unlinked}, NEW amount \in Amounts,
             NEW instrument \in Instruments, RecordPayment(p, i, amount, instrument)
      PROVE  Stays
  <2>1. /\ OneRowChanged(payment, payment', p)
        /\ payment'[p] = [status |-> "PENDING_VERIFICATION", order |-> i, amount |-> amount,
                          instrument |-> instrument, version |-> 1]
    BY <1>1, <1>7, RecordEffect
  <2>2. payment'[p].status = "PENDING_VERIFICATION"
    BY <2>1
  <2>3. payment[p].status = "NONE" /\ invoice' = invoice
    BY <1>7 DEF RecordPayment
  <2> QED
    BY <1>6, <2>1, <2>2, <2>3
<1>8. ASSUME NEW p \in Payments, NEW amount \in Amounts, NEW instrument \in Instruments,
             CorrectAndResubmit(p, amount, instrument)
      PROVE  Stays
  <2>1. /\ OneRowChanged(payment, payment', p) /\ payment[p].status = "REJECTED"
        /\ payment'[p].status = "PENDING_VERIFICATION"
    BY <1>1, <1>8, CorrectEffect
  <2>2. invoice' = invoice
    BY <1>8 DEF CorrectAndResubmit
  <2> QED
    BY <1>6, <2>1, <2>2
<1>9. ASSUME NEW p \in Payments, RejectPayment(p) \/ ReversePayment(p)
      PROVE  Stays
  <2>1. /\ OneRowChanged(payment, payment', p)
        /\ payment'[p].status \in {"REJECTED", "REVERSED"}
        /\ payment'[p].order = payment[p].order
    BY <1>1, <1>2, <1>9, AdvancedEffect DEF RejectPayment, ReversePayment
  <2>2. invoice' = invoice
    BY <1>9 DEF RejectPayment, ReversePayment
  <2> QED
    BY <1>6, <2>1, <2>2
<1>10. ASSUME NEW p \in Payments, VerifyPayment(p)
       PROVE  Stays \/ Written
  <2>1. /\ OneRowChanged(payment, payment', p) /\ payment[p].status = "PENDING_VERIFICATION"
        /\ payment'[p].status = "VERIFIED" /\ payment'[p].order = payment[p].order
    BY <1>1, <1>2, <1>10, AdvancedEffect DEF VerifyPayment
  <2>2. \/ payment[p].order # Unlinked /\ SettleVerified(payment[p].order)
        \/ payment[p].order = Unlinked /\ UNCHANGED <<lifeVars, invoice>>
    BY <1>10 DEF VerifyPayment
  <2>3. CASE payment[p].order = o
    <3>1. SettleVerified(o)
      BY <2>2, <2>3, NamesAssumption
    <3>2. invoice'[o] = Synced(invoice[o], payment', o)
      BY <1>1, <3>1 DEF SettleVerified, TypeOK
    <3> QED
      BY <3>2
  <2>4. CASE payment[p].order # o
    <3>1. invoice'[o] = invoice[o]
      BY <1>1, <2>2, <2>4 DEF SettleVerified, TypeOK
    <3> QED
      BY <1>4, <2>1, <2>4, <3>1, VerifiedUntouched
  <2> QED
    BY <2>3, <2>4
<1>11. UNCHANGED vars => Stays
  BY <1>4 DEF vars
<1> HIDE DEF Stays, Written
<1>12. Next => Stays \/ Written
  BY <1>5, <1>7, <1>8, <1>9, <1>10, NextSteps
<1> QED
  BY <1>11, <1>12 DEF Stays, Written

(* A standing invoice never asks for money that was verified as received. *)
THEOREM InvoicesNeverOverask == Spec => []InvoiceCountsVerified
<1>1. InvoiceCountsVerified <=> \A o \in Orders : Counts(invoice[o], Verified(payment, o))
  BY DEF InvoiceCountsVerified, Counts
<1>2. Init => \A o \in Orders : Counts(invoice[o], Verified(payment, o))
  <2> SUFFICES ASSUME Init, NEW o \in Orders
               PROVE  Counts(invoice[o], Verified(payment, o))
    OBVIOUS
  <2>1. Verified(payment, o) = 0 /\ invoice[o].paid = 0
    BY NothingVerifiedInit DEF Init
  <2> QED
    BY <2>1 DEF Counts
<1>3. ASSUME Books, Books', \A o \in Orders : Counts(invoice[o], Verified(payment, o)), [Next]_vars
      PROVE  \A o \in Orders : Counts(invoice'[o], Verified(payment', o))
  <2> SUFFICES ASSUME NEW o \in Orders
               PROVE  Counts(invoice'[o], Verified(payment', o))
    OBVIOUS
  <2>1. /\ payment \in [Payments -> PaymentRows] /\ payment' \in [Payments -> PaymentRows]
        /\ invoice[o] \in InvoiceRows
    BY <1>3 DEF Books, TypeOK
  <2>2. /\ Verified(payment, o) \in Nat /\ Verified(payment', o) \in Nat
        /\ invoice[o].paid \in Nat
    BY <2>1, VerifiedType DEF InvoiceRows
  <2>3. CASE invoice'[o] = invoice[o] /\ Verified(payment', o) <= Verified(payment, o)
    BY <1>3, <2>2, <2>3 DEF Counts
  <2>4. CASE invoice'[o] \in {Issued(payment', o), Synced(invoice[o], payment', o),
                              Voided(invoice[o])}
    BY <2>1, <2>4, WrittenCounts
  <2> QED
    BY <1>3, <2>3, <2>4, InvoiceStep
<1>4. Books /\ Books' /\ InvoiceCountsVerified /\ [Next]_vars => InvoiceCountsVerified'
  BY <1>3 DEF InvoiceCountsVerified, Counts
<1> QED
  BY <1>1, <1>2, <1>4, AccountsInOrder, PTL DEF Spec

-----------------------------------------------------------------------------
(* Completion finds the books agreeing. *)

(* What the completion rule has seen when it completes an order. *)
LEMMA CompletesOnlySettled ==
  ASSUME NEW o, NEW paid, NEW all, status[o] # "COMPLETED",
         AfterEvaluation(o, paid, all) = "COMPLETED"
  PROVE  status[o] \in {"APPROVED", "PROCESSING"} /\ paid = "PAID" /\ all
BY DEF AfterEvaluation

(* An order counts as paid at exactly its grand total, and then its invoice,
   when it has a standing one, is paid. *)
LEMMA PaidExactly ==
  ASSUME NEW rows \in [Payments -> PaymentRows], NEW o \in Orders, Reconciled(rows, o) = "PAID",
         NEW inv, inv.status \notin {"NONE", "VOID"}
  PROVE  Verified(rows, o) = GrandTotal[o] /\ Synced(inv, rows, o).status = "PAID"
<1>1. Verified(rows, o) \in Nat /\ GrandTotal[o] \in Nat
  BY VerifiedType, GrandTotalAssumption
<1>2. Verified(rows, o) = GrandTotal[o]
  BY <1>1 DEF Reconciled, StatusOfVerified
<1> QED
  BY <1>1, <1>2 DEF Synced

(* One step that completes an order. *)
LEMMA CompletionStep ==
  ASSUME Books, SettlementFollowsPayments, [Next]_vars, NEW o \in Orders,
         status[o] # "COMPLETED", status'[o] = "COMPLETED"
  PROVE  /\ approved[o]
         /\ \E row \in ledger : row.type = "INVOICE_CHARGE" /\ row.source = o
         /\ invoice'[o].status = "PAID"
         /\ Verified(payment', o) = GrandTotal[o]
<1>1. TypeOK /\ payment \in [Payments -> PaymentRows]
  BY DEF Books, TypeOK
<1>2. ASSUME NEW paid, paid = Reconciled(payment', o), payment' \in [Payments -> PaymentRows],
             status[o] \in {"APPROVED", "PROCESSING"}, paid = "PAID", approved[o],
             invoice'[o] = Synced(invoice[o], payment', o)
      PROVE  /\ approved[o]
             /\ \E row \in ledger : row.type = "INVOICE_CHARGE" /\ row.source = o
             /\ invoice'[o].status = "PAID"
             /\ Verified(payment', o) = GrandTotal[o]
  <2>1. /\ invoice[o].status \notin {"NONE", "VOID"}
        /\ \E row \in ledger : row.type = "INVOICE_CHARGE" /\ row.source = o
    BY <1>2 DEF Books, ApprovedIsCharged
  <2>2. Reconciled(payment', o) = "PAID"
    BY <1>2
  <2>3. /\ Verified(payment', o) = GrandTotal[o]
        /\ Synced(invoice[o], payment', o).status = "PAID"
    BY <1>2, <2>1, <2>2, PaidExactly
  <2> QED
    BY <1>2, <2>1, <2>3
<1>3. ASSUME NEW i \in Orders, CompleteDelivery(i)
      PROVE  /\ approved[o]
             /\ \E row \in ledger : row.type = "INVOICE_CHARGE" /\ row.source = o
             /\ invoice'[o].status = "PAID"
             /\ Verified(payment', o) = GrandTotal[o]
  <2>1. PICK all \in BOOLEAN : Deliver(i, all)
    BY <1>3 DEF CompleteDelivery
  <2>2. /\ i = o /\ approved[o] /\ AfterEvaluation(o, settlement[o], all) = "COMPLETED"
    BY <1>1, <2>1 DEF Deliver, TypeOK, LifeTypeOK
  <2>3. payment' = payment /\ invoice'[o] = Synced(invoice[o], payment', o)
    BY <1>1, <1>3, <2>2 DEF CompleteDelivery, TypeOK
  <2>4. status[o] \in {"APPROVED", "PROCESSING"} /\ settlement[o] = "PAID"
    BY <2>2, CompletesOnlySettled
  <2>5. settlement[o] = Reconciled(payment', o)
    BY <2>3 DEF SettlementFollowsPayments
  <2> QED
    BY <1>1, <1>2, <2>2, <2>3, <2>4, <2>5
<1>4. ASSUME NEW p \in Payments, VerifyPayment(p)
      PROVE  /\ approved[o]
             /\ \E row \in ledger : row.type = "INVOICE_CHARGE" /\ row.source = o
             /\ invoice'[o].status = "PAID"
             /\ Verified(payment', o) = GrandTotal[o]
  <2>1. "VERIFIED" \in TransactionStatuses
    BY DEF TransactionStatuses
  <2>2. payment' \in [Payments -> PaymentRows]
    BY <1>1, <1>4, <2>1, AdvancedEffect DEF VerifyPayment, OneRowChanged
  <2>3. payment[p].order \in Orders \cup {Unlinked}
    BY <1>1 DEF PaymentRows
  <2>4. payment[p].order # Unlinked /\ SettleVerified(payment[p].order)
    BY <1>4 DEF VerifyPayment, lifeVars
  <2>5. payment[p].order = o
    <3>1. status' = [status EXCEPT ![payment[p].order] =
            AfterEvaluation(payment[p].order, Reconciled(payment', payment[p].order),
                            delivered[payment[p].order])]
      BY <2>2, <2>3, <2>4, SettleEffect
    <3> QED
      BY <1>1, <2>3, <2>4, <3>1 DEF TypeOK, LifeTypeOK
  <2>6. /\ status' = [status EXCEPT
             ![o] = AfterEvaluation(o, Reconciled(payment', o), delivered[o])]
        /\ invoice'[o] = Synced(invoice[o], payment', o)
    BY <2>2, <2>4, <2>5, SettleEffect
  <2>7. AfterEvaluation(o, Reconciled(payment', o), delivered[o]) = "COMPLETED"
    BY <1>1, <2>6 DEF TypeOK, LifeTypeOK
  <2>8. /\ status[o] \in {"APPROVED", "PROCESSING"} /\ Reconciled(payment', o) = "PAID"
        /\ delivered[o]
    BY <2>7, CompletesOnlySettled
  <2>9. approved[o]
    BY <2>8 DEF Books, ApprovedIsCharged
  <2> QED
    BY <1>2, <2>2, <2>6, <2>8, <2>9
<1>5. \A i \in Orders : ~ (ApproveOrder(i) \/ WithdrawOrder(i) \/ HandleGoods(i)
                             \/ GenerateForOrder(i))
  BY <1>1 DEF ApproveOrder, WithdrawOrder, HandleGoods, GenerateForOrder, Approve, Reject, Cancel,
              Work, Ship, lifeVars, TypeOK, LifeTypeOK
<1>6. ASSUME NEW p \in Payments
      PROVE  /\ ~ (RejectPayment(p) \/ ReversePayment(p))
             /\ \A i, amount, instrument : ~ RecordPayment(p, i, amount, instrument)
             /\ \A amount, instrument : ~ CorrectAndResubmit(p, amount, instrument)
  BY DEF RejectPayment, ReversePayment, Reconcile, RecordPayment, CorrectAndResubmit, lifeVars
<1>7. ~ UNCHANGED vars
  BY DEF vars, lifeVars
<1>8. Next
  BY <1>7
<1> QED
  BY <1>3, <1>4, <1>5, <1>6, <1>8, NextSteps

(* The step that completes an order finds it approved and charged, its invoice
   paid, and verified payments of exactly the grand total. *)
THEOREM CompletionAlwaysSettled == Spec => CompletionIsSettled
<1>1. Books /\ SettlementFollowsPayments /\ [Next]_vars =>
        [\A o \in Orders : status[o] # "COMPLETED" /\ status'[o] = "COMPLETED" =>
           /\ approved[o]
           /\ \E row \in ledger : row.type = "INVOICE_CHARGE" /\ row.source = o
           /\ invoice'[o].status = "PAID"
           /\ Verified(payment', o) = GrandTotal[o]]_vars
  BY CompletionStep
<1> QED
  BY <1>1, AccountsInOrder, SettlementIsDerived, PTL DEF Spec, CompletionIsSettled

-----------------------------------------------------------------------------
(* Payments move an order only as the abstract steps of OrderLife say. *)

(* More verified, no lower a payment status. *)
LEMMA MorePaidRanksHigher ==
  ASSUME NEW m \in Nat, NEW n \in Nat, m <= n, NEW total \in Nat \ {0}
  PROVE  Rank[StatusOfVerified(m, total)] <= Rank[StatusOfVerified(n, total)]
<1>1. /\ Rank["UNPAID"] = 0 /\ Rank["PARTIALLY_PAID"] = 1 /\ Rank["PAID"] = 2
      /\ Rank["OVERPAID"] = 3
  BY DEF Rank
<1> QED
  BY <1>1 DEF StatusOfVerified

(* A verification is a Raise, which a payment of nothing would not be. *)
LEMMA VerifyRaises ==
  ASSUME Books, SettlementFollowsPayments, NEW p \in Payments, VerifyPayment(p)
  PROVE  \/ \E o \in Orders, s \in PaymentStatuses : Raise(o, s)
         \/ UNCHANGED lifeVars
<1>1. CASE payment[p].order = Unlinked
  BY <1>1 DEF VerifyPayment
<1>2. CASE payment[p].order # Unlinked
  <2> DEFINE o == payment[p].order
             s == Reconciled(payment', o)
  <2>1. TypeOK /\ o \in Orders /\ SettleVerified(o)
    BY <1>2 DEF Books, TypeOK, PaymentRows, VerifyPayment
  <2>2. "VERIFIED" \in TransactionStatuses
    BY DEF TransactionStatuses
  <2>3. /\ OneRowChanged(payment, payment', p) /\ payment[p].status = "PENDING_VERIFICATION"
        /\ payment'[p].status = "VERIFIED" /\ payment'[p].order = o
        /\ payment'[p].amount = payment[p].amount
    BY <2>1, <2>2, AdvancedEffect DEF VerifyPayment
  <2>4. Verified(payment', o) = Verified(payment, o) + payment[p].amount
    BY <2>3, VerifiedGains
  <2>5. Verified(payment, o) \in Nat /\ payment[p].amount \in Nat \ {0}
    BY <2>1, <2>3, VerifiedType, BoundsAssumption
       DEF Books, PaymentsNumbered, TypeOK, Amounts
  <2>6. settlement[o] = Reconciled(payment, o)
    BY <2>1 DEF SettlementFollowsPayments
  <2>7. s # "UNPAID" /\ Rank[s] >= Rank[settlement[o]]
    <3> DEFINE m == Verified(payment, o)
               n == Verified(payment', o)
               total == GrandTotal[o]
    <3>1. m \in Nat /\ n \in Nat /\ m <= n /\ n > 0 /\ total \in Nat \ {0}
      BY <2>1, <2>4, <2>5, GrandTotalAssumption
    <3>2. settlement[o] = StatusOfVerified(m, total) /\ s = StatusOfVerified(n, total)
      BY <2>6 DEF Reconciled
    <3> HIDE DEF m, n, total, s, o
    <3>3. StatusOfVerified(n, total) # "UNPAID"
      BY <3>1 DEF StatusOfVerified
    <3>4. Rank[StatusOfVerified(m, total)] <= Rank[StatusOfVerified(n, total)]
      BY <3>1, MorePaidRanksHigher
    <3>5. \A i, j \in Nat : StatusOfVerified(i, j) \in DOMAIN Rank
      BY DEF StatusOfVerified, Rank
    <3>6. \A x \in DOMAIN Rank : Rank[x] \in Nat
      BY DEF Rank
    <3>7. StatusOfVerified(m, total) \in DOMAIN Rank /\ StatusOfVerified(n, total) \in DOMAIN Rank
      BY <3>1, <3>5
    <3> QED
      BY <3>2, <3>3, <3>4, <3>6, <3>7
  <2>8. Raise(o, s)
    BY <2>1, <2>7 DEF SettleVerified, Raise
  <2>9. s \in PaymentStatuses
    BY ReconciledType
  <2> QED
    BY <2>1, <2>8, <2>9
<1> QED
  BY <1>1, <1>2

(* A reversal or a rejection is a Lower. *)
LEMMA TakingBackLowers ==
  ASSUME Books, SettlementFollowsPayments, NEW p \in Payments,
         RejectPayment(p) \/ ReversePayment(p)
  PROVE  \/ \E o \in Orders, s \in PaymentStatuses : Lower(o, s)
         \/ UNCHANGED lifeVars
<1>1. TypeOK /\ payment[p].order \in Orders \cup {Unlinked} /\ Reconcile(payment[p].order)
  BY DEF Books, TypeOK, PaymentRows, RejectPayment, ReversePayment
<1>2. CASE payment[p].order = Unlinked
  BY <1>1, <1>2 DEF Reconcile
<1>3. CASE payment[p].order # Unlinked
  <2> DEFINE o == payment[p].order
             s == Reconciled(payment', o)
  <2>1. /\ o \in Orders /\ settlement' = [settlement EXCEPT ![o] = s]
        /\ UNCHANGED <<status, approved, delivered>>
    BY <1>1, <1>3 DEF Reconcile
  <2>2. "REJECTED" \in TransactionStatuses /\ "REVERSED" \in TransactionStatuses
    BY DEF TransactionStatuses
  <2>3. /\ OneRowChanged(payment, payment', p) /\ payment'[p].order = o
        /\ payment'[p].status # "VERIFIED"
    BY <1>1, <2>2, AdvancedEffect DEF RejectPayment, ReversePayment
  <2>4. /\ Verified(payment, o) \in Nat /\ Verified(payment', o) \in Nat
        /\ payment[p].amount \in Nat
    BY <1>1, <2>3, VerifiedType DEF OneRowChanged, TypeOK, PaymentRows
  <2>5. Verified(payment', o) <= Verified(payment, o)
    <3>1. CASE payment[p].status = "VERIFIED"
      <4>1. OneRowChanged(payment', payment, p)
        BY <2>3 DEF OneRowChanged
      <4>2. Verified(payment, o) = Verified(payment', o) + payment[p].amount
        BY <2>3, <3>1, <4>1, VerifiedGains
      <4> QED
        BY <2>4, <4>2
    <3>2. CASE payment[p].status # "VERIFIED"
      BY <2>3, <2>4, <3>2, VerifiedUntouched
    <3> QED
      BY <3>1, <3>2
  <2>6. Rank[s] <= Rank[settlement[o]]
    <3>1. settlement[o] = StatusOfVerified(Verified(payment, o), GrandTotal[o])
      BY <2>1 DEF SettlementFollowsPayments, Reconciled
    <3>2. s = StatusOfVerified(Verified(payment', o), GrandTotal[o])
      BY DEF Reconciled
    <3>3. GrandTotal[o] \in Nat \ {0}
      BY <2>1, GrandTotalAssumption
    <3> HIDE DEF o, s
    <3> QED
      BY <2>4, <2>5, <3>1, <3>2, <3>3, MorePaidRanksHigher
  <2>7. Lower(o, s)
    BY <2>1, <2>6 DEF Lower
  <2>8. s \in PaymentStatuses
    BY ReconciledType
  <2> QED
    BY <2>1, <2>7, <2>8
<1> QED
  BY <1>2, <1>3

(* Every step of the accounts is a step of OrderLife or leaves the order alone. *)
LEMMA LifeStep ==
  ASSUME Books, SettlementFollowsPayments, [Next]_vars
  PROVE  [LifeNext]_lifeVars
<1>1. ASSUME NEW o \in Orders, ApproveOrder(o) \/ WithdrawOrder(o) \/ HandleGoods(o)
                                 \/ CompleteDelivery(o) \/ GenerateForOrder(o)
      PROVE  [LifeNext]_lifeVars
  BY <1>1 DEF ApproveOrder, WithdrawOrder, HandleGoods, CompleteDelivery, GenerateForOrder,
              LifeNext
<1>2. ASSUME NEW p \in Payments, VerifyPayment(p) \/ RejectPayment(p) \/ ReversePayment(p)
      PROVE  [LifeNext]_lifeVars
  <2>1. \/ \E o \in Orders, s \in PaymentStatuses : Raise(o, s) \/ Lower(o, s)
        \/ UNCHANGED lifeVars
    BY <1>2, VerifyRaises, TakingBackLowers
  <2> QED
    BY <2>1 DEF LifeNext
<1>3. ASSUME NEW p \in Payments
      PROVE  /\ \A i, amount, instrument :
                  RecordPayment(p, i, amount, instrument) => UNCHANGED lifeVars
             /\ \A amount, instrument :
                  CorrectAndResubmit(p, amount, instrument) => UNCHANGED lifeVars
  BY DEF RecordPayment, CorrectAndResubmit
<1>4. CASE UNCHANGED vars
  BY <1>4 DEF vars
<1>5. CASE Next
  BY <1>1, <1>2, <1>3, <1>5, NextSteps
<1> QED
  BY <1>4, <1>5

(* PaymentSettlement implements OrderLife. *)
THEOREM PaymentsRefineLife == Spec => PaymentsKeepLife
<1>1. Init => LifeInit
  BY DEF Init
<1>2. Books /\ SettlementFollowsPayments /\ [Next]_vars => [LifeNext]_lifeVars
  BY LifeStep
<1> QED
  BY <1>1, <1>2, AccountsInOrder, SettlementIsDerived, PTL DEF Spec, PaymentsKeepLife, LifeSpec
=============================================================================
