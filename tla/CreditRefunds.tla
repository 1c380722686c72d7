--------------------------- MODULE CreditRefunds ---------------------------
(***************************************************************************)
(* An approved return is credited once; the credit note is paid out by     *)
(* refunds, each requested, perhaps put under review, approved by somebody *)
(* else and processed.  A refund request does not reserve the credit, so   *)
(* approval and processing look at the balance again.                      *)
(***************************************************************************)
EXTENDS CustomerReturns

CONSTANTS
  Price,      \* of a line's product
  MaxRefunds  \* bound: refund requests

ASSUME CreditAssumption ==
  /\ Price \in [Lines -> Nat \ {0}]
  /\ MaxRefunds \in Nat

VARIABLES
  credits,  \* the credit note of a return
  refunds,  \* the refund requests, in the order they were made
  posted    \* what the general ledger holds, by credit note and by refund

money == <<credits, refunds, posted>>

Refunds == DOMAIN refunds

NoNote == [status |-> "NONE"]

Note(status, total, allocated) ==
  [status |-> status, total |-> total, allocated |-> allocated, remaining |-> total - allocated]

Worth(quantities) == Total([l \in Lines |-> Price[l] * quantities[l]])

Value(r) == Worth([l \in Lines |-> Accepted(r, l)])

Refundable(note) ==
  note.status \in {"ISSUED", "PARTIALLY_REFUNDED"} /\ note.remaining > 0

-----------------------------------------------------------------------------
(* Transactions. *)

\* mutated Generate: is_credit_processed is not read
GenerateAgain(r) ==
  /\ returns[r].status = "APPROVED" /\ Value(r) > 0
  /\ credits' = [credits EXCEPT ![r] = Note("ISSUED", Value(r), 0)]
  /\ posted' = [posted EXCEPT !.credit[r] = @ + Value(r)]
  /\ UNCHANGED refunds

(* generateCreditNote: a second call returns the first note. *)
Generate(r) ==
  /\ credits[r] = NoNote
  /\ returns[r].status = "APPROVED" /\ Value(r) > 0
  /\ credits' = [credits EXCEPT ![r] = Note("ISSUED", Value(r), 0)]
  /\ posted' = [posted EXCEPT !.credit[r] = @ + Value(r)]
  /\ UNCHANGED refunds

CreateRefund(u, r, amount) ==
  /\ Len(refunds) < MaxRefunds
  /\ credits[r].status \in {"ISSUED", "PARTIALLY_REFUNDED"}
  /\ amount > 0 /\ amount <= credits[r].remaining
  /\ refunds' = Append(refunds, [status |-> "REQUESTED", note |-> r, amount |-> amount, by |-> u])
  /\ UNCHANGED <<credits, posted>>

MoveTo(f, status) ==
  /\ refunds' = [refunds EXCEPT ![f].status = status]
  /\ UNCHANGED <<credits, posted>>

Undecided == {"REQUESTED", "UNDER_REVIEW"}

Review(f) == refunds[f].status = "REQUESTED" /\ MoveTo(f, "UNDER_REVIEW")

ApproveRefund(u, f) ==
  /\ MayDecide(u, refunds[f].by)
  /\ refunds[f].status \in Undecided
  /\ refunds[f].amount <= credits[refunds[f].note].remaining
  /\ MoveTo(f, "APPROVED")

RejectRefund(u, f) ==
  /\ MayDecide(u, refunds[f].by)
  /\ refunds[f].status \in Undecided
  /\ MoveTo(f, "REJECTED")

CancelRefund(f) == refunds[f].status \in Undecided /\ MoveTo(f, "CANCELLED")

PaidFrom(note, amount) ==
  Note(IF note.allocated + amount = note.total THEN "FULLY_REFUNDED" ELSE "PARTIALLY_REFUNDED",
       note.total, note.allocated + amount)

\* mutated ProcessRefund: the balance seen at approval is trusted
ProcessApproved(f) ==
  LET r == refunds[f].note  amount == refunds[f].amount IN
  /\ refunds[f].status = "APPROVED"
  /\ credits' = [credits EXCEPT ![r] = PaidFrom(@, amount)]
  /\ refunds' = [refunds EXCEPT ![f].status = "PROCESSED"]
  /\ posted' = [posted EXCEPT !.refund[f] = @ + amount]

(* A processed request answers with its transaction and changes nothing. *)
ProcessRefund(f) ==
  LET r == refunds[f].note  amount == refunds[f].amount IN
  /\ refunds[f].status = "APPROVED"
  /\ amount <= credits[r].remaining
  /\ credits' = [credits EXCEPT ![r] = PaidFrom(@, amount)]
  /\ refunds' = [refunds EXCEPT ![f].status = "PROCESSED"]
  /\ posted' = [posted EXCEPT !.refund[f] = @ + amount]

CreditsInit ==
  /\ credits = [r \in 1..MaxReturns |-> NoNote]
  /\ refunds = <<>>
  /\ posted = [credit |-> [r \in 1..MaxReturns |-> 0], refund |-> [f \in 1..MaxRefunds |-> 0]]

-----------------------------------------------------------------------------
(* Properties. *)

Notes ==
  {NoNote} \cup [status : {"ISSUED", "PARTIALLY_REFUNDED", "FULLY_REFUNDED"},
                 total : Nat, allocated : Nat, remaining : Nat]

RefundRows ==
  [status : Undecided \cup {"APPROVED", "PROCESSED", "REJECTED", "CANCELLED"},
   note : 1..MaxReturns, amount : Nat \ {0}, by : Staff]

CreditsTypeOK ==
  /\ credits \in [1..MaxReturns -> Notes]
  /\ refunds \in Seq(RefundRows)
  /\ posted \in [credit : [1..MaxReturns -> Nat], refund : [1..MaxRefunds -> Nat]]

Drawn(r) == [f \in Refunds |-> IF refunds[f].note = r THEN posted.refund[f] ELSE 0]

(* The notes, the refunds and the general ledger agree: a note was posted
   once, for what was accepted; it is drawn down by exactly the refunds that
   were processed and posted, and its status says how far. *)
NotesMatchLedger ==
  /\ \A r \in 1..MaxReturns :
       LET allocated == Total(Drawn(r))
       IN IF credits[r] = NoNote THEN posted.credit[r] = 0 /\ allocated = 0
          ELSE /\ posted.credit[r] = Value(r)
               /\ credits[r] = Note(IF allocated = 0 THEN "ISSUED"
                                    ELSE IF allocated = Value(r) THEN "FULLY_REFUNDED"
                                    ELSE "PARTIALLY_REFUNDED", Value(r), allocated)
  /\ \A f \in Refunds :
       posted.refund[f] = IF refunds[f].status = "PROCESSED" THEN refunds[f].amount ELSE 0
=============================================================================
