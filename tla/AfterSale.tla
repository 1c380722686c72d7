----------------------------- MODULE AfterSale -----------------------------
(***************************************************************************)
(* Returns, credit notes and refunds as the office works on them: every    *)
(* member of staff looks at one page, rendered when it was last loaded and *)
(* stale ever since, and presses what the page offers.  The server decides *)
(* from its own rows.  A refused request leaves the rows alone and leaves  *)
(* the page as it is or loads it again, which TurnTo covers; the answer to *)
(* an accepted one may be lost, and then the page still offers the same    *)
(* button.                                                                 *)
(***************************************************************************)
EXTENDS CreditRefunds

CONSTANT MaxDocuments   \* bound: return requests and refund requests together

ASSUME AfterSaleAssumption == MaxDocuments \in Nat

VARIABLE page

vars == <<goods, money, page>>

Away == [at |-> "away"]

(* What the server renders: the page of a document shows its row, a form
   what may be returned. *)
NewReturnPage == [at |-> "newReturn", doc |-> [l \in Lines |-> Returnable(l)]]

ReturnPage(r) == [at |-> "return", id |-> r, doc |-> returns[r]]

NotePage(r) == [at |-> "note", id |-> r, doc |-> credits[r]]

RefundPage(f) == [at |-> "refund", id |-> f, doc |-> refunds[f]]

(* A member of staff turns to a page, or loads the one in front of them
   again. *)
TurnTo(u, next) ==
  /\ next # page[u]
  /\ page' = [page EXCEPT ![u] = next]
  /\ UNCHANGED <<goods, money>>

OpenForm(u) == TurnTo(u, NewReturnPage)

OpenReturn(u) == \E r \in Returns : TurnTo(u, ReturnPage(r))

OpenNote(u) == \E r \in {s \in 1..MaxReturns : credits[s] # NoNote} : TurnTo(u, NotePage(r))

OpenRefund(u) == \E f \in Refunds : TurnTo(u, RefundPage(f))

On(u, at) == page[u].at = at

Doc(u) == page[u].doc

Id(u) == page[u].id

(* The answer is the page of the document, or it is lost. *)
Answer(u, next) == page' = [page EXCEPT ![u] = next] \/ UNCHANGED page

-----------------------------------------------------------------------------
(* Returns. *)

MayAsk == Len(returns) + Len(refunds) < MaxDocuments

(* The form asks for a number between 0 and what was returnable when it was
   loaded. *)
Wants(u) == Within(Doc(u))

(* Its button waits for a form object that never posts, and the request has
   no idempotency key: a form whose answer was lost may be sent again. *)
RequestReturn(u) ==
  /\ On(u, "newReturn") /\ MayAsk
  /\ \E want \in Wants(u) : CreateRequest(u, want)
  /\ LET r == Len(returns') IN Answer(u, [at |-> "return", id |-> r, doc |-> returns'[r]])
  /\ UNCHANGED money

Refreshed(u) == [page[u] EXCEPT !.doc = returns'[page[u].id]]

(* The inspection modal starts with everything received. *)
Counts(u) == Within(Doc(u).requested)

Inspect(u) ==
  /\ On(u, "return") /\ Doc(u).status = "REQUESTED"
  /\ \E got \in Counts(u) : RecordInspection(Id(u), got)
  /\ Answer(u, Refreshed(u))
  /\ UNCHANGED money

(* The approval modal starts with everything good and sends only a split
   that adds up to what was received. *)
Splits(u) ==
  {s \in [good : Within(Doc(u).received), damaged : Within(Doc(u).received)] :
     \A l \in Lines : s.good[l] + s.damaged[l] <= Doc(u).received[l]}

Approve(u) ==
  /\ On(u, "return") /\ Doc(u).status = "INSPECTED"
  /\ \E s \in Splits(u) : ApproveReturn(u, Id(u), s.good, s.damaged)
  /\ Answer(u, Refreshed(u))
  /\ UNCHANGED money

Reject(u) ==
  /\ On(u, "return") /\ Doc(u).status \notin Terminal
  /\ RejectReturn(u, Id(u))
  /\ Answer(u, Refreshed(u))
  /\ UNCHANGED money

Cancel(u) ==
  /\ On(u, "return") /\ Doc(u).status = "REQUESTED"
  /\ CancelReturn(Id(u))
  /\ Answer(u, Refreshed(u))
  /\ UNCHANGED money

-----------------------------------------------------------------------------
(* Credit notes and refunds. *)

(* No page issues a credit note: it is a call of the interface. *)
IssueCredit ==
  /\ \E r \in Returns : Generate(r)
  /\ UNCHANGED <<goods, page>>

(* The modal asks for at most the balance the page shows. *)
Amounts(u) == 1..Doc(u).remaining

RequestRefund(u) ==
  /\ On(u, "note") /\ Refundable(Doc(u)) /\ MayAsk
  /\ \E amount \in Amounts(u) : CreateRefund(u, Id(u), amount)
  /\ LET f == Len(refunds') IN Answer(u, [at |-> "refund", id |-> f, doc |-> refunds'[f]])
  /\ UNCHANGED goods

(* What the page offers for each status; only the approval button looks at
   who asks. *)
Offers(doc, u) ==
  CASE doc.status = "REQUESTED"    -> {"review", "reject", "cancel"}
                                        \cup (IF MayDecide(u, doc.by) THEN {"approve"} ELSE {})
    [] doc.status = "UNDER_REVIEW" -> {"reject", "cancel"}
                                        \cup (IF MayDecide(u, doc.by) THEN {"approve"} ELSE {})
    [] doc.status = "APPROVED"     -> {"process", "cancel"}
    [] OTHER                       -> {}

Decide(u) ==
  /\ On(u, "refund")
  /\ LET offered == Offers(Doc(u), u)  f == Id(u) IN
     \/ "review"  \in offered /\ Review(f)
     \/ "approve" \in offered /\ ApproveRefund(u, f)
     \/ "reject"  \in offered /\ RejectRefund(u, f)
     \/ "cancel"  \in offered /\ CancelRefund(f)
     \/ "process" \in offered /\ ProcessRefund(f)
  /\ Answer(u, [page[u] EXCEPT !.doc = refunds'[Id(u)]])
  /\ UNCHANGED goods

-----------------------------------------------------------------------------

Init == ReturnsInit /\ CreditsInit /\ page = [u \in Staff |-> Away]

Next ==
  \/ \E u \in Staff :
       \/ OpenForm(u) \/ OpenReturn(u) \/ OpenNote(u) \/ OpenRefund(u)
       \/ RequestReturn(u) \/ Inspect(u) \/ Approve(u) \/ Reject(u) \/ Cancel(u)
       \/ RequestRefund(u) \/ Decide(u)
  \/ IssueCredit

Spec == Init /\ [][Next]_vars

-----------------------------------------------------------------------------
(* Properties. *)

(* Every row and every page has its type; a page shows a row that was. *)
Pages ==
  {Away} \cup [at : {"newReturn"}, doc : Columns]
    \cup [at : {"return"}, id : 1..MaxReturns, doc : ReturnRows]
    \cup [at : {"note"}, id : 1..MaxReturns, doc : Notes]
    \cup [at : {"refund"}, id : 1..MaxRefunds, doc : RefundRows]

AfterSaleTypeOK ==
  /\ ReturnsTypeOK /\ CreditsTypeOK
  /\ DOMAIN page = Staff
  /\ \A u \in Staff : page[u] \in Pages

(* The whole chain keeps the promise of MoneyBack: refunds within credits
   within the value of accepted goods within what was delivered. *)
Account ==
  INSTANCE MoneyBack WITH
    Deliverable <- Worth([l \in Lines |-> Delivered(l)]),
    back        <- Worth(returned),
    credited    <- Total(posted.credit),
    paidOut     <- Total(posted.refund)

ImplementsMoneyBack == Account!Spec
=============================================================================
