--------------------------- MODULE AdjustmentDesk ---------------------------
(***************************************************************************)
(* Order adjustments as administrators work on them.  The order's page     *)
(* offers to request or to withdraw an adjustment, the review page of a    *)
(* request what its status called for when the page was rendered; the      *)
(* page's evaluation is not made again until it is loaded again.  A        *)
(* refused request changes no row, and the answer to an accepted one may   *)
(* be lost, so a page of any age may still press its button.               *)
(***************************************************************************)
EXTENDS OrderAdjustments

VARIABLE page

vars == <<rows, page>>

(* A page that offers nothing to press is as good as none. *)
Away == [at |-> "away", id |-> 0, offers |-> {}, impact |-> FALSE]

-----------------------------------------------------------------------------
(* Rendering. *)

Page(at, id, offers, impact) ==
  IF offers = {} THEN Away ELSE [at |-> at, id |-> id, offers |-> offers, impact |-> impact]

Undecided == CHOOSE n \in Waiting : TRUE

OrderPage ==
  LET pending == order.adjustment = "REQUESTED" IN
  Page("order", IF pending /\ Waiting # {} THEN Undecided ELSE 0,
       (IF order.status \in Adjustable /\ ~pending THEN {"request"} ELSE {})
         \cup (IF pending /\ Waiting # {} THEN {"withdraw"} ELSE {}),
       FALSE)

Approvable(n) == Evaluate(n) \in {"READY", "WARNING_ALLOCATION"}

InLifecycle(n) == Evaluate(n) # "INELIGIBLE_LIFECYCLE"

ReviewOffers(u, n) ==
  LET a == adjustments[n]  checker == MayDecide(u, a.by) IN
  CASE a.status = "SUBMITTED" /\ checker -> {"reject"} \cup (IF Approvable(n) THEN {"approve"} ELSE {})
    [] a.status = "APPROVED" /\ InLifecycle(n) -> {"apply"}
    [] a.status = "APPLIED" /\ checker /\ InLifecycle(n) -> {"reverse"}
    [] OTHER -> {}

(* The approval modal asks to acknowledge the impact the page shows. *)
ReviewPage(u, n) ==
  LET offers == ReviewOffers(u, n) IN
  Page("review", n, offers, "approve" \in offers /\ Affected(n) > 0)

TurnTo(u, next) ==
  /\ next # page[u]
  /\ page' = [page EXCEPT ![u] = next]
  /\ UNCHANGED rows

OpenOrder(u) == TurnTo(u, OrderPage)

OpenReview(u) == \E n \in Numbers : TurnTo(u, ReviewPage(u, n))

-----------------------------------------------------------------------------
(* Buttons. *)

Offered(u, button) == button \in page[u].offers

(* The answer redirects to the page the button is on; or it is lost. *)
BackTo(u, next) == page' = [page EXCEPT ![u] = next] \/ UNCHANGED page

(* The form clamps a reduction to what the page showed, but its type can be
   switched afterwards: any quantity may be sent.  Each opening of the form
   draws an idempotency key; a replay is answered with the first request. *)
Changes == (-MaxChange..MaxChange) \ {0}

RequestAdjustment(u) ==
  /\ Offered(u, "request")
  /\ \E change \in Changes : CreateRequest(u, change)
  /\ BackTo(u, OrderPage')

Withdraw(u) ==
  /\ Offered(u, "withdraw")
  /\ WithdrawAdjustmentRequest(page[u].id)
  /\ BackTo(u, OrderPage')

ApproveRequest(u, n) == Offered(u, "approve") /\ ApproveAdjustment(u, n, page[u].impact)

RejectRequest(u, n) == Offered(u, "reject") /\ RejectAdjustment(u, n)

ApplyRequest(u, n) == Offered(u, "apply") /\ ApplyAdjustment(n)

ReverseRequest(u, n) == Offered(u, "reverse") /\ ReverseAdjustment(u, n)

Decide(u) ==
  \E n \in {m \in Numbers : m = page[u].id} :
    /\ ApproveRequest(u, n) \/ RejectRequest(u, n) \/ ApplyRequest(u, n) \/ ReverseRequest(u, n)
    /\ BackTo(u, ReviewPage(u, n)')

OrderMoves ==
  /\ \/ ApproveOrder
     \/ CancelOrder
     \/ \E q \in 0..Fulfillable(line) : PickOrder(q)
     \/ PackOrder
  /\ UNCHANGED page

-----------------------------------------------------------------------------

Init == AdjustmentsInit /\ page = [u \in Staff |-> Away]

Next ==
  \/ \E u \in Staff :
       OpenOrder(u) \/ OpenReview(u) \/ RequestAdjustment(u) \/ Withdraw(u) \/ Decide(u)
  \/ OrderMoves

Spec == Init /\ [][Next]_vars

-----------------------------------------------------------------------------
(* Properties. *)

Orders ==
  [status : Adjustable \cup {"CANCELLED"}, fulfillment : {"UNALLOCATED", "RESERVED", "PICKED", "PACKED"},
   adjustment : {"NONE", "REQUESTED", "APPLIED", "REVERSED"}, version : Nat, total : Nat, adjusted : Int]

Lines == [increased : Nat, cancelled : 0..Ordered, reserved : Nat, picked : Nat]

Allocations ==
  [status : {"ALLOCATED", "RESERVED", "PICKED", "PACKED", "CANCELLED", "RELEASED"},
   allocated : Nat \ {0}, reserved : Nat, picked : Nat, notes : SUBSET (1..MaxAdjustments)]

Adjustments ==
  [change : Changes, affected : Nat,
   status : {"SUBMITTED", "APPROVED", "REJECTED", "CANCELLED", "APPLIED", "REVERSED"},
   version : Nat, by : Staff, reviewer : Staff \cup {"nobody"}, at : Nat]

(* Every row and every page has its type and the rows keep the CHECKs of
   their tables. *)
AdjustmentsTypeOK ==
  /\ order \in Orders
  /\ line \in Lines
  /\ allocs \in Seq(Allocations)
  /\ \A i \in DOMAIN allocs : allocs[i].reserved <= allocs[i].allocated /\ allocs[i].picked <= allocs[i].allocated
  /\ balance \in Balance /\ SatisfiesChecks(balance)
  /\ adjustments \in Seq(Adjustments)
  /\ DOMAIN page = Staff
  /\ \A u \in Staff :
       page[u] \in [at : {"away", "order", "review"}, id : 0..MaxAdjustments,
                    offers : SUBSET {"request", "withdraw", "approve", "reject", "apply", "reverse"},
                    impact : BOOLEAN]

Applied == {n \in Numbers : adjustments[n].status = "APPLIED"}

Added == SumFunctionOnSet([n \in Numbers |-> Increase(n)], Applied)

Taken == SumFunctionOnSet([n \in Numbers |-> Reduction(n)], Applied)

(* The line, the order's totals and the allocations agree with the
   adjustments in force, whichever were applied and reversed, in whatever
   state the warehouse found the order: no change is booked twice, lost, or
   left behind by a reversal, and no allocation outgrows the line. *)
LinesMatchApplied ==
  /\ line.increased = Added /\ line.cancelled = Taken
  /\ order.total = Ordered + Added - Taken
  /\ order.adjusted >= Taken - Added
  /\ AllocatedIn(allocs) <= order.total

CountedOn(a) == IF Untouched(a) THEN a.reserved ELSE 0

(* The rolled-up reservation of the line is that of its live allocations,
   and the stock still holds what the rows nobody has picked count on,
   whatever several adjustments, a review and a cancellation reserved and
   released in between. *)
HoldingsAreReserved ==
  /\ line.reserved = ReservedIn(allocs)
  /\ SumFunction([i \in DOMAIN allocs |-> CountedOn(allocs[i])]) <= balance.reserved

(* The desk keeps the promise of AdjustmentStack: one undecided request,
   a second person's agreement, last in first out. *)
StageOf ==
  [SUBMITTED |-> "waiting", APPROVED |-> "agreed", REJECTED |-> "dropped",
   CANCELLED |-> "dropped", APPLIED |-> "done", REVERSED |-> "undone"]

Request(a) ==
  [by |-> a.by, change |-> a.change, stage |-> StageOf[a.status],
   agreedBy |-> IF a.status = "REJECTED" THEN "nobody" ELSE a.reviewer]

(* Applied adjustments in the order they were applied. *)
Rank(n) == Cardinality({m \in Applied : adjustments[m].at <= adjustments[n].at})

Ranked(k) == {n \in Applied : Rank(n) = k}

InForce == [k \in 1..Cardinality(Applied) |-> CHOOSE n \in Ranked(k) : TRUE]

Promise ==
  INSTANCE AdjustmentStack WITH
    Original <- Ordered,
    Exempt   <- SuperAdmins,
    requests <- [n \in Numbers |-> Request(adjustments[n])],
    stack    <- InForce,
    quantity <- Fulfillable(line)

ImplementsStack == Promise!Spec
=============================================================================
