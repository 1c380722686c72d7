-------------------------- MODULE OrderAdjustments --------------------------
(***************************************************************************)
(* The quantity of a submitted order's line is changed by an adjustment:   *)
(* requested, decided by somebody else, applied to the line, its           *)
(* allocations and the stock, and perhaps reversed again.  Meanwhile the   *)
(* order is reviewed, cancelled, picked and packed.  The operators are the *)
(* transactions of the services, each under the order's row lock; one that *)
(* throws changes nothing.  The pages that call them are in                *)
(* AdjustmentDesk.                                                         *)
(*                                                                         *)
(* The order has one line, of unit price 1 and no tax.                     *)
(***************************************************************************)
EXTENDS StockBalance, Sequences, FiniteSets, Functions

CONSTANTS
  Ordered,         \* the line's ordered_quantity
  OnHand,          \* the stock of its product
  MaxChange,       \* bound: the most one request adds or takes away
  MaxAdjustments,  \* bound: adjustment requests
  Staff,           \* administrators
  SuperAdmins      \* exempt from maker-checker

ASSUME AdjustmentsAssumption ==
  /\ Ordered \in Nat \ {0} /\ OnHand \in Nat
  /\ MaxChange \in Nat /\ MaxAdjustments \in Nat
  /\ SuperAdmins \subseteq Staff

VARIABLES
  order,       \* its statuses, version, grand total and adjustment total
  line,        \* the quantity columns of its item
  allocs,      \* the item's allocations, in the order they were made
  balance,     \* the stock of the product
  adjustments  \* the requests, in the order they were made

rows == <<order, line, allocs, balance, adjustments>>

-----------------------------------------------------------------------------
(* The line and its allocations. *)

Active(a) == a.status \notin {"CANCELLED", "RELEASED"}

Untouched(a) == a.status \in {"ALLOCATED", "RESERVED"} /\ a.picked = 0

LiveAllocated(a) == IF Active(a) THEN a.allocated ELSE 0

LiveReserved(a) == IF Active(a) THEN a.reserved ELSE 0

LivePicked(a) == IF Active(a) THEN a.picked ELSE 0

UntouchedPart(a) == IF Untouched(a) THEN a.allocated ELSE 0

AllocatedIn(as) == SumFunction([i \in DOMAIN as |-> LiveAllocated(as[i])])

ReservedIn(as) == SumFunction([i \in DOMAIN as |-> LiveReserved(as[i])])

PickedIn(as) == SumFunction([i \in DOMAIN as |-> as[i].picked])

UntouchedIn(as) == SumFunction([i \in DOMAIN as |-> UntouchedPart(as[i])])

Fulfillable(l) == Max0(Ordered + l.increased - l.cancelled)

Unallocated == Max0(Fulfillable(line) - AllocatedIn(allocs))

\* mutated SyncOrderItemRollups: released rows still count as reserved
SyncAllRollups(l, as) ==
  [l EXCEPT !.reserved = SumFunction([i \in DOMAIN as |-> as[i].allocated]), !.picked = PickedIn(as)]

SyncOrderItemRollups(l, as) == [l EXCEPT !.reserved = ReservedIn(as), !.picked = PickedIn(as)]

(* The end of an application and of a reversal: the line's figures follow
   its allocations, which may not exceed it; PostgreSQL keeps the cancelled
   quantity within the ordered one. *)
Settle(l, as) ==
  /\ AllocatedIn(as) <= Fulfillable(l)
  /\ l.cancelled <= Ordered
  /\ allocs' = as
  /\ line' = SyncOrderItemRollups(l, as)

NewRow(allocated, reserved, notes) ==
  [status |-> "ALLOCATED", allocated |-> allocated, reserved |-> reserved, picked |-> 0, notes |-> notes]

Numbers == DOMAIN adjustments

Increase(n) == Max0(adjustments[n].change)

Reduction(n) == Max0(-adjustments[n].change)

-----------------------------------------------------------------------------
(* Requests and decisions. *)

Adjustable == {"SUBMITTED", "PENDING_APPROVAL", "APPROVED", "PROCESSING"}

MayDecide(u, author) == u # author \/ u \in SuperAdmins

Waiting == {n \in Numbers : adjustments[n].status = "SUBMITTED"}

(* A change of n > 0 is an increase by n, of n < 0 a reduction by -n. *)
CreateRequest(u, change) ==
  /\ Len(adjustments) < MaxAdjustments
  /\ order.status \in Adjustable
  /\ order.adjustment # "REQUESTED" /\ Waiting = {}
  /\ change <= balance.available /\ -change <= Fulfillable(line)
  /\ adjustments' = Append(adjustments,
       [change |-> change, affected |-> Max0(-change - Unallocated), status |-> "SUBMITTED",
        version |-> order.version, by |-> u, reviewer |-> "nobody", at |-> 0])
  /\ order' = [order EXCEPT !.adjustment = "REQUESTED"]
  /\ UNCHANGED <<line, allocs, balance>>

AnyApplied(besides) ==
  \E n \in Numbers \ besides : adjustments[n].status = "APPLIED"

Dismiss(n, status, reviewer) ==
  /\ adjustments[n].status = "SUBMITTED"
  /\ adjustments' = [adjustments EXCEPT ![n].status = status, ![n].reviewer = reviewer]
  /\ order' = [order EXCEPT !.adjustment = IF AnyApplied({}) THEN "APPLIED" ELSE "NONE"]
  /\ UNCHANGED <<line, allocs, balance>>

WithdrawAdjustmentRequest(n) == Dismiss(n, "CANCELLED", "nobody")

RejectAdjustment(u, n) == MayDecide(u, adjustments[n].by) /\ Dismiss(n, "REJECTED", u)

Affected(n) == Max0(Reduction(n) - Unallocated)

Evaluate(n) ==
  LET a == adjustments[n]
      pickedOnActive == SumFunction([i \in DOMAIN allocs |-> LivePicked(allocs[i])])
      unpicked == Max0(AllocatedIn(allocs) - pickedOnActive)
      drifted == a.change < 0 /\ a.affected # Affected(n)
  IN CASE order.status \notin Adjustable -> "INELIGIBLE_LIFECYCLE"
       [] a.status # "SUBMITTED" -> "TERMINAL_REQUEST"
       [] Increase(n) > balance.available \/ Reduction(n) > Fulfillable(line) -> "CONFLICTED"
       [] Affected(n) > unpicked -> "WARNING_PICKED_ENCROACHMENT"
       [] Affected(n) > 0 -> "WARNING_ALLOCATION"
       [] a.version # order.version \/ drifted -> "STALE"
       [] OTHER -> "READY"

(* Nothing but the statuses changes until the request is applied. *)
ApproveAdjustment(u, n, acknowledged) ==
  /\ adjustments[n].status = "SUBMITTED"
  /\ MayDecide(u, adjustments[n].by)
  /\ order.version = adjustments[n].version /\ Cardinality(Waiting) = 1
  /\ Evaluate(n) = "READY" \/ (Evaluate(n) = "WARNING_ALLOCATION" /\ acknowledged)
  /\ adjustments' = [adjustments EXCEPT ![n].status = "APPROVED", ![n].reviewer = u]
  /\ order' = [order EXCEPT !.adjustment = "REQUESTED"]
  /\ UNCHANGED <<line, allocs, balance>>

-----------------------------------------------------------------------------
(* Application and reversal. *)

\* mutated GivingUp: a row that gives up a part keeps its whole reservation
GivingUpUnreserved(a, q, n) ==
  CASE q = 0 -> a
    [] q = a.allocated -> [a EXCEPT !.status = "RELEASED", !.reserved = 0, !.notes = @ \cup {n}]
    [] OTHER -> [a EXCEPT !.allocated = @ - q, !.notes = @ \cup {n}]

GivingUp(a, q, n) ==
  CASE q = 0 -> a
    [] q = a.allocated -> [a EXCEPT !.status = "RELEASED", !.reserved = 0, !.notes = @ \cup {n}]
    [] OTHER -> [a EXCEPT !.allocated = @ - q, !.reserved = @ - Lesser(q, @), !.notes = @ \cup {n}]

(* The youngest untouched rows give way first; a row that gives up a part of
   itself leaves a released row of that part behind. *)
Younger(i) ==
  SumFunctionOnSet([j \in DOMAIN allocs |-> UntouchedPart(allocs[j])], {j \in DOMAIN allocs : j > i})

Gives(i, needed) == Lesser(UntouchedPart(allocs[i]), Max0(needed - Younger(i)))

Split(needed) == {i \in DOMAIN allocs : Gives(i, needed) \in 1..(allocs[i].allocated - 1)}

Part(q, n) == [NewRow(q, 0, {n}) EXCEPT !.status = "RELEASED"]

ReleaseRows(needed, n) ==
  LET left == [i \in DOMAIN allocs |-> GivingUp(allocs[i], Gives(i, needed), n)] IN
  IF Split(needed) = {} THEN left
  ELSE Append(left, Part(Gives(CHOOSE i \in Split(needed) : TRUE, needed), n))

Retotalled(adjusted, status) ==
  [order EXCEPT !.total = Fulfillable(line'), !.adjusted = adjusted, !.adjustment = status,
                !.version = @ + 1]

Needed(n) == Max0(Reduction(n) - Unallocated)

\* mutated MayApply: the status is not read again under the lock
MayApplyAgain(n) ==
  /\ adjustments[n].status \in {"APPROVED", "APPLIED"}
  /\ order.status \in Adjustable
  /\ Increase(n) <= balance.available /\ Reduction(n) <= Fulfillable(line)
  /\ Needed(n) <= UntouchedIn(allocs)

MayApply(n) ==
  /\ adjustments[n].status = "APPROVED"
  /\ order.status \in Adjustable
  /\ Increase(n) <= balance.available /\ Reduction(n) <= Fulfillable(line)
  /\ Needed(n) <= UntouchedIn(allocs)

(* Anybody applies what was approved; a reduction takes its rows from the
   line and leaves the stock reserved. *)
ApplyAdjustment(n) ==
  LET change == adjustments[n].change
      allocates == change > 0 /\ order.status \in {"APPROVED", "PROCESSING"}
  IN /\ MayApply(n)
     /\ Settle([line EXCEPT !.increased = @ + Increase(n), !.cancelled = @ + Reduction(n)],
               IF allocates THEN Append(allocs, NewRow(change, change, {n})) ELSE ReleaseRows(Needed(n), n))
     /\ balance' = IF change > 0 THEN Reserve(balance, change) ELSE balance
     /\ order' = Retotalled(order.adjusted - change, "APPLIED")
     /\ adjustments' = [adjustments EXCEPT ![n].status = "APPLIED", ![n].at = order.version + 1]

\* mutated Latest: applied adjustments are reversed in any order
InAnyOrder(n) == TRUE

Latest(n) ==
  \A m \in Numbers \ {n} : adjustments[m].status = "APPLIED" => adjustments[m].at < adjustments[n].at

(* Rows an increase made, or a reduction wrote its number on, are released. *)
TakenBack(n) ==
  [i \in DOMAIN allocs |->
     IF n \in allocs[i].notes /\ allocs[i].status \in {"ALLOCATED", "RESERVED"}
     THEN [allocs[i] EXCEPT !.status = "RELEASED", !.reserved = 0] ELSE allocs[i]]

(* What a reduction released is allocated again, but not reserved. *)
GivenBack(n) ==
  IF adjustments[n].affected > 0 THEN Append(allocs, NewRow(adjustments[n].affected, 0, {n})) ELSE allocs

ReversibleIncrease(n) ==
  /\ line.increased >= Increase(n)
  /\ Unallocated + UntouchedIn(allocs) >= Increase(n)

ReversibleReduction(n) ==
  LET affected == adjustments[n].affected IN
  /\ line.cancelled >= Reduction(n)
  /\ affected > 0 => AllocatedIn(allocs) + affected <= Fulfillable(line) + Reduction(n)

(* Requests that are still open are not looked at. *)
ReverseAdjustment(u, n) ==
  LET a == adjustments[n]  isIncrease == a.change > 0 IN
  /\ MayDecide(u, a.by)
  /\ a.status = "APPLIED" /\ Latest(n)
  /\ order.status \in {"APPROVED", "PROCESSING"} /\ order.fulfillment # "PACKED"
  /\ IF isIncrease THEN ReversibleIncrease(n) ELSE ReversibleReduction(n)
  /\ Settle([line EXCEPT !.increased = @ - Increase(n), !.cancelled = @ - Reduction(n)],
            IF isIncrease THEN TakenBack(n) ELSE GivenBack(n))
  /\ balance' = IF isIncrease THEN Recomputed([balance EXCEPT !.reserved = Max0(@ - a.change)]) ELSE balance
  /\ order' = Retotalled(Max0(order.adjusted + a.change), IF AnyApplied({n}) THEN "APPLIED" ELSE "REVERSED")
  /\ adjustments' = [adjustments EXCEPT ![n].status = "REVERSED"]

-----------------------------------------------------------------------------
(* What else happens to the order, none of which changes its version. *)

ApproveOrder ==
  LET q == Fulfillable(line) IN
  /\ order.status = "SUBMITTED" /\ order.fulfillment = "UNALLOCATED"
  /\ q > 0 /\ balance.available >= q
  /\ balance' = Reserve(balance, q)
  /\ line' = [line EXCEPT !.reserved = q]
  /\ allocs' = Append(allocs, NewRow(q, q, {}))
  /\ order' = [order EXCEPT !.status = "APPROVED", !.fulfillment = "RESERVED"]
  /\ UNCHANGED adjustments

Cancelled(a) ==
  IF a.status \in {"ALLOCATED", "RESERVED"} THEN [a EXCEPT !.status = "CANCELLED", !.reserved = 0] ELSE a

CancelOrder ==
  LET releases == order.status = "APPROVED" \/ order.fulfillment = "RESERVED" IN
  /\ order.status # "CANCELLED"
  /\ order' = [order EXCEPT !.status = "CANCELLED", !.fulfillment = "UNALLOCATED"]
  /\ IF releases
     THEN /\ balance' = Release(balance, line.reserved)
          /\ line' = [line EXCEPT !.reserved = 0]
          /\ allocs' = [i \in DOMAIN allocs |-> Cancelled(allocs[i])]
     ELSE UNCHANGED <<balance, line, allocs>>
  /\ UNCHANGED adjustments

(* The floor writes the line's figure to every row; PostgreSQL refuses a row
   picked beyond what it allocates. *)
Mark(from, status, q) ==
  /\ \A i \in DOMAIN allocs : allocs[i].status \in from => q <= allocs[i].allocated
  /\ allocs' = [i \in DOMAIN allocs |->
       IF allocs[i].status \in from THEN [allocs[i] EXCEPT !.status = status, !.picked = q] ELSE allocs[i]]
  /\ line' = [line EXCEPT !.picked = q]
  /\ order' = [order EXCEPT !.status = "PROCESSING", !.fulfillment = status]
  /\ UNCHANGED <<balance, adjustments>>

PickOrder(q) ==
  /\ order.status # "CANCELLED"
  /\ Mark({"ALLOCATED", "RESERVED", "PICKED"}, "PICKED", q)

PackOrder ==
  /\ order.status # "CANCELLED"
  /\ Mark({"ALLOCATED", "RESERVED", "PICKED", "PACKED"}, "PACKED",
          IF line.picked > 0 THEN line.picked ELSE Fulfillable(line))

AdjustmentsInit ==
  /\ order = [status |-> "SUBMITTED", fulfillment |-> "UNALLOCATED", adjustment |-> "NONE",
              version |-> 1, total |-> Ordered, adjusted |-> 0]
  /\ line = [increased |-> 0, cancelled |-> 0, reserved |-> 0, picked |-> 0]
  /\ allocs = <<>>
  /\ balance = Recomputed([onHand |-> OnHand, reserved |-> 0, available |-> 0, damaged |-> 0])
  /\ adjustments = <<>>
=============================================================================
