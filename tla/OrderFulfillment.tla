-------------------------- MODULE OrderFulfillment --------------------------
(***************************************************************************)
(* The life of submitted orders against the stock of one warehouse: review *)
(* and reservation, picking, packing and dispatch, delivery missions, the  *)
(* settlement of the order's payment status, completion and cancellation.  *)
(*                                                                         *)
(* Every action is one database transaction.  Each locks the order's row   *)
(* first (payments lock the customer's, then the order's) and every row it *)
(* writes, so transactions on the same rows take effect one after another; *)
(* what is left to interleave is the order in which the operators of the   *)
(* warehouse, the drivers, the accountants and the administrators press    *)
(* their buttons.  A transaction that throws changes nothing and is not an *)
(* action.                                                                 *)
(*                                                                         *)
(* An order has at most one line per product and the line exactly one      *)
(* allocation, made on approval; Ordered[o][p] = 0 says order o has no     *)
(* line for p.  Order adjustments, which change a line's quantity and add  *)
(* or release allocations, are not part of this module.                    *)
(***************************************************************************)
EXTENDS StockBalance, OrderStatus, FiniteSets, Functions

CONSTANTS
  Orders,          \* the submitted orders
  Products,        \* the products they order
  Ordered,         \* the quantity of each line
  InitialBalance,  \* the inventory_balances rows before the first approval
  MaxMissions      \* bound: deliveries rows per order

ASSUME OrdersAssumption == IsFiniteSet(Orders)

ASSUME OrderedAssumption ==
  /\ Ordered \in [Orders -> [Products -> Nat]]
  /\ \A o \in Orders : \E p \in Products : Ordered[o][p] > 0

ASSUME InitialBalanceAssumption ==
  /\ InitialBalance \in [Products -> Balance]
  /\ \A p \in Products : SatisfiesChecks(InitialBalance[p])

ASSUME MaxMissionsAssumption == MaxMissions \in Nat \ {0}

VARIABLES
  order,    \* orders: status and the three statuses that follow other parts
  line,     \* order_items: quantity columns
  alloc,    \* order_item_allocations, one row per line, "NONE" before approval
  mission,  \* deliveries with their delivery_items, "NONE" for no row
  balance,  \* inventory_balances
  shipped   \* sum of the DISPATCH rows of inventory_movements

vars == <<order, line, alloc, mission, balance, shipped>>

-----------------------------------------------------------------------------
FulfillmentStatuses ==
  {"UNALLOCATED", "RESERVED", "PICKED", "PACKED", "DISPATCHED", "DELIVERED"}
AllocationStatuses ==
  {"NONE", "ALLOCATED", "RESERVED", "PICKED", "PACKED", "DISPATCHED", "DELIVERED", "CANCELLED"}
DeliveryStatuses ==
  {"PENDING_ASSIGNMENT", "ASSIGNED", "PICKED_UP", "OUT_FOR_DELIVERY",
   "DELIVERED", "FAILED", "RESCHEDULED", "RETURNED_TO_WAREHOUSE"}

(* Allocations a pick, a pack, a dispatch still writes to, and those that an
   assignment still regards as deliverable. *)
Pickable       == {"ALLOCATED", "RESERVED", "PICKED"}
Dispatchable   == Pickable \cup {"PACKED"}
Deliverable    == Dispatchable \cup {"DISPATCHED"}

(* Deliveries an assignment reuses, and the source statuses of the driver's
   transitions. *)
Assignable     == {"PENDING_ASSIGNMENT", "ASSIGNED", "RESCHEDULED", "RETURNED_TO_WAREHOUSE"}
CanBeFailed    == {"ASSIGNED", "PICKED_UP", "OUT_FOR_DELIVERY"}
CanBeRescheduled == {"ASSIGNED", "FAILED"}
CanBeReturned  == {"PICKED_UP", "OUT_FOR_DELIVERY", "FAILED"}

Missions == 1 .. MaxMissions

Lines(o) == {p \in Products : Ordered[o][p] > 0}

(* OrderItem::fulfillableQuantity of a line no adjustment has touched. *)
Fulfillable(o, p) == Ordered[o][p]

NoMission == [status |-> "NONE", deliverable |-> [p \in Products |-> 0]]

ExistingMissions(o) == {m \in Missions : mission[o][m].status # "NONE"}

(* What cancellation, the warehouse and the assignment of drivers ask of the order. *)
OpenUnlessWithdrawn(o) == order[o].status \notin {"CANCELLED", "REJECTED"}  \* mutated
IsOpen(o) == order[o].status \notin Closed

NextMission(o, m) ==
  /\ m \in Missions \ ExistingMissions(o)
  /\ \A k \in Missions : k < m => k \in ExistingMissions(o)

Init ==
  /\ order = [o \in Orders |-> [status |-> "SUBMITTED", fulfillment |-> "UNALLOCATED",
                                delivery |-> "PENDING_ASSIGNMENT", payment |-> "UNPAID"]]
  /\ line = [o \in Orders |-> [p \in Products |->
               [reserved |-> 0, picked |-> 0, dispatched |-> 0, delivered |-> 0]]]
  /\ alloc = [o \in Orders |-> [p \in Products |->
               [status |-> "NONE", allocated |-> 0, reserved |-> 0,
                picked |-> 0, dispatched |-> 0, delivered |-> 0]]]
  /\ mission = [o \in Orders |-> [m \in Missions |-> NoMission]]
  /\ balance = InitialBalance
  /\ shipped = [o \in Orders |-> [p \in Products |-> 0]]

-----------------------------------------------------------------------------
(* Review: OrderWorkflowService. *)

EnoughOnHand(o) ==  \* mutated
  \A p \in Lines(o) : balance[p].onHand >= Fulfillable(o, p)

StockSuffices(o) ==
  \A p \in Lines(o) : balance[p].available >= Fulfillable(o, p)

ApproveOrder(o) ==
  /\ order[o].status \in Reviewable
  /\ order[o].fulfillment = "UNALLOCATED"
  /\ StockSuffices(o)
  /\ balance' = [p \in Products |->
       IF p \in Lines(o) THEN Reserve(balance[p], Fulfillable(o, p)) ELSE balance[p]]
  /\ line' = [line EXCEPT ![o] = [p \in Products |->
       [line[o][p] EXCEPT !.reserved = Fulfillable(o, p)]]]
  /\ alloc' = [alloc EXCEPT ![o] = [p \in Products |->
       IF p \in Lines(o) /\ alloc[o][p].status = "NONE"
       THEN [status |-> "ALLOCATED", allocated |-> Fulfillable(o, p),
             reserved |-> Fulfillable(o, p), picked |-> 0, dispatched |-> 0, delivered |-> 0]
       ELSE alloc[o][p]]]
  /\ order' = [order EXCEPT ![o] = [@ EXCEPT !.status = "APPROVED", !.fulfillment = "RESERVED"]]
  /\ UNCHANGED <<mission, shipped>>

RejectUnlessClosed(o) ==  \* mutated
  /\ IsOpen(o)
  /\ order' = [order EXCEPT ![o].status = "REJECTED"]
  /\ UNCHANGED <<line, alloc, mission, balance, shipped>>

RejectOrder(o) ==
  /\ order[o].status \in Reviewable
  /\ order' = [order EXCEPT ![o].status = "REJECTED"]
  /\ UNCHANGED <<line, alloc, mission, balance, shipped>>

ReleaseBalancesOnly(o) ==  \* mutated
  /\ balance' = [p \in Products |-> Release(balance[p], line[o][p].reserved)]
  /\ UNCHANGED <<line, alloc>>

(* releaseStockForOrder and the allocations it takes back, when the order still
   shows a reservation; the delivery status is left as it is. *)
ReleaseReservation(o) ==
  /\ balance' = [p \in Products |-> Release(balance[p], line[o][p].reserved)]
  /\ line' = [line EXCEPT ![o] = [p \in Products |-> [line[o][p] EXCEPT !.reserved = 0]]]
  /\ alloc' = [alloc EXCEPT ![o] = [p \in Products |->
       IF alloc[o][p].status \in {"ALLOCATED", "RESERVED"}
       THEN [alloc[o][p] EXCEPT !.status = "CANCELLED", !.reserved = 0]
       ELSE alloc[o][p]]]

HoldsReservation(o) ==
  order[o].status = "APPROVED" \/ order[o].fulfillment = "RESERVED"

CancelOrder(o) ==
  /\ IsOpen(o)
  /\ \/ HoldsReservation(o) /\ ReleaseReservation(o)
     \/ ~HoldsReservation(o) /\ UNCHANGED <<balance, line, alloc>>
  /\ order' = [order EXCEPT ![o] = [@ EXCEPT !.status = "CANCELLED", !.fulfillment = "UNALLOCATED"]]
  /\ UNCHANGED <<mission, shipped>>

(* evaluateAndCompleteOrder, called inside the transactions that deliver a
   mission and that verify a payment, on the rows these have just written. *)
RolledUp(lines, allocs) ==
  [p \in Products |->
     IF allocs[p].status = "DELIVERED" /\ allocs[p].delivered > lines[p].delivered
     THEN [lines[p] EXCEPT !.delivered = allocs[p].delivered]
     ELSE lines[p]]

AwaitsGoodsOfApproved(row) ==  \* mutated
  /\ row.status = "APPROVED" /\ row.payment = "PAID"
  /\ row.fulfillment = "DELIVERED" /\ row.delivery = "DELIVERED"

AwaitsOnlyGoods(row) ==
  /\ row.status \in {"APPROVED", "PROCESSING"}
  /\ row.payment = "PAID"
  /\ row.fulfillment = "DELIVERED"
  /\ row.delivery = "DELIVERED"

CompleteAfterAnyLine(o, row, lines, allocs) ==  \* mutated
  /\ line' = [line EXCEPT ![o] = lines]
  /\ order' = [order EXCEPT ![o] =
       IF AwaitsOnlyGoods(row) /\ \E p \in Lines(o) : lines[p].delivered >= Fulfillable(o, p)
       THEN [row EXCEPT !.status = "COMPLETED"] ELSE row]

EvaluateAndComplete(o, row, lines, allocs) ==
  LET evaluated == IF AwaitsOnlyGoods(row) THEN RolledUp(lines, allocs) ELSE lines
      completes == /\ AwaitsOnlyGoods(row)
                   /\ \A p \in Lines(o) : evaluated[p].delivered >= Fulfillable(o, p)
  IN  /\ line' = [line EXCEPT ![o] = evaluated]
      /\ order' = [order EXCEPT ![o] =
                     IF completes THEN [row EXCEPT !.status = "COMPLETED"] ELSE row]

-----------------------------------------------------------------------------
(* The warehouse floor: WarehouseFulfillmentService.  An order is open to it
   unless it is closed; a requested quantity is cut to what is fulfillable. *)

UnclampedPickRequests(o) ==  \* mutated
  [Products -> -1 .. 1]

UncappedPickRequests(o) ==  \* mutated
  [Products -> UNION {0 .. Fulfillable(o, p) + 1 : p \in Products}]

PickRequests(o) ==
  {picked \in [Products -> UNION {0 .. Fulfillable(o, p) : p \in Products}] :
     \A p \in Products : picked[p] <= Fulfillable(o, p)}

PickOrder(o, picked) ==
  /\ IsOpen(o)
  /\ line' = [line EXCEPT ![o] = [p \in Products |-> [line[o][p] EXCEPT !.picked = picked[p]]]]
  /\ alloc' = [alloc EXCEPT ![o] = [p \in Products |->
       IF alloc[o][p].status \in Pickable
       THEN [alloc[o][p] EXCEPT !.picked = picked[p], !.status = "PICKED"]
       ELSE alloc[o][p]]]
  /\ order' = [order EXCEPT ![o] = [@ EXCEPT !.fulfillment = "PICKED", !.status = "PROCESSING"]]
  /\ UNCHANGED <<mission, balance, shipped>>

(* A line nothing was picked of counts as picked in full. *)
PickedOrAll(o, p) == IF line[o][p].picked > 0 THEN line[o][p].picked ELSE Fulfillable(o, p)

PackOrder(o) ==
  /\ IsOpen(o)
  /\ line' = [line EXCEPT ![o] = [p \in Products |->
       [line[o][p] EXCEPT !.picked = PickedOrAll(o, p)]]]
  /\ alloc' = [alloc EXCEPT ![o] = [p \in Products |->
       IF alloc[o][p].status \in Dispatchable
       THEN [alloc[o][p] EXCEPT !.status = "PACKED", !.picked = PickedOrAll(o, p)]
       ELSE alloc[o][p]]]
  /\ order' = [order EXCEPT ![o] = [@ EXCEPT !.fulfillment = "PACKED", !.status = "PROCESSING"]]
  /\ UNCHANGED <<mission, balance, shipped>>

(* The first dispatch creates the mission; a delivery_items row needs the line's
   allocation, so without one the transaction fails.  Any delivery the order
   already has, whatever its status, is taken over unchanged. *)
CreateUnbackedMission(o) ==  \* mutated
  mission' = [mission EXCEPT ![o][1] =
    [status |-> "PENDING_ASSIGNMENT", deliverable |-> [p \in Products |-> PickedOrAll(o, p)]]]

CreatePendingMission(o) ==
  /\ \A p \in Lines(o) : alloc[o][p].status # "NONE"
  /\ mission' = [mission EXCEPT ![o][1] =
       [status |-> "PENDING_ASSIGNMENT",
        deliverable |-> [p \in Products |-> PickedOrAll(o, p)]]]

DispatchOrder(o) ==
  /\ IsOpen(o)
  /\ line' = [line EXCEPT ![o] = [p \in Products |->
       [line[o][p] EXCEPT !.picked = PickedOrAll(o, p), !.dispatched = PickedOrAll(o, p)]]]
  /\ alloc' = [alloc EXCEPT ![o] = [p \in Products |->
       IF alloc[o][p].status \in Dispatchable
       THEN [alloc[o][p] EXCEPT !.status = "DISPATCHED",
                                !.dispatched = PickedOrAll(o, p), !.picked = PickedOrAll(o, p)]
       ELSE alloc[o][p]]]
  /\ \/ ExistingMissions(o) = {} /\ CreatePendingMission(o)
     \/ ExistingMissions(o) # {} /\ UNCHANGED mission
  /\ order' = [order EXCEPT ![o] = [@ EXCEPT !.fulfillment = "DISPATCHED", !.status = "PROCESSING",
                                             !.delivery = "PENDING_ASSIGNMENT"]]
  /\ UNCHANGED <<balance, shipped>>

-----------------------------------------------------------------------------
(* Missions: DeliveryAssignmentService and DeliveryWorkflowService. *)

ActiveAllocations(o) == {p \in Products : alloc[o][p].status \in Deliverable}

AssignableMissions(o) == {m \in Missions : mission[o][m].status \in Assignable}

ReuseMission(o) ==
  \E m \in AssignableMissions(o) : mission' = [mission EXCEPT ![o][m].status = "ASSIGNED"]

CreateAssignedMission(o) ==
  \E m \in Missions :
    /\ NextMission(o, m)
    /\ mission' = [mission EXCEPT ![o][m] =
         [status |-> "ASSIGNED",
          deliverable |-> [p \in Products |->
            IF p \in ActiveAllocations(o) THEN alloc[o][p].allocated ELSE 0]]]

AssignOrder(o) ==
  /\ IsOpen(o)
  /\ ActiveAllocations(o) # {}
  /\ \/ AssignableMissions(o) # {} /\ ReuseMission(o)
     \/ AssignableMissions(o) = {} /\ CreateAssignedMission(o)
  /\ order' = [order EXCEPT ![o].delivery = "ASSIGNED"]
  /\ UNCHANGED <<line, alloc, balance, shipped>>

(* From here on no action looks at the order's own status. *)
ConfirmPickup(o, m) ==
  /\ mission[o][m].status = "ASSIGNED"
  /\ alloc' = [alloc EXCEPT ![o] = [p \in Products |->
       IF alloc[o][p].picked > 0
       THEN [alloc[o][p] EXCEPT !.dispatched = alloc[o][p].picked, !.status = "DISPATCHED"]
       ELSE alloc[o][p]]]
  /\ mission' = [mission EXCEPT ![o][m].status = "PICKED_UP"]
  /\ order' = [order EXCEPT ![o] = [@ EXCEPT !.fulfillment = "DISPATCHED", !.delivery = "PICKED_UP"]]
  /\ UNCHANGED <<line, balance, shipped>>

StartRoute(o, m) ==
  /\ mission[o][m].status = "PICKED_UP"
  /\ mission' = [mission EXCEPT ![o][m].status = "OUT_FOR_DELIVERY"]
  /\ order' = [order EXCEPT ![o].delivery = "OUT_FOR_DELIVERY"]
  /\ UNCHANGED <<line, alloc, balance, shipped>>

(* Rows the delivery writes; PostgreSQL refuses them when more would be delivered
   than was dispatched, or when the balance breaks its CHECKs. *)
DeliveredAllocations(o, m) ==
  [p \in Products |->
     IF mission[o][m].deliverable[p] > 0
     THEN [alloc[o][p] EXCEPT !.delivered = mission[o][m].deliverable[p], !.status = "DELIVERED"]
     ELSE alloc[o][p]]

RelievedBalances(o, m) ==
  [p \in Products |->
     IF mission[o][m].deliverable[p] > 0
     THEN Relieve(balance[p], mission[o][m].deliverable[p])
     ELSE balance[p]]

DeliveryCommits(o, m) ==
  \A p \in Products : mission[o][m].deliverable[p] > 0 =>
    /\ mission[o][m].deliverable[p] <= alloc[o][p].dispatched
    /\ SatisfiesChecks(RelievedBalances(o, m)[p])

CompleteDelivery(o, m) ==
  /\ mission[o][m].status = "OUT_FOR_DELIVERY"
  /\ DeliveryCommits(o, m)
  /\ alloc' = [alloc EXCEPT ![o] = DeliveredAllocations(o, m)]
  /\ balance' = RelievedBalances(o, m)
  /\ shipped' = [shipped EXCEPT ![o] =
       [p \in Products |-> shipped[o][p] + mission[o][m].deliverable[p]]]
  /\ mission' = [mission EXCEPT ![o][m].status = "DELIVERED"]
  /\ EvaluateAndComplete(o,
       [order[o] EXCEPT !.fulfillment = "DELIVERED", !.delivery = "DELIVERED"],
       RolledUp(line[o], DeliveredAllocations(o, m)),
       DeliveredAllocations(o, m))

RecordFailure(o, m) ==
  /\ mission[o][m].status \in CanBeFailed
  /\ mission' = [mission EXCEPT ![o][m].status = "FAILED"]
  /\ order' = [order EXCEPT ![o].delivery = "FAILED"]
  /\ UNCHANGED <<line, alloc, balance, shipped>>

Reschedule(o, m) ==
  /\ mission[o][m].status \in CanBeRescheduled
  /\ mission' = [mission EXCEPT ![o][m].status = "RESCHEDULED"]
  /\ order' = [order EXCEPT ![o].delivery = "RESCHEDULED"]
  /\ UNCHANGED <<line, alloc, balance, shipped>>

(* Resets every allocation of the order; the CHECK delivered <= dispatched refuses
   it once anything of the order was delivered. *)
ReturnToWarehouse(o, m) ==
  /\ mission[o][m].status \in CanBeReturned
  /\ \A p \in Products : alloc[o][p].delivered = 0
  /\ alloc' = [alloc EXCEPT ![o] = [p \in Products |->
       IF alloc[o][p].status # "NONE"
       THEN [alloc[o][p] EXCEPT !.dispatched = 0, !.status = "ALLOCATED"]
       ELSE alloc[o][p]]]
  /\ mission' = [mission EXCEPT ![o][m].status = "RETURNED_TO_WAREHOUSE"]
  /\ order' = [order EXCEPT ![o] = [@ EXCEPT !.fulfillment = "RESERVED", !.delivery = "RETURNED_TO_WAREHOUSE"]]
  /\ UNCHANGED <<line, balance, shipped>>

-----------------------------------------------------------------------------
(* Settlement: PaymentVerificationService and PaymentReversalService recompute  *)
(* the order's payment status from its verified payments.  The payment rows are *)
(* abstracted to the status they add up to: a verification can only raise it, a *)
(* reversal only lower it; only the former evaluates completion.                *)

PaymentVerified(o, s) ==
  /\ s # "UNPAID" /\ Rank[s] >= Rank[order[o].payment]
  /\ EvaluateAndComplete(o, [order[o] EXCEPT !.payment = s], line[o], alloc[o])
  /\ UNCHANGED <<alloc, mission, balance, shipped>>

PaymentReversed(o, s) ==
  /\ order[o].payment # "UNPAID" /\ Rank[s] <= Rank[order[o].payment]
  /\ order' = [order EXCEPT ![o].payment = s]
  /\ UNCHANGED <<line, alloc, mission, balance, shipped>>

-----------------------------------------------------------------------------
OfficeStep(o) ==
  \/ ApproveOrder(o)
  \/ RejectOrder(o)
  \/ CancelOrder(o)
  \/ AssignOrder(o)
  \/ \E s \in PaymentStatuses : PaymentVerified(o, s) \/ PaymentReversed(o, s)

WarehouseStep(o) ==
  \/ \E picked \in PickRequests(o) : PickOrder(o, picked)
  \/ PackOrder(o)
  \/ DispatchOrder(o)

DriverStep(o, m) ==
  \/ ConfirmPickup(o, m)
  \/ StartRoute(o, m)
  \/ CompleteDelivery(o, m)
  \/ RecordFailure(o, m)
  \/ Reschedule(o, m)
  \/ ReturnToWarehouse(o, m)

Next ==
  \E o \in Orders :
    \/ OfficeStep(o)
    \/ WarehouseStep(o)
    \/ \E m \in Missions : DriverStep(o, m)

Spec == Init /\ [][Next]_vars

-----------------------------------------------------------------------------
(* Properties. *)

OrderRows   == [status : OrderStatuses, fulfillment : FulfillmentStatuses,
                delivery : DeliveryStatuses, payment : PaymentStatuses]
LineRows    == [reserved : Nat, picked : Nat, dispatched : Nat, delivered : Nat]
AllocRows   == [status : AllocationStatuses, allocated : Nat, reserved : Nat,
                picked : Nat, dispatched : Nat, delivered : Nat]
MissionRows == [status : DeliveryStatuses \cup {"NONE"}, deliverable : [Products -> Nat]]

(* Every column keeps its type; the quantities are natural numbers, which for
   inventory_balances and the order's rows PostgreSQL would otherwise refuse. *)
TypeOK ==
  /\ order \in [Orders -> OrderRows]
  /\ line \in [Orders -> [Products -> LineRows]]
  /\ alloc \in [Orders -> [Products -> AllocRows]]
  /\ mission \in [Orders -> [Missions -> MissionRows]]
  /\ balance \in [Products -> Balance]
  /\ shipped \in [Orders -> [Products -> Nat]]

(* No service but completeDelivery can run into the CHECKs of
   inventory_balances: what approval, cancellation and delivery write keeps
   reserved plus damaged within what is on hand and the stored available
   figure equal to the rest. *)
BalancesKeepChecks == \A p \in Products : SatisfiesChecks(balance[p])

(* Goods pass through an allocation in order: never more delivered than
   dispatched, dispatched than picked, picked than allocated, allocated than
   ordered, whatever picks, packs, dispatches, pickups and returns do between. *)
AllocationLadder ==
  \A o \in Orders, p \in Products :
    LET a == alloc[o][p]
    IN  /\ a.delivered <= a.dispatched /\ a.dispatched <= a.picked
        /\ a.picked <= a.allocated /\ a.reserved <= a.allocated
        /\ a.allocated <= Fulfillable(o, p)

(* Until an administrator has approved it, and after it was rejected, an order
   holds no stock, no allocation and no mission, although the warehouse's
   actions do not ask whether it was approved. *)
UnapprovedHoldsNothing ==
  \A o \in Orders : order[o].status \in Reviewable \cup {"REJECTED"} =>
    /\ ExistingMissions(o) = {}
    /\ \A p \in Products : alloc[o][p].status = "NONE" /\ line[o][p].reserved = 0

(* A mission carries only lines that were allocated, and no more of each than
   was ordered: missions come from approved orders only. *)
MissionsAreBacked ==
  \A o \in Orders, m \in Missions, p \in Products :
    mission[o][m].deliverable[p] > 0 =>
      /\ alloc[o][p].status # "NONE"
      /\ mission[o][m].deliverable[p] <= alloc[o][p].allocated

(* An order is closed as COMPLETED only when the movement ledger shows that at
   least what was ordered left the warehouse for it, line by line. *)
CompletedWasShipped ==
  \A o \in Orders : order[o].status = "COMPLETED" =>
    \A p \in Products : shipped[o][p] >= Ordered[o][p]

(* As long as no order had more delivered than it holds reserved, reservations
   and stock are conserved: what is reserved of a product is exactly what
   orders hold and have not been delivered, and what has left the shelf is
   exactly what the movement ledger says was delivered. *)
NeverOvershipped == \A o \in Orders, p \in Products : shipped[o][p] <= line[o][p].reserved

HeldOf(p)    == [o \in Orders |-> line[o][p].reserved - shipped[o][p]]
ShippedOf(p) == [o \in Orders |-> shipped[o][p]]

HeldStock(p)    == SumFunctionOnSet(HeldOf(p), Orders)
ShippedStock(p) == SumFunctionOnSet(ShippedOf(p), Orders)

StockConserved ==
  NeverOvershipped =>
    \A p \in Products :
      /\ balance[p].reserved = InitialBalance[p].reserved + HeldStock(p)
      /\ balance[p].onHand = InitialBalance[p].onHand - ShippedStock(p)

(* A closed order stays closed as it is, whichever of the ten writers of the
   status column acts on it later. *)
ClosedStaysClosed ==
  [][\A o \in Orders : order[o].status \in Closed => order'[o].status = order[o].status]_vars

(* A delivered mission is never reassigned, failed, rescheduled or returned, and
   its goods never leave the ledger. *)
DeliveredIsFinal ==
  [][\A o \in Orders :
       /\ \A m \in Missions : mission[o][m].status = "DELIVERED" => mission'[o][m] = mission[o][m]
       /\ \A p \in Products : shipped'[o][p] >= shipped[o][p]]_vars

(* Whichever comes last, the delivery or the verified payment, completes the
   order in the same transaction.  (A reversal may leave an order exactly paid
   that was overpaid before; it does not look at completion.) *)
PaidInFull(o) == order[o].payment = "PAID"

AllGoodsDelivered(o) ==
  /\ order[o].status \notin {"CANCELLED", "REJECTED"}
  /\ order[o].fulfillment = "DELIVERED" /\ order[o].delivery = "DELIVERED"
  /\ \A p \in Products : line[o][p].delivered >= Ordered[o][p]

LastConditionCompletes ==
  [][\A o \in Orders :
       /\ ~(PaidInFull(o) /\ AllGoodsDelivered(o))
       /\ PaidInFull(o)' /\ AllGoodsDelivered(o)'
       /\ order[o].payment # "OVERPAID"
       => order'[o].status = "COMPLETED"]_vars
=============================================================================
