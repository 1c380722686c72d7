---------------------- MODULE OrderFulfillment_proofs ----------------------
(***************************************************************************)
(* Theorems about OrderFulfillment, for any finite set of orders, any      *)
(* products, any quantities and any initial stock that satisfies the       *)
(* CHECKs: its types, its safety invariants, its action properties, the    *)
(* conservation of stock, and that it implements OrderLife.                *)
(*                                                                         *)
(* Then the same of StockDesk, for any reports and adjustments: the desk   *)
(* works beside the order flow without breaking it.  It writes balances    *)
(* only, so what is new is that its writes keep the CHECK constraints, and *)
(* that a report's quarantine is reverted once.                            *)
(***************************************************************************)
EXTENDS StockDesk, OrderFulfillmentLife, OperatorLemmas

-----------------------------------------------------------------------------
(* Rows: every write of an action is one of these, of a row of the right type. *)

(* What is ordered, and so what is fulfillable, is a natural number. *)
LEMMA OrderedType ==
  /\ \A o \in Orders, p \in Products : Ordered[o][p] \in Nat
  /\ \A o \in Orders, p \in Products : Fulfillable(o, p) \in Nat
BY OrderedAssumption DEF Fulfillable

(* The rows of one order. *)
LEMMA RowsOf ==
  ASSUME TypeOK, NEW o \in Orders
  PROVE  /\ order[o] \in OrderRows
         /\ line[o] \in [Products -> LineRows]
         /\ alloc[o] \in [Products -> AllocRows]
         /\ mission[o] \in [Missions -> MissionRows]
BY DEF TypeOK

(* The writes to an order's row that the actions make keep its type. *)
LEMMA OrderRowUpdates ==
  ASSUME NEW r \in OrderRows
  PROVE  /\ \A s \in OrderStatuses : [r EXCEPT !.status = s] \in OrderRows
         /\ \A d \in DeliveryStatuses : [r EXCEPT !.delivery = d] \in OrderRows
         /\ \A s \in PaymentStatuses : [r EXCEPT !.payment = s] \in OrderRows
         /\ \A s \in OrderStatuses, f \in FulfillmentStatuses :
              /\ [r EXCEPT !.status = s, !.fulfillment = f] \in OrderRows
              /\ [r EXCEPT !.fulfillment = f, !.status = s] \in OrderRows
         /\ \A f \in FulfillmentStatuses, d \in DeliveryStatuses :
              [r EXCEPT !.fulfillment = f, !.delivery = d] \in OrderRows
         /\ \A f \in FulfillmentStatuses, s \in OrderStatuses, d \in DeliveryStatuses :
              [r EXCEPT !.fulfillment = f, !.status = s, !.delivery = d] \in OrderRows
BY DEF OrderRows

(* The writes to a line's row that the actions make keep its type. *)
LEMMA LineRowUpdates ==
  ASSUME NEW r \in LineRows, NEW n \in Nat
  PROVE  /\ [r EXCEPT !.reserved = n] \in LineRows
         /\ [r EXCEPT !.picked = n] \in LineRows
         /\ [r EXCEPT !.picked = n, !.dispatched = n] \in LineRows
         /\ [r EXCEPT !.delivered = n] \in LineRows
BY DEF LineRows

(* The writes to an allocation's row that the actions make keep its type. *)
LEMMA AllocRowUpdates ==
  ASSUME NEW r \in AllocRows, NEW n \in Nat, NEW s \in AllocationStatuses
  PROVE  /\ [r EXCEPT !.status = s, !.reserved = n] \in AllocRows
         /\ [r EXCEPT !.picked = n, !.status = s] \in AllocRows
         /\ [r EXCEPT !.status = s, !.picked = n] \in AllocRows
         /\ [r EXCEPT !.status = s, !.dispatched = n, !.picked = n] \in AllocRows
         /\ [r EXCEPT !.dispatched = n, !.status = s] \in AllocRows
         /\ [r EXCEPT !.delivered = n, !.status = s] \in AllocRows
BY DEF AllocRows

(* A delivery's row keeps its type when its status changes. *)
LEMMA MissionRowUpdates ==
  ASSUME NEW r \in MissionRows, NEW s \in DeliveryStatuses
  PROVE  [r EXCEPT !.status = s] \in MissionRows
BY DEF MissionRows

(* Writing one delivery keeps the type of the table. *)
LEMMA MissionsUpdates ==
  ASSUME TypeOK, NEW o \in Orders, NEW m \in Missions, NEW r \in MissionRows
  PROVE  [mission EXCEPT ![o][m] = r] \in [Orders -> [Missions -> MissionRows]]
BY DEF TypeOK

(* The quantity packed and dispatched is a natural number. *)
LEMMA PickedOrAllType ==
  ASSUME TypeOK, NEW o \in Orders, NEW p \in Products
  PROVE  PickedOrAll(o, p) \in Nat
BY OrderedType, RowsOf DEF PickedOrAll, LineRows

(* A requested pick is cut to what is fulfillable. *)
LEMMA PickRequestsType ==
  ASSUME NEW o \in Orders, NEW picked \in PickRequests(o), NEW p \in Products
  PROVE  picked[p] \in Nat /\ picked[p] <= Fulfillable(o, p)
BY OrderedType DEF PickRequests

(* The new rows of evaluateAndCompleteOrder. *)
LEMMA RolledUpType ==
  ASSUME NEW lines \in [Products -> LineRows], NEW allocs \in [Products -> AllocRows]
  PROVE  RolledUp(lines, allocs) \in [Products -> LineRows]
BY LineRowUpdates DEF RolledUp, AllocRows

(* evaluateAndCompleteOrder writes rows of orders and lines. *)
LEMMA EvaluateType ==
  ASSUME TypeOK, NEW o \in Orders, NEW row \in OrderRows,
         NEW lines \in [Products -> LineRows], NEW allocs \in [Products -> AllocRows],
         EvaluateAndComplete(o, row, lines, allocs)
  PROVE  /\ order' \in [Orders -> OrderRows]
         /\ line' \in [Orders -> [Products -> LineRows]]
<1>1. [row EXCEPT !.status = "COMPLETED"] \in OrderRows
  BY OrderRowUpdates DEF OrderStatuses
<1>2. RolledUp(lines, allocs) \in [Products -> LineRows]
  BY RolledUpType
<1> QED
  BY <1>1, <1>2 DEF EvaluateAndComplete, TypeOK

-----------------------------------------------------------------------------
(* Type correctness. *)

(* A submitted order's rows have their types. *)
LEMMA InitType == Init => TypeOK
<1> SUFFICES ASSUME Init PROVE TypeOK
  OBVIOUS
<1>1. order \in [Orders -> OrderRows]
  BY DEF Init, OrderRows, OrderStatuses, FulfillmentStatuses, DeliveryStatuses, PaymentStatuses
<1>2. line \in [Orders -> [Products -> LineRows]]
  BY DEF Init, LineRows
<1>3. alloc \in [Orders -> [Products -> AllocRows]]
  BY DEF Init, AllocRows, AllocationStatuses
<1>4. mission \in [Orders -> [Missions -> MissionRows]]
  BY DEF Init, MissionRows, NoMission
<1>5. balance \in [Products -> Balance]
  BY InitialBalanceAssumption DEF Init
<1>6. shipped \in [Orders -> [Products -> Nat]]
  BY DEF Init
<1> QED
  BY <1>1, <1>2, <1>3, <1>4, <1>5, <1>6 DEF TypeOK

(* Approval, rejection and cancellation write rows of their types. *)
LEMMA ReviewType ==
  ASSUME TypeOK, NEW o \in Orders, ApproveOrder(o) \/ RejectOrder(o) \/ CancelOrder(o)
  PROVE  TypeOK'
<1> USE RowsOf
<1>1. order' \in [Orders -> OrderRows]
  <2>1. CASE ApproveOrder(o)
    BY <2>1, OrderRowUpdates DEF ApproveOrder, TypeOK, OrderStatuses, FulfillmentStatuses
  <2>2. CASE RejectOrder(o)
    <3>1. [order[o] EXCEPT !.status = "REJECTED"] \in OrderRows
      BY OrderRowUpdates DEF OrderStatuses
    <3> QED
      BY <2>2, <3>1 DEF RejectOrder, TypeOK
  <2>3. CASE CancelOrder(o)
    BY <2>3, OrderRowUpdates DEF CancelOrder, TypeOK, OrderStatuses, FulfillmentStatuses
  <2> QED
    BY <2>1, <2>2, <2>3
<1>2. CASE ApproveOrder(o)
  <2> DEFINE lines == [p \in Products |-> [line[o][p] EXCEPT !.reserved = Fulfillable(o, p)]]
             allocs == [p \in Products |->
               IF p \in Lines(o) /\ alloc[o][p].status = "NONE"
               THEN [status |-> "ALLOCATED", allocated |-> Fulfillable(o, p),
                     reserved |-> Fulfillable(o, p), picked |-> 0, dispatched |-> 0, delivered |-> 0]
               ELSE alloc[o][p]]
  <2>1. lines \in [Products -> LineRows]
    BY OrderedType, LineRowUpdates
  <2>2. allocs \in [Products -> AllocRows]
    BY OrderedType DEF AllocRows, AllocationStatuses
  <2>3. line' = [line EXCEPT ![o] = lines] /\ alloc' = [alloc EXCEPT ![o] = allocs]
    BY <1>2 DEF ApproveOrder
  <2>4. balance' \in [Products -> Balance]
    BY <1>2, OrderedType, ReserveType DEF ApproveOrder, TypeOK, Lines
  <2> QED
    BY <1>1, <1>2, <2>1, <2>2, <2>3, <2>4 DEF ApproveOrder, TypeOK
<1>3. CASE RejectOrder(o)
  BY <1>1, <1>3 DEF RejectOrder, TypeOK
<1>4. CASE CancelOrder(o) /\ ReleaseReservation(o)
  <2> DEFINE lines == [p \in Products |-> [line[o][p] EXCEPT !.reserved = 0]]
             allocs == [p \in Products |->
               IF alloc[o][p].status \in {"ALLOCATED", "RESERVED"}
               THEN [alloc[o][p] EXCEPT !.status = "CANCELLED", !.reserved = 0]
               ELSE alloc[o][p]]
  <2>1. lines \in [Products -> LineRows]
    BY LineRowUpdates
  <2>2. allocs \in [Products -> AllocRows]
    BY AllocRowUpdates DEF AllocationStatuses
  <2>3. line' = [line EXCEPT ![o] = lines] /\ alloc' = [alloc EXCEPT ![o] = allocs]
    BY <1>4 DEF ReleaseReservation
  <2>4. \A p \in Products : line[o][p].reserved \in Nat
    BY DEF LineRows
  <2>5. balance' \in [Products -> Balance]
    BY <1>4, <2>4, ReleaseType DEF ReleaseReservation, TypeOK
  <2> QED
    BY <1>1, <1>4, <2>1, <2>2, <2>3, <2>5 DEF CancelOrder, TypeOK
<1>5. CASE CancelOrder(o) /\ UNCHANGED <<balance, line, alloc>>
  BY <1>1, <1>5 DEF CancelOrder, TypeOK
<1> QED
  BY <1>2, <1>3, <1>4, <1>5 DEF CancelOrder

(* Picking, packing and dispatch write rows of their types. *)
LEMMA WarehouseType ==
  ASSUME TypeOK, NEW o \in Orders, WarehouseStep(o)
  PROVE  TypeOK'
<1> USE RowsOf
<1>1. order' \in [Orders -> OrderRows]
  <2>1. ASSUME NEW picked \in PickRequests(o), PickOrder(o, picked)
        PROVE  order' \in [Orders -> OrderRows]
    BY <2>1, OrderRowUpdates DEF PickOrder, TypeOK, OrderStatuses, FulfillmentStatuses
  <2>2. CASE PackOrder(o)
    BY <2>2, OrderRowUpdates DEF PackOrder, TypeOK, OrderStatuses, FulfillmentStatuses
  <2>3. CASE DispatchOrder(o)
    <3>1. [order[o] EXCEPT !.fulfillment = "DISPATCHED", !.status = "PROCESSING",
                           !.delivery = "PENDING_ASSIGNMENT"] \in OrderRows
      BY OrderRowUpdates DEF OrderStatuses, FulfillmentStatuses, DeliveryStatuses
    <3> QED
      BY <2>3, <3>1 DEF DispatchOrder, TypeOK
  <2> QED
    BY <2>1, <2>2, <2>3 DEF WarehouseStep
<1>2. ASSUME NEW picked \in PickRequests(o), PickOrder(o, picked) PROVE TypeOK'
  <2> DEFINE lines == [p \in Products |-> [line[o][p] EXCEPT !.picked = picked[p]]]
             allocs == [p \in Products |->
               IF alloc[o][p].status \in Pickable
               THEN [alloc[o][p] EXCEPT !.picked = picked[p], !.status = "PICKED"]
               ELSE alloc[o][p]]
  <2>1. lines \in [Products -> LineRows]
    BY PickRequestsType, LineRowUpdates
  <2>2. allocs \in [Products -> AllocRows]
    BY PickRequestsType, AllocRowUpdates DEF AllocationStatuses
  <2>3. line' = [line EXCEPT ![o] = lines] /\ alloc' = [alloc EXCEPT ![o] = allocs]
    BY <1>2 DEF PickOrder
  <2>4. UNCHANGED <<mission, balance, shipped>>
    BY <1>2 DEF PickOrder
  <2> HIDE DEF lines, allocs
  <2> QED
    BY <1>1, <2>1, <2>2, <2>3, <2>4 DEF TypeOK
<1>3. CASE PackOrder(o)
  <2> DEFINE lines == [p \in Products |-> [line[o][p] EXCEPT !.picked = PickedOrAll(o, p)]]
             allocs == [p \in Products |->
               IF alloc[o][p].status \in Dispatchable
               THEN [alloc[o][p] EXCEPT !.status = "PACKED", !.picked = PickedOrAll(o, p)]
               ELSE alloc[o][p]]
  <2>1. lines \in [Products -> LineRows]
    BY PickedOrAllType, LineRowUpdates
  <2>2. allocs \in [Products -> AllocRows]
    BY PickedOrAllType, AllocRowUpdates DEF AllocationStatuses
  <2>3. line' = [line EXCEPT ![o] = lines] /\ alloc' = [alloc EXCEPT ![o] = allocs]
    BY <1>3 DEF PackOrder
  <2>4. UNCHANGED <<mission, balance, shipped>>
    BY <1>3 DEF PackOrder
  <2> HIDE DEF lines, allocs
  <2> QED
    BY <1>1, <2>1, <2>2, <2>3, <2>4 DEF TypeOK
<1>4. CASE DispatchOrder(o)
  <2> DEFINE lines == [p \in Products |->
               [line[o][p] EXCEPT !.picked = PickedOrAll(o, p), !.dispatched = PickedOrAll(o, p)]]
             allocs == [p \in Products |->
               IF alloc[o][p].status \in Dispatchable
               THEN [alloc[o][p] EXCEPT !.status = "DISPATCHED",
                                        !.dispatched = PickedOrAll(o, p), !.picked = PickedOrAll(o, p)]
               ELSE alloc[o][p]]
  <2>1. lines \in [Products -> LineRows]
    BY PickedOrAllType, LineRowUpdates
  <2>2. allocs \in [Products -> AllocRows]
    BY PickedOrAllType, AllocRowUpdates DEF AllocationStatuses
  <2>3. line' = [line EXCEPT ![o] = lines] /\ alloc' = [alloc EXCEPT ![o] = allocs]
    BY <1>4 DEF DispatchOrder
  <2>4. mission' \in [Orders -> [Missions -> MissionRows]]
    <3> DEFINE new == [status |-> "PENDING_ASSIGNMENT",
                       deliverable |-> [p \in Products |-> PickedOrAll(o, p)]]
    <3>1. 1 \in Missions
      BY MaxMissionsAssumption DEF Missions
    <3>2. new \in MissionRows
      BY PickedOrAllType DEF MissionRows, DeliveryStatuses
    <3>3. mission' = [mission EXCEPT ![o][1] = new] \/ mission' = mission
      BY <1>4 DEF DispatchOrder, CreatePendingMission
    <3> HIDE DEF new
    <3>4. [mission EXCEPT ![o][1] = new] \in [Orders -> [Missions -> MissionRows]]
      BY <3>1, <3>2, MissionsUpdates
    <3> QED
      BY <3>3, <3>4 DEF TypeOK
  <2>5. UNCHANGED <<balance, shipped>>
    BY <1>4 DEF DispatchOrder
  <2> HIDE DEF lines, allocs
  <2> QED
    BY <1>1, <2>1, <2>2, <2>3, <2>4, <2>5 DEF TypeOK
<1> QED
  BY <1>2, <1>3, <1>4 DEF WarehouseStep

(* The assignment of a driver writes rows of their types. *)
LEMMA AssignType ==
  ASSUME TypeOK, NEW o \in Orders, AssignOrder(o)
  PROVE  TypeOK'
<1> USE RowsOf
<1>1. order' \in [Orders -> OrderRows]
  <2>1. [order[o] EXCEPT !.delivery = "ASSIGNED"] \in OrderRows
    BY OrderRowUpdates DEF DeliveryStatuses
  <2> QED
    BY <2>1 DEF AssignOrder, TypeOK
<1>2. CASE ReuseMission(o)
  <2>1. PICK m \in Missions : mission' = [mission EXCEPT ![o][m].status = "ASSIGNED"]
    BY <1>2 DEF ReuseMission, AssignableMissions
  <2>2. [mission[o][m] EXCEPT !.status = "ASSIGNED"] \in MissionRows
    BY MissionRowUpdates DEF DeliveryStatuses
  <2>3. mission' \in [Orders -> [Missions -> MissionRows]]
    BY <2>1, <2>2, MissionsUpdates DEF TypeOK
  <2> QED
    BY <1>1, <2>3 DEF AssignOrder, TypeOK
<1>3. CASE CreateAssignedMission(o)
  <2> DEFINE new == [status |-> "ASSIGNED",
                     deliverable |-> [p \in Products |->
                       IF p \in ActiveAllocations(o) THEN alloc[o][p].allocated ELSE 0]]
  <2>1. PICK m \in Missions : mission' = [mission EXCEPT ![o][m] = new]
    BY <1>3 DEF CreateAssignedMission
  <2>2. new \in MissionRows
    BY DEF MissionRows, DeliveryStatuses, AllocRows
  <2> HIDE DEF new
  <2>3. mission' \in [Orders -> [Missions -> MissionRows]]
    BY <2>1, <2>2, MissionsUpdates
  <2> QED
    BY <1>1, <2>3 DEF AssignOrder, TypeOK
<1> QED
  BY <1>2, <1>3 DEF AssignOrder

(* Settling or reversing a payment writes rows of their types, whether or not it completes the order. *)
LEMMA PaymentType ==
  ASSUME TypeOK, NEW o \in Orders, NEW s \in PaymentStatuses,
         PaymentVerified(o, s) \/ PaymentReversed(o, s)
  PROVE  TypeOK'
<1> DEFINE row == [order[o] EXCEPT !.payment = s]
<1>1. row \in OrderRows
  BY RowsOf, OrderRowUpdates
<1> HIDE DEF row
<1>2. CASE PaymentVerified(o, s)
  <2>1. EvaluateAndComplete(o, row, line[o], alloc[o])
    BY <1>2 DEF PaymentVerified, row
  <2>2. order' \in [Orders -> OrderRows] /\ line' \in [Orders -> [Products -> LineRows]]
    BY <1>1, <2>1, RowsOf, EvaluateType
  <2> QED
    BY <1>2, <2>2 DEF PaymentVerified, TypeOK
<1>3. CASE PaymentReversed(o, s)
  <2>1. order' = [order EXCEPT ![o] = row]
    BY <1>3 DEF PaymentReversed, row
  <2> QED
    BY <1>1, <1>3, <2>1 DEF PaymentReversed, TypeOK
<1> QED
  BY <1>2, <1>3

(* A delivery writes allocations and balances of their types. *)
LEMMA DeliveredRowsType ==
  ASSUME TypeOK, NEW o \in Orders, NEW m \in Missions
  PROVE  /\ DeliveredAllocations(o, m) \in [Products -> AllocRows]
         /\ RelievedBalances(o, m) \in [Products -> Balance]
<1>1. \A p \in Products : mission[o][m].deliverable[p] \in Nat
  BY RowsOf DEF MissionRows
<1>2. DeliveredAllocations(o, m) \in [Products -> AllocRows]
  BY <1>1, RowsOf, AllocRowUpdates DEF DeliveredAllocations, AllocationStatuses
<1>3. RelievedBalances(o, m) \in [Products -> Balance]
  BY <1>1, RelieveType DEF RelievedBalances, TypeOK
<1> QED
  BY <1>2, <1>3

(* A delivery's status may change to any other. *)
LEMMA TransitionType ==
  ASSUME TypeOK, NEW o \in Orders, NEW m \in Missions, NEW s \in DeliveryStatuses,
         mission' = [mission EXCEPT ![o][m].status = s]
  PROVE  mission' \in [Orders -> [Missions -> MissionRows]]
<1>1. [mission[o][m] EXCEPT !.status = s] \in MissionRows
  BY RowsOf, MissionRowUpdates
<1> QED
  BY <1>1, MissionsUpdates DEF TypeOK

(* Every transition of a mission writes rows of their types. *)
LEMMA DriverType ==
  ASSUME TypeOK, NEW o \in Orders, NEW m \in Missions, DriverStep(o, m)
  PROVE  TypeOK'
<1> USE RowsOf
<1>1. CASE ConfirmPickup(o, m)
  <2> DEFINE allocs == [p \in Products |->
               IF alloc[o][p].picked > 0
               THEN [alloc[o][p] EXCEPT !.dispatched = alloc[o][p].picked, !.status = "DISPATCHED"]
               ELSE alloc[o][p]]
  <2>1. \A p \in Products : alloc[o][p].picked \in Nat
    BY DEF AllocRows
  <2>2. allocs \in [Products -> AllocRows]
    BY <2>1, AllocRowUpdates DEF AllocationStatuses
  <2>3. alloc' = [alloc EXCEPT ![o] = allocs]
    BY <1>1 DEF ConfirmPickup
  <2>4. [order[o] EXCEPT !.fulfillment = "DISPATCHED", !.delivery = "PICKED_UP"] \in OrderRows
    BY OrderRowUpdates DEF FulfillmentStatuses, DeliveryStatuses
  <2>5. order' \in [Orders -> OrderRows]
    BY <1>1, <2>4 DEF ConfirmPickup, TypeOK
  <2>6. mission' \in [Orders -> [Missions -> MissionRows]]
    BY <1>1, TransitionType DEF ConfirmPickup, DeliveryStatuses
  <2>7. UNCHANGED <<line, balance, shipped>>
    BY <1>1 DEF ConfirmPickup
  <2> QED
    BY <2>2, <2>3, <2>5, <2>6, <2>7 DEF TypeOK
<1>2. CASE StartRoute(o, m)
  <2>1. [order[o] EXCEPT !.delivery = "OUT_FOR_DELIVERY"] \in OrderRows
    BY OrderRowUpdates DEF DeliveryStatuses
  <2>2. mission' \in [Orders -> [Missions -> MissionRows]]
    BY <1>2, TransitionType DEF StartRoute, DeliveryStatuses
  <2> QED
    BY <1>2, <2>1, <2>2 DEF StartRoute, TypeOK
<1>3. CASE CompleteDelivery(o, m)
  <2> DEFINE row == [order[o] EXCEPT !.fulfillment = "DELIVERED", !.delivery = "DELIVERED"]
             lines == RolledUp(line[o], DeliveredAllocations(o, m))
  <2>1. row \in OrderRows
    BY OrderRowUpdates DEF FulfillmentStatuses, DeliveryStatuses
  <2>2. DeliveredAllocations(o, m) \in [Products -> AllocRows]
    BY DeliveredRowsType
  <2>3. lines \in [Products -> LineRows]
    BY <2>2, RolledUpType
  <2>4. EvaluateAndComplete(o, row, lines, DeliveredAllocations(o, m))
    BY <1>3 DEF CompleteDelivery
  <2> HIDE DEF row, lines
  <2>5. order' \in [Orders -> OrderRows] /\ line' \in [Orders -> [Products -> LineRows]]
    BY <2>1, <2>2, <2>3, <2>4, EvaluateType
  <2>6. alloc' \in [Orders -> [Products -> AllocRows]]
    BY <1>3, <2>2 DEF CompleteDelivery, TypeOK
  <2>7. balance' \in [Products -> Balance]
    BY <1>3, DeliveredRowsType DEF CompleteDelivery
  <2>8. mission' \in [Orders -> [Missions -> MissionRows]]
    BY <1>3, TransitionType DEF CompleteDelivery, DeliveryStatuses
  <2>9. shipped' \in [Orders -> [Products -> Nat]]
    <3> DEFINE sums == [p \in Products |-> shipped[o][p] + mission[o][m].deliverable[p]]
    <3>1. \A p \in Products : shipped[o][p] \in Nat /\ mission[o][m].deliverable[p] \in Nat
      BY DEF TypeOK, MissionRows
    <3>2. sums \in [Products -> Nat]
      BY <3>1
    <3>3. shipped' = [shipped EXCEPT ![o] = sums]
      BY <1>3 DEF CompleteDelivery
    <3> QED
      BY <3>2, <3>3 DEF TypeOK
  <2> QED
    BY <2>5, <2>6, <2>7, <2>8, <2>9 DEF TypeOK
<1>4. CASE RecordFailure(o, m)
  <2>1. [order[o] EXCEPT !.delivery = "FAILED"] \in OrderRows
    BY OrderRowUpdates DEF DeliveryStatuses
  <2>2. mission' \in [Orders -> [Missions -> MissionRows]]
    BY <1>4, TransitionType DEF RecordFailure, DeliveryStatuses
  <2> QED
    BY <1>4, <2>1, <2>2 DEF RecordFailure, TypeOK
<1>5. CASE Reschedule(o, m)
  <2>1. [order[o] EXCEPT !.delivery = "RESCHEDULED"] \in OrderRows
    BY OrderRowUpdates DEF DeliveryStatuses
  <2>2. mission' \in [Orders -> [Missions -> MissionRows]]
    BY <1>5, TransitionType DEF Reschedule, DeliveryStatuses
  <2> QED
    BY <1>5, <2>1, <2>2 DEF Reschedule, TypeOK
<1>6. CASE ReturnToWarehouse(o, m)
  <2> DEFINE allocs == [p \in Products |->
               IF alloc[o][p].status # "NONE"
               THEN [alloc[o][p] EXCEPT !.dispatched = 0, !.status = "ALLOCATED"]
               ELSE alloc[o][p]]
  <2>1. allocs \in [Products -> AllocRows]
    BY AllocRowUpdates DEF AllocationStatuses
  <2>2. alloc' = [alloc EXCEPT ![o] = allocs]
    BY <1>6 DEF ReturnToWarehouse
  <2>3. [order[o] EXCEPT !.fulfillment = "RESERVED", !.delivery = "RETURNED_TO_WAREHOUSE"] \in OrderRows
    BY OrderRowUpdates DEF FulfillmentStatuses, DeliveryStatuses
  <2>4. order' \in [Orders -> OrderRows]
    BY <1>6, <2>3 DEF ReturnToWarehouse, TypeOK
  <2>5. mission' \in [Orders -> [Missions -> MissionRows]]
    BY <1>6, TransitionType DEF ReturnToWarehouse, DeliveryStatuses
  <2>6. UNCHANGED <<line, balance, shipped>>
    BY <1>6 DEF ReturnToWarehouse
  <2> QED
    BY <2>1, <2>2, <2>4, <2>5, <2>6 DEF TypeOK
<1> QED
  BY <1>1, <1>2, <1>3, <1>4, <1>5, <1>6 DEF DriverStep

(* Every column of every row keeps its type, whatever the operators of the
   office, the warehouse and the drivers do in whatever order. *)
THEOREM TypeCorrect == Spec => []TypeOK
<1>1. TypeOK /\ [Next]_vars => TypeOK'
  <2> SUFFICES ASSUME TypeOK, [Next]_vars PROVE TypeOK'
    OBVIOUS
  <2>1. ASSUME NEW o \in Orders, OfficeStep(o) PROVE TypeOK'
    BY <2>1, ReviewType, AssignType, PaymentType DEF OfficeStep
  <2>2. ASSUME NEW o \in Orders, WarehouseStep(o) PROVE TypeOK'
    BY <2>2, WarehouseType
  <2>3. ASSUME NEW o \in Orders, NEW m \in Missions, DriverStep(o, m) PROVE TypeOK'
    BY <2>3, DriverType
  <2>4. CASE UNCHANGED vars
    BY <2>4 DEF vars, TypeOK
  <2> QED
    BY <2>1, <2>2, <2>3, <2>4 DEF Next
<1> QED
  BY <1>1, InitType, PTL DEF Spec

(***************************************************************************)
(* The safety invariants of OrderFulfillment, proved from one inductive    *)
(* invariant.  An action writes the rows of one order and the balances, so *)
(* the invariant is TypeOK, the CHECKs of the balances and, for each order *)
(* on its own, OrderInv.                                                   *)
(***************************************************************************)

-----------------------------------------------------------------------------
(* The inductive invariant. *)

(* An allocation row of a line for n pieces.  It is made for the whole line, and
   as long as it can still be dispatched nothing of it has been. *)
WellFormed(a, n) ==
  /\ a.delivered <= a.dispatched /\ a.dispatched <= a.picked
  /\ a.picked <= a.allocated /\ a.reserved <= a.allocated
  /\ a.status = "NONE" => a.allocated = 0
  /\ a.status # "NONE" => n > 0 /\ a.allocated = n
  /\ a.status \in Dispatchable => a.dispatched = 0

(* What was picked is part of the line, and what lines and allocations say was
   delivered is covered by the movement ledger. *)
RowsInv(o) ==
  \A p \in Products :
    /\ WellFormed(alloc[o][p], Fulfillable(o, p))
    /\ line[o][p].picked <= Fulfillable(o, p)
    /\ alloc[o][p].delivered <= shipped[o][p]
    /\ line[o][p].delivered <= shipped[o][p]

UnapprovedInv(o) ==
  order[o].status \in Reviewable \cup {"REJECTED"} =>
    /\ ExistingMissions(o) = {}
    /\ \A p \in Products : alloc[o][p].status = "NONE" /\ line[o][p].reserved = 0

MissionsInv(o) ==
  \A m \in Missions, p \in Products :
    mission[o][m].deliverable[p] > 0 =>
      /\ alloc[o][p].status # "NONE"
      /\ mission[o][m].deliverable[p] <= Fulfillable(o, p)

CompletedInv(o) ==
  order[o].status = "COMPLETED" => \A p \in Products : shipped[o][p] >= Ordered[o][p]

OrderInv(o) == RowsInv(o) /\ UnapprovedInv(o) /\ MissionsInv(o) /\ CompletedInv(o)

Inv == TypeOK /\ BalancesKeepChecks /\ \A o \in Orders : OrderInv(o)

-----------------------------------------------------------------------------
(* Allocation rows: each write of an action keeps a well-formed row so. *)

(* The allocation approval creates is well formed. *)
LEMMA WellFormedCreated ==
  ASSUME NEW n \in Nat, n > 0
  PROVE  WellFormed([status |-> "ALLOCATED", allocated |-> n, reserved |-> n,
                     picked |-> 0, dispatched |-> 0, delivered |-> 0], n)
BY DEF WellFormed

(* Picking, packing and dispatching keep an allocation well formed. *)
LEMMA WellFormedWarehouse ==
  ASSUME NEW a \in AllocRows, NEW n \in Nat, WellFormed(a, n), NEW k \in Nat, k <= n,
         a.status \in Dispatchable
  PROVE  /\ WellFormed([a EXCEPT !.picked = k, !.status = "PICKED"], n)
         /\ WellFormed([a EXCEPT !.status = "PACKED", !.picked = k], n)
         /\ WellFormed([a EXCEPT !.status = "DISPATCHED", !.dispatched = k, !.picked = k], n)
BY DEF WellFormed, AllocRows, Dispatchable, Pickable

(* Cancellation keeps the allocations it takes back well formed. *)
LEMMA WellFormedCancelled ==
  ASSUME NEW a \in AllocRows, NEW n \in Nat, WellFormed(a, n), a.status \in {"ALLOCATED", "RESERVED"}
  PROVE  WellFormed([a EXCEPT !.status = "CANCELLED", !.reserved = 0], n)
BY DEF WellFormed, AllocRows, Dispatchable, Pickable

(* The driver's pickup keeps a picked allocation well formed. *)
LEMMA WellFormedPickedUp ==
  ASSUME NEW a \in AllocRows, NEW n \in Nat, WellFormed(a, n), a.picked > 0
  PROVE  WellFormed([a EXCEPT !.dispatched = a.picked, !.status = "DISPATCHED"], n)
BY DEF WellFormed, AllocRows, Dispatchable, Pickable

(* Delivering no more than was dispatched keeps an allocation well formed. *)
LEMMA WellFormedDelivered ==
  ASSUME NEW a \in AllocRows, NEW n \in Nat, WellFormed(a, n),
         NEW q \in Nat, q > 0, q <= a.dispatched
  PROVE  WellFormed([a EXCEPT !.delivered = q, !.status = "DELIVERED"], n)
BY DEF WellFormed, AllocRows, Dispatchable, Pickable

(* A return to the warehouse keeps an undelivered allocation well formed. *)
LEMMA WellFormedReturned ==
  ASSUME NEW a \in AllocRows, NEW n \in Nat, WellFormed(a, n), a.delivered = 0, a.status # "NONE"
  PROVE  WellFormed([a EXCEPT !.dispatched = 0, !.status = "ALLOCATED"], n)
BY DEF WellFormed, AllocRows, Dispatchable, Pickable

(* Packing and dispatch never write more than is fulfillable. *)
LEMMA PickedOrAllBound ==
  ASSUME TypeOK, NEW o \in Orders, RowsInv(o), NEW p \in Products
  PROVE  PickedOrAll(o, p) \in Nat /\ PickedOrAll(o, p) <= Fulfillable(o, p)
BY OrderedType, PickedOrAllType DEF RowsInv, PickedOrAll

-----------------------------------------------------------------------------
(* What evaluateAndCompleteOrder writes. *)

(* The roll-up changes delivered quantities only, to those of the allocation. *)
LEMMA RolledUpEffect ==
  ASSUME NEW lines \in [Products -> LineRows], NEW allocs \in [Products -> AllocRows],
         NEW p \in Products
  PROVE  /\ RolledUp(lines, allocs)[p].picked = lines[p].picked
         /\ RolledUp(lines, allocs)[p].reserved = lines[p].reserved
         /\ RolledUp(lines, allocs)[p].delivered \in {lines[p].delivered, allocs[p].delivered}
BY DEF RolledUp, LineRows

(* It completes an order only with every line delivered in full. *)
LEMMA EvaluateEffect ==
  ASSUME TypeOK, NEW o \in Orders, NEW row \in OrderRows,
         NEW lines \in [Products -> LineRows], NEW allocs \in [Products -> AllocRows],
         EvaluateAndComplete(o, row, lines, allocs)
  PROVE  /\ order'[o].status \in {row.status, "COMPLETED"}
         /\ \A p \in Products :
              /\ line'[o][p].picked = lines[p].picked
              /\ line'[o][p].reserved = lines[p].reserved
              /\ line'[o][p].delivered \in {lines[p].delivered, allocs[p].delivered}
         /\ order'[o].status = "COMPLETED" =>
              \/ row.status = "COMPLETED"
              \/ \A p \in Products : line'[o][p].delivered >= Ordered[o][p]
<1> DEFINE evaluated == IF AwaitsOnlyGoods(row) THEN RolledUp(lines, allocs) ELSE lines
           completes == /\ AwaitsOnlyGoods(row)
                        /\ \A p \in Lines(o) : evaluated[p].delivered >= Fulfillable(o, p)
<1>1. evaluated \in [Products -> LineRows]
  BY RolledUpType
<1>2. line'[o] = evaluated
  BY DEF EvaluateAndComplete, TypeOK
<1>3. order'[o] = IF completes THEN [row EXCEPT !.status = "COMPLETED"] ELSE row
  BY DEF EvaluateAndComplete, TypeOK
<1>4. order'[o].status = IF completes THEN "COMPLETED" ELSE row.status
  BY <1>3 DEF OrderRows
<1>5. \A p \in Products :
        /\ evaluated[p].picked = lines[p].picked
        /\ evaluated[p].reserved = lines[p].reserved
        /\ evaluated[p].delivered \in {lines[p].delivered, allocs[p].delivered}
  BY RolledUpEffect
<1>6. completes => \A p \in Products : evaluated[p].delivered >= Ordered[o][p]
  <2> HAVE completes
  <2>1. TAKE p \in Products
  <2>2. evaluated[p].delivered \in Nat
    BY <1>1 DEF LineRows
  <2>3. CASE p \in Lines(o)
    BY <2>3 DEF Fulfillable
  <2>4. CASE p \notin Lines(o)
    BY <2>2, <2>4, OrderedType DEF Lines
  <2> QED
    BY <2>3, <2>4
<1> QED
  BY <1>2, <1>4, <1>5, <1>6

-----------------------------------------------------------------------------
(* The other orders' rows. *)

(* A transaction on one order leaves the rows of every other as they are. *)
LEMMA OthersUntouched ==
  ASSUME TypeOK, NEW o \in Orders, NEW q \in Orders, q # o,
         \/ OfficeStep(o) \/ WarehouseStep(o) \/ \E m \in Missions : DriverStep(o, m)
  PROVE  /\ order'[q] = order[q] /\ line'[q] = line[q] /\ alloc'[q] = alloc[q]
         /\ mission'[q] = mission[q] /\ shipped'[q] = shipped[q]
<1>1. CASE OfficeStep(o)
  <2>1. CASE ApproveOrder(o) \/ RejectOrder(o)
    BY <2>1 DEF TypeOK, ApproveOrder, RejectOrder
  <2>2. CASE CancelOrder(o)
    BY <2>2 DEF TypeOK, CancelOrder, ReleaseReservation
  <2>3. CASE AssignOrder(o)
    BY <2>3 DEF TypeOK, AssignOrder, ReuseMission, CreateAssignedMission, AssignableMissions
  <2>4. CASE \E s \in PaymentStatuses : PaymentVerified(o, s) \/ PaymentReversed(o, s)
    BY <2>4 DEF TypeOK, PaymentVerified, PaymentReversed, EvaluateAndComplete
  <2> QED
    BY <1>1, <2>1, <2>2, <2>3, <2>4 DEF OfficeStep
<1>2. CASE WarehouseStep(o)
  <2>1. CASE \E picked \in PickRequests(o) : PickOrder(o, picked)
    BY <2>1 DEF TypeOK, PickOrder
  <2>2. CASE PackOrder(o)
    BY <2>2 DEF TypeOK, PackOrder
  <2>3. CASE DispatchOrder(o)
    BY <2>3 DEF TypeOK, DispatchOrder, CreatePendingMission
  <2> QED
    BY <1>2, <2>1, <2>2, <2>3 DEF WarehouseStep
<1>3. ASSUME NEW m \in Missions, DriverStep(o, m)
      PROVE  /\ order'[q] = order[q] /\ line'[q] = line[q] /\ alloc'[q] = alloc[q]
             /\ mission'[q] = mission[q] /\ shipped'[q] = shipped[q]
  <2>1. CASE CompleteDelivery(o, m)
    BY <2>1 DEF TypeOK, CompleteDelivery, EvaluateAndComplete
  <2>2. CASE ConfirmPickup(o, m) \/ ReturnToWarehouse(o, m)
    BY <2>2 DEF TypeOK, ConfirmPickup, ReturnToWarehouse
  <2>3. CASE StartRoute(o, m) \/ RecordFailure(o, m) \/ Reschedule(o, m)
    BY <2>3 DEF TypeOK, StartRoute, RecordFailure, Reschedule
  <2> QED
    BY <1>3, <2>1, <2>2, <2>3 DEF DriverStep
<1> QED
  BY <1>1, <1>2, <1>3

(* An order whose rows are unchanged keeps its part of the invariant. *)
LEMMA OthersKeepInv ==
  ASSUME NEW q \in Orders, OrderInv(q),
         order'[q] = order[q], line'[q] = line[q], alloc'[q] = alloc[q],
         mission'[q] = mission[q], shipped'[q] = shipped[q]
  PROVE  OrderInv(q)'
BY DEF OrderInv, RowsInv, UnapprovedInv, MissionsInv, CompletedInv, ExistingMissions,
       WellFormed, Fulfillable

-----------------------------------------------------------------------------
(* The acting order's own rows: facts used for several actions. *)

(* Missions stay backed as long as no allocation disappears. *)
LEMMA MissionsStayBacked ==
  ASSUME NEW o \in Orders, MissionsInv(o),
         \A m \in Missions : mission'[o][m].deliverable = mission[o][m].deliverable,
         \A p \in Products : alloc[o][p].status # "NONE" => alloc'[o][p].status # "NONE"
  PROVE  MissionsInv(o)'
BY DEF MissionsInv, Fulfillable

(* An order that is not unapproved after the step has nothing to show. *)
LEMMA ApprovedMayHold ==
  ASSUME NEW o \in Orders, order'[o].status \notin Reviewable \cup {"REJECTED"}
  PROVE  UnapprovedInv(o)'
BY DEF UnapprovedInv, Reviewable

(* Only an order past its review, and not rejected, has a delivery. *)
LEMMA MissionMeansApproved ==
  ASSUME NEW o \in Orders, UnapprovedInv(o), NEW m \in Missions, mission[o][m].status # "NONE"
  PROVE  order[o].status \notin Reviewable \cup {"REJECTED"}
BY DEF UnapprovedInv, ExistingMissions

(* An order that is not completed owes no shipment. *)
LEMMA NotCompleted ==
  ASSUME NEW o \in Orders, order'[o].status # "COMPLETED"
  PROVE  CompletedInv(o)'
BY DEF CompletedInv

(* A completed order stays shipped while neither its ledger nor its status changes. *)
LEMMA StaysShipped ==
  ASSUME NEW o \in Orders, CompletedInv(o), shipped'[o] = shipped[o],
         order'[o].status = order[o].status
  PROVE  CompletedInv(o)'
BY DEF CompletedInv

(* The statuses an action leaves the order in. *)
LEMMA StatusAfter ==
  ASSUME TypeOK, NEW o \in Orders
  PROVE  /\ ApproveOrder(o) => order'[o].status = "APPROVED"
         /\ RejectOrder(o) => order'[o].status = "REJECTED"
         /\ CancelOrder(o) => order'[o].status = "CANCELLED"
         /\ AssignOrder(o) => order'[o].status = order[o].status
         /\ \A s \in PaymentStatuses : PaymentReversed(o, s) => order'[o].status = order[o].status
         /\ \A picked \in PickRequests(o) : PickOrder(o, picked) => order'[o].status = "PROCESSING"
         /\ PackOrder(o) \/ DispatchOrder(o) => order'[o].status = "PROCESSING"
         /\ \A m \in Missions :
              \/ ConfirmPickup(o, m) \/ StartRoute(o, m) \/ RecordFailure(o, m)
              \/ Reschedule(o, m) \/ ReturnToWarehouse(o, m)
              => order'[o].status = order[o].status
<1>1. order[o] \in OrderRows
  BY RowsOf
<1>2. ApproveOrder(o) => order'[o].status = "APPROVED"
  BY <1>1 DEF TypeOK, OrderRows, ApproveOrder
<1>3. RejectOrder(o) => order'[o].status = "REJECTED"
  BY <1>1 DEF TypeOK, OrderRows, RejectOrder
<1>4. CancelOrder(o) => order'[o].status = "CANCELLED"
  BY <1>1 DEF TypeOK, OrderRows, CancelOrder
<1>5. AssignOrder(o) => order'[o].status = order[o].status
  BY <1>1 DEF TypeOK, OrderRows, AssignOrder
<1>6. ASSUME NEW s \in PaymentStatuses, PaymentReversed(o, s)
      PROVE  order'[o].status = order[o].status
  BY <1>1, <1>6 DEF TypeOK, OrderRows, PaymentReversed
<1>7. ASSUME NEW picked \in PickRequests(o), PickOrder(o, picked)
      PROVE  order'[o].status = "PROCESSING"
  <2>1. order' = [order EXCEPT ![o] = [@ EXCEPT !.fulfillment = "PICKED", !.status = "PROCESSING"]]
    BY <1>7 DEF PickOrder
  <2> QED
    BY <1>1, <2>1 DEF TypeOK, OrderRows
<1>8. ASSUME PackOrder(o) \/ DispatchOrder(o)
      PROVE  order'[o].status = "PROCESSING"
  <2>1. \/ order' = [order EXCEPT ![o] = [@ EXCEPT !.fulfillment = "PACKED", !.status = "PROCESSING"]]
        \/ order' = [order EXCEPT ![o] = [@ EXCEPT !.fulfillment = "DISPATCHED", !.status = "PROCESSING",
                                                   !.delivery = "PENDING_ASSIGNMENT"]]
    BY <1>8 DEF PackOrder, DispatchOrder
  <2>2. \/ order'[o] = [order[o] EXCEPT !.fulfillment = "PACKED", !.status = "PROCESSING"]
        \/ order'[o] = [order[o] EXCEPT !.fulfillment = "DISPATCHED", !.status = "PROCESSING",
                                       !.delivery = "PENDING_ASSIGNMENT"]
    BY <2>1 DEF TypeOK
  <2> QED
    BY <1>1, <2>2 DEF OrderRows
<1>9. ASSUME NEW m \in Missions,
             \/ ConfirmPickup(o, m) \/ StartRoute(o, m) \/ RecordFailure(o, m)
             \/ Reschedule(o, m) \/ ReturnToWarehouse(o, m)
      PROVE  order'[o].status = order[o].status
  <2>1. \/ order' = [order EXCEPT ![o] =
                       [@ EXCEPT !.fulfillment = "DISPATCHED", !.delivery = "PICKED_UP"]]
        \/ order' = [order EXCEPT ![o] =
                       [@ EXCEPT !.fulfillment = "RESERVED", !.delivery = "RETURNED_TO_WAREHOUSE"]]
        \/ \E d \in DeliveryStatuses : order' = [order EXCEPT ![o].delivery = d]
    BY <1>9 DEF ConfirmPickup, StartRoute, RecordFailure, Reschedule, ReturnToWarehouse, DeliveryStatuses
  <2>2. \/ order'[o] = [order[o] EXCEPT !.fulfillment = "DISPATCHED", !.delivery = "PICKED_UP"]
        \/ order'[o] = [order[o] EXCEPT !.fulfillment = "RESERVED",
                                       !.delivery = "RETURNED_TO_WAREHOUSE"]
        \/ \E d \in DeliveryStatuses : order'[o] = [order[o] EXCEPT !.delivery = d]
    BY <2>1 DEF TypeOK
  <2> QED
    BY <1>1, <2>2 DEF OrderRows
<1> QED
  BY <1>2, <1>3, <1>4, <1>5, <1>6, <1>7, <1>8, <1>9

-----------------------------------------------------------------------------
(* Review. *)

(* Approval creates well-formed allocations for the lines of an order that held nothing. *)
LEMMA ApproveKeepsInv ==
  ASSUME TypeOK, NEW o \in Orders, OrderInv(o), ApproveOrder(o)
  PROVE  OrderInv(o)'
<1> USE RowsOf
<1>1. ASSUME NEW p \in Products
      PROVE  /\ line'[o][p] = [line[o][p] EXCEPT !.reserved = Fulfillable(o, p)]
             /\ alloc'[o][p] =
                  IF p \in Lines(o) /\ alloc[o][p].status = "NONE"
                  THEN [status |-> "ALLOCATED", allocated |-> Fulfillable(o, p),
                        reserved |-> Fulfillable(o, p), picked |-> 0, dispatched |-> 0, delivered |-> 0]
                  ELSE alloc[o][p]
  BY DEF ApproveOrder, TypeOK
<1>2. mission' = mission /\ shipped' = shipped /\ order'[o].status = "APPROVED"
  BY StatusAfter DEF ApproveOrder
<1>3. RowsInv(o)'
  <2> SUFFICES ASSUME NEW p \in Products
               PROVE  /\ WellFormed(alloc'[o][p], Fulfillable(o, p))
                      /\ line'[o][p].picked <= Fulfillable(o, p)
                      /\ alloc'[o][p].delivered <= shipped[o][p]
                      /\ line'[o][p].delivered <= shipped[o][p]
    BY <1>2 DEF RowsInv, Fulfillable, WellFormed
  <2>1. line'[o][p].picked = line[o][p].picked /\ line'[o][p].delivered = line[o][p].delivered
    <3>1. line[o][p] \in LineRows
      OBVIOUS
    <3> QED
      BY <1>1, <3>1 DEF LineRows
  <2>2. shipped[o][p] \in Nat
    BY DEF TypeOK
  <2>3. CASE p \in Lines(o) /\ alloc[o][p].status = "NONE"
    <3>1. alloc'[o][p] =
            [status |-> "ALLOCATED", allocated |-> Fulfillable(o, p),
             reserved |-> Fulfillable(o, p), picked |-> 0, dispatched |-> 0, delivered |-> 0]
      BY <1>1, <2>3
    <3>2. WellFormed(alloc'[o][p], Fulfillable(o, p))
      BY <2>3, <3>1, WellFormedCreated, OrderedType DEF Lines, Fulfillable
    <3>3. alloc'[o][p].delivered = 0
      BY <3>1
    <3> QED
      BY <2>1, <2>2, <3>2, <3>3 DEF OrderInv, RowsInv
  <2>4. CASE ~(p \in Lines(o) /\ alloc[o][p].status = "NONE")
    BY <1>1, <2>1, <2>4 DEF OrderInv, RowsInv
  <2> QED
    BY <2>3, <2>4
<1>4. \A p \in Products : alloc[o][p].status # "NONE" => alloc'[o][p].status # "NONE"
  BY <1>1
<1> QED
  BY <1>2, <1>3, <1>4, MissionsStayBacked, ApprovedMayHold, NotCompleted DEF OrderInv, Reviewable

(* Rejection finds an order that holds nothing and leaves it so. *)
LEMMA RejectKeepsInv ==
  ASSUME TypeOK, NEW o \in Orders, OrderInv(o), RejectOrder(o)
  PROVE  OrderInv(o)'
<1>1. line' = line /\ alloc' = alloc /\ mission' = mission /\ shipped' = shipped
  BY DEF RejectOrder
<1>2. order'[o].status = "REJECTED" /\ order[o].status \in Reviewable
  BY StatusAfter DEF RejectOrder
<1> QED
  BY <1>1, <1>2 DEF OrderInv, RowsInv, UnapprovedInv, MissionsInv, CompletedInv, ExistingMissions,
     WellFormed, Fulfillable

(* Cancellation takes back untouched allocations only. *)
LEMMA CancelKeepsInv ==
  ASSUME TypeOK, NEW o \in Orders, OrderInv(o), CancelOrder(o)
  PROVE  OrderInv(o)'
<1> USE RowsOf
<1>1. mission' = mission /\ shipped' = shipped /\ order'[o].status = "CANCELLED"
  BY StatusAfter DEF CancelOrder
<1>2. ASSUME NEW p \in Products
      PROVE  /\ line'[o][p].picked = line[o][p].picked
             /\ line'[o][p].delivered = line[o][p].delivered
             /\ \/ alloc'[o][p] = alloc[o][p]
                \/ /\ alloc[o][p].status \in {"ALLOCATED", "RESERVED"}
                   /\ alloc'[o][p] = [alloc[o][p] EXCEPT !.status = "CANCELLED", !.reserved = 0]
  <2>1. line[o][p] \in LineRows
    OBVIOUS
  <2>2. CASE ReleaseReservation(o)
    <3>1. line'[o][p] = [line[o][p] EXCEPT !.reserved = 0]
      BY <2>2 DEF ReleaseReservation, TypeOK
    <3>2. alloc'[o][p] =
            IF alloc[o][p].status \in {"ALLOCATED", "RESERVED"}
            THEN [alloc[o][p] EXCEPT !.status = "CANCELLED", !.reserved = 0]
            ELSE alloc[o][p]
      BY <2>2 DEF ReleaseReservation, TypeOK
    <3> QED
      BY <2>1, <3>1, <3>2 DEF LineRows
  <2>3. CASE UNCHANGED <<line, alloc>>
    BY <2>3
  <2> QED
    BY <2>2, <2>3 DEF CancelOrder
<1>3. ASSUME NEW p \in Products
      PROVE  /\ WellFormed(alloc'[o][p], Fulfillable(o, p))
             /\ alloc'[o][p].delivered = alloc[o][p].delivered
             /\ alloc[o][p].status # "NONE" => alloc'[o][p].status # "NONE"
  <2>1. CASE alloc'[o][p] = alloc[o][p]
    BY <2>1 DEF OrderInv, RowsInv
  <2>2. CASE /\ alloc[o][p].status \in {"ALLOCATED", "RESERVED"}
             /\ alloc'[o][p] = [alloc[o][p] EXCEPT !.status = "CANCELLED", !.reserved = 0]
    <3>1. alloc[o][p] \in AllocRows /\ Fulfillable(o, p) \in Nat
      BY OrderedType
    <3>2. WellFormed(alloc'[o][p], Fulfillable(o, p))
      BY <2>2, <3>1, WellFormedCancelled DEF OrderInv, RowsInv
    <3> QED
      BY <2>2, <3>1, <3>2 DEF AllocRows
  <2> QED
    BY <1>2, <2>1, <2>2
<1>4. RowsInv(o)'
  BY <1>1, <1>2, <1>3 DEF OrderInv, RowsInv, Fulfillable, WellFormed
<1> QED
  BY <1>1, <1>3, <1>4, MissionsStayBacked, ApprovedMayHold, NotCompleted DEF OrderInv, Reviewable

-----------------------------------------------------------------------------
(* The warehouse. *)

(* A pick, short or not, stays within what is fulfillable. *)
LEMMA PickKeepsInv ==
  ASSUME TypeOK, NEW o \in Orders, OrderInv(o), NEW picked \in PickRequests(o), PickOrder(o, picked)
  PROVE  OrderInv(o)'
<1> USE RowsOf
<1>1. mission' = mission /\ shipped' = shipped /\ order'[o].status = "PROCESSING"
  BY StatusAfter DEF PickOrder
<1>2. ASSUME NEW p \in Products
      PROVE  /\ WellFormed(alloc'[o][p], Fulfillable(o, p))
             /\ alloc'[o][p].delivered = alloc[o][p].delivered
             /\ alloc[o][p].status # "NONE" => alloc'[o][p].status # "NONE"
             /\ line'[o][p].picked <= Fulfillable(o, p)
             /\ line'[o][p].delivered = line[o][p].delivered
  <2>1. /\ line[o][p] \in LineRows /\ alloc[o][p] \in AllocRows
        /\ Fulfillable(o, p) \in Nat /\ picked[p] \in Nat /\ picked[p] <= Fulfillable(o, p)
    BY OrderedType, PickRequestsType
  <2>2. line'[o][p] = [line[o][p] EXCEPT !.picked = picked[p]]
    BY DEF PickOrder, TypeOK
  <2>3. alloc'[o][p] = IF alloc[o][p].status \in Pickable
                       THEN [alloc[o][p] EXCEPT !.picked = picked[p], !.status = "PICKED"]
                       ELSE alloc[o][p]
    BY DEF PickOrder, TypeOK
  <2>4. WellFormed(alloc'[o][p], Fulfillable(o, p))
    <3>1. WellFormed(alloc[o][p], Fulfillable(o, p))
      BY DEF OrderInv, RowsInv
    <3>2. CASE alloc[o][p].status \in Pickable
      <4>1. alloc'[o][p] = [alloc[o][p] EXCEPT !.picked = picked[p], !.status = "PICKED"]
        BY <2>3, <3>2
      <4>2. alloc[o][p].status \in Dispatchable
        BY <3>2 DEF Dispatchable
      <4> DEFINE a == alloc[o][p]  n == Fulfillable(o, p)  k == picked[p]
      <4>3. a \in AllocRows /\ n \in Nat /\ WellFormed(a, n) /\ k \in Nat /\ k <= n
        BY <2>1, <3>1
      <4> HIDE DEF a, n, k
      <4>4. a.status \in Dispatchable
        BY <4>2 DEF a
      <4>5. WellFormed([a EXCEPT !.picked = k, !.status = "PICKED"], n)
        BY <4>3, <4>4, WellFormedWarehouse
      <4> QED
        BY <4>1, <4>5 DEF a, n, k
    <3>3. CASE alloc[o][p].status \notin Pickable
      BY <2>3, <3>1, <3>3
    <3> QED
      BY <3>2, <3>3
  <2> QED
    BY <2>1, <2>2, <2>3, <2>4 DEF LineRows, AllocRows
<1>3. RowsInv(o)'
  BY <1>1, <1>2 DEF OrderInv, RowsInv, Fulfillable, WellFormed
<1> QED
  BY <1>1, <1>2, <1>3, MissionsStayBacked, ApprovedMayHold, NotCompleted DEF OrderInv, Reviewable

(* Packing counts nothing picked as everything picked, which still is fulfillable. *)
LEMMA PackKeepsInv ==
  ASSUME TypeOK, NEW o \in Orders, OrderInv(o), PackOrder(o)
  PROVE  OrderInv(o)'
<1> USE RowsOf
<1>1. mission' = mission /\ shipped' = shipped /\ order'[o].status = "PROCESSING"
  BY StatusAfter DEF PackOrder
<1>2. ASSUME NEW p \in Products
      PROVE  /\ WellFormed(alloc'[o][p], Fulfillable(o, p))
             /\ alloc'[o][p].delivered = alloc[o][p].delivered
             /\ alloc[o][p].status # "NONE" => alloc'[o][p].status # "NONE"
             /\ line'[o][p].picked <= Fulfillable(o, p)
             /\ line'[o][p].delivered = line[o][p].delivered
  <2>1. /\ line[o][p] \in LineRows /\ alloc[o][p] \in AllocRows /\ Fulfillable(o, p) \in Nat
        /\ PickedOrAll(o, p) \in Nat /\ PickedOrAll(o, p) <= Fulfillable(o, p)
    BY OrderedType, PickedOrAllBound DEF OrderInv
  <2>2. line'[o][p] = [line[o][p] EXCEPT !.picked = PickedOrAll(o, p)]
    BY DEF PackOrder, TypeOK
  <2>3. alloc'[o][p] = IF alloc[o][p].status \in Dispatchable
                       THEN [alloc[o][p] EXCEPT !.status = "PACKED", !.picked = PickedOrAll(o, p)]
                       ELSE alloc[o][p]
    BY DEF PackOrder, TypeOK
  <2>4. WellFormed(alloc'[o][p], Fulfillable(o, p))
    <3>1. WellFormed(alloc[o][p], Fulfillable(o, p))
      BY DEF OrderInv, RowsInv
    <3>2. CASE alloc[o][p].status \in Dispatchable
      BY <2>1, <2>3, <3>1, <3>2, WellFormedWarehouse
    <3>3. CASE alloc[o][p].status \notin Dispatchable
      BY <2>3, <3>1, <3>3
    <3> QED
      BY <3>2, <3>3
  <2> QED
    BY <2>1, <2>2, <2>3, <2>4 DEF LineRows, AllocRows
<1>3. RowsInv(o)'
  BY <1>1, <1>2 DEF OrderInv, RowsInv, Fulfillable, WellFormed
<1> QED
  BY <1>1, <1>2, <1>3, MissionsStayBacked, ApprovedMayHold, NotCompleted DEF OrderInv, Reviewable

(* Dispatch backs the mission it creates by the lines' allocations. *)
LEMMA DispatchKeepsInv ==
  ASSUME TypeOK, NEW o \in Orders, OrderInv(o), DispatchOrder(o)
  PROVE  OrderInv(o)'
<1> USE RowsOf
<1>1. shipped' = shipped /\ order'[o].status = "PROCESSING"
  BY StatusAfter DEF DispatchOrder
<1>2. ASSUME NEW p \in Products
      PROVE  /\ WellFormed(alloc'[o][p], Fulfillable(o, p))
             /\ alloc'[o][p].delivered = alloc[o][p].delivered
             /\ alloc[o][p].status # "NONE" => alloc'[o][p].status # "NONE"
             /\ line'[o][p].picked <= Fulfillable(o, p)
             /\ line'[o][p].delivered = line[o][p].delivered
  <2>1. /\ line[o][p] \in LineRows /\ alloc[o][p] \in AllocRows /\ Fulfillable(o, p) \in Nat
        /\ PickedOrAll(o, p) \in Nat /\ PickedOrAll(o, p) <= Fulfillable(o, p)
    BY OrderedType, PickedOrAllBound DEF OrderInv
  <2>2. line'[o][p] = [line[o][p] EXCEPT !.picked = PickedOrAll(o, p), !.dispatched = PickedOrAll(o, p)]
    BY DEF DispatchOrder, TypeOK
  <2>3. alloc'[o][p] = IF alloc[o][p].status \in Dispatchable
                       THEN [alloc[o][p] EXCEPT !.status = "DISPATCHED",
                              !.dispatched = PickedOrAll(o, p), !.picked = PickedOrAll(o, p)]
                       ELSE alloc[o][p]
    BY DEF DispatchOrder, TypeOK
  <2>4. WellFormed(alloc'[o][p], Fulfillable(o, p))
    <3>1. WellFormed(alloc[o][p], Fulfillable(o, p))
      BY DEF OrderInv, RowsInv
    <3>2. CASE alloc[o][p].status \in Dispatchable
      BY <2>1, <2>3, <3>1, <3>2, WellFormedWarehouse
    <3>3. CASE alloc[o][p].status \notin Dispatchable
      BY <2>3, <3>1, <3>3
    <3> QED
      BY <3>2, <3>3
  <2> QED
    BY <2>1, <2>2, <2>3, <2>4 DEF LineRows, AllocRows
<1>3. RowsInv(o)'
  BY <1>1, <1>2 DEF OrderInv, RowsInv, Fulfillable, WellFormed
<1>4. MissionsInv(o)'
  <2>1. CASE mission' = mission
    BY <1>2, <2>1, MissionsStayBacked DEF OrderInv
  <2>2. CASE CreatePendingMission(o)
    <3> SUFFICES ASSUME NEW m \in Missions, NEW p \in Products, mission'[o][m].deliverable[p] > 0
                 PROVE  /\ alloc'[o][p].status # "NONE"
                        /\ mission'[o][m].deliverable[p] <= Fulfillable(o, p)
      BY DEF MissionsInv, Fulfillable
    <3>1. CASE m = 1
      <4>1. mission'[o][m].deliverable[p] = PickedOrAll(o, p)
        BY <2>2, <3>1 DEF CreatePendingMission, TypeOK
      <4>2. PickedOrAll(o, p) \in Nat /\ PickedOrAll(o, p) <= Fulfillable(o, p) /\ Ordered[o][p] \in Nat
        BY OrderedType, PickedOrAllBound DEF OrderInv
      <4>3. p \in Lines(o)
        BY <4>1, <4>2 DEF Lines, Fulfillable
      <4>4. alloc[o][p].status # "NONE"
        BY <2>2, <4>3 DEF CreatePendingMission
      <4> QED
        BY <1>2, <4>1, <4>2, <4>4
    <3>2. CASE m # 1
      <4>1. mission'[o][m] = mission[o][m]
        BY <2>2, <3>2 DEF CreatePendingMission, TypeOK
      <4> QED
        BY <1>2, <4>1 DEF OrderInv, MissionsInv
    <3> QED
      BY <3>1, <3>2
  <2> QED
    BY <2>1, <2>2 DEF DispatchOrder
<1> QED
  BY <1>1, <1>3, <1>4, ApprovedMayHold, NotCompleted DEF OrderInv, Reviewable

-----------------------------------------------------------------------------
(* The office: assignment and payments. *)

(* A mission created on assignment carries what is allocated. *)
LEMMA AssignKeepsInv ==
  ASSUME TypeOK, NEW o \in Orders, OrderInv(o), AssignOrder(o)
  PROVE  OrderInv(o)'
<1> USE RowsOf
<1>1. /\ line' = line /\ alloc' = alloc /\ shipped' = shipped
      /\ order'[o].status = order[o].status
  BY StatusAfter DEF AssignOrder
<1>2. RowsInv(o)' /\ CompletedInv(o)'
  BY <1>1 DEF OrderInv, RowsInv, CompletedInv, Fulfillable, WellFormed
<1>3. order[o].status \notin Reviewable \cup {"REJECTED"}
  BY DEF AssignOrder, ActiveAllocations, OrderInv, UnapprovedInv, Deliverable, Dispatchable, Pickable
<1>4. MissionsInv(o)'
  <2>1. CASE ReuseMission(o)
    <3>1. PICK k \in Missions : mission' = [mission EXCEPT ![o][k].status = "ASSIGNED"]
      BY <2>1 DEF ReuseMission, AssignableMissions
    <3>2. \A m \in Missions : mission'[o][m].deliverable = mission[o][m].deliverable
      BY <3>1 DEF TypeOK, MissionRows
    <3> QED
      BY <1>1, <3>2, MissionsStayBacked DEF OrderInv
  <2>2. CASE CreateAssignedMission(o)
    <3>1. PICK k \in Missions : mission' = [mission EXCEPT ![o][k] =
            [status |-> "ASSIGNED", deliverable |-> [p \in Products |->
               IF p \in ActiveAllocations(o) THEN alloc[o][p].allocated ELSE 0]]]
      BY <2>2 DEF CreateAssignedMission
    <3> SUFFICES ASSUME NEW m \in Missions, NEW p \in Products, mission'[o][m].deliverable[p] > 0
                 PROVE  /\ alloc[o][p].status # "NONE"
                        /\ mission'[o][m].deliverable[p] <= Fulfillable(o, p)
      BY <1>1 DEF MissionsInv, Fulfillable
    <3>2. CASE m = k
      <4>1. mission'[o][m].deliverable[p] = IF p \in ActiveAllocations(o) THEN alloc[o][p].allocated ELSE 0
        BY <3>1, <3>2 DEF TypeOK
      <4>2. p \in ActiveAllocations(o) /\ mission'[o][m].deliverable[p] = alloc[o][p].allocated
        BY <4>1
      <4>3. alloc[o][p].status # "NONE"
        BY <4>2 DEF ActiveAllocations, Deliverable, Dispatchable, Pickable
      <4>4. alloc[o][p].allocated = Fulfillable(o, p)
        BY <4>3 DEF OrderInv, RowsInv, WellFormed
      <4> QED
        BY <4>2, <4>3, <4>4, OrderedType
    <3>3. CASE m # k
      <4>1. mission'[o][m] = mission[o][m]
        BY <3>1, <3>3 DEF TypeOK
      <4> QED
        BY <4>1 DEF OrderInv, MissionsInv
    <3> QED
      BY <3>2, <3>3
  <2> QED
    BY <2>1, <2>2 DEF AssignOrder
<1> QED
  BY <1>1, <1>2, <1>3, <1>4, ApprovedMayHold DEF OrderInv

(* A payment may complete an order, whose goods have been shipped then. *)
LEMMA VerifyKeepsInv ==
  ASSUME TypeOK, NEW o \in Orders, OrderInv(o), NEW s \in PaymentStatuses, PaymentVerified(o, s)
  PROVE  OrderInv(o)'
<1> USE RowsOf
<1> DEFINE row == [order[o] EXCEPT !.payment = s]
<1>1. row \in OrderRows /\ row.status = order[o].status
  BY OrderRowUpdates DEF OrderRows
<1>2. /\ EvaluateAndComplete(o, row, line[o], alloc[o])
      /\ alloc' = alloc /\ mission' = mission /\ shipped' = shipped
  BY DEF PaymentVerified
<1> HIDE DEF row
<1>3. /\ order'[o].status \in {order[o].status, "COMPLETED"}
      /\ \A p \in Products :
           /\ line'[o][p].picked = line[o][p].picked
           /\ line'[o][p].reserved = line[o][p].reserved
           /\ line'[o][p].delivered \in {line[o][p].delivered, alloc[o][p].delivered}
      /\ order'[o].status = "COMPLETED" =>
           \/ order[o].status = "COMPLETED"
           \/ \A p \in Products : line'[o][p].delivered >= Ordered[o][p]
  BY <1>1, <1>2, EvaluateEffect
<1>4. RowsInv(o)'
  BY <1>2, <1>3 DEF OrderInv, RowsInv, Fulfillable, WellFormed
<1>5. UnapprovedInv(o)'
  BY <1>2, <1>3 DEF OrderInv, UnapprovedInv, ExistingMissions, Reviewable
<1>6. MissionsInv(o)'
  BY <1>2, MissionsStayBacked DEF OrderInv
<1>7. CompletedInv(o)'
  <2> SUFFICES ASSUME order'[o].status = "COMPLETED", NEW p \in Products
               PROVE  shipped'[o][p] >= Ordered[o][p]
    BY DEF CompletedInv
  <2>1. CASE order[o].status = "COMPLETED"
    BY <1>2, <2>1 DEF OrderInv, CompletedInv
  <2>2. CASE line'[o][p].delivered >= Ordered[o][p]
    <3>1. line'[o][p].delivered <= shipped'[o][p]
      BY <1>4 DEF RowsInv
    <3>2. line[o][p].delivered \in Nat /\ alloc[o][p].delivered \in Nat /\ shipped[o][p] \in Nat
      BY DEF TypeOK, LineRows, AllocRows
    <3> QED
      BY <1>2, <1>3, <2>2, <3>1, <3>2, OrderedType
  <2> QED
    BY <1>3, <2>1, <2>2
<1> QED
  BY <1>4, <1>5, <1>6, <1>7 DEF OrderInv

(* A reversal changes nothing but the payment status. *)
LEMMA ReverseKeepsInv ==
  ASSUME TypeOK, NEW o \in Orders, OrderInv(o), NEW s \in PaymentStatuses, PaymentReversed(o, s)
  PROVE  OrderInv(o)'
<1>1. /\ line' = line /\ alloc' = alloc /\ mission' = mission /\ shipped' = shipped
      /\ order'[o].status = order[o].status
  BY StatusAfter DEF PaymentReversed
<1> QED
  BY <1>1 DEF OrderInv, RowsInv, UnapprovedInv, MissionsInv, CompletedInv, ExistingMissions,
     WellFormed, Fulfillable

-----------------------------------------------------------------------------
(* The drivers. *)

(* A driver's step other than the delivery itself changes one mission's status
   and leaves what it carries alone. *)
LEMMA MissionMoves ==
  ASSUME TypeOK, NEW o \in Orders, NEW m \in Missions, NEW s \in DeliveryStatuses,
         mission' = [mission EXCEPT ![o][m].status = s]
  PROVE  \A k \in Missions : mission'[o][k].deliverable = mission[o][k].deliverable
BY DEF TypeOK, MissionRows

(* Departures, failures and reschedulings move no goods. *)
LEMMA MovesKeepInv ==
  ASSUME TypeOK, NEW o \in Orders, OrderInv(o), NEW m \in Missions,
         StartRoute(o, m) \/ RecordFailure(o, m) \/ Reschedule(o, m)
  PROVE  OrderInv(o)'
<1>1. /\ line' = line /\ alloc' = alloc /\ shipped' = shipped
      /\ order'[o].status = order[o].status
  BY StatusAfter DEF StartRoute, RecordFailure, Reschedule
<1>2. mission[o][m].status # "NONE"
  BY DEF StartRoute, RecordFailure, Reschedule, CanBeFailed, CanBeRescheduled
<1>3. \A k \in Missions : mission'[o][k].deliverable = mission[o][k].deliverable
  BY MissionMoves DEF StartRoute, RecordFailure, Reschedule, DeliveryStatuses
<1>4. RowsInv(o)'
  BY <1>1 DEF OrderInv, RowsInv, Fulfillable, WellFormed
<1> QED
  BY <1>1, <1>2, <1>3, <1>4, MissionMeansApproved, MissionsStayBacked, ApprovedMayHold, StaysShipped
     DEF OrderInv

(* A pickup dispatches what was picked. *)
LEMMA PickupKeepsInv ==
  ASSUME TypeOK, NEW o \in Orders, OrderInv(o), NEW m \in Missions, ConfirmPickup(o, m)
  PROVE  OrderInv(o)'
<1> USE RowsOf
<1>1. /\ line' = line /\ shipped' = shipped /\ order'[o].status = order[o].status
      /\ mission[o][m].status # "NONE"
  BY StatusAfter DEF ConfirmPickup
<1>2. \A k \in Missions : mission'[o][k].deliverable = mission[o][k].deliverable
  BY MissionMoves DEF ConfirmPickup, DeliveryStatuses
<1>3. ASSUME NEW p \in Products
      PROVE  /\ WellFormed(alloc'[o][p], Fulfillable(o, p))
             /\ alloc'[o][p].delivered = alloc[o][p].delivered
             /\ alloc[o][p].status # "NONE" => alloc'[o][p].status # "NONE"
  <2>1. alloc[o][p] \in AllocRows /\ Fulfillable(o, p) \in Nat /\ WellFormed(alloc[o][p], Fulfillable(o, p))
    BY OrderedType DEF OrderInv, RowsInv
  <2>2. alloc'[o][p] =
          IF alloc[o][p].picked > 0
          THEN [alloc[o][p] EXCEPT !.dispatched = alloc[o][p].picked, !.status = "DISPATCHED"]
          ELSE alloc[o][p]
    BY DEF ConfirmPickup, TypeOK
  <2>3. CASE alloc[o][p].picked > 0
    BY <2>1, <2>2, <2>3, WellFormedPickedUp DEF AllocRows
  <2>4. CASE ~(alloc[o][p].picked > 0)
    BY <2>1, <2>2, <2>4
  <2> QED
    BY <2>3, <2>4
<1>4. RowsInv(o)'
  BY <1>1, <1>3 DEF OrderInv, RowsInv, Fulfillable, WellFormed
<1> QED
  BY <1>1, <1>2, <1>3, <1>4, MissionMeansApproved, MissionsStayBacked, ApprovedMayHold, StaysShipped
     DEF OrderInv

(* A return resets allocations nothing was delivered of. *)
LEMMA ReturnKeepsInv ==
  ASSUME TypeOK, NEW o \in Orders, OrderInv(o), NEW m \in Missions, ReturnToWarehouse(o, m)
  PROVE  OrderInv(o)'
<1> USE RowsOf
<1>1. /\ line' = line /\ shipped' = shipped /\ order'[o].status = order[o].status
      /\ mission[o][m].status # "NONE"
  BY StatusAfter DEF ReturnToWarehouse, CanBeReturned
<1>2. \A k \in Missions : mission'[o][k].deliverable = mission[o][k].deliverable
  BY MissionMoves DEF ReturnToWarehouse, DeliveryStatuses
<1>3. ASSUME NEW p \in Products
      PROVE  /\ WellFormed(alloc'[o][p], Fulfillable(o, p))
             /\ alloc'[o][p].delivered = alloc[o][p].delivered
             /\ alloc[o][p].status # "NONE" => alloc'[o][p].status # "NONE"
  <2>1. /\ alloc[o][p] \in AllocRows /\ Fulfillable(o, p) \in Nat /\ alloc[o][p].delivered = 0
        /\ WellFormed(alloc[o][p], Fulfillable(o, p))
    BY OrderedType DEF OrderInv, RowsInv, ReturnToWarehouse
  <2>2. alloc'[o][p] = IF alloc[o][p].status # "NONE"
                       THEN [alloc[o][p] EXCEPT !.dispatched = 0, !.status = "ALLOCATED"]
                       ELSE alloc[o][p]
    BY DEF ReturnToWarehouse, TypeOK
  <2>3. CASE alloc[o][p].status # "NONE"
    BY <2>1, <2>2, <2>3, WellFormedReturned DEF AllocRows
  <2>4. CASE alloc[o][p].status = "NONE"
    BY <2>1, <2>2, <2>4
  <2> QED
    BY <2>3, <2>4
<1>4. RowsInv(o)'
  BY <1>1, <1>3 DEF OrderInv, RowsInv, Fulfillable, WellFormed
<1> QED
  BY <1>1, <1>2, <1>3, <1>4, MissionMeansApproved, MissionsStayBacked, ApprovedMayHold, StaysShipped
     DEF OrderInv

(* A delivery of q pieces turns every row it touches into one the ledger covers. *)
LEMMA DeliverKeepsInv ==
  ASSUME TypeOK, NEW o \in Orders, OrderInv(o), NEW m \in Missions, CompleteDelivery(o, m)
  PROVE  OrderInv(o)'
<1> USE RowsOf
<1> DEFINE row == [order[o] EXCEPT !.fulfillment = "DELIVERED", !.delivery = "DELIVERED"]
           allocs == DeliveredAllocations(o, m)
           lines == RolledUp(line[o], allocs)
<1>1. /\ row \in OrderRows /\ row.status = order[o].status
      /\ allocs \in [Products -> AllocRows] /\ lines \in [Products -> LineRows]
  <2>1. row \in OrderRows
    BY OrderRowUpdates DEF FulfillmentStatuses, DeliveryStatuses
  <2>2. row.status = order[o].status
    BY DEF OrderRows
  <2>3. allocs \in [Products -> AllocRows]
    BY DeliveredRowsType
  <2>4. lines \in [Products -> LineRows]
    BY <2>3, RolledUpType
  <2> QED
    BY <2>1, <2>2, <2>3, <2>4
<1>2. EvaluateAndComplete(o, row, lines, allocs) /\ alloc'[o] = allocs
  BY DEF CompleteDelivery, TypeOK
<1>3. ASSUME NEW p \in Products
      PROVE  /\ mission[o][m].deliverable[p] \in Nat
             /\ shipped[o][p] \in Nat
             /\ shipped'[o][p] = shipped[o][p] + mission[o][m].deliverable[p]
  BY DEF CompleteDelivery, TypeOK, MissionRows
<1>4. ASSUME NEW p \in Products
      PROVE  /\ lines[p].picked = line[o][p].picked
             /\ lines[p].delivered \in {line[o][p].delivered, allocs[p].delivered}
  <2>1. line[o] \in [Products -> LineRows] /\ allocs \in [Products -> AllocRows]
    BY <1>1
  <2> HIDE DEF allocs
  <2> QED
    BY <2>1, RolledUpEffect
<1>5. ASSUME NEW p \in Products
      PROVE  /\ WellFormed(allocs[p], Fulfillable(o, p))
             /\ allocs[p].delivered <= shipped'[o][p]
             /\ alloc[o][p].status # "NONE" => allocs[p].status # "NONE"
  <2>1. /\ alloc[o][p] \in AllocRows /\ Fulfillable(o, p) \in Nat /\ WellFormed(alloc[o][p], Fulfillable(o, p))
        /\ alloc[o][p].delivered <= shipped[o][p]
    BY OrderedType DEF OrderInv, RowsInv
  <2>2. CASE mission[o][m].deliverable[p] > 0
    <3>1. allocs[p] = [alloc[o][p] EXCEPT !.delivered = mission[o][m].deliverable[p], !.status = "DELIVERED"]
      BY <2>2 DEF DeliveredAllocations
    <3>2. mission[o][m].deliverable[p] <= alloc[o][p].dispatched
      BY <2>2 DEF CompleteDelivery, DeliveryCommits
    <3>3. WellFormed(allocs[p], Fulfillable(o, p))
      <4> DEFINE q == mission[o][m].deliverable[p]
      <4>1. q \in Nat /\ q > 0 /\ q <= alloc[o][p].dispatched
        BY <1>3, <2>2, <3>2
      <4> HIDE DEF q, allocs
      <4>2. WellFormed([alloc[o][p] EXCEPT !.delivered = q, !.status = "DELIVERED"], Fulfillable(o, p))
        BY <2>1, <4>1, WellFormedDelivered
      <4> QED
        BY <3>1, <4>2 DEF q
    <3>4. allocs[p].delivered = mission[o][m].deliverable[p] /\ allocs[p].status = "DELIVERED"
      BY <2>1, <3>1 DEF AllocRows
    <3> QED
      BY <1>3, <3>3, <3>4
  <2>3. CASE ~(mission[o][m].deliverable[p] > 0)
    <3>1. allocs[p] = alloc[o][p]
      BY <2>3 DEF DeliveredAllocations
    <3>2. alloc[o][p].delivered \in Nat
      BY <2>1 DEF AllocRows
    <3> QED
      BY <1>3, <2>1, <3>1, <3>2
  <2> QED
    BY <2>2, <2>3
<1> HIDE DEF row, lines, allocs
<1>6. /\ order'[o].status \in {order[o].status, "COMPLETED"}
      /\ \A p \in Products :
           /\ line'[o][p].picked = lines[p].picked
           /\ line'[o][p].delivered \in {lines[p].delivered, allocs[p].delivered}
      /\ order'[o].status = "COMPLETED" =>
           \/ order[o].status = "COMPLETED"
           \/ \A p \in Products : line'[o][p].delivered >= Ordered[o][p]
  BY <1>1, <1>2, EvaluateEffect
<1>7. ASSUME NEW p \in Products
      PROVE  line'[o][p].picked <= Fulfillable(o, p) /\ line'[o][p].delivered <= shipped'[o][p]
  <2>1. line[o][p].picked <= Fulfillable(o, p) /\ line[o][p].delivered <= shipped[o][p]
    BY DEF OrderInv, RowsInv
  <2>2. line[o][p].delivered \in Nat
    BY DEF LineRows
  <2>3. line'[o][p].delivered \in {line[o][p].delivered, allocs[p].delivered}
    BY <1>4, <1>6
  <2>4. line[o][p].delivered <= shipped'[o][p]
    BY <1>3, <2>1, <2>2
  <2> QED
    BY <1>4, <1>5, <1>6, <2>1, <2>3, <2>4
<1>8. RowsInv(o)'
  BY <1>2, <1>5, <1>7 DEF RowsInv, Fulfillable, WellFormed
<1>9. order[o].status \notin Reviewable \cup {"REJECTED"}
  BY MissionMeansApproved DEF CompleteDelivery, OrderInv
<1>10. \A k \in Missions : mission'[o][k].deliverable = mission[o][k].deliverable
  BY MissionMoves DEF CompleteDelivery, DeliveryStatuses
<1>11. MissionsInv(o)'
  BY <1>2, <1>5, <1>10, MissionsStayBacked DEF OrderInv
<1>12. CompletedInv(o)'
  <2> SUFFICES ASSUME order'[o].status = "COMPLETED", NEW p \in Products
               PROVE  shipped'[o][p] >= Ordered[o][p]
    BY DEF CompletedInv
  <2>1. CASE order[o].status = "COMPLETED"
    <3>1. shipped[o][p] >= Ordered[o][p]
      BY <2>1 DEF OrderInv, CompletedInv
    <3> QED
      BY <1>3, <3>1, OrderedType
  <2>2. CASE line'[o][p].delivered >= Ordered[o][p]
    <3>1. line'[o][p].delivered \in Nat
      BY <1>1, <1>6 DEF LineRows, AllocRows
    <3> QED
      BY <1>3, <1>7, <2>2, <3>1, OrderedType
  <2> QED
    BY <1>6, <2>1, <2>2
<1> QED
  BY <1>6, <1>8, <1>9, <1>11, <1>12, ApprovedMayHold DEF OrderInv, Reviewable

-----------------------------------------------------------------------------
(* The balances: only approval, cancellation and delivery write them. *)

(* No transaction breaks a CHECK of inventory_balances. *)
LEMMA StepKeepsChecks ==
  ASSUME TypeOK, BalancesKeepChecks, NEW o \in Orders,
         \/ OfficeStep(o) \/ WarehouseStep(o) \/ \E m \in Missions : DriverStep(o, m)
  PROVE  BalancesKeepChecks'
<1> USE RowsOf
<1> SUFFICES ASSUME NEW p \in Products PROVE SatisfiesChecks(balance'[p])
  BY DEF BalancesKeepChecks, SatisfiesChecks
<1>1. balance[p] \in Balance /\ SatisfiesChecks(balance[p]) /\ line[o][p].reserved \in Nat
  BY DEF TypeOK, BalancesKeepChecks, LineRows
<1>2. CASE ApproveOrder(o)
  <2>1. balance'[p] = IF p \in Lines(o) THEN Reserve(balance[p], Fulfillable(o, p)) ELSE balance[p]
    BY <1>2 DEF ApproveOrder
  <2>2. CASE p \in Lines(o)
    <3>1. balance[p].available >= Fulfillable(o, p) /\ Fulfillable(o, p) \in Nat
      BY <1>2, <2>2, OrderedType DEF ApproveOrder, StockSuffices
    <3> QED
      BY <1>1, <2>1, <2>2, <3>1, ReserveKeepsChecks
  <2> QED
    BY <1>1, <2>1, <2>2
<1>3. CASE CancelOrder(o)
  <2>1. CASE ReleaseReservation(o)
    <3>1. balance'[p] = Release(balance[p], line[o][p].reserved)
      BY <2>1 DEF ReleaseReservation
    <3> QED
      BY <1>1, <3>1, ReleaseKeepsChecks
  <2> QED
    BY <1>1, <1>3, <2>1 DEF CancelOrder
<1>4. ASSUME NEW m \in Missions, CompleteDelivery(o, m)
      PROVE  SatisfiesChecks(balance'[p])
  <2>1. balance' = RelievedBalances(o, m)
    BY <1>4 DEF CompleteDelivery
  <2>2. CASE mission[o][m].deliverable[p] > 0
    BY <1>4, <2>1, <2>2 DEF CompleteDelivery, DeliveryCommits
  <2>3. CASE ~(mission[o][m].deliverable[p] > 0)
    BY <1>1, <2>1, <2>3 DEF RelievedBalances
  <2> QED
    BY <2>2, <2>3
<1>5. ASSUME \/ RejectOrder(o) \/ AssignOrder(o) \/ WarehouseStep(o)
             \/ \E s \in PaymentStatuses : PaymentVerified(o, s) \/ PaymentReversed(o, s)
             \/ \E m \in Missions : DriverStep(o, m) /\ ~CompleteDelivery(o, m)
      PROVE  balance' = balance
  <2>1. CASE \/ RejectOrder(o) \/ AssignOrder(o)
             \/ \E s \in PaymentStatuses : PaymentVerified(o, s) \/ PaymentReversed(o, s)
    BY <2>1 DEF RejectOrder, AssignOrder, PaymentVerified, PaymentReversed
  <2>2. CASE WarehouseStep(o)
    BY <2>2 DEF WarehouseStep, PickOrder, PackOrder, DispatchOrder
  <2>3. CASE \E m \in Missions : DriverStep(o, m) /\ ~CompleteDelivery(o, m)
    BY <2>3 DEF DriverStep, ConfirmPickup, StartRoute, RecordFailure, Reschedule, ReturnToWarehouse
  <2> QED
    BY <1>5, <2>1, <2>2, <2>3
<1> QED
  BY <1>1, <1>2, <1>3, <1>4, <1>5 DEF OfficeStep

-----------------------------------------------------------------------------
(* The theorems. *)

(* The invariant holds of newly submitted orders. *)
LEMMA InitInv == Init => Inv
<1> SUFFICES ASSUME Init PROVE Inv
  OBVIOUS
<1>1. TypeOK
  BY InitType
<1>2. BalancesKeepChecks
  BY InitialBalanceAssumption DEF Init, BalancesKeepChecks
<1>3. ASSUME NEW o \in Orders PROVE OrderInv(o)
  <2>1. RowsInv(o)
    BY OrderedType DEF Init, RowsInv, WellFormed, Dispatchable, Pickable
  <2>2. UnapprovedInv(o)
    BY DEF Init, UnapprovedInv, ExistingMissions, NoMission
  <2>3. MissionsInv(o)
    BY DEF Init, MissionsInv, NoMission
  <2>4. CompletedInv(o)
    BY DEF Init, CompletedInv
  <2> QED
    BY <2>1, <2>2, <2>3, <2>4 DEF OrderInv
<1> QED
  BY <1>1, <1>2, <1>3 DEF Inv

(* A transaction keeps the part of the invariant of the order it is about. *)
LEMMA ActorKeepsInv ==
  ASSUME TypeOK, NEW o \in Orders, OrderInv(o),
         \/ OfficeStep(o) \/ WarehouseStep(o) \/ \E m \in Missions : DriverStep(o, m)
  PROVE  OrderInv(o)'
<1>1. CASE OfficeStep(o)
  BY <1>1, ApproveKeepsInv, RejectKeepsInv, CancelKeepsInv, AssignKeepsInv, VerifyKeepsInv,
     ReverseKeepsInv DEF OfficeStep
<1>2. CASE WarehouseStep(o)
  BY <1>2, PickKeepsInv, PackKeepsInv, DispatchKeepsInv DEF WarehouseStep
<1>3. CASE \E m \in Missions : DriverStep(o, m)
  BY <1>3, PickupKeepsInv, MovesKeepInv, DeliverKeepsInv, ReturnKeepsInv DEF DriverStep
<1> QED
  BY <1>1, <1>2, <1>3

(* Every transaction keeps the whole invariant. *)
LEMMA StepKeepsInv == Inv /\ [Next]_vars => Inv'
<1> SUFFICES ASSUME Inv, [Next]_vars PROVE Inv'
  OBVIOUS
<1>1. CASE UNCHANGED vars
  <2>1. TypeOK' /\ BalancesKeepChecks'
    BY <1>1 DEF Inv, vars, TypeOK, BalancesKeepChecks
  <2>2. \A q \in Orders : OrderInv(q)'
    BY <1>1, OthersKeepInv DEF Inv, vars
  <2> QED
    BY <2>1, <2>2 DEF Inv
<1>2. CASE Next
  <2>1. PICK o \in Orders : \/ OfficeStep(o) \/ WarehouseStep(o)
                            \/ \E m \in Missions : DriverStep(o, m)
    BY <1>2 DEF Next
  <2>2. TypeOK'
    BY <2>1, ReviewType, AssignType, PaymentType, WarehouseType, DriverType DEF Inv, OfficeStep
  <2>3. BalancesKeepChecks'
    BY <2>1, StepKeepsChecks DEF Inv
  <2>4. OrderInv(o)'
    BY <2>1, ActorKeepsInv DEF Inv
  <2>5. \A q \in Orders : q # o => OrderInv(q)'
    BY <2>1, OthersUntouched, OthersKeepInv DEF Inv
  <2> QED
    BY <2>2, <2>3, <2>4, <2>5 DEF Inv
<1> QED
  BY <1>1, <1>2

(* The invariant holds in every reachable state. *)
LEMMA Invariance == Spec => []Inv
BY InitInv, StepKeepsInv, PTL DEF Spec

(* Neither an approval nor a cancellation can leave an inventory_balances row
   that a CHECK refuses, whatever happened before. *)
THEOREM BalancesSafe == Spec => []BalancesKeepChecks
<1>1. Inv => BalancesKeepChecks
  BY DEF Inv
<1> QED
  BY <1>1, Invariance, PTL

(* delivered <= dispatched <= picked <= allocated <= ordered on every allocation,
   through every order of picks, packs, dispatches, pickups and returns. *)
THEOREM LadderSafe == Spec => []AllocationLadder
<1>1. Inv => AllocationLadder
  <2> SUFFICES ASSUME Inv, NEW o \in Orders, NEW p \in Products
               PROVE  /\ alloc[o][p].delivered <= alloc[o][p].dispatched
                      /\ alloc[o][p].dispatched <= alloc[o][p].picked
                      /\ alloc[o][p].picked <= alloc[o][p].allocated
                      /\ alloc[o][p].reserved <= alloc[o][p].allocated
                      /\ alloc[o][p].allocated <= Fulfillable(o, p)
    BY DEF AllocationLadder
  <2>1. WellFormed(alloc[o][p], Fulfillable(o, p)) /\ Fulfillable(o, p) \in Nat
    BY OrderedType DEF Inv, OrderInv, RowsInv
  <2> QED
    BY <2>1 DEF WellFormed
<1> QED
  BY <1>1, Invariance, PTL

(* An order that was not approved, or was rejected, holds nothing. *)
THEOREM UnapprovedSafe == Spec => []UnapprovedHoldsNothing
<1>1. Inv => UnapprovedHoldsNothing
  BY DEF Inv, OrderInv, UnapprovedInv, UnapprovedHoldsNothing
<1> QED
  BY <1>1, Invariance, PTL

(* No mission carries what was not allocated to its order. *)
THEOREM MissionsSafe == Spec => []MissionsAreBacked
<1>1. Inv => MissionsAreBacked
  BY DEF Inv, OrderInv, MissionsInv, RowsInv, WellFormed, MissionsAreBacked
<1> QED
  BY <1>1, Invariance, PTL

(* A completed order's goods have left the warehouse, line by line. *)
THEOREM CompletionSafe == Spec => []CompletedWasShipped
<1>1. Inv => CompletedWasShipped
  BY DEF Inv, OrderInv, CompletedInv, CompletedWasShipped
<1> QED
  BY <1>1, Invariance, PTL

(***************************************************************************)
(* The action properties of OrderFulfillment: what no step may do, and     *)
(* what the step that fulfils the last condition must do.                  *)
(***************************************************************************)

-----------------------------------------------------------------------------
(* An order under review shows no fulfillment; with the invariant of the safety
   proofs this is what makes completion possible when goods are delivered. *)

ReviewInv(o) == order[o].status \in Reviewable => order[o].fulfillment = "UNALLOCATED"

StepInv == Inv /\ \A o \in Orders : ReviewInv(o)

(* Evaluation changes only the status, and that only of an open order. *)
LEMMA EvaluateRow ==
  ASSUME TypeOK, NEW o \in Orders, NEW row \in OrderRows,
         NEW lines \in [Products -> LineRows], NEW allocs \in [Products -> AllocRows],
         EvaluateAndComplete(o, row, lines, allocs)
  PROVE  /\ order'[o].fulfillment = row.fulfillment
         /\ order'[o].delivery = row.delivery
         /\ order'[o].payment = row.payment
         /\ \/ order'[o].status = row.status
            \/ row.status \in {"APPROVED", "PROCESSING"} /\ order'[o].status = "COMPLETED"
<1> DEFINE evaluated == IF AwaitsOnlyGoods(row) THEN RolledUp(lines, allocs) ELSE lines
           completes == /\ AwaitsOnlyGoods(row)
                        /\ \A p \in Lines(o) : evaluated[p].delivered >= Fulfillable(o, p)
<1>1. order'[o] = IF completes THEN [row EXCEPT !.status = "COMPLETED"] ELSE row
  BY DEF EvaluateAndComplete, TypeOK
<1>2. completes => row.status \in {"APPROVED", "PROCESSING"}
  BY DEF AwaitsOnlyGoods
<1> HIDE DEF completes
<1> QED
  BY <1>1, <1>2 DEF OrderRows

(* It completes an open, paid and delivered order once every line is full. *)
LEMMA EvaluateCompletes ==
  ASSUME TypeOK, NEW o \in Orders, NEW row \in OrderRows,
         NEW lines \in [Products -> LineRows], NEW allocs \in [Products -> AllocRows],
         EvaluateAndComplete(o, row, lines, allocs),
         AwaitsOnlyGoods(row), \A p \in Products : line'[o][p].delivered >= Ordered[o][p]
  PROVE  order'[o].status = "COMPLETED"
<1> DEFINE evaluated == IF AwaitsOnlyGoods(row) THEN RolledUp(lines, allocs) ELSE lines
           completes == /\ AwaitsOnlyGoods(row)
                        /\ \A p \in Lines(o) : evaluated[p].delivered >= Fulfillable(o, p)
<1>1. line'[o] = evaluated
  BY DEF EvaluateAndComplete, TypeOK
<1>2. completes
  BY <1>1 DEF Lines, Fulfillable
<1>3. order'[o] = IF completes THEN [row EXCEPT !.status = "COMPLETED"] ELSE row
  BY DEF EvaluateAndComplete, TypeOK
<1> HIDE DEF completes
<1> QED
  BY <1>2, <1>3 DEF OrderRows

(* Both for the two callers. *)
LEMMA VerifiedRow ==
  ASSUME TypeOK, NEW o \in Orders, NEW s \in PaymentStatuses, PaymentVerified(o, s)
  PROVE  /\ order'[o].fulfillment = order[o].fulfillment
         /\ order'[o].delivery = order[o].delivery
         /\ order'[o].payment = s
         /\ \/ order'[o].status = order[o].status
            \/ order[o].status \in {"APPROVED", "PROCESSING"} /\ order'[o].status = "COMPLETED"
         /\ /\ order[o].status \in {"APPROVED", "PROCESSING"} /\ s = "PAID"
            /\ order[o].fulfillment = "DELIVERED" /\ order[o].delivery = "DELIVERED"
            /\ \A p \in Products : line'[o][p].delivered >= Ordered[o][p]
            => order'[o].status = "COMPLETED"
<1> DEFINE row == [order[o] EXCEPT !.payment = s]
<1>1. row \in OrderRows
  BY RowsOf, OrderRowUpdates
<1>2. /\ row.status = order[o].status /\ row.fulfillment = order[o].fulfillment
      /\ row.delivery = order[o].delivery /\ row.payment = s
  BY RowsOf DEF OrderRows
<1>3. EvaluateAndComplete(o, row, line[o], alloc[o])
  BY DEF PaymentVerified
<1> HIDE DEF row
<1>4. line[o] \in [Products -> LineRows] /\ alloc[o] \in [Products -> AllocRows]
  BY RowsOf
<1> QED
  BY <1>1, <1>2, <1>3, <1>4, EvaluateRow, EvaluateCompletes DEF AwaitsOnlyGoods

(* What a delivery makes of the order's row: delivered, and completed when it is the last condition. *)
LEMMA DeliveredRow ==
  ASSUME TypeOK, NEW o \in Orders, NEW m \in Missions, CompleteDelivery(o, m)
  PROVE  /\ order'[o].fulfillment = "DELIVERED"
         /\ order'[o].delivery = "DELIVERED"
         /\ order'[o].payment = order[o].payment
         /\ \/ order'[o].status = order[o].status
            \/ order[o].status \in {"APPROVED", "PROCESSING"} /\ order'[o].status = "COMPLETED"
         /\ /\ order[o].status \in {"APPROVED", "PROCESSING"} /\ order[o].payment = "PAID"
            /\ \A p \in Products : line'[o][p].delivered >= Ordered[o][p]
            => order'[o].status = "COMPLETED"
<1> DEFINE row == [order[o] EXCEPT !.fulfillment = "DELIVERED", !.delivery = "DELIVERED"]
           allocs == DeliveredAllocations(o, m)
           lines == RolledUp(line[o], allocs)
<1>1. row \in OrderRows
  BY RowsOf, OrderRowUpdates DEF FulfillmentStatuses, DeliveryStatuses
<1>2. /\ row.status = order[o].status /\ row.fulfillment = "DELIVERED"
      /\ row.delivery = "DELIVERED" /\ row.payment = order[o].payment
  BY RowsOf DEF OrderRows
<1>3. EvaluateAndComplete(o, row, lines, allocs)
  BY DEF CompleteDelivery
<1>4. allocs \in [Products -> AllocRows]
  BY DeliveredRowsType
<1>5. lines \in [Products -> LineRows]
  BY <1>4, RowsOf, RolledUpType
<1> HIDE DEF row, allocs, lines
<1> QED
  BY <1>1, <1>2, <1>3, <1>4, <1>5, EvaluateRow, EvaluateCompletes DEF AwaitsOnlyGoods

(* Every other action leaves the order short of a fulfilled condition. *)
LEMMA ReviewedRow ==
  ASSUME TypeOK, NEW o \in Orders, ApproveOrder(o) \/ RejectOrder(o) \/ CancelOrder(o)
  PROVE  /\ order[o].status \notin Closed
         /\ order'[o].status \in {"APPROVED", "REJECTED", "CANCELLED"}
         /\ order'[o].fulfillment = "DELIVERED" => order'[o].status \in {"CANCELLED", "REJECTED"}
<1>1. order[o] \in OrderRows
  BY RowsOf
<1>2. CASE ApproveOrder(o)
  <2>1. order' = [order EXCEPT ![o] = [@ EXCEPT !.status = "APPROVED", !.fulfillment = "RESERVED"]]
    BY <1>2 DEF ApproveOrder
  <2>2. order[o].status \in Reviewable
    BY <1>2 DEF ApproveOrder
  <2> QED
    BY <1>1, <2>1, <2>2 DEF TypeOK, OrderRows, Reviewable, Closed
<1>3. CASE RejectOrder(o)
  BY <1>1, <1>3, StatusAfter DEF RejectOrder, Reviewable, Closed
<1>4. CASE CancelOrder(o)
  BY <1>1, <1>4, StatusAfter DEF CancelOrder, IsOpen
<1> QED
  BY <1>2, <1>3, <1>4

(* The warehouse works on open orders only and makes them PROCESSING. *)
LEMMA WarehouseRow ==
  ASSUME TypeOK, NEW o \in Orders, WarehouseStep(o)
  PROVE  /\ order[o].status \notin Closed
         /\ order'[o].status = "PROCESSING"
         /\ order'[o].fulfillment # "DELIVERED"
<1>1. order[o] \in OrderRows
  BY RowsOf
<1>2. \/ order' = [order EXCEPT ![o] = [@ EXCEPT !.fulfillment = "PICKED", !.status = "PROCESSING"]]
      \/ order' = [order EXCEPT ![o] = [@ EXCEPT !.fulfillment = "PACKED", !.status = "PROCESSING"]]
      \/ order' = [order EXCEPT ![o] = [@ EXCEPT !.fulfillment = "DISPATCHED", !.status = "PROCESSING",
                                                 !.delivery = "PENDING_ASSIGNMENT"]]
  BY DEF WarehouseStep, PickOrder, PackOrder, DispatchOrder
<1>3. order[o].status \notin Closed
  BY DEF WarehouseStep, PickOrder, PackOrder, DispatchOrder, IsOpen
<1>4. ASSUME NEW f \in {"PICKED", "PACKED"},
             order' = [order EXCEPT ![o] = [@ EXCEPT !.fulfillment = f, !.status = "PROCESSING"]]
      PROVE  order'[o].status = "PROCESSING" /\ order'[o].fulfillment # "DELIVERED"
  BY <1>1, <1>4 DEF TypeOK, OrderRows
<1>5. ASSUME order' = [order EXCEPT ![o] = [@ EXCEPT !.fulfillment = "DISPATCHED",
                         !.status = "PROCESSING", !.delivery = "PENDING_ASSIGNMENT"]]
      PROVE  order'[o].status = "PROCESSING" /\ order'[o].fulfillment # "DELIVERED"
  BY <1>1, <1>5 DEF TypeOK, OrderRows
<1> QED
  BY <1>2, <1>3, <1>4, <1>5

(* An assignment changes the order's delivery status only. *)
LEMMA AssignedRow ==
  ASSUME TypeOK, NEW o \in Orders, AssignOrder(o)
  PROVE  /\ order'[o].status = order[o].status /\ order'[o].fulfillment = order[o].fulfillment
         /\ order'[o].delivery # "DELIVERED"
<1>1. order[o] \in OrderRows /\ order' = [order EXCEPT ![o].delivery = "ASSIGNED"]
  BY RowsOf DEF AssignOrder
<1> QED
  BY <1>1 DEF TypeOK, OrderRows

(* A reversal changes its payment status only. *)
LEMMA ReversedRow ==
  ASSUME TypeOK, NEW o \in Orders, NEW s \in PaymentStatuses, PaymentReversed(o, s)
  PROVE  /\ order'[o].status = order[o].status /\ order'[o].fulfillment = order[o].fulfillment
         /\ order'[o].delivery = order[o].delivery /\ order'[o].payment = s
<1>1. order[o] \in OrderRows /\ order' = [order EXCEPT ![o].payment = s]
  BY RowsOf DEF PaymentReversed
<1> QED
  BY <1>1 DEF TypeOK, OrderRows

(* A driver's step short of a delivery leaves the order's status alone. *)
LEMMA MovedRow ==
  ASSUME TypeOK, NEW o \in Orders, NEW m \in Missions, DriverStep(o, m), ~CompleteDelivery(o, m)
  PROVE  /\ order'[o].status = order[o].status
         /\ order'[o].delivery # "DELIVERED"
<1>1. order[o] \in OrderRows
  BY RowsOf
<1>2. \/ order' = [order EXCEPT ![o] = [@ EXCEPT !.fulfillment = "DISPATCHED", !.delivery = "PICKED_UP"]]
      \/ order' = [order EXCEPT ![o] =
                     [@ EXCEPT !.fulfillment = "RESERVED", !.delivery = "RETURNED_TO_WAREHOUSE"]]
      \/ \E d \in DeliveryStatuses \ {"DELIVERED"} : order' = [order EXCEPT ![o].delivery = d]
  BY DEF DriverStep, ConfirmPickup, StartRoute, RecordFailure, Reschedule, ReturnToWarehouse, DeliveryStatuses
<1>3. \/ order'[o] = [order[o] EXCEPT !.fulfillment = "DISPATCHED", !.delivery = "PICKED_UP"]
      \/ order'[o] = [order[o] EXCEPT !.fulfillment = "RESERVED",
                                     !.delivery = "RETURNED_TO_WAREHOUSE"]
      \/ \E d \in DeliveryStatuses \ {"DELIVERED"} : order'[o] = [order[o] EXCEPT !.delivery = d]
  BY <1>2 DEF TypeOK
<1> QED
  BY <1>1, <1>3 DEF OrderRows

(* An order with a mission is past its review and was not rejected. *)
LEMMA DrivenIsReviewed ==
  ASSUME NEW o \in Orders, OrderInv(o), NEW m \in Missions, DriverStep(o, m)
  PROVE  order[o].status \notin Reviewable \cup {"REJECTED"}
<1>1. mission[o][m].status # "NONE"
  BY DEF DriverStep, ConfirmPickup, StartRoute, CompleteDelivery, RecordFailure, Reschedule,
     ReturnToWarehouse, CanBeFailed, CanBeRescheduled, CanBeReturned
<1> QED
  BY <1>1, MissionMeansApproved DEF OrderInv

-----------------------------------------------------------------------------
(* The extended invariant. *)

(* Every transaction keeps what the review decided. *)
LEMMA StepKeepsReview ==
  ASSUME TypeOK, NEW o \in Orders, OrderInv(o), ReviewInv(o),
         \/ OfficeStep(o) \/ WarehouseStep(o) \/ \E m \in Missions : DriverStep(o, m)
  PROVE  ReviewInv(o)'
<1>1. CASE ApproveOrder(o) \/ RejectOrder(o) \/ CancelOrder(o)
  BY <1>1, ReviewedRow DEF ReviewInv, Reviewable
<1>2. CASE AssignOrder(o)
  BY <1>2, AssignedRow DEF ReviewInv
<1>3. ASSUME NEW s \in PaymentStatuses, PaymentVerified(o, s) \/ PaymentReversed(o, s)
      PROVE  ReviewInv(o)'
  BY <1>3, VerifiedRow, ReversedRow DEF ReviewInv, Reviewable
<1>4. CASE WarehouseStep(o)
  BY <1>4, WarehouseRow DEF ReviewInv, Reviewable
<1>5. ASSUME NEW m \in Missions, DriverStep(o, m)
      PROVE  ReviewInv(o)'
  BY <1>5, DrivenIsReviewed, MovedRow, DeliveredRow DEF ReviewInv, Reviewable
<1> QED
  BY <1>1, <1>2, <1>3, <1>4, <1>5 DEF OfficeStep

(* The extended invariant holds in every reachable state. *)
LEMMA StepInvariance == Spec => []StepInv
<1>1. Init => \A o \in Orders : ReviewInv(o)
  BY DEF Init, ReviewInv
<1>2. Inv /\ (\A o \in Orders : ReviewInv(o)) /\ [Next]_vars => (\A o \in Orders : ReviewInv(o))'
  <2> SUFFICES ASSUME Inv, \A o \in Orders : ReviewInv(o), [Next]_vars, NEW q \in Orders
               PROVE  ReviewInv(q)'
    OBVIOUS
  <2>1. CASE UNCHANGED vars
    BY <2>1 DEF vars, ReviewInv
  <2>2. CASE Next
    <3>1. PICK o \in Orders : \/ OfficeStep(o) \/ WarehouseStep(o)
                              \/ \E m \in Missions : DriverStep(o, m)
      BY <2>2 DEF Next
    <3>2. CASE q = o
      BY <3>1, <3>2, StepKeepsReview DEF Inv
    <3>3. CASE q # o
      BY <3>1, <3>3, OthersUntouched DEF Inv, ReviewInv
    <3> QED
      BY <3>2, <3>3
  <2> QED
    BY <2>1, <2>2
<1> QED
  BY <1>1, <1>2, InitInv, StepKeepsInv, PTL DEF Spec, StepInv

-----------------------------------------------------------------------------
(* The action properties. *)

(* No transaction changes the status of a closed order. *)
LEMMA ClosedKept ==
  ASSUME TypeOK, NEW o \in Orders, order[o].status \in Closed,
         \/ OfficeStep(o) \/ WarehouseStep(o) \/ \E m \in Missions : DriverStep(o, m)
  PROVE  order'[o].status = order[o].status
<1>1. CASE ApproveOrder(o) \/ RejectOrder(o) \/ CancelOrder(o) \/ WarehouseStep(o)
  BY <1>1, ReviewedRow, WarehouseRow
<1>2. CASE AssignOrder(o)
  BY <1>2, AssignedRow
<1>3. ASSUME NEW s \in PaymentStatuses, PaymentVerified(o, s) \/ PaymentReversed(o, s)
      PROVE  order'[o].status = order[o].status
  BY <1>3, VerifiedRow, ReversedRow DEF Closed
<1>4. ASSUME NEW m \in Missions, DriverStep(o, m)
      PROVE  order'[o].status = order[o].status
  BY <1>4, MovedRow, DeliveredRow DEF Closed
<1> QED
  BY <1>1, <1>2, <1>3, <1>4 DEF OfficeStep

(* No step reopens or relabels a completed, cancelled or rejected order. *)
THEOREM ClosedIsFinal == Spec => ClosedStaysClosed
<1>1. TypeOK /\ [Next]_vars =>
        [\A o \in Orders : order[o].status \in Closed => order'[o].status = order[o].status]_vars
  <2> SUFFICES ASSUME TypeOK, Next, NEW q \in Orders, order[q].status \in Closed
               PROVE  order'[q].status = order[q].status
    OBVIOUS
  <2>1. PICK o \in Orders : \/ OfficeStep(o) \/ WarehouseStep(o)
                            \/ \E m \in Missions : DriverStep(o, m)
    BY DEF Next
  <2>2. CASE q = o
    BY <2>1, <2>2, ClosedKept
  <2>3. CASE q # o
    BY <2>1, <2>3, OthersUntouched
  <2> QED
    BY <2>2, <2>3
<1> QED
  BY <1>1, TypeCorrect, PTL DEF Spec, ClosedStaysClosed

(* No transaction writes a delivered mission. *)
LEMMA DeliveredKept ==
  ASSUME TypeOK, NEW o \in Orders, NEW k \in Missions, mission[o][k].status = "DELIVERED",
         \/ OfficeStep(o) \/ WarehouseStep(o) \/ \E m \in Missions : DriverStep(o, m)
  PROVE  mission'[o][k] = mission[o][k]
<1>1. CASE ApproveOrder(o) \/ RejectOrder(o) \/ CancelOrder(o)
  BY <1>1 DEF ApproveOrder, RejectOrder, CancelOrder
<1>2. CASE \E s \in PaymentStatuses : PaymentVerified(o, s) \/ PaymentReversed(o, s)
  BY <1>2 DEF PaymentVerified, PaymentReversed
<1>3. CASE AssignOrder(o)
  <2>1. CASE ReuseMission(o)
    <3>1. PICK m \in AssignableMissions(o) : mission' = [mission EXCEPT ![o][m].status = "ASSIGNED"]
      BY <2>1 DEF ReuseMission
    <3>2. m \in Missions /\ m # k
      BY <3>1 DEF AssignableMissions, Assignable
    <3> QED
      BY <3>1, <3>2 DEF TypeOK
  <2>2. CASE CreateAssignedMission(o)
    <3>1. PICK m \in Missions :
            /\ NextMission(o, m)
            /\ mission' = [mission EXCEPT ![o][m] =
                 [status |-> "ASSIGNED",
                  deliverable |-> [p \in Products |->
                    IF p \in ActiveAllocations(o) THEN alloc[o][p].allocated ELSE 0]]]
      BY <2>2 DEF CreateAssignedMission
    <3>2. m # k
      BY <3>1 DEF NextMission, ExistingMissions
    <3> QED
      BY <3>1, <3>2 DEF TypeOK
  <2> QED
    BY <1>3, <2>1, <2>2 DEF AssignOrder
<1>4. CASE WarehouseStep(o)
  <2>1. ExistingMissions(o) # {}
    BY DEF ExistingMissions
  <2> QED
    BY <1>4, <2>1 DEF WarehouseStep, PickOrder, PackOrder, DispatchOrder
<1>5. ASSUME NEW m \in Missions, DriverStep(o, m)
      PROVE  mission'[o][k] = mission[o][k]
  <2>1. m # k
    BY <1>5 DEF DriverStep, ConfirmPickup, StartRoute, CompleteDelivery, RecordFailure, Reschedule,
       ReturnToWarehouse, CanBeFailed, CanBeRescheduled, CanBeReturned
  <2>2. \E s \in DeliveryStatuses : mission' = [mission EXCEPT ![o][m].status = s]
    BY <1>5 DEF DriverStep, ConfirmPickup, StartRoute, CompleteDelivery, RecordFailure, Reschedule,
       ReturnToWarehouse, DeliveryStatuses
  <2> QED
    BY <2>1, <2>2 DEF TypeOK
<1> QED
  BY <1>1, <1>2, <1>3, <1>4, <1>5 DEF OfficeStep

(* No transaction takes a DISPATCH movement back. *)
LEMMA LedgerGrows ==
  ASSUME TypeOK, NEW o \in Orders, NEW p \in Products,
         \/ OfficeStep(o) \/ WarehouseStep(o) \/ \E m \in Missions : DriverStep(o, m)
  PROVE  shipped'[o][p] >= shipped[o][p]
<1>1. shipped[o][p] \in Nat
  BY DEF TypeOK
<1>2. CASE OfficeStep(o) \/ WarehouseStep(o)
  <2>1. shipped' = shipped
    BY <1>2 DEF OfficeStep, ApproveOrder, RejectOrder, CancelOrder, AssignOrder, PaymentVerified,
       PaymentReversed, WarehouseStep, PickOrder, PackOrder, DispatchOrder
  <2> QED
    BY <1>1, <2>1
<1>3. ASSUME NEW m \in Missions, CompleteDelivery(o, m)
      PROVE  shipped'[o][p] >= shipped[o][p]
  <2>1. shipped'[o][p] = shipped[o][p] + mission[o][m].deliverable[p]
    BY <1>3 DEF CompleteDelivery, TypeOK
  <2>2. mission[o][m].deliverable[p] \in Nat
    BY DEF TypeOK, MissionRows
  <2> QED
    BY <1>1, <2>1, <2>2
<1>4. ASSUME NEW m \in Missions, DriverStep(o, m), ~CompleteDelivery(o, m)
      PROVE  shipped'[o][p] >= shipped[o][p]
  <2>1. shipped' = shipped
    BY <1>4 DEF DriverStep, ConfirmPickup, StartRoute, RecordFailure, Reschedule, ReturnToWarehouse
  <2> QED
    BY <1>1, <2>1
<1> QED
  BY <1>2, <1>3, <1>4

(* A delivered mission never changes again and the ledger only grows. *)
THEOREM DeliveryIsFinal == Spec => DeliveredIsFinal
<1>1. TypeOK /\ [Next]_vars =>
        [\A o \in Orders :
           /\ \A m \in Missions : mission[o][m].status = "DELIVERED" => mission'[o][m] = mission[o][m]
           /\ \A p \in Products : shipped'[o][p] >= shipped[o][p]]_vars
  <2> SUFFICES ASSUME TypeOK, Next, NEW q \in Orders
               PROVE  /\ \A m \in Missions :
                           mission[q][m].status = "DELIVERED" => mission'[q][m] = mission[q][m]
                      /\ \A p \in Products : shipped'[q][p] >= shipped[q][p]
    OBVIOUS
  <2>1. PICK o \in Orders : \/ OfficeStep(o) \/ WarehouseStep(o)
                            \/ \E m \in Missions : DriverStep(o, m)
    BY DEF Next
  <2>2. CASE q = o
    BY <2>1, <2>2, DeliveredKept, LedgerGrows
  <2>3. CASE q # o
    <3>1. \A p \in Products : shipped[q][p] \in Nat
      BY DEF TypeOK
    <3> QED
      BY <2>1, <2>3, <3>1, OthersUntouched
  <2> QED
    BY <2>2, <2>3
<1> QED
  BY <1>1, TypeCorrect, PTL DEF Spec, DeliveredIsFinal

(* The transaction that brings the last condition completes the order. *)
LEMMA ActorCompletes ==
  ASSUME TypeOK, NEW o \in Orders, OrderInv(o), ReviewInv(o),
         \/ OfficeStep(o) \/ WarehouseStep(o) \/ \E m \in Missions : DriverStep(o, m),
         ~(PaidInFull(o) /\ AllGoodsDelivered(o)), order[o].payment # "OVERPAID",
         PaidInFull(o)', AllGoodsDelivered(o)'
  PROVE  order'[o].status = "COMPLETED"
<1>1. /\ order'[o].payment = "PAID"
      /\ order'[o].status \notin {"CANCELLED", "REJECTED"}
      /\ order'[o].fulfillment = "DELIVERED" /\ order'[o].delivery = "DELIVERED"
      /\ \A p \in Products : line'[o][p].delivered >= Ordered[o][p]
  BY DEF PaidInFull, AllGoodsDelivered
<1>2. order[o].status \in OrderStatuses /\ order[o].payment \in PaymentStatuses
  BY DEF TypeOK, OrderRows
<1>3. CASE \/ ApproveOrder(o) \/ RejectOrder(o) \/ CancelOrder(o)
           \/ WarehouseStep(o) \/ AssignOrder(o)
  BY <1>1, <1>3, ReviewedRow, WarehouseRow, AssignedRow
<1>4. ASSUME NEW s \in PaymentStatuses, PaymentVerified(o, s)
      PROVE  order'[o].status = "COMPLETED"
  <2>1. s = "PAID" /\ order[o].fulfillment = "DELIVERED" /\ order[o].delivery = "DELIVERED"
    BY <1>1, <1>4, VerifiedRow
  <2>2. order[o].status \notin Reviewable
    BY <2>1 DEF ReviewInv
  <2>3. order[o].status \notin {"CANCELLED", "REJECTED"}
    BY <1>1, <1>4, VerifiedRow
  <2>4. order[o].status \in {"APPROVED", "PROCESSING", "COMPLETED"}
    BY <1>2, <2>2, <2>3 DEF OrderStatuses, Reviewable
  <2> QED
    BY <1>1, <1>4, <2>1, <2>4, VerifiedRow
<1>5. ASSUME NEW s \in PaymentStatuses, PaymentReversed(o, s)
      PROVE  FALSE
  <2>1. /\ order[o].fulfillment = "DELIVERED" /\ order[o].delivery = "DELIVERED"
        /\ order[o].status \notin {"CANCELLED", "REJECTED"} /\ s = "PAID"
    BY <1>1, <1>5, ReversedRow
  <2>2. line' = line
    BY <1>5 DEF PaymentReversed
  <2>3. AllGoodsDelivered(o)
    BY <1>1, <2>1, <2>2 DEF AllGoodsDelivered
  <2>4. Rank["PAID"] <= Rank[order[o].payment]
    BY <1>5, <2>1 DEF PaymentReversed
  <2>5. order[o].payment = "PAID"
    BY <1>2, <2>4 DEF Rank, PaymentStatuses
  <2> QED
    BY <2>3, <2>5 DEF PaidInFull
<1>6. ASSUME NEW m \in Missions, CompleteDelivery(o, m)
      PROVE  order'[o].status = "COMPLETED"
  <2>1. order[o].payment = "PAID" /\ order[o].status \notin {"CANCELLED", "REJECTED"}
    BY <1>1, <1>6, DeliveredRow
  <2>2. order[o].status \notin Reviewable
    BY <1>6, DrivenIsReviewed DEF DriverStep
  <2>3. order[o].status \in {"APPROVED", "PROCESSING", "COMPLETED"}
    BY <1>2, <2>1, <2>2 DEF OrderStatuses, Reviewable
  <2> QED
    BY <1>1, <1>6, <2>1, <2>3, DeliveredRow
<1>7. ASSUME NEW m \in Missions, DriverStep(o, m), ~CompleteDelivery(o, m)
      PROVE  FALSE
  BY <1>1, <1>7, MovedRow
<1> QED
  BY <1>3, <1>4, <1>5, <1>6, <1>7 DEF OfficeStep

(* The transaction that settles a delivered order, or delivers a settled one,
   completes it. *)
THEOREM CompletionIsPrompt == Spec => LastConditionCompletes
<1>1. StepInv /\ [Next]_vars =>
        [\A o \in Orders :
           /\ ~(PaidInFull(o) /\ AllGoodsDelivered(o))
           /\ PaidInFull(o)' /\ AllGoodsDelivered(o)'
           /\ order[o].payment # "OVERPAID"
           => order'[o].status = "COMPLETED"]_vars
  <2> SUFFICES ASSUME StepInv, Next, NEW q \in Orders,
                      ~(PaidInFull(q) /\ AllGoodsDelivered(q)),
                      PaidInFull(q)', AllGoodsDelivered(q)', order[q].payment # "OVERPAID"
               PROVE  order'[q].status = "COMPLETED"
    OBVIOUS
  <2>1. PICK o \in Orders : \/ OfficeStep(o) \/ WarehouseStep(o)
                            \/ \E m \in Missions : DriverStep(o, m)
    BY DEF Next
  <2>2. CASE q = o
    BY <2>1, <2>2, ActorCompletes DEF StepInv, Inv
  <2>3. CASE q # o
    <3>1. order'[q] = order[q] /\ line'[q] = line[q]
      BY <2>1, <2>3, OthersUntouched DEF StepInv, Inv
    <3> QED
      BY <3>1 DEF PaidInFull, AllGoodsDelivered
  <2> QED
    BY <2>2, <2>3
<1> QED
  BY <1>1, StepInvariance, PTL DEF Spec, LastConditionCompletes

(***************************************************************************)
(* OrderFulfillment implements OrderLife, for any orders, quantities and   *)
(* stock: every transaction is a step of the life of its own order.        *)
(***************************************************************************)

-----------------------------------------------------------------------------
(* The abstract variables, named. *)

StatusOf     == [o \in Orders |-> order[o].status]
SettlementOf == [o \in Orders |-> order[o].payment]
ApprovedOf   == [o \in Orders |-> Approved(o)]
DeliveredOf  == [o \in Orders |-> DeliveredInFull(o)]

(* Functions into the truth values that agree on one argument with a given
   value and on all others with one another. *)
LEMMA Switched ==
  ASSUME NEW S, NEW f \in [S -> BOOLEAN], NEW g \in [S -> BOOLEAN],
         NEW x \in S, NEW b \in BOOLEAN, g[x] <=> b,
         \A y \in S \ {x} : g[y] <=> f[y]
  PROVE  g = [f EXCEPT ![x] = b]
<1>1. [f EXCEPT ![x] = b] \in [S -> BOOLEAN]
  BY Zenon
<1>2. ASSUME NEW y \in S
      PROVE  g[y] = [f EXCEPT ![x] = b][y]
  <2>1. CASE y = x
    BY <2>1, Zenon
  <2>2. CASE y # x
    BY <2>2, Zenon
  <2> QED
    BY <2>1, <2>2
<1> QED
  BY <1>1, <1>2

(* The two flags are truth values of the predicates they stand for. *)
LEMMA Flags ==
  /\ ApprovedOf \in [Orders -> BOOLEAN] /\ ApprovedOf' \in [Orders -> BOOLEAN]
  /\ DeliveredOf \in [Orders -> BOOLEAN] /\ DeliveredOf' \in [Orders -> BOOLEAN]
  /\ \A o \in Orders : (ApprovedOf[o] <=> Approved(o)) /\ (ApprovedOf'[o] <=> Approved(o)')
  /\ \A o \in Orders : (DeliveredOf[o] <=> DeliveredInFull(o)) /\ (DeliveredOf'[o] <=> DeliveredInFull(o)')
<1>1. ApprovedOf \in [Orders -> BOOLEAN] /\ ApprovedOf' \in [Orders -> BOOLEAN]
  BY Zenon DEF ApprovedOf, Approved
<1>2. DeliveredOf \in [Orders -> BOOLEAN] /\ DeliveredOf' \in [Orders -> BOOLEAN]
  BY Zenon DEF DeliveredOf, DeliveredInFull
<1>3. ASSUME NEW o \in Orders
      PROVE  ApprovedOf[o] = Approved(o) /\ ApprovedOf'[o] = Approved(o)'
  BY Zenon DEF ApprovedOf
<1>4. ASSUME NEW o \in Orders
      PROVE  DeliveredOf[o] = DeliveredInFull(o) /\ DeliveredOf'[o] = DeliveredInFull(o)'
  BY Zenon DEF DeliveredOf
<1> QED
  BY <1>1, <1>2, <1>3, <1>4

(* The rows of every other order are as they were. *)
OthersStand(o) ==
  \A q \in Orders \ {o} :
    order'[q] = order[q] /\ line'[q] = line[q] /\ alloc'[q] = alloc[q]

(* A transaction on one order changes each of the four at this order only. *)
LEMMA LifeMoves ==
  ASSUME NEW o \in Orders,
         OthersStand(o),
         NEW a \in BOOLEAN, Approved(o)' <=> a,
         NEW d \in BOOLEAN, DeliveredInFull(o)' <=> d
  PROVE  /\ StatusOf' = [StatusOf EXCEPT ![o] = order'[o].status]
         /\ SettlementOf' = [SettlementOf EXCEPT ![o] = order'[o].payment]
         /\ ApprovedOf' = [ApprovedOf EXCEPT ![o] = a]
         /\ DeliveredOf' = [DeliveredOf EXCEPT ![o] = d]
<1>1. /\ \A q \in Orders \ {o} : Approved(q)' <=> Approved(q)
      /\ \A q \in Orders \ {o} : DeliveredInFull(q)' <=> DeliveredInFull(q)
  BY DEF OthersStand, Approved, DeliveredInFull
<1>2. StatusOf' = [StatusOf EXCEPT ![o] = order'[o].status]
  BY DEF OthersStand, StatusOf
<1>3. SettlementOf' = [SettlementOf EXCEPT ![o] = order'[o].payment]
  BY DEF OthersStand, SettlementOf
<1>4. ApprovedOf' = [ApprovedOf EXCEPT ![o] = a]
  BY <1>1, Flags, Switched
<1>5. DeliveredOf' = [DeliveredOf EXCEPT ![o] = d]
  BY <1>1, Flags, Switched
<1> QED
  BY <1>2, <1>3, <1>4, <1>5

(* And one that keeps a column or a flag keeps the variable. *)
LEMMA LifeStays ==
  ASSUME NEW o \in Orders,
         OthersStand(o)
  PROVE  /\ order'[o].status = order[o].status => StatusOf' = StatusOf
         /\ order'[o].payment = order[o].payment => SettlementOf' = SettlementOf
         /\ (Approved(o)' <=> Approved(o)) => ApprovedOf' = ApprovedOf
         /\ (DeliveredInFull(o)' <=> DeliveredInFull(o)) => DeliveredOf' = DeliveredOf
<1>1. /\ \A q \in Orders \ {o} : Approved(q)' <=> Approved(q)
      /\ \A q \in Orders \ {o} : DeliveredInFull(q)' <=> DeliveredInFull(q)
  BY DEF OthersStand, Approved, DeliveredInFull
<1>2. order'[o].status = order[o].status => StatusOf' = StatusOf
  BY DEF OthersStand, StatusOf
<1>3. order'[o].payment = order[o].payment => SettlementOf' = SettlementOf
  BY DEF OthersStand, SettlementOf
<1>4. ASSUME Approved(o)' <=> Approved(o)
      PROVE  ApprovedOf' = ApprovedOf
  <2>1. \A q \in Orders : ApprovedOf'[q] = ApprovedOf[q]
    BY <1>1, <1>4, Flags
  <2> QED
    BY <2>1, Flags
<1>5. ASSUME DeliveredInFull(o)' <=> DeliveredInFull(o)
      PROVE  DeliveredOf' = DeliveredOf
  <2>1. \A q \in Orders : DeliveredOf'[q] = DeliveredOf[q]
    BY <1>1, <1>5, Flags
  <2> QED
    BY <2>1, Flags
<1> QED
  BY <1>2, <1>3, <1>4, <1>5

-----------------------------------------------------------------------------
(* The strengthened invariant. *)

(* What a delivered allocation shows is on its line already, so evaluation
   finds nothing new there when a payment calls it. *)
RolledInv(o) ==
  \A p \in Products : alloc[o][p].status = "DELIVERED" =>
    alloc[o][p].delivered <= line[o][p].delivered

(* Only an approved order has missions. *)
DrivenInv(o) == ExistingMissions(o) # {} => Approved(o)

LifeInv == StepInv /\ \A o \in Orders : RolledInv(o) /\ DrivenInv(o)

(* With everything rolled up, a verification leaves the lines as they are. *)
LEMMA NothingToRoll ==
  ASSUME TypeOK, NEW o \in Orders, RolledInv(o)
  PROVE  RolledUp(line[o], alloc[o]) = line[o]
<1>1. line[o] \in [Products -> LineRows] /\ alloc[o] \in [Products -> AllocRows]
  BY RowsOf
<1>2. ASSUME NEW p \in Products
      PROVE  ~(alloc[o][p].status = "DELIVERED" /\ alloc[o][p].delivered > line[o][p].delivered)
  BY <1>1, <1>2 DEF RolledInv, LineRows, AllocRows
<1> QED
  BY <1>1, <1>2 DEF RolledUp

(* So a verified payment writes no line. *)
LEMMA VerificationKeepsLines ==
  ASSUME TypeOK, NEW o \in Orders, RolledInv(o), NEW s \in PaymentStatuses, PaymentVerified(o, s)
  PROVE  line' = line
<1> DEFINE row == [order[o] EXCEPT !.payment = s]
<1>1. line' = [line EXCEPT ![o] = IF AwaitsOnlyGoods(row) THEN RolledUp(line[o], alloc[o]) ELSE line[o]]
  BY DEF PaymentVerified, EvaluateAndComplete
<1>2. line' = [line EXCEPT ![o] = line[o]]
  BY <1>1, NothingToRoll
<1> QED
  BY <1>2 DEF TypeOK

(* Approval allocates every line, and an order has lines. *)
LEMMA ApprovalAllocates ==
  ASSUME TypeOK, NEW o \in Orders, ApproveOrder(o)
  PROVE  Approved(o)'
<1>1. PICK p \in Products : p \in Lines(o)
  BY OrderedAssumption DEF Lines
<1>2. alloc' = [alloc EXCEPT ![o] = [q \in Products |->
       IF q \in Lines(o) /\ alloc[o][q].status = "NONE"
       THEN [status |-> "ALLOCATED", allocated |-> Fulfillable(o, q),
             reserved |-> Fulfillable(o, q), picked |-> 0, dispatched |-> 0, delivered |-> 0]
       ELSE alloc[o][q]]]
  BY DEF ApproveOrder
<1>3. alloc'[o][p] = IF alloc[o][p].status = "NONE"
                     THEN [status |-> "ALLOCATED", allocated |-> Fulfillable(o, p),
                           reserved |-> Fulfillable(o, p), picked |-> 0, dispatched |-> 0, delivered |-> 0]
                     ELSE alloc[o][p]
  BY <1>1, <1>2 DEF TypeOK
<1>4. alloc'[o][p].status # "NONE"
  BY <1>3
<1> QED
  BY <1>4 DEF Approved

-----------------------------------------------------------------------------
(* What the actions do to the rows the mapping looks at. *)

(* A step neither makes nor delivers an allocation, and delivers nothing of a line. *)
GoodsStand(o) ==
  \A p \in Products :
    /\ alloc'[o][p].status = "NONE" <=> alloc[o][p].status = "NONE"
    /\ alloc'[o][p].status = "DELIVERED" => alloc'[o][p] = alloc[o][p]
    /\ line'[o][p].delivered = line[o][p].delivered

(* Rejection, cancellation, assignment and reversal let the goods stand. *)
LEMMA OfficeStands ==
  ASSUME TypeOK, NEW o \in Orders,
         \/ RejectOrder(o) \/ CancelOrder(o) \/ AssignOrder(o)
         \/ \E s \in PaymentStatuses : PaymentReversed(o, s)
  PROVE  GoodsStand(o)
<1> USE RowsOf
<1>1. CASE line' = line /\ alloc' = alloc
  BY <1>1 DEF GoodsStand
<1>2. CASE ReleaseReservation(o)
  <2> SUFFICES ASSUME NEW p \in Products
               PROVE  /\ alloc'[o][p].status = "NONE" <=> alloc[o][p].status = "NONE"
                      /\ alloc'[o][p].status = "DELIVERED" => alloc'[o][p] = alloc[o][p]
                      /\ line'[o][p].delivered = line[o][p].delivered
    BY DEF GoodsStand
  <2>1. line[o][p] \in LineRows /\ alloc[o][p] \in AllocRows
    OBVIOUS
  <2>2. line'[o][p] = [line[o][p] EXCEPT !.reserved = 0]
    BY <1>2 DEF ReleaseReservation, TypeOK
  <2>3. alloc'[o][p] = IF alloc[o][p].status \in {"ALLOCATED", "RESERVED"}
                       THEN [alloc[o][p] EXCEPT !.status = "CANCELLED", !.reserved = 0]
                       ELSE alloc[o][p]
    BY <1>2 DEF ReleaseReservation, TypeOK
  <2> QED
    BY <2>1, <2>2, <2>3 DEF LineRows, AllocRows
<1> QED
  BY <1>1, <1>2 DEF RejectOrder, CancelOrder, AssignOrder, PaymentReversed

(* So do picking, packing and dispatching. *)
LEMMA WarehouseStands ==
  ASSUME TypeOK, NEW o \in Orders, WarehouseStep(o)
  PROVE  GoodsStand(o)
<1> SUFFICES ASSUME NEW p \in Products
             PROVE  /\ alloc'[o][p].status = "NONE" <=> alloc[o][p].status = "NONE"
                    /\ alloc'[o][p].status = "DELIVERED" => alloc'[o][p] = alloc[o][p]
                    /\ line'[o][p].delivered = line[o][p].delivered
  BY DEF GoodsStand
<1>1. line[o][p] \in LineRows /\ alloc[o][p] \in AllocRows
  BY RowsOf
<1>2. ASSUME NEW picked \in PickRequests(o), PickOrder(o, picked)
      PROVE  /\ line'[o][p] = [line[o][p] EXCEPT !.picked = picked[p]]
             /\ alloc'[o][p] = IF alloc[o][p].status \in Pickable
                               THEN [alloc[o][p] EXCEPT !.picked = picked[p], !.status = "PICKED"]
                               ELSE alloc[o][p]
  BY <1>2 DEF PickOrder, TypeOK
<1>3. ASSUME PackOrder(o)
      PROVE  /\ line'[o][p] = [line[o][p] EXCEPT !.picked = PickedOrAll(o, p)]
             /\ alloc'[o][p] = IF alloc[o][p].status \in Dispatchable
                               THEN [alloc[o][p] EXCEPT !.status = "PACKED", !.picked = PickedOrAll(o, p)]
                               ELSE alloc[o][p]
  BY <1>3 DEF PackOrder, TypeOK
<1>4. ASSUME DispatchOrder(o)
      PROVE  /\ line'[o][p] = [line[o][p] EXCEPT !.picked = PickedOrAll(o, p), !.dispatched = PickedOrAll(o, p)]
             /\ alloc'[o][p] = IF alloc[o][p].status \in Dispatchable
                               THEN [alloc[o][p] EXCEPT !.status = "DISPATCHED",
                                       !.dispatched = PickedOrAll(o, p), !.picked = PickedOrAll(o, p)]
                               ELSE alloc[o][p]
  BY <1>4 DEF DispatchOrder, TypeOK
<1>5. CASE \E picked \in PickRequests(o) : PickOrder(o, picked)
  BY <1>1, <1>2, <1>5 DEF LineRows, AllocRows, Pickable
<1>6. CASE PackOrder(o)
  BY <1>1, <1>3, <1>6 DEF LineRows, AllocRows, Pickable, Dispatchable
<1>7. CASE DispatchOrder(o)
  BY <1>1, <1>4, <1>7 DEF LineRows, AllocRows, Pickable, Dispatchable
<1> QED
  BY <1>5, <1>6, <1>7 DEF WarehouseStep

(* And the drivers' steps short of a delivery; a pickup dispatches only what was
   picked, and nothing is picked of an allocation that was never made. *)
LEMMA DriverStands ==
  ASSUME TypeOK, NEW o \in Orders, OrderInv(o), NEW m \in Missions,
         DriverStep(o, m), ~CompleteDelivery(o, m)
  PROVE  GoodsStand(o)
<1>1. line' = line
  BY DEF DriverStep, ConfirmPickup, StartRoute, RecordFailure, Reschedule, ReturnToWarehouse
<1>2. CASE alloc' = alloc
  BY <1>1, <1>2 DEF GoodsStand
<1>3. CASE ConfirmPickup(o, m) \/ ReturnToWarehouse(o, m)
  <2> SUFFICES ASSUME NEW p \in Products
               PROVE  /\ alloc'[o][p].status = "NONE" <=> alloc[o][p].status = "NONE"
                      /\ alloc'[o][p].status = "DELIVERED" => alloc'[o][p] = alloc[o][p]
    BY <1>1 DEF GoodsStand
  <2>1. alloc[o][p] \in AllocRows
    BY RowsOf
  <2>2. alloc[o][p].picked > 0 => alloc[o][p].status # "NONE"
    BY <2>1 DEF OrderInv, RowsInv, WellFormed, AllocRows
  <2>3. CASE ConfirmPickup(o, m)
    <3>1. alloc'[o][p] = IF alloc[o][p].picked > 0
                         THEN [alloc[o][p] EXCEPT !.dispatched = alloc[o][p].picked, !.status = "DISPATCHED"]
                         ELSE alloc[o][p]
      BY <2>3 DEF ConfirmPickup, TypeOK
    <3> QED
      BY <2>1, <2>2, <3>1 DEF AllocRows
  <2>4. CASE ReturnToWarehouse(o, m)
    <3>1. alloc'[o][p] = IF alloc[o][p].status # "NONE"
                         THEN [alloc[o][p] EXCEPT !.dispatched = 0, !.status = "ALLOCATED"]
                         ELSE alloc[o][p]
      BY <2>4 DEF ReturnToWarehouse, TypeOK
    <3> QED
      BY <2>1, <3>1 DEF AllocRows
  <2> QED
    BY <1>3, <2>3, <2>4
<1> QED
  BY <1>2, <1>3 DEF DriverStep, StartRoute, RecordFailure, Reschedule

(* An approval keeps the allocations there are and touches no delivered quantity. *)
LEMMA ApprovalRows ==
  ASSUME TypeOK, NEW o \in Orders, ApproveOrder(o), NEW p \in Products
  PROVE  /\ alloc'[o][p].status = "DELIVERED" => alloc'[o][p] = alloc[o][p]
         /\ line'[o][p].delivered = line[o][p].delivered
<1>1. line[o][p] \in LineRows /\ alloc[o][p] \in AllocRows
  BY RowsOf
<1>2. line'[o][p] = [line[o][p] EXCEPT !.reserved = Fulfillable(o, p)]
  BY DEF ApproveOrder, TypeOK
<1>3. alloc'[o][p] = IF p \in Lines(o) /\ alloc[o][p].status = "NONE"
                     THEN [status |-> "ALLOCATED", allocated |-> Fulfillable(o, p),
                           reserved |-> Fulfillable(o, p), picked |-> 0, dispatched |-> 0, delivered |-> 0]
                     ELSE alloc[o][p]
  BY DEF ApproveOrder, TypeOK
<1> QED
  BY <1>1, <1>2, <1>3 DEF LineRows

(* A delivery delivers only what was allocated, and puts it on the lines. *)
LEMMA DeliveryRows ==
  ASSUME TypeOK, NEW o \in Orders, OrderInv(o), RolledInv(o), NEW m \in Missions,
         CompleteDelivery(o, m), NEW p \in Products
  PROVE  /\ alloc'[o][p].status = "NONE" <=> alloc[o][p].status = "NONE"
         /\ alloc'[o][p].status = "DELIVERED" => alloc'[o][p].delivered <= line'[o][p].delivered
<1> DEFINE row == [order[o] EXCEPT !.fulfillment = "DELIVERED", !.delivery = "DELIVERED"]
           allocs == DeliveredAllocations(o, m)
           lines == RolledUp(line[o], allocs)
           evaluated == IF AwaitsOnlyGoods(row) THEN RolledUp(lines, allocs) ELSE lines
<1>1. allocs \in [Products -> AllocRows] /\ line[o] \in [Products -> LineRows]
  BY DeliveredRowsType, RowsOf
<1>2. lines \in [Products -> LineRows]
  BY <1>1, RolledUpType
<1>3. alloc'[o] = allocs /\ line'[o] = evaluated
  BY DEF CompleteDelivery, EvaluateAndComplete, TypeOK
<1>4. alloc'[o][p].status = "NONE" <=> alloc[o][p].status = "NONE"
  <2>1. mission[o][m].deliverable[p] > 0 => alloc[o][p].status # "NONE"
    BY DEF OrderInv, MissionsInv
  <2>2. alloc[o][p] \in AllocRows
    BY RowsOf
  <2>3. allocs[p] = IF mission[o][m].deliverable[p] > 0
                    THEN [alloc[o][p] EXCEPT !.delivered = mission[o][m].deliverable[p], !.status = "DELIVERED"]
                    ELSE alloc[o][p]
    BY DEF DeliveredAllocations
  <2> HIDE DEF allocs
  <2> QED
    BY <1>3, <2>1, <2>2, <2>3 DEF AllocRows
<1> HIDE DEF allocs, row
<1>5. allocs[p].status = "DELIVERED" => allocs[p].delivered <= lines[p].delivered
  BY <1>1 DEF RolledUp, LineRows, AllocRows
<1> HIDE DEF lines
<1>6. allocs[p].status = "DELIVERED" => allocs[p].delivered <= RolledUp(lines, allocs)[p].delivered
  BY <1>1, <1>2 DEF RolledUp, LineRows, AllocRows
<1> QED
  BY <1>3, <1>4, <1>5, <1>6

-----------------------------------------------------------------------------
(* The invariant is kept. *)

(* Goods that stand leave the flag and the roll-up as they were. *)
LEMMA StandingGoods ==
  ASSUME NEW o \in Orders, GoodsStand(o)
  PROVE  /\ Approved(o)' <=> Approved(o)
         /\ RolledInv(o) => RolledInv(o)'
BY DEF GoodsStand, Approved, RolledInv

(* A mission a driver moves says that its order was approved. *)
LEMMA DrivenIsApproved ==
  ASSUME NEW o \in Orders, DrivenInv(o), NEW m \in Missions, DriverStep(o, m)
  PROVE  Approved(o)
<1>1. mission[o][m].status # "NONE"
  BY DEF DriverStep, ConfirmPickup, StartRoute, CompleteDelivery, RecordFailure, Reschedule,
     ReturnToWarehouse, CanBeFailed, CanBeRescheduled, CanBeReturned
<1> QED
  BY <1>1 DEF DrivenInv, ExistingMissions

(* Drivers are assigned to approved orders only. *)
LEMMA AssignedIsApproved ==
  ASSUME NEW o \in Orders, AssignOrder(o)
  PROVE  Approved(o)
BY DEF AssignOrder, ActiveAllocations, Approved, Deliverable, Dispatchable, Pickable

(* The first dispatch makes a mission only of an order whose lines are allocated. *)
LEMMA WarehouseIsBacked ==
  ASSUME NEW o \in Orders, DrivenInv(o), WarehouseStep(o), ExistingMissions(o)' # {}
  PROVE  Approved(o)
<1>1. CASE mission' = mission
  BY <1>1 DEF DrivenInv, ExistingMissions
<1>2. CASE CreatePendingMission(o)
  <2>1. PICK p \in Products : p \in Lines(o)
    BY OrderedAssumption DEF Lines
  <2> QED
    BY <1>2, <2>1 DEF CreatePendingMission, Approved
<1> QED
  BY <1>1, <1>2 DEF WarehouseStep, PickOrder, PackOrder, DispatchOrder

(* Every transaction keeps both parts for its own order. *)
LEMMA ActorKeepsLifeInv ==
  ASSUME TypeOK, NEW o \in Orders, OrderInv(o), RolledInv(o), DrivenInv(o),
         \/ OfficeStep(o) \/ WarehouseStep(o) \/ \E m \in Missions : DriverStep(o, m)
  PROVE  RolledInv(o)' /\ DrivenInv(o)'
<1>1. CASE ApproveOrder(o)
  <2>1. RolledInv(o)'
    <3> SUFFICES ASSUME NEW p \in Products, alloc'[o][p].status = "DELIVERED"
                 PROVE  alloc'[o][p].delivered <= line'[o][p].delivered
      BY DEF RolledInv
    <3> QED
      BY <1>1, ApprovalRows DEF RolledInv
  <2> QED
    BY <1>1, <2>1, ApprovalAllocates DEF DrivenInv
<1>2. CASE RejectOrder(o) \/ CancelOrder(o) \/ \E s \in PaymentStatuses : PaymentReversed(o, s)
  <2>1. mission' = mission
    BY <1>2 DEF RejectOrder, CancelOrder, PaymentReversed
  <2> QED
    BY <1>2, <2>1, OfficeStands, StandingGoods DEF DrivenInv, ExistingMissions
<1>3. CASE AssignOrder(o)
  BY <1>3, OfficeStands, StandingGoods, AssignedIsApproved DEF DrivenInv
<1>4. ASSUME NEW s \in PaymentStatuses, PaymentVerified(o, s)
      PROVE  RolledInv(o)' /\ DrivenInv(o)'
  <2>1. line' = line /\ alloc' = alloc /\ mission' = mission
    BY <1>4, VerificationKeepsLines DEF PaymentVerified
  <2> QED
    BY <2>1 DEF RolledInv, DrivenInv, ExistingMissions, Approved
<1>5. CASE WarehouseStep(o)
  <2>1. RolledInv(o)' /\ (Approved(o)' <=> Approved(o))
    BY <1>5, WarehouseStands, StandingGoods
  <2> QED
    BY <1>5, <2>1, WarehouseIsBacked DEF DrivenInv
<1>6. ASSUME NEW m \in Missions, DriverStep(o, m), ~CompleteDelivery(o, m)
      PROVE  RolledInv(o)' /\ DrivenInv(o)'
  <2>1. RolledInv(o)' /\ (Approved(o)' <=> Approved(o))
    BY <1>6, DriverStands, StandingGoods
  <2> QED
    BY <1>6, <2>1, DrivenIsApproved DEF DrivenInv
<1>7. ASSUME NEW m \in Missions, CompleteDelivery(o, m)
      PROVE  RolledInv(o)' /\ DrivenInv(o)'
  <2>1. Approved(o)
    BY <1>7, DrivenIsApproved DEF DriverStep
  <2>2. ASSUME NEW p \in Products
        PROVE  /\ alloc'[o][p].status = "NONE" <=> alloc[o][p].status = "NONE"
               /\ alloc'[o][p].status = "DELIVERED" => alloc'[o][p].delivered <= line'[o][p].delivered
    BY <1>7, DeliveryRows
  <2> QED
    BY <2>1, <2>2 DEF Approved, RolledInv, DrivenInv
<1> QED
  BY <1>1, <1>2, <1>3, <1>4, <1>5, <1>6, <1>7 DEF OfficeStep

(* The strengthened invariant holds in every reachable state. *)
LEMMA LifeInvariance == Spec => []LifeInv
<1>1. Init => \A o \in Orders : RolledInv(o) /\ DrivenInv(o)
  BY DEF Init, RolledInv, DrivenInv, ExistingMissions, NoMission
<1>2. StepInv /\ (\A o \in Orders : RolledInv(o) /\ DrivenInv(o)) /\ [Next]_vars
        => (\A o \in Orders : RolledInv(o) /\ DrivenInv(o))'
  <2> SUFFICES ASSUME StepInv, \A o \in Orders : RolledInv(o) /\ DrivenInv(o), [Next]_vars,
                      NEW q \in Orders
               PROVE  RolledInv(q)' /\ DrivenInv(q)'
    OBVIOUS
  <2>1. CASE UNCHANGED vars
    BY <2>1 DEF vars, RolledInv, DrivenInv, ExistingMissions, Approved
  <2>2. CASE Next
    <3>1. PICK o \in Orders : \/ OfficeStep(o) \/ WarehouseStep(o)
                              \/ \E m \in Missions : DriverStep(o, m)
      BY <2>2 DEF Next
    <3>2. CASE q = o
      BY <3>1, <3>2, ActorKeepsLifeInv DEF StepInv, Inv
    <3>3. CASE q # o
      BY <3>1, <3>3, OthersUntouched DEF StepInv, Inv, RolledInv, DrivenInv, ExistingMissions, Approved
    <3> QED
      BY <3>2, <3>3
  <2> QED
    BY <2>1, <2>2
<1> QED
  BY <1>1, <1>2, StepInvariance, PTL DEF Spec, LifeInv

-----------------------------------------------------------------------------
(* The mapping. *)

(* Submitted orders are at the beginning of their life. *)
LEMMA InitLife == Init => Life!LifeInit
<1> SUFFICES ASSUME Init PROVE Life!LifeInit
  OBVIOUS
<1>1. /\ StatusOf = [o \in Orders |-> "SUBMITTED"]
      /\ SettlementOf = [o \in Orders |-> "UNPAID"]
  BY DEF Init, StatusOf, SettlementOf
<1>2. \A o \in Orders : ~Approved(o) /\ ~DeliveredInFull(o)
  BY DEF Init, Approved, DeliveredInFull
<1>3. ApprovedOf = [o \in Orders |-> FALSE] /\ DeliveredOf = [o \in Orders |-> FALSE]
  <2>1. \A o \in Orders : ApprovedOf[o] = FALSE /\ DeliveredOf[o] = FALSE
    BY <1>2, Flags
  <2> QED
    BY <2>1, Flags, Zenon
<1> QED
  BY <1>1, <1>3 DEF Life!LifeInit, StatusOf, SettlementOf, ApprovedOf, DeliveredOf

(* Goods are not delivered in full while the order's own row does not say so. *)
LEMMA Undelivered ==
  ASSUME NEW o \in Orders
  PROVE  /\ order[o].fulfillment # "DELIVERED" => ~DeliveredInFull(o)
         /\ order'[o].fulfillment # "DELIVERED" => ~DeliveredInFull(o)'
         /\ order'[o].delivery # "DELIVERED" => ~DeliveredInFull(o)'
BY DEF DeliveredInFull

(* The abstract variables at one order. *)
LEMMA LifeAt ==
  ASSUME NEW o \in Orders
  PROVE  StatusOf[o] = order[o].status /\ SettlementOf[o] = order[o].payment
BY DEF StatusOf, SettlementOf

(* approveOrder: nothing of an order under review was delivered. *)
LEMMA ApproveLives ==
  ASSUME TypeOK, NEW o \in Orders, ReviewInv(o), OthersStand(o), ApproveOrder(o)
  PROVE  Life!Approve(o)
<1>1. /\ order[o] \in OrderRows /\ order[o].status \in Reviewable
      /\ order' = [order EXCEPT ![o] = [@ EXCEPT !.status = "APPROVED", !.fulfillment = "RESERVED"]]
  BY RowsOf DEF ApproveOrder
<1>2. /\ order'[o].status = "APPROVED" /\ order'[o].fulfillment = "RESERVED"
      /\ order'[o].payment = order[o].payment
  BY <1>1 DEF TypeOK, OrderRows
<1>3. ~DeliveredInFull(o) /\ ~DeliveredInFull(o)'
  BY <1>1, <1>2, Undelivered DEF ReviewInv
<1>4. /\ StatusOf' = [StatusOf EXCEPT ![o] = "APPROVED"]
      /\ ApprovedOf' = [ApprovedOf EXCEPT ![o] = TRUE]
  BY <1>2, <1>3, ApprovalAllocates, LifeMoves
<1>5. SettlementOf' = SettlementOf /\ DeliveredOf' = DeliveredOf
  BY <1>2, <1>3, LifeStays
<1> QED
  BY <1>1, <1>4, <1>5, LifeAt DEF Life!Approve, Life!Reviewable, Reviewable,
     StatusOf, SettlementOf, ApprovedOf, DeliveredOf

(* rejectOrder: only the status changes. *)
LEMMA RejectLives ==
  ASSUME TypeOK, NEW o \in Orders, OthersStand(o), RejectOrder(o)
  PROVE  Life!Reject(o)
<1>1. /\ order[o] \in OrderRows /\ order[o].status \in Reviewable
      /\ order' = [order EXCEPT ![o].status = "REJECTED"] /\ line' = line /\ alloc' = alloc
  BY RowsOf DEF RejectOrder
<1>2. /\ order'[o].status = "REJECTED" /\ order'[o].fulfillment = order[o].fulfillment
      /\ order'[o].payment = order[o].payment /\ order'[o].delivery = order[o].delivery
  BY <1>1 DEF TypeOK, OrderRows
<1>3. (Approved(o)' <=> Approved(o)) /\ (DeliveredInFull(o)' <=> DeliveredInFull(o))
  BY <1>1, <1>2 DEF Approved, DeliveredInFull
<1>4. StatusOf' = [StatusOf EXCEPT ![o] = "REJECTED"]
  BY <1>2, LifeMoves DEF Approved, DeliveredInFull
<1>5. SettlementOf' = SettlementOf /\ ApprovedOf' = ApprovedOf /\ DeliveredOf' = DeliveredOf
  BY <1>2, <1>3, LifeStays
<1> QED
  BY <1>1, <1>4, <1>5, LifeAt DEF Life!Reject, Life!Reviewable, Reviewable,
     StatusOf, SettlementOf, ApprovedOf, DeliveredOf

(* cancelOrder takes the fulfillment back with the status. *)
LEMMA CancelLives ==
  ASSUME TypeOK, NEW o \in Orders, OthersStand(o), CancelOrder(o)
  PROVE  Life!Cancel(o)
<1>1. /\ order[o] \in OrderRows /\ order[o].status \notin Closed
      /\ order' = [order EXCEPT ![o] =
                     [@ EXCEPT !.status = "CANCELLED", !.fulfillment = "UNALLOCATED"]]
  BY RowsOf DEF CancelOrder, IsOpen
<1>2. /\ order'[o].status = "CANCELLED" /\ order'[o].fulfillment = "UNALLOCATED"
      /\ order'[o].payment = order[o].payment
  BY <1>1 DEF TypeOK, OrderRows
<1>3. ~DeliveredInFull(o)'
  BY <1>2, Undelivered
<1>4. Approved(o)' <=> Approved(o)
  BY OfficeStands, StandingGoods
<1>5. /\ StatusOf' = [StatusOf EXCEPT ![o] = "CANCELLED"]
      /\ DeliveredOf' = [DeliveredOf EXCEPT ![o] = FALSE]
  BY <1>2, <1>3, LifeMoves DEF Approved
<1>6. SettlementOf' = SettlementOf /\ ApprovedOf' = ApprovedOf
  BY <1>2, <1>4, LifeStays
<1> QED
  BY <1>1, <1>5, <1>6, LifeAt DEF Life!Cancel, Life!Closed, Closed,
     StatusOf, SettlementOf, ApprovedOf, DeliveredOf

(* confirmPick, confirmPack and confirmDispatch put an open order to work. *)
LEMMA WarehouseLives ==
  ASSUME TypeOK, NEW o \in Orders, OthersStand(o), WarehouseStep(o)
  PROVE  Life!Work(o)
<1>1. /\ order[o].status \notin Closed /\ order'[o].status = "PROCESSING"
      /\ order'[o].fulfillment # "DELIVERED"
  BY WarehouseRow
<1>2. order'[o].payment = order[o].payment
  <2>1. order[o] \in OrderRows
    BY RowsOf
  <2>2. CASE \E picked \in PickRequests(o) : PickOrder(o, picked)
    <3>1. order' = [order EXCEPT ![o] = [@ EXCEPT !.fulfillment = "PICKED", !.status = "PROCESSING"]]
      BY <2>2 DEF PickOrder
    <3> QED
      BY <2>1, <3>1 DEF TypeOK, OrderRows
  <2>3. CASE PackOrder(o)
    BY <2>1, <2>3 DEF PackOrder, TypeOK, OrderRows
  <2>4. CASE DispatchOrder(o)
    BY <2>1, <2>4 DEF DispatchOrder, TypeOK, OrderRows
  <2> QED
    BY <2>2, <2>3, <2>4 DEF WarehouseStep
<1>3. ~DeliveredInFull(o)'
  BY <1>1, Undelivered
<1>4. Approved(o)' <=> Approved(o)
  BY WarehouseStands, StandingGoods
<1>5. /\ StatusOf' = [StatusOf EXCEPT ![o] = "PROCESSING"]
      /\ DeliveredOf' = [DeliveredOf EXCEPT ![o] = FALSE]
  BY <1>1, <1>3, LifeMoves DEF Approved
<1>6. SettlementOf' = SettlementOf /\ ApprovedOf' = ApprovedOf
  BY <1>2, <1>4, LifeStays
<1> QED
  BY <1>1, <1>5, <1>6, LifeAt DEF Life!Work, Life!Closed, Closed,
     StatusOf, SettlementOf, ApprovedOf, DeliveredOf

(* Assigning a driver, and every driver's step short of a delivery, ships. *)
LEMMA ShippingLives ==
  ASSUME TypeOK, NEW o \in Orders, OrderInv(o), DrivenInv(o), OthersStand(o),
         \/ AssignOrder(o)
         \/ \E m \in Missions : DriverStep(o, m) /\ ~CompleteDelivery(o, m)
  PROVE  Life!Ship(o)
<1>1. order'[o].status = order[o].status /\ order'[o].delivery # "DELIVERED"
  BY AssignedRow, MovedRow
<1>2. order'[o].payment = order[o].payment
  <2>1. order[o] \in OrderRows
    BY RowsOf
  <2>2. \/ order' = [order EXCEPT ![o] = [@ EXCEPT !.fulfillment = "DISPATCHED", !.delivery = "PICKED_UP"]]
        \/ order' = [order EXCEPT ![o] =
                       [@ EXCEPT !.fulfillment = "RESERVED", !.delivery = "RETURNED_TO_WAREHOUSE"]]
        \/ \E d \in DeliveryStatuses : order' = [order EXCEPT ![o].delivery = d]
    BY DEF AssignOrder, DriverStep, ConfirmPickup, StartRoute, RecordFailure, Reschedule,
       ReturnToWarehouse, DeliveryStatuses
  <2>3. ASSUME NEW d \in DeliveryStatuses, order' = [order EXCEPT ![o].delivery = d]
        PROVE  order'[o].payment = order[o].payment
    BY <2>1, <2>3 DEF TypeOK, OrderRows
  <2>4. CASE order' = [order EXCEPT ![o] =
                         [@ EXCEPT !.fulfillment = "DISPATCHED", !.delivery = "PICKED_UP"]]
    BY <2>1, <2>4 DEF TypeOK, OrderRows
  <2>5. CASE order' = [order EXCEPT ![o] =
                         [@ EXCEPT !.fulfillment = "RESERVED", !.delivery = "RETURNED_TO_WAREHOUSE"]]
    BY <2>1, <2>5 DEF TypeOK, OrderRows
  <2> QED
    BY <2>2, <2>3, <2>4, <2>5
<1>3. Approved(o) /\ (Approved(o)' <=> Approved(o))
  BY AssignedIsApproved, DrivenIsApproved, OfficeStands, DriverStands, StandingGoods
<1>4. ~DeliveredInFull(o)'
  BY <1>1, Undelivered
<1>5. DeliveredOf' = [DeliveredOf EXCEPT ![o] = FALSE]
  BY <1>4, LifeMoves DEF Approved
<1>6. StatusOf' = StatusOf /\ SettlementOf' = SettlementOf /\ ApprovedOf' = ApprovedOf
  BY <1>1, <1>2, <1>3, LifeStays
<1>7. ApprovedOf[o]
  BY <1>3, Flags
<1> QED
  BY <1>5, <1>6, <1>7 DEF Life!Ship, StatusOf, SettlementOf, ApprovedOf, DeliveredOf

(* What evaluateAndCompleteOrder makes of the order's status, exactly. *)
LEMMA EvaluateStatus ==
  ASSUME TypeOK, NEW o \in Orders, NEW row \in OrderRows,
         NEW lines \in [Products -> LineRows], NEW allocs \in [Products -> AllocRows],
         EvaluateAndComplete(o, row, lines, allocs)
  PROVE  order'[o].status =
           IF AwaitsOnlyGoods(row) /\ \A p \in Products : line'[o][p].delivered >= Ordered[o][p]
           THEN "COMPLETED" ELSE row.status
<1> DEFINE evaluated == IF AwaitsOnlyGoods(row) THEN RolledUp(lines, allocs) ELSE lines
           completes == /\ AwaitsOnlyGoods(row)
                        /\ \A p \in Lines(o) : evaluated[p].delivered >= Fulfillable(o, p)
<1>1. line'[o] = evaluated
  BY DEF EvaluateAndComplete, TypeOK
<1>2. evaluated \in [Products -> LineRows]
  BY RolledUpType
<1>3. order'[o].status = IF completes THEN "COMPLETED" ELSE row.status
  BY DEF EvaluateAndComplete, TypeOK, OrderRows
<1> HIDE DEF evaluated
<1>4. (\A p \in Lines(o) : evaluated[p].delivered >= Fulfillable(o, p))
        <=> \A p \in Products : evaluated[p].delivered >= Ordered[o][p]
  <2>1. ASSUME NEW p \in Products, p \notin Lines(o)
        PROVE  evaluated[p].delivered >= Ordered[o][p]
    BY <1>2, <2>1, OrderedType DEF Lines, LineRows
  <2> QED
    BY <2>1 DEF Lines, Fulfillable
<1> QED
  BY <1>1, <1>3, <1>4

(* completeDelivery delivers, and completes when it brings the last condition. *)
LEMMA DeliveryLives ==
  ASSUME TypeOK, NEW o \in Orders, OrderInv(o), RolledInv(o), DrivenInv(o), OthersStand(o),
         NEW m \in Missions, CompleteDelivery(o, m)
  PROVE  \E all \in BOOLEAN : Life!Deliver(o, all)
<1> DEFINE row == [order[o] EXCEPT !.fulfillment = "DELIVERED", !.delivery = "DELIVERED"]
           allocs == DeliveredAllocations(o, m)
           lines == RolledUp(line[o], allocs)
           full == \A p \in Products : line'[o][p].delivered >= Ordered[o][p]
<1>1. row \in OrderRows /\ allocs \in [Products -> AllocRows]
  BY RowsOf, OrderRowUpdates, DeliveredRowsType DEF FulfillmentStatuses, DeliveryStatuses
<1>2. lines \in [Products -> LineRows]
  BY <1>1, RowsOf, RolledUpType
<1>3. EvaluateAndComplete(o, row, lines, allocs)
  BY DEF CompleteDelivery
<1>4. /\ row.status = order[o].status /\ row.payment = order[o].payment
      /\ row.fulfillment = "DELIVERED" /\ row.delivery = "DELIVERED"
  BY RowsOf DEF OrderRows
<1> HIDE DEF row, lines, allocs
<1>5. /\ order'[o].fulfillment = "DELIVERED" /\ order'[o].delivery = "DELIVERED"
      /\ order'[o].payment = order[o].payment
  BY <1>1, <1>2, <1>3, <1>4, EvaluateRow
<1>6. order'[o].status =
        IF order[o].status \in {"APPROVED", "PROCESSING"} /\ order[o].payment = "PAID" /\ full
        THEN "COMPLETED" ELSE order[o].status
  BY <1>1, <1>2, <1>3, <1>4, EvaluateStatus DEF AwaitsOnlyGoods
<1>7. DeliveredInFull(o)' <=> full
  BY <1>5 DEF DeliveredInFull
<1>8. PICK all \in BOOLEAN : all <=> full
  OBVIOUS
<1> HIDE DEF full
<1>9. Approved(o) /\ (Approved(o)' <=> Approved(o))
  BY DrivenIsApproved, DeliveryRows DEF DriverStep, Approved
<1>10. /\ StatusOf' = [StatusOf EXCEPT ![o] = order'[o].status]
       /\ DeliveredOf' = [DeliveredOf EXCEPT ![o] = all]
  BY <1>7, <1>8, <1>9, LifeMoves
<1>11. SettlementOf' = SettlementOf /\ ApprovedOf' = ApprovedOf
  BY <1>5, <1>9, LifeStays
<1>12. ApprovedOf[o]
  BY <1>9, Flags
<1>13. order'[o].status =
         IF StatusOf[o] \in {"APPROVED", "PROCESSING"} /\ SettlementOf[o] = "PAID" /\ all
         THEN "COMPLETED" ELSE StatusOf[o]
  BY <1>6, <1>8, LifeAt
<1>14. Life!Deliver(o, all)
  BY <1>10, <1>11, <1>12, <1>13
     DEF Life!Deliver, Life!AfterEvaluation, StatusOf, SettlementOf, ApprovedOf, DeliveredOf
<1> QED
  BY <1>14

(* A verified payment raises the settlement, finds the goods as they were, and
   completes when it brings the last condition. *)
LEMMA VerificationLives ==
  ASSUME TypeOK, NEW o \in Orders, RolledInv(o), OthersStand(o),
         NEW s \in PaymentStatuses, PaymentVerified(o, s)
  PROVE  Life!Raise(o, s)
<1> DEFINE row == [order[o] EXCEPT !.payment = s]
           full == \A p \in Products : line[o][p].delivered >= Ordered[o][p]
<1>1. /\ row \in OrderRows /\ line[o] \in [Products -> LineRows] /\ alloc[o] \in [Products -> AllocRows]
      /\ EvaluateAndComplete(o, row, line[o], alloc[o])
  BY RowsOf, OrderRowUpdates DEF PaymentVerified
<1>2. /\ row.status = order[o].status /\ row.payment = s
      /\ row.fulfillment = order[o].fulfillment /\ row.delivery = order[o].delivery
  BY RowsOf DEF OrderRows
<1> HIDE DEF row
<1>3. line' = line /\ alloc' = alloc
  BY VerificationKeepsLines DEF PaymentVerified
<1>4. /\ order'[o].fulfillment = order[o].fulfillment /\ order'[o].delivery = order[o].delivery
      /\ order'[o].payment = s
  BY <1>1, <1>2, EvaluateRow
<1>5. (DeliveredInFull(o)' <=> DeliveredInFull(o)) /\ (Approved(o)' <=> Approved(o))
  BY <1>3, <1>4 DEF DeliveredInFull, Approved
<1>6. order'[o].status =
        IF order[o].status \in {"APPROVED", "PROCESSING"} /\ s = "PAID" /\ DeliveredInFull(o)
        THEN "COMPLETED" ELSE order[o].status
  <2>1. order'[o].status = IF AwaitsOnlyGoods(row) /\ full THEN "COMPLETED" ELSE row.status
    BY <1>1, <1>3, EvaluateStatus
  <2> QED
    BY <1>2, <2>1 DEF AwaitsOnlyGoods, DeliveredInFull
<1>7. /\ StatusOf' = [StatusOf EXCEPT ![o] = order'[o].status]
      /\ SettlementOf' = [SettlementOf EXCEPT ![o] = s]
  BY <1>4, LifeMoves DEF Approved, DeliveredInFull
<1>8. ApprovedOf' = ApprovedOf /\ DeliveredOf' = DeliveredOf
  BY <1>5, LifeStays
<1>9. order'[o].status =
        IF StatusOf[o] \in {"APPROVED", "PROCESSING"} /\ s = "PAID" /\ DeliveredOf[o]
        THEN "COMPLETED" ELSE StatusOf[o]
  BY <1>6, LifeAt, Flags
<1>10. s # "UNPAID" /\ Rank[s] >= Rank[SettlementOf[o]]
  BY LifeAt DEF PaymentVerified
<1> QED
  BY <1>7, <1>8, <1>9, <1>10
     DEF Life!Raise, Life!AfterEvaluation, Life!Rank, Rank, StatusOf, SettlementOf, ApprovedOf, DeliveredOf

(* A reversal lowers the settlement and nothing else. *)
LEMMA ReversalLives ==
  ASSUME TypeOK, NEW o \in Orders, OthersStand(o), NEW s \in PaymentStatuses, PaymentReversed(o, s)
  PROVE  Life!Lower(o, s)
<1>1. /\ order'[o].status = order[o].status /\ order'[o].fulfillment = order[o].fulfillment
      /\ order'[o].delivery = order[o].delivery /\ order'[o].payment = s
      /\ line' = line /\ alloc' = alloc
  BY ReversedRow DEF PaymentReversed
<1>2. (DeliveredInFull(o)' <=> DeliveredInFull(o)) /\ (Approved(o)' <=> Approved(o))
  BY <1>1 DEF DeliveredInFull, Approved
<1>3. SettlementOf' = [SettlementOf EXCEPT ![o] = s]
  BY <1>1, LifeMoves DEF Approved, DeliveredInFull
<1>4. StatusOf' = StatusOf /\ ApprovedOf' = ApprovedOf /\ DeliveredOf' = DeliveredOf
  BY <1>1, <1>2, LifeStays
<1>5. Rank[s] <= Rank[SettlementOf[o]]
  BY LifeAt DEF PaymentReversed
<1> QED
  BY <1>3, <1>4, <1>5 DEF Life!Lower, Life!Rank, Rank, StatusOf, SettlementOf, ApprovedOf, DeliveredOf

(* Every transaction is a step of its order's life. *)
LEMMA ActorLives ==
  ASSUME LifeInv, NEW o \in Orders,
         \/ OfficeStep(o) \/ WarehouseStep(o) \/ \E m \in Missions : DriverStep(o, m)
  PROVE  Life!LifeNext
<1>1. /\ TypeOK /\ OrderInv(o) /\ ReviewInv(o) /\ RolledInv(o) /\ DrivenInv(o)
      /\ OthersStand(o)
  BY OthersUntouched DEF LifeInv, StepInv, Inv, OthersStand
<1>2. CASE ApproveOrder(o) \/ RejectOrder(o) \/ CancelOrder(o) \/ WarehouseStep(o)
  BY <1>1, <1>2, ApproveLives, RejectLives, CancelLives, WarehouseLives DEF Life!LifeNext
<1>3. CASE AssignOrder(o) \/ \E m \in Missions : DriverStep(o, m) /\ ~CompleteDelivery(o, m)
  BY <1>1, <1>3, ShippingLives DEF Life!LifeNext
<1>4. CASE \E m \in Missions : CompleteDelivery(o, m)
  BY <1>1, <1>4, DeliveryLives DEF Life!LifeNext
<1>5. CASE \E s \in PaymentStatuses : PaymentVerified(o, s) \/ PaymentReversed(o, s)
  BY <1>1, <1>5, VerificationLives, ReversalLives
     DEF Life!LifeNext, Life!PaymentStatuses, PaymentStatuses
<1> QED
  BY <1>2, <1>3, <1>4, <1>5 DEF OfficeStep

(* OrderFulfillment implements OrderLife: forgetting stock, allocations and
   missions, every order is approved before anything is shipped for it, moves
   only forward, and is completed exactly by the step that finds it paid to the
   cent and delivered in full. *)
THEOREM LifeImplemented == Spec => ImplementsLife
<1>1. LifeInv /\ [Next]_vars => [Life!LifeNext]_(Life!lifeVars)
  <2> SUFFICES ASSUME LifeInv, [Next]_vars
               PROVE  Life!LifeNext \/ UNCHANGED Life!lifeVars
    OBVIOUS
  <2>1. CASE UNCHANGED vars
    BY <2>1 DEF vars, Life!lifeVars, Approved, DeliveredInFull
  <2>2. CASE Next
    BY <2>2, ActorLives DEF Next
  <2> QED
    BY <2>1, <2>2
<1> QED
  BY <1>1, InitLife, LifeInvariance, PTL DEF Spec, ImplementsLife, Life!LifeSpec

(***************************************************************************)
(* Conservation of stock.  A transaction on one order moves the stock of a *)
(* product in one of four ways; the sums over all orders follow.           *)
(***************************************************************************)

-----------------------------------------------------------------------------
(* What a transaction on order o does to the stock of product p. *)

StockStands(o, p) ==
  /\ balance'[p] = balance[p]
  /\ line'[o][p].reserved = line[o][p].reserved
  /\ shipped'[o][p] = shipped[o][p]

StockReserved(o, p) ==
  /\ line[o][p].reserved = 0 /\ shipped[o][p] = 0 /\ shipped'[o][p] = 0
  /\ line'[o][p].reserved \in Nat
  /\ balance'[p] = Reserve(balance[p], line'[o][p].reserved)

StockReleased(o, p) ==
  /\ line'[o][p].reserved = 0
  /\ shipped'[o][p] = shipped[o][p]
  /\ balance'[p] = Release(balance[p], line[o][p].reserved)

StockShipped(o, p) ==
  /\ line'[o][p].reserved = line[o][p].reserved
  /\ \E q \in Nat : shipped'[o][p] = shipped[o][p] + q /\ balance'[p] = Relieve(balance[p], q)

StockMoves(o) ==
  \A p \in Products :
    StockStands(o, p) \/ StockReserved(o, p) \/ StockReleased(o, p) \/ StockShipped(o, p)

OthersHold(o) ==
  \A x \in Orders \ {o} : \A p \in Products :
    line'[x][p].reserved = line[x][p].reserved /\ shipped'[x][p] = shipped[x][p]

(* Without a mission nothing was shipped. *)
UnshippedInv(o) == ExistingMissions(o) = {} => \A p \in Products : shipped[o][p] = 0

StockInv == Inv /\ (\A o \in Orders : UnshippedInv(o)) /\ StockConserved

(* Approval reserves every line of an order that holds nothing yet. *)
LEMMA ApprovalReserves ==
  ASSUME Inv, NEW o \in Orders, UnshippedInv(o), ApproveOrder(o)
  PROVE  StockMoves(o)
<1> SUFFICES ASSUME NEW p \in Products
             PROVE  StockStands(o, p) \/ StockReserved(o, p)
  BY DEF StockMoves
<1>1. line[o][p].reserved = 0 /\ shipped[o][p] = 0
  BY DEF Inv, OrderInv, UnapprovedInv, UnshippedInv, ApproveOrder
<1>2. shipped' = shipped
  BY DEF ApproveOrder
<1>3. line'[o][p].reserved = Fulfillable(o, p) /\ Fulfillable(o, p) \in Nat
  <2>1. line'[o][p] = [line[o][p] EXCEPT !.reserved = Fulfillable(o, p)]
    BY DEF ApproveOrder, Inv, TypeOK
  <2>2. line[o][p] \in LineRows
    BY DEF Inv, TypeOK
  <2> QED
    BY <2>1, <2>2, OrderedType DEF LineRows
<1>4. balance'[p] = IF p \in Lines(o) THEN Reserve(balance[p], Fulfillable(o, p)) ELSE balance[p]
  BY DEF ApproveOrder
<1>5. CASE p \in Lines(o)
  BY <1>1, <1>2, <1>3, <1>4, <1>5 DEF StockReserved
<1>6. CASE p \notin Lines(o)
  <2>1. Fulfillable(o, p) = 0
    BY <1>3, <1>6, OrderedType DEF Lines, Fulfillable
  <2> QED
    BY <1>1, <1>2, <1>3, <1>4, <1>6, <2>1 DEF StockStands
<1> QED
  BY <1>5, <1>6

(* Cancellation gives back the reservation it finds, if it looks for one. *)
LEMMA CancellationReleases ==
  ASSUME Inv, NEW o \in Orders, CancelOrder(o)
  PROVE  StockMoves(o)
<1> SUFFICES ASSUME NEW p \in Products
             PROVE  StockStands(o, p) \/ StockReleased(o, p)
  BY DEF StockMoves
<1>1. shipped' = shipped
  BY DEF CancelOrder
<1>2. CASE ReleaseReservation(o)
  <2>1. line'[o][p] = [line[o][p] EXCEPT !.reserved = 0]
    BY <1>2 DEF ReleaseReservation, Inv, TypeOK
  <2>2. line[o][p] \in LineRows
    BY DEF Inv, TypeOK
  <2>3. line'[o][p].reserved = 0
    BY <2>1, <2>2 DEF LineRows
  <2>4. balance'[p] = Release(balance[p], line[o][p].reserved)
    BY <1>2 DEF ReleaseReservation
  <2> QED
    BY <1>1, <2>3, <2>4 DEF StockReleased
<1>3. CASE UNCHANGED <<balance, line, alloc>>
  BY <1>1, <1>3 DEF StockStands
<1> QED
  BY <1>2, <1>3 DEF CancelOrder

(* A delivery takes out what its mission carries. *)
LEMMA DeliveryShips ==
  ASSUME Inv, NEW o \in Orders, NEW m \in Missions, CompleteDelivery(o, m)
  PROVE  StockMoves(o)
<1> SUFFICES ASSUME NEW p \in Products
             PROVE  StockStands(o, p) \/ StockShipped(o, p)
  BY DEF StockMoves
<1> DEFINE q == mission[o][m].deliverable[p]
           row == [order[o] EXCEPT !.fulfillment = "DELIVERED", !.delivery = "DELIVERED"]
<1>1. q \in Nat /\ shipped[o][p] \in Nat
  BY DEF Inv, TypeOK, MissionRows
<1>2. shipped'[o][p] = shipped[o][p] + q
  BY DEF CompleteDelivery, Inv, TypeOK
<1>3. balance'[p] = IF q > 0 THEN Relieve(balance[p], q) ELSE balance[p]
  BY DEF CompleteDelivery, RelievedBalances
<1>4. line'[o][p].reserved = line[o][p].reserved
  <2>1. row \in OrderRows
    BY RowsOf, OrderRowUpdates DEF Inv, FulfillmentStatuses, DeliveryStatuses
  <2>2. RolledUp(line[o], DeliveredAllocations(o, m)) \in [Products -> LineRows]
    BY RowsOf, DeliveredRowsType, RolledUpType DEF Inv
  <2>3. EvaluateAndComplete(o, row, RolledUp(line[o], DeliveredAllocations(o, m)),
                            DeliveredAllocations(o, m))
    BY DEF CompleteDelivery
  <2> HIDE DEF row
  <2>4. line'[o][p].reserved = RolledUp(line[o], DeliveredAllocations(o, m))[p].reserved
    BY <2>1, <2>2, <2>3, DeliveredRowsType, EvaluateEffect DEF Inv
  <2> QED
    BY <2>4, RowsOf, DeliveredRowsType, RolledUpEffect DEF Inv
<1> HIDE DEF q
<1>5. CASE q > 0
  BY <1>1, <1>2, <1>3, <1>4, <1>5 DEF StockShipped
<1>6. CASE ~(q > 0)
  <2>1. shipped'[o][p] = shipped[o][p]
    BY <1>1, <1>2, <1>6
  <2> QED
    BY <1>3, <1>4, <1>6, <2>1 DEF StockStands
<1> QED
  BY <1>5, <1>6

(* A verified payment, which may complete the order, leaves reservations alone. *)
LEMMA VerificationHolds ==
  ASSUME Inv, NEW o \in Orders, NEW s \in PaymentStatuses, PaymentVerified(o, s)
  PROVE  StockMoves(o)
<1> SUFFICES ASSUME NEW p \in Products PROVE StockStands(o, p)
  BY DEF StockMoves
<1> DEFINE row == [order[o] EXCEPT !.payment = s]
<1>1. row \in OrderRows
  BY RowsOf, OrderRowUpdates DEF Inv
<1>2. EvaluateAndComplete(o, row, line[o], alloc[o])
  BY DEF PaymentVerified
<1> HIDE DEF row
<1>3. line'[o][p].reserved = line[o][p].reserved
  BY <1>1, <1>2, RowsOf, EvaluateEffect DEF Inv
<1> QED
  BY <1>3 DEF PaymentVerified, StockStands

(* Picking, packing and dispatching move goods, not stock figures. *)
LEMMA WarehouseHolds ==
  ASSUME Inv, NEW o \in Orders, WarehouseStep(o)
  PROVE  StockMoves(o)
<1> SUFFICES ASSUME NEW p \in Products PROVE StockStands(o, p)
  BY DEF StockMoves
<1>1. line[o][p] \in LineRows /\ line[o] \in [Products -> LineRows]
  BY DEF Inv, TypeOK
<1>2. balance' = balance /\ shipped' = shipped
  BY DEF WarehouseStep, PickOrder, PackOrder, DispatchOrder
<1>3. line'[o][p].reserved = line[o][p].reserved
  <2>1. ASSUME NEW picked \in PickRequests(o), PickOrder(o, picked)
        PROVE  line'[o][p].reserved = line[o][p].reserved
    <3>1. line'[o][p] = [line[o][p] EXCEPT !.picked = picked[p]]
      BY <2>1 DEF PickOrder, Inv, TypeOK
    <3> QED
      BY <1>1, <3>1 DEF LineRows
  <2>2. CASE PackOrder(o)
    <3>1. line'[o][p] = [line[o][p] EXCEPT !.picked = PickedOrAll(o, p)]
      BY <2>2 DEF PackOrder, Inv, TypeOK
    <3> QED
      BY <1>1, <3>1 DEF LineRows
  <2>3. CASE DispatchOrder(o)
    <3>1. line'[o][p] = [line[o][p] EXCEPT !.picked = PickedOrAll(o, p),
                                           !.dispatched = PickedOrAll(o, p)]
      BY <2>3 DEF DispatchOrder, Inv, TypeOK
    <3> QED
      BY <1>1, <3>1 DEF LineRows
  <2> QED
    BY <2>1, <2>2, <2>3 DEF WarehouseStep
<1> QED
  BY <1>2, <1>3 DEF StockStands

(* Every transaction is one of the four. *)
LEMMA ActorMovesStock ==
  ASSUME Inv, NEW o \in Orders, UnshippedInv(o),
         \/ OfficeStep(o) \/ WarehouseStep(o) \/ \E m \in Missions : DriverStep(o, m)
  PROVE  StockMoves(o) /\ OthersHold(o)
<1>1. OthersHold(o)
  BY OthersUntouched DEF OthersHold, Inv
<1>2. CASE OfficeStep(o)
  <2>1. CASE RejectOrder(o) \/ AssignOrder(o) \/ \E s \in PaymentStatuses : PaymentReversed(o, s)
    BY <1>1, <2>1 DEF RejectOrder, AssignOrder, PaymentReversed, StockMoves, StockStands
  <2> QED
    BY <1>1, <1>2, <2>1, ApprovalReserves, CancellationReleases, VerificationHolds DEF OfficeStep
<1>3. CASE WarehouseStep(o)
  BY <1>1, <1>3, WarehouseHolds
<1>4. ASSUME NEW m \in Missions, DriverStep(o, m) PROVE StockMoves(o)
  <2>1. CASE ConfirmPickup(o, m) \/ StartRoute(o, m) \/ RecordFailure(o, m) \/ Reschedule(o, m)
             \/ ReturnToWarehouse(o, m)
    BY <2>1 DEF ConfirmPickup, StartRoute, RecordFailure, Reschedule, ReturnToWarehouse,
                StockMoves, StockStands
  <2> QED
    BY <1>4, <2>1, DeliveryShips DEF DriverStep
<1> QED
  BY <1>1, <1>2, <1>3, <1>4

-----------------------------------------------------------------------------
(* The sums over all orders. *)

(* What an order holds is an integer, and so is the sum. *)
LEMMA StockTerms ==
  ASSUME TypeOK, NEW p \in Products
  PROVE  /\ \A o \in Orders :
              /\ line[o][p].reserved \in Nat /\ shipped[o][p] \in Nat
              /\ HeldOf(p)[o] = line[o][p].reserved - shipped[o][p] /\ HeldOf(p)[o] \in Int
              /\ ShippedOf(p)[o] = shipped[o][p] /\ ShippedOf(p)[o] \in Nat
         /\ HeldStock(p) \in Int
         /\ ShippedStock(p) \in Nat
<1>1. ASSUME NEW o \in Orders
      PROVE  /\ line[o][p].reserved \in Nat /\ shipped[o][p] \in Nat
             /\ HeldOf(p)[o] = line[o][p].reserved - shipped[o][p] /\ HeldOf(p)[o] \in Int
             /\ ShippedOf(p)[o] = shipped[o][p] /\ ShippedOf(p)[o] \in Nat
  BY DEF TypeOK, LineRows, HeldOf, ShippedOf
<1>2. HeldStock(p) \in Int
  BY <1>1, OrdersAssumption, SumType DEF HeldStock
<1>3. ShippedStock(p) \in Nat
  BY <1>1, OrdersAssumption, SumNat DEF ShippedStock
<1> QED
  BY <1>1, <1>2, <1>3

(* They change by what the one order changes. *)
LEMMA StockSumsMove ==
  ASSUME TypeOK, TypeOK', NEW o \in Orders, OthersHold(o), NEW p \in Products
  PROVE  /\ HeldStock(p)' = HeldStock(p)
              + ((line'[o][p].reserved - shipped'[o][p]) - (line[o][p].reserved - shipped[o][p]))
         /\ ShippedStock(p)' = ShippedStock(p) + (shipped'[o][p] - shipped[o][p])
<1> DEFINE held == [x \in Orders |-> line'[x][p].reserved - shipped'[x][p]]
           gone == [x \in Orders |-> shipped'[x][p]]
<1>1. HeldStock(p)' = SumFunctionOnSet(held, Orders)
  BY DEF HeldStock, HeldOf
<1>2. ShippedStock(p)' = SumFunctionOnSet(gone, Orders)
  BY DEF ShippedStock, ShippedOf
<1>3. \A x \in Orders :
        /\ held[x] = line'[x][p].reserved - shipped'[x][p] /\ held[x] \in Int
        /\ gone[x] = shipped'[x][p] /\ gone[x] \in Int
        /\ x # o => held[x] = HeldOf(p)[x] /\ gone[x] = ShippedOf(p)[x]
  <2> SUFFICES ASSUME NEW x \in Orders
               PROVE  /\ held[x] \in Int /\ gone[x] \in Int
                      /\ x # o => held[x] = HeldOf(p)[x] /\ gone[x] = ShippedOf(p)[x]
    OBVIOUS
  <2>1. held[x] = line'[x][p].reserved - shipped'[x][p] /\ gone[x] = shipped'[x][p]
    OBVIOUS
  <2>2. line'[x][p].reserved \in Nat /\ shipped'[x][p] \in Nat
    BY DEF TypeOK, LineRows
  <2> HIDE DEF held, gone
  <2>3. held[x] \in Int /\ gone[x] \in Int
    BY <2>1, <2>2
  <2>4. ASSUME x # o PROVE held[x] = HeldOf(p)[x] /\ gone[x] = ShippedOf(p)[x]
    BY <2>1, <2>4, StockTerms DEF OthersHold
  <2> QED
    BY <2>3, <2>4
<1> HIDE DEF held, gone
<1>4. SumFunctionOnSet(held, Orders) = SumFunctionOnSet(HeldOf(p), Orders) + (held[o] - HeldOf(p)[o])
  <2>1. \A x \in Orders : HeldOf(p)[x] \in Int /\ held[x] \in Int /\ (x # o => held[x] = HeldOf(p)[x])
    BY <1>3, StockTerms
  <2> QED
    BY <2>1, OrdersAssumption, SumChanged
<1>5. SumFunctionOnSet(gone, Orders) = SumFunctionOnSet(ShippedOf(p), Orders) + (gone[o] - ShippedOf(p)[o])
  <2>1. \A x \in Orders : ShippedOf(p)[x] \in Int /\ gone[x] \in Int /\ (x # o => gone[x] = ShippedOf(p)[x])
    BY <1>3, StockTerms
  <2> QED
    BY <2>1, OrdersAssumption, SumChanged
<1>6. SumFunctionOnSet(HeldOf(p), Orders) = HeldStock(p) /\ SumFunctionOnSet(ShippedOf(p), Orders) = ShippedStock(p)
  BY DEF HeldStock, ShippedStock
<1> QED
  BY <1>1, <1>2, <1>3, <1>4, <1>5, <1>6, StockTerms

(* Unless an order was overshipped, what one holds is part of what all hold. *)
LEMMA HeldIsPart ==
  ASSUME TypeOK, NeverOvershipped, NEW p \in Products
  PROVE  /\ HeldStock(p) \in Nat
         /\ \A o \in Orders : line[o][p].reserved - shipped[o][p] <= HeldStock(p)
<1>1. \A o \in Orders : HeldOf(p)[o] \in Nat /\ HeldOf(p)[o] = line[o][p].reserved - shipped[o][p]
  BY StockTerms DEF NeverOvershipped
<1> QED
  BY <1>1, OrdersAssumption, SumNat, SumMember DEF HeldStock

(* An overshipped order remains so. *)
LEMMA OvershippedStays ==
  ASSUME TypeOK, TypeOK', NEW o \in Orders, StockMoves(o), OthersHold(o), NeverOvershipped'
  PROVE  NeverOvershipped
<1> SUFFICES ASSUME NEW x \in Orders, NEW p \in Products
             PROVE  shipped[x][p] <= line[x][p].reserved
  BY DEF NeverOvershipped
<1>1. /\ line[x][p].reserved \in Nat /\ line'[x][p].reserved \in Nat
      /\ shipped[x][p] \in Nat /\ shipped'[x][p] \in Nat
  BY DEF TypeOK, LineRows
<1>2. shipped'[x][p] <= line'[x][p].reserved
  BY DEF NeverOvershipped
<1>3. CASE x # o
  BY <1>2, <1>3 DEF OthersHold
<1>4. CASE x = o
  <2>1. StockStands(o, p) \/ StockReserved(o, p) \/ StockReleased(o, p) \/ StockShipped(o, p)
    BY DEF StockMoves
  <2> QED
    BY <1>1, <1>2, <1>4, <2>1 DEF StockStands, StockReserved, StockReleased, StockShipped
<1> QED
  BY <1>3, <1>4

(* Without a mission nothing was shipped, after any transaction. *)
LEMMA UnshippedStays ==
  ASSUME TypeOK, NEW o \in Orders, UnshippedInv(o),
         \/ OfficeStep(o) \/ WarehouseStep(o) \/ \E m \in Missions : DriverStep(o, m)
  PROVE  UnshippedInv(o)'
<1>1. ASSUME NEW m \in Missions, CompleteDelivery(o, m) PROVE UnshippedInv(o)'
  <2>1. mission'[o][m].status = "DELIVERED"
    BY <1>1 DEF CompleteDelivery, TypeOK, MissionRows
  <2> QED
    BY <2>1 DEF UnshippedInv, ExistingMissions
<1>2. ASSUME shipped' = shipped,
             \A m \in Missions : mission[o][m].status # "NONE" => mission'[o][m].status # "NONE"
      PROVE  UnshippedInv(o)'
  BY <1>2 DEF UnshippedInv, ExistingMissions
<1>3. ASSUME NEW m \in Missions, NEW s \in DeliveryStatuses, shipped' = shipped,
             mission' = [mission EXCEPT ![o][m].status = s]
      PROVE  UnshippedInv(o)'
  <2>1. s # "NONE"
    BY DEF DeliveryStatuses
  <2>2. \A k \in Missions : mission[o][k].status # "NONE" => mission'[o][k].status # "NONE"
    BY <1>3, <2>1 DEF TypeOK, MissionRows
  <2> QED
    BY <1>2, <1>3, <2>2
<1>4. CASE OfficeStep(o)
  <2>1. CASE ApproveOrder(o) \/ RejectOrder(o) \/ CancelOrder(o)
             \/ \E s \in PaymentStatuses : PaymentVerified(o, s) \/ PaymentReversed(o, s)
    BY <1>2, <2>1 DEF ApproveOrder, RejectOrder, CancelOrder, PaymentVerified, PaymentReversed
  <2>2. CASE AssignOrder(o) /\ ReuseMission(o)
    BY <1>3, <2>2 DEF AssignOrder, ReuseMission, AssignableMissions, DeliveryStatuses
  <2>3. CASE AssignOrder(o) /\ CreateAssignedMission(o)
    <3>1. PICK m \in Missions :
            /\ NextMission(o, m)
            /\ mission' = [mission EXCEPT ![o][m] =
                 [status |-> "ASSIGNED",
                  deliverable |-> [p \in Products |->
                    IF p \in ActiveAllocations(o) THEN alloc[o][p].allocated ELSE 0]]]
      BY <2>3 DEF CreateAssignedMission
    <3>2. \A k \in Missions : mission[o][k].status # "NONE" => mission'[o][k].status # "NONE"
      BY <3>1 DEF TypeOK
    <3> QED
      BY <1>2, <2>3, <3>2 DEF AssignOrder
  <2> QED
    BY <1>4, <2>1, <2>2, <2>3 DEF OfficeStep, AssignOrder
<1>5. CASE WarehouseStep(o)
  <2>1. shipped' = shipped
    BY <1>5 DEF WarehouseStep, PickOrder, PackOrder, DispatchOrder
  <2>2. CASE UNCHANGED mission
    BY <1>2, <2>1, <2>2
  <2>3. CASE CreatePendingMission(o)
    <3>1. 1 \in Missions
      BY MaxMissionsAssumption DEF Missions
    <3>2. \A k \in Missions : mission[o][k].status # "NONE" => mission'[o][k].status # "NONE"
      BY <2>3, <3>1 DEF TypeOK, CreatePendingMission
    <3> QED
      BY <1>2, <2>1, <3>2
  <2> QED
    BY <1>5, <2>2, <2>3 DEF WarehouseStep, PickOrder, PackOrder, DispatchOrder
<1>6. ASSUME NEW m \in Missions, DriverStep(o, m) PROVE UnshippedInv(o)'
  <2>1. CASE ConfirmPickup(o, m) \/ StartRoute(o, m) \/ RecordFailure(o, m) \/ Reschedule(o, m)
             \/ ReturnToWarehouse(o, m)
    BY <1>3, <2>1 DEF ConfirmPickup, StartRoute, RecordFailure, Reschedule, ReturnToWarehouse,
                      DeliveryStatuses
  <2> QED
    BY <1>1, <1>6, <2>1 DEF DriverStep
<1> QED
  BY <1>4, <1>5, <1>6

-----------------------------------------------------------------------------
(* The balance of one product follows the sums. *)

(* A transaction keeps the two equations as long as no order is overshipped. *)
LEMMA ActorConserves ==
  ASSUME Inv, TypeOK', NEW o \in Orders, StockMoves(o), OthersHold(o),
         StockConserved, NeverOvershipped', NEW p \in Products
  PROVE  /\ balance'[p].reserved = InitialBalance[p].reserved + HeldStock(p)'
         /\ balance'[p].onHand = InitialBalance[p].onHand - ShippedStock(p)'
<1>1. TypeOK /\ NeverOvershipped
  BY OvershippedStays DEF Inv
<1>2. /\ line[o][p].reserved \in Nat /\ line'[o][p].reserved \in Nat
      /\ shipped[o][p] \in Nat /\ shipped'[o][p] \in Nat
  BY <1>1 DEF TypeOK, LineRows
<1>3. /\ balance[p] \in Balance /\ InitialBalance[p] \in Balance
      /\ balance[p].reserved <= balance[p].onHand
  BY <1>1, InitialBalanceAssumption DEF Inv, TypeOK, BalancesKeepChecks, SatisfiesChecks, Balance
<1>4. /\ balance[p].reserved = InitialBalance[p].reserved + HeldStock(p)
      /\ balance[p].onHand = InitialBalance[p].onHand - ShippedStock(p)
  BY <1>1 DEF StockConserved
<1>5. /\ HeldStock(p) \in Nat /\ ShippedStock(p) \in Nat
      /\ line[o][p].reserved - shipped[o][p] <= HeldStock(p)
  BY <1>1, HeldIsPart, StockTerms
<1>6. shipped'[o][p] <= line'[o][p].reserved
  BY DEF NeverOvershipped
<1>7. /\ HeldStock(p)' = HeldStock(p)
           + ((line'[o][p].reserved - shipped'[o][p]) - (line[o][p].reserved - shipped[o][p]))
      /\ ShippedStock(p)' = ShippedStock(p) + (shipped'[o][p] - shipped[o][p])
  BY <1>1, StockSumsMove
<1>8. /\ balance[p].reserved \in Nat /\ balance[p].onHand \in Nat
      /\ InitialBalance[p].reserved \in Nat /\ InitialBalance[p].onHand \in Nat
  BY <1>3 DEF Balance
<1>9. CASE StockStands(o, p)
  BY <1>2, <1>4, <1>5, <1>7, <1>8, <1>9 DEF StockStands
<1>10. CASE StockReserved(o, p)
  <2>1. /\ balance'[p].onHand = balance[p].onHand
        /\ balance'[p].reserved = balance[p].reserved + line'[o][p].reserved
    BY <1>2, <1>3, <1>10, ReserveRow DEF StockReserved
  <2>2. line[o][p].reserved = 0 /\ shipped[o][p] = 0 /\ shipped'[o][p] = 0
    BY <1>10 DEF StockReserved
  <2> QED
    BY <1>2, <1>4, <1>5, <1>7, <1>8, <2>1, <2>2
<1>11. CASE StockReleased(o, p)
  <2>1. /\ balance'[p].onHand = balance[p].onHand
        /\ balance'[p].reserved = balance[p].reserved - Lesser(balance[p].reserved, line[o][p].reserved)
    BY <1>2, <1>3, <1>11, ReleaseRow DEF StockReleased
  <2>2. line'[o][p].reserved = 0 /\ shipped'[o][p] = shipped[o][p] /\ shipped[o][p] = 0
    BY <1>2, <1>6, <1>11 DEF StockReleased
  <2>3. Lesser(balance[p].reserved, line[o][p].reserved) = line[o][p].reserved
    BY <1>2, <1>4, <1>5, <1>8, <2>2 DEF Lesser
  <2> QED
    BY <1>2, <1>4, <1>5, <1>7, <1>8, <2>1, <2>2, <2>3
<1>12. CASE StockShipped(o, p)
  <2>1. PICK q \in Nat : shipped'[o][p] = shipped[o][p] + q /\ balance'[p] = Relieve(balance[p], q)
    BY <1>12 DEF StockShipped
  <2>2. line'[o][p].reserved = line[o][p].reserved
    BY <1>12 DEF StockShipped
  <2>3. /\ balance'[p].onHand = Max0(balance[p].onHand - q)
        /\ balance'[p].reserved = Max0(balance[p].reserved - q)
    BY <1>3, <2>1, RelieveRow
  <2>4. q <= balance[p].reserved
    BY <1>2, <1>4, <1>5, <1>6, <1>8, <2>1, <2>2
  <2>5. /\ balance'[p].onHand = balance[p].onHand - q
        /\ balance'[p].reserved = balance[p].reserved - q
    BY <1>3, <1>8, <2>3, <2>4 DEF Max0
  <2> QED
    BY <1>2, <1>4, <1>5, <1>7, <1>8, <2>1, <2>2, <2>5
<1> QED
  BY <1>9, <1>10, <1>11, <1>12 DEF StockMoves

(* Before the first approval nothing is held and nothing has left. *)
LEMMA InitStockInv == Init => StockInv
<1> SUFFICES ASSUME Init PROVE StockInv
  OBVIOUS
<1>1. Inv
  BY InitInv
<1>2. \A o \in Orders : UnshippedInv(o)
  BY DEF Init, UnshippedInv
<1>3. ASSUME NEW p \in Products PROVE HeldStock(p) = 0 /\ ShippedStock(p) = 0
  <2>1. \A o \in Orders : HeldOf(p)[o] = 0 /\ ShippedOf(p)[o] = 0
    BY DEF Init, HeldOf, ShippedOf
  <2> QED
    BY <2>1, OrdersAssumption, SumZero DEF HeldStock, ShippedStock
<1>4. ASSUME NEW p \in Products
      PROVE  /\ balance[p].reserved = InitialBalance[p].reserved + HeldStock(p)
             /\ balance[p].onHand = InitialBalance[p].onHand - ShippedStock(p)
  <2>1. balance = InitialBalance
    BY DEF Init
  <2>2. InitialBalance[p].reserved \in Nat /\ InitialBalance[p].onHand \in Nat
    BY InitialBalanceAssumption DEF Balance
  <2> QED
    BY <1>3, <2>1, <2>2
<1> QED
  BY <1>1, <1>2, <1>4 DEF StockInv, StockConserved

(* Every transaction keeps the invariant. *)
LEMMA StepKeepsStockInv == StockInv /\ [Next]_vars => StockInv'
<1> SUFFICES ASSUME StockInv, [Next]_vars PROVE StockInv'
  OBVIOUS
<1>1. Inv' /\ Inv
  BY StepKeepsInv DEF StockInv
<1>2. CASE UNCHANGED vars
  <2>1. \A o \in Orders : UnshippedInv(o)'
    BY <1>2 DEF StockInv, UnshippedInv, ExistingMissions, vars
  <2>2. StockConserved'
    BY <1>2 DEF StockInv, StockConserved, NeverOvershipped, HeldStock, ShippedStock, HeldOf,
                ShippedOf, vars
  <2> QED
    BY <1>1, <2>1, <2>2 DEF StockInv
<1>3. CASE Next
  <2>1. PICK o \in Orders : \/ OfficeStep(o) \/ WarehouseStep(o)
                            \/ \E m \in Missions : DriverStep(o, m)
    BY <1>3 DEF Next
  <2>2. StockMoves(o) /\ OthersHold(o)
    BY <1>1, <2>1, ActorMovesStock DEF StockInv
  <2>3. ASSUME NEW x \in Orders PROVE UnshippedInv(x)'
    <3>1. CASE x = o
      BY <1>1, <2>1, <3>1, UnshippedStays DEF StockInv, Inv
    <3>2. CASE x # o
      <4>1. mission'[x] = mission[x] /\ shipped'[x] = shipped[x]
        BY <1>1, <2>1, <3>2, OthersUntouched DEF Inv
      <4> QED
        BY <4>1 DEF StockInv, UnshippedInv, ExistingMissions
    <3> QED
      BY <3>1, <3>2
  <2>4. StockConserved'
    <3> SUFFICES ASSUME NeverOvershipped', NEW p \in Products
                 PROVE  /\ balance'[p].reserved = InitialBalance[p].reserved + HeldStock(p)'
                        /\ balance'[p].onHand = InitialBalance[p].onHand - ShippedStock(p)'
      BY DEF StockConserved
    <3> QED
      BY <1>1, <2>2, ActorConserves DEF StockInv, Inv
  <2> QED
    BY <1>1, <2>3, <2>4 DEF StockInv
<1> QED
  BY <1>2, <1>3

(* As long as no order had more delivered than it holds, what is reserved is
   what orders hold and what has left the shelf is what the movement ledger
   records, through any interleaving of approvals, cancellations and deliveries. *)
THEOREM StockIsConserved == Spec => []StockConserved
<1>1. Spec => []StockInv
  BY InitStockInv, StepKeepsStockInv, PTL DEF Spec
<1>2. StockInv => StockConserved
  BY DEF StockInv
<1> QED
  BY <1>1, <1>2, PTL

-----------------------------------------------------------------------------
(* Rows of inventory_balances. *)

(* A manual adjustment the desk accepts leaves a row PostgreSQL accepts. *)
LEMMA AdjustedKeepsChecks ==
  ASSUME NEW b \in Balance, SatisfiesChecks(b), NEW q \in Nat,
         NEW type \in AdjustmentTypes, MayAdjust(b, type, q)
  PROVE  Adjusted(b, type, q) \in Balance /\ SatisfiesChecks(Adjusted(b, type, q))
<1>1. CASE type = "INCREASE_ON_HAND"
  <2> DEFINE r == [b EXCEPT !.onHand = @ + q]
  <2>1. r \in Balance /\ r.reserved + r.damaged <= r.onHand
    BY DEF Balance, SatisfiesChecks
  <2>2. Adjusted(b, type, q) = Recomputed(r)
    BY <1>1 DEF Adjusted
  <2> QED
    BY <2>1, <2>2, RecomputedType, RecomputedKeepsChecks
<1>2. CASE type = "DECREASE_ON_HAND"
  <2> DEFINE r == [b EXCEPT !.onHand = @ - q]
  <2>1. b.available >= q
    BY <1>2 DEF MayAdjust
  <2>2. r \in Balance /\ r.reserved + r.damaged <= r.onHand
    BY <2>1 DEF Balance, SatisfiesChecks
  <2>3. Adjusted(b, type, q) = Recomputed(r)
    BY <1>2 DEF Adjusted
  <2> QED
    BY <2>2, <2>3, RecomputedType, RecomputedKeepsChecks
<1>3. CASE type = "TRANSFER_TO_DAMAGED"
  <2> DEFINE r == [b EXCEPT !.damaged = @ + q]
  <2>1. b.available >= q
    BY <1>3 DEF MayAdjust
  <2>2. r \in Balance /\ r.reserved + r.damaged <= r.onHand
    BY <2>1 DEF Balance, SatisfiesChecks
  <2>3. Adjusted(b, type, q) = Recomputed(r)
    BY <1>3 DEF Adjusted
  <2> QED
    BY <2>2, <2>3, RecomputedType, RecomputedKeepsChecks
<1>4. CASE type = "DAMAGE_DISPOSAL"
  <2> DEFINE r == [b EXCEPT !.damaged = @ - q, !.onHand = @ - q]
  <2>1. b.damaged >= q
    BY <1>4 DEF MayAdjust
  <2>2. r \in Balance /\ r.reserved + r.damaged <= r.onHand
    <3>1. b.damaged - q \in Nat /\ b.onHand - q \in Nat
      BY <2>1 DEF Balance, SatisfiesChecks
    <3>2. r \in Balance
      BY <3>1 DEF Balance
    <3>3. r.damaged = b.damaged - q /\ r.onHand = b.onHand - q /\ r.reserved = b.reserved
      BY DEF Balance
    <3> QED
      BY <3>2, <3>3 DEF Balance, SatisfiesChecks
  <2>3. Adjusted(b, type, q) = Recomputed(r)
    BY <1>4 DEF Adjusted
  <2> QED
    BY <2>2, <2>3, RecomputedType, RecomputedKeepsChecks
<1> QED
  BY <1>1, <1>2, <1>3, <1>4 DEF AdjustmentTypes

(* A quarantine of pieces that are available or reserved leaves such a row. *)
LEMMA QuarantinedKeepsChecks ==
  ASSUME NEW b \in Balance, SatisfiesChecks(b), NEW q \in Nat,
         NEW source \in Sources, MayQuarantine(b, source, q)
  PROVE  Quarantined(b, source, q) \in Balance /\ SatisfiesChecks(Quarantined(b, source, q))
<1>1. CASE source = "AVAILABLE"
  <2> DEFINE r == [b EXCEPT !.damaged = @ + q]
  <2>1. b.available >= q
    BY <1>1 DEF MayQuarantine
  <2>2. r \in Balance /\ r.reserved + r.damaged <= r.onHand
    BY <2>1 DEF Balance, SatisfiesChecks
  <2>3. Quarantined(b, source, q) = Recomputed(r)
    BY <1>1 DEF Quarantined
  <2> QED
    BY <2>2, <2>3, RecomputedType, RecomputedKeepsChecks
<1>2. CASE source = "RESERVED"
  <2> DEFINE r == [b EXCEPT !.reserved = Max0(@ - q), !.damaged = @ + q]
  <2>1. b.reserved >= q
    BY <1>2 DEF MayQuarantine
  <2>2. Max0(b.reserved - q) = b.reserved - q /\ b.reserved - q \in Nat
    BY <2>1 DEF Max0, Balance
  <2>3. r \in Balance /\ r.reserved + r.damaged <= r.onHand
    <3>1. r \in Balance
      <4>1. Max0(b.reserved - q) \in Nat /\ b.damaged + q \in Nat
        BY <2>2 DEF Balance
      <4> QED
        BY <4>1 DEF Balance
    <3>2. r.damaged = b.damaged + q /\ r.onHand = b.onHand /\ r.reserved = b.reserved - q
      BY <2>2 DEF Balance
    <3> QED
      BY <3>1, <3>2 DEF Balance, SatisfiesChecks
  <2>4. Quarantined(b, source, q) = Recomputed(r)
    BY <1>2 DEF Quarantined
  <2> QED
    BY <2>3, <2>4, RecomputedType, RecomputedKeepsChecks
<1> QED
  BY <1>1, <1>2 DEF Sources

(* Reverting a quarantine, clamped to what is still damaged, leaves such a row. *)
LEMMA RevertedKeepsChecks ==
  ASSUME NEW b \in Balance, SatisfiesChecks(b), NEW q \in Nat, NEW source \in Sources
  PROVE  Reverted(b, source, q) \in Balance /\ SatisfiesChecks(Reverted(b, source, q))
<1> DEFINE actual == Lesser(b.damaged, q)
<1>1. actual \in Nat /\ actual <= b.damaged
  BY DEF Lesser, Balance
<1>2. Max0(b.damaged - actual) = b.damaged - actual /\ b.damaged - actual \in Nat
  BY <1>1 DEF Max0, Balance
<1> HIDE DEF actual
<1>3. CASE actual > 0 /\ source = "RESERVED"
  <2> DEFINE r == [b EXCEPT !.damaged = Max0(@ - actual), !.reserved = @ + actual]
  <2>1. r \in Balance /\ r.reserved + r.damaged <= r.onHand
    <3>1. r \in Balance
      <4>1. Max0(b.damaged - actual) \in Nat /\ b.reserved + actual \in Nat
        BY <1>1, <1>2 DEF Balance
      <4> QED
        BY <4>1 DEF Balance
    <3>2. r.damaged = b.damaged - actual /\ r.onHand = b.onHand /\ r.reserved = b.reserved + actual
      BY <1>2 DEF Balance
    <3> QED
      BY <1>1, <3>1, <3>2 DEF Balance, SatisfiesChecks
  <2>2. Reverted(b, source, q) = Recomputed(r)
    BY <1>1, <1>3 DEF Reverted, actual
  <2> QED
    BY <2>1, <2>2, RecomputedType, RecomputedKeepsChecks
<1>4. CASE actual > 0 /\ source # "RESERVED"
  <2> DEFINE r == [b EXCEPT !.damaged = Max0(@ - actual)]
  <2>1. r \in Balance /\ r.reserved + r.damaged <= r.onHand
    BY <1>1, <1>2 DEF Balance, SatisfiesChecks
  <2>2. Reverted(b, source, q) = Recomputed(r)
    BY <1>1, <1>4 DEF Reverted, actual
  <2> QED
    BY <2>1, <2>2, RecomputedType, RecomputedKeepsChecks
<1>5. CASE ~(actual > 0)
  BY <1>1, <1>5 DEF Reverted, actual
<1> QED
  BY <1>3, <1>4, <1>5

-----------------------------------------------------------------------------
(* The invariant: what the order flow keeps, and what a report may give back. *)

ExceptionInv(e) ==
  exception[e] # NoException =>
    /\ exception[e].reverted <= exception[e].quantity
    /\ exception[e].status = "PENDING_REVIEW" => exception[e].reverted = 0
    /\ exception[e].reverted > 0 => exception[e].status = "DISMISSED"

DeskInv == Inv /\ DeskTypeOK /\ \A e \in Exceptions : ExceptionInv(e)

(* The desk and the order flow meet in the balances only: a desk step that keeps
   them typed and within the CHECKs keeps everything the order flow relies on. *)
LEMMA OrdersUntouched ==
  ASSUME Inv, UNCHANGED <<order, line, alloc, mission, shipped>>,
         balance' \in [Products -> Balance], \A p \in Products : SatisfiesChecks(balance'[p])
  PROVE  Inv'
<1>1. TypeOK'
  BY DEF Inv, TypeOK
<1>2. BalancesKeepChecks'
  BY DEF BalancesKeepChecks, SatisfiesChecks
<1>3. ASSUME NEW o \in Orders PROVE OrderInv(o)'
  BY OthersKeepInv DEF Inv
<1> QED
  BY <1>1, <1>2, <1>3 DEF Inv

(* One balance written. *)
LEMMA OneBalance ==
  ASSUME Inv, NEW p \in Products, NEW b \in Balance, SatisfiesChecks(b),
         balance' = [balance EXCEPT ![p] = b]
  PROVE  /\ balance' \in [Products -> Balance]
         /\ \A q \in Products : SatisfiesChecks(balance'[q])
BY DEF Inv, TypeOK, BalancesKeepChecks

(* The row of a reported exception. *)
LEMMA ReportedRow ==
  ASSUME DeskTypeOK, NEW e \in Reported
  PROVE  e \in Exceptions /\ exception[e] \in ExceptionRows
BY DEF DeskTypeOK, Reported

(* An adjustment keeps the invariant. *)
LEMMA AdjustKeepsInv ==
  ASSUME DeskInv, NEW p \in Products, NEW type \in AdjustmentTypes, NEW q \in Nat,
         AdjustBalance(p, type, q)
  PROVE  DeskInv'
<1>1. balance[p] \in Balance /\ SatisfiesChecks(balance[p])
  BY DEF DeskInv, Inv, TypeOK, BalancesKeepChecks
<1>2. Adjusted(balance[p], type, q) \in Balance /\ SatisfiesChecks(Adjusted(balance[p], type, q))
  BY <1>1, AdjustedKeepsChecks DEF AdjustBalance
<1>3. balance' = [balance EXCEPT ![p] = Adjusted(balance[p], type, q)]
  BY DEF AdjustBalance
<1>4. Inv'
  BY <1>2, <1>3, OneBalance, OrdersUntouched DEF DeskInv, AdjustBalance
<1>5. adjusted' \in [Products -> [AdjustmentTypes -> Nat]]
  BY DEF DeskInv, DeskTypeOK, AdjustBalance
<1>6. exception' = exception
  BY DEF AdjustBalance
<1> QED
  BY <1>4, <1>5, <1>6 DEF DeskInv, DeskTypeOK, Inv, ExceptionInv

(* A report keeps it. *)
LEMMA ReportKeepsInv ==
  ASSUME DeskInv, NEW e \in Exceptions, NEW p \in Products, NEW source \in Sources,
         NEW q \in Nat \ {0}, ReportException(e, p, source, q)
  PROVE  DeskInv'
<1>1. balance[p] \in Balance /\ SatisfiesChecks(balance[p])
  BY DEF DeskInv, Inv, TypeOK, BalancesKeepChecks
<1>2. /\ Quarantined(balance[p], source, q) \in Balance
      /\ SatisfiesChecks(Quarantined(balance[p], source, q))
  BY <1>1, QuarantinedKeepsChecks DEF ReportException
<1>3. balance' = [balance EXCEPT ![p] = Quarantined(balance[p], source, q)]
  BY DEF ReportException
<1>4. Inv'
  BY <1>2, <1>3, OneBalance, OrdersUntouched DEF DeskInv, ReportException
<1> DEFINE row == [status |-> "PENDING_REVIEW", product |-> p, source |-> source,
                   quantity |-> q, reverted |-> 0]
<1>5. row \in ExceptionRows /\ exception' = [exception EXCEPT ![e] = row]
  BY DEF ReportException, ExceptionRows
<1>6. exception' \in [Exceptions -> ExceptionRows \cup {NoException}]
  BY <1>5 DEF DeskInv, DeskTypeOK
<1>7. ASSUME NEW f \in Exceptions PROVE ExceptionInv(f)'
  <2>1. CASE f = e
    <3>1. exception'[f] = row
      BY <2>1, <1>5 DEF DeskInv, DeskTypeOK
    <3> QED
      BY <3>1 DEF ExceptionInv
  <2>2. CASE f # e
    <3>1. exception'[f] = exception[f]
      BY <2>2, <1>5 DEF DeskInv, DeskTypeOK
    <3> QED
      BY <3>1 DEF ExceptionInv, DeskInv
  <2> QED
    BY <2>1, <2>2
<1>8. adjusted' = adjusted
  BY DEF ReportException
<1> QED
  BY <1>4, <1>6, <1>7, <1>8 DEF DeskInv, DeskTypeOK, Inv

(* Settling a report, with the pieces it gives back, keeps it. *)
LEMMA SettledRow ==
  ASSUME DeskInv, NEW e \in Reported, exception[e].status = "PENDING_REVIEW",
         NEW s \in {"RESOLVED", "DISMISSED"}, NEW n \in Nat, n <= exception[e].quantity,
         n > 0 => s = "DISMISSED",
         exception' = [exception EXCEPT ![e] = [@ EXCEPT !.status = s, !.reverted = n]]
  PROVE  /\ exception' \in [Exceptions -> ExceptionRows \cup {NoException}]
         /\ \A f \in Exceptions : ExceptionInv(f)'
<1> DEFINE row == [exception[e] EXCEPT !.status = s, !.reverted = n]
<1>1. e \in Exceptions /\ exception[e] \in ExceptionRows
  BY ReportedRow DEF DeskInv
<1>2. /\ row \in ExceptionRows
      /\ row.status = s /\ row.reverted = n /\ row.quantity = exception[e].quantity
  BY <1>1 DEF ExceptionRows
<1>3. exception' = [exception EXCEPT ![e] = row]
  OBVIOUS
<1> HIDE DEF row
<1>4. exception' \in [Exceptions -> ExceptionRows \cup {NoException}]
  BY <1>2, <1>3 DEF DeskInv, DeskTypeOK
<1>5. ASSUME NEW f \in Exceptions PROVE ExceptionInv(f)'
  <2>1. CASE f = e
    <3>1. exception'[f] = row
      BY <2>1, <1>3 DEF DeskInv, DeskTypeOK
    <3> QED
      BY <3>1, <1>2 DEF ExceptionInv
  <2>2. CASE f # e
    <3>1. exception'[f] = exception[f]
      BY <2>2, <1>3 DEF DeskInv, DeskTypeOK
    <3> QED
      BY <3>1 DEF ExceptionInv, DeskInv
  <2> QED
    BY <2>1, <2>2
<1> QED
  BY <1>4, <1>5

(* A review of a report, reverting or not, keeps the invariant. *)
LEMMA ReviewKeepsInv ==
  ASSUME DeskInv, NEW e \in Exceptions,
         ResolveException(e) \/ \E revert \in BOOLEAN : DismissException(e, revert)
  PROVE  DeskInv'
<1>1. e \in Reported /\ exception[e].status = "PENDING_REVIEW"
  BY DEF ResolveException, DismissException
<1>2. exception[e] \in ExceptionRows
  BY <1>1, ReportedRow DEF DeskInv
<1>3. exception[e].reverted = 0
  BY <1>1 DEF DeskInv, ExceptionInv, Reported
<1>4. adjusted' = adjusted /\ UNCHANGED <<order, line, alloc, mission, shipped>>
  BY DEF ResolveException, DismissException
<1> DEFINE p == exception[e].product
           q == exception[e].quantity
           n == Lesser(balance[p].damaged, q)
<1>5. /\ p \in Products /\ q \in Nat /\ exception[e].source \in Sources
      /\ balance[p] \in Balance /\ SatisfiesChecks(balance[p])
  BY <1>2 DEF ExceptionRows, DeskInv, Inv, TypeOK, BalancesKeepChecks
<1>6. n \in Nat /\ n <= q
  BY <1>5 DEF Lesser, Balance
<1>7. CASE RevertQuarantine(e)
  <2>1. /\ Reverted(balance[p], exception[e].source, q) \in Balance
        /\ SatisfiesChecks(Reverted(balance[p], exception[e].source, q))
    BY <1>5, RevertedKeepsChecks
  <2>2. balance' = [balance EXCEPT ![p] = Reverted(balance[p], exception[e].source, q)]
    BY <1>7 DEF RevertQuarantine
  <2>3. Inv'
    BY <1>4, <1>5, <2>1, <2>2, OneBalance, OrdersUntouched DEF DeskInv
  <2>4. exception' = [exception EXCEPT ![e] = [@ EXCEPT !.status = "DISMISSED", !.reverted = n]]
    <3>1. exception[e].reverted + n = n
      BY <1>3, <1>6
    <3>2. exception' = [exception EXCEPT ![e] =
            [exception[e] EXCEPT !.status = "DISMISSED", !.reverted = exception[e].reverted + n]]
      BY <1>7 DEF RevertQuarantine
    <3> QED
      BY <3>1, <3>2
  <2> HIDE DEF n
  <2>5. /\ exception' \in [Exceptions -> ExceptionRows \cup {NoException}]
        /\ \A f \in Exceptions : ExceptionInv(f)'
    BY <1>1, <1>6, <2>4, SettledRow
  <2> QED
    BY <1>4, <2>3, <2>5 DEF DeskInv, DeskTypeOK, Inv
<1>8. ASSUME NEW s \in {"RESOLVED", "DISMISSED"}, balance' = balance,
             exception' = [exception EXCEPT ![e].status = s]
      PROVE  DeskInv'
  <2>1. Inv'
    BY <1>4, <1>8, OrdersUntouched DEF DeskInv, Inv, TypeOK, BalancesKeepChecks
  <2>2. exception' = [exception EXCEPT ![e] = [@ EXCEPT !.status = s, !.reverted = 0]]
    BY <1>2, <1>3, <1>8 DEF ExceptionRows
  <2>3. /\ exception' \in [Exceptions -> ExceptionRows \cup {NoException}]
        /\ \A f \in Exceptions : ExceptionInv(f)'
    <3>1. 0 \in Nat /\ 0 <= exception[e].quantity /\ ~(0 > 0)
      BY <1>5
    <3> QED
      BY <1>1, <2>2, <3>1, SettledRow
  <2> QED
    BY <1>4, <2>1, <2>3 DEF DeskInv, DeskTypeOK, Inv
<1> QED
  BY <1>7, <1>8 DEF ResolveException, DismissException

(* The invariant holds before the first report or adjustment. *)
LEMMA InitDeskInv == DeskInit => DeskInv
<1> SUFFICES ASSUME DeskInit PROVE DeskInv
  OBVIOUS
<1>1. Inv
  BY InitInv DEF DeskInit
<1>2. DeskTypeOK
  BY <1>1 DEF DeskInit, DeskTypeOK, Inv
<1>3. \A e \in Exceptions : ExceptionInv(e)
  BY DEF DeskInit, ExceptionInv
<1> QED
  BY <1>1, <1>2, <1>3 DEF DeskInv

(* Every step of the order flow and of the desk keeps it. *)
LEMMA StepKeepsDeskInv == DeskInv /\ [DeskNext]_stockVars => DeskInv'
<1> SUFFICES ASSUME DeskInv, [DeskNext]_stockVars PROVE DeskInv'
  OBVIOUS
<1>1. CASE Next /\ UNCHANGED deskVars
  <2>1. Inv'
    BY <1>1, StepKeepsInv DEF DeskInv
  <2> QED
    BY <1>1, <2>1 DEF deskVars, DeskInv, DeskTypeOK, Inv, ExceptionInv
<1>2. CASE DeskStep
  <2>1. ASSUME NEW p \in Products, NEW q \in 1 .. MaxPieces, NEW type \in AdjustmentTypes,
               AdjustBalance(p, type, q)
        PROVE  DeskInv'
    BY <2>1, AdjustKeepsInv
  <2>2. ASSUME NEW e \in Exceptions, NEW p \in Products, NEW source \in Sources,
               NEW q \in Pieces(p), ReportException(e, p, source, q)
        PROVE  DeskInv'
    <3>1. q \in Nat \ {0}
      BY MaxPiecesAssumption DEF Pieces, DeskInv, Inv, TypeOK, Balance
    <3> QED
      BY <2>2, <3>1, ReportKeepsInv
  <2>3. ASSUME NEW e \in Exceptions,
               ResolveException(e) \/ \E revert \in BOOLEAN : DismissException(e, revert)
        PROVE  DeskInv'
    BY <2>3, ReviewKeepsInv
  <2> QED
    BY <1>2, <2>1, <2>2, <2>3 DEF DeskStep
<1>3. CASE UNCHANGED stockVars
  <2>1. Inv'
    BY <1>3, StepKeepsInv DEF DeskInv, stockVars, vars
  <2> QED
    BY <1>3, <2>1 DEF stockVars, DeskInv, DeskTypeOK, Inv, ExceptionInv
<1> QED
  BY <1>1, <1>2, <1>3 DEF DeskNext

(* The invariant holds in every reachable state of the composition. *)
LEMMA DeskInvariance == DeskSpec => []DeskInv
BY InitDeskInv, StepKeepsDeskInv, PTL DEF DeskSpec

-----------------------------------------------------------------------------
(* Rows of inventory_balances: the columns the desk writes. *)

(* Each kind of adjustment moves its own columns, none of them what is reserved. *)
LEMMA AdjustedRow ==
  ASSUME NEW b \in Balance, SatisfiesChecks(b), NEW q \in Nat,
         NEW type \in AdjustmentTypes, MayAdjust(b, type, q)
  PROVE  /\ Adjusted(b, type, q).reserved = b.reserved
         /\ Adjusted(b, type, q).onHand = b.onHand
              + (IF type = "INCREASE_ON_HAND" THEN q ELSE 0)
              - (IF type \in {"DECREASE_ON_HAND", "DAMAGE_DISPOSAL"} THEN q ELSE 0)
         /\ Adjusted(b, type, q).damaged = b.damaged
              + (IF type = "TRANSFER_TO_DAMAGED" THEN q ELSE 0)
              - (IF type = "DAMAGE_DISPOSAL" THEN q ELSE 0)
<1>0. /\ b.onHand \in Nat /\ b.damaged \in Nat /\ b.available \in Nat
      /\ b.available <= b.onHand /\ b.damaged <= b.onHand
  BY DEF Balance, SatisfiesChecks
<1>1. CASE type = "INCREASE_ON_HAND"
  <2>1. Adjusted(b, type, q) = Recomputed([b EXCEPT !.onHand = b.onHand + q])
    BY <1>1 DEF Adjusted
  <2>2. [b EXCEPT !.onHand = b.onHand + q] \in Balance
    BY <1>0 DEF Balance
  <2> QED
    BY <1>0, <1>1, <2>1, <2>2, RecomputedRow DEF Balance
<1>2. CASE type = "DECREASE_ON_HAND"
  <2>1. Adjusted(b, type, q) = Recomputed([b EXCEPT !.onHand = b.onHand - q])
    BY <1>2 DEF Adjusted
  <2>2. b.onHand - q \in Nat
    BY <1>0, <1>2 DEF MayAdjust
  <2>3. [b EXCEPT !.onHand = b.onHand - q] \in Balance
    BY <2>2 DEF Balance
  <2> QED
    BY <1>0, <1>2, <2>1, <2>3, RecomputedRow DEF Balance
<1>3. CASE type = "TRANSFER_TO_DAMAGED"
  <2>1. Adjusted(b, type, q) = Recomputed([b EXCEPT !.damaged = b.damaged + q])
    BY <1>3 DEF Adjusted
  <2>2. [b EXCEPT !.damaged = b.damaged + q] \in Balance
    BY <1>0 DEF Balance
  <2> QED
    BY <1>0, <1>3, <2>1, <2>2, RecomputedRow DEF Balance
<1>4. CASE type = "DAMAGE_DISPOSAL"
  <2>1. Adjusted(b, type, q)
          = Recomputed([b EXCEPT !.damaged = b.damaged - q, !.onHand = b.onHand - q])
    BY <1>4 DEF Adjusted
  <2>2. b.damaged - q \in Nat /\ b.onHand - q \in Nat
    BY <1>0, <1>4 DEF MayAdjust
  <2> DEFINE r == [b EXCEPT !.damaged = b.damaged - q, !.onHand = b.onHand - q]
  <2>3. /\ r \in Balance
        /\ r.damaged = b.damaged - q /\ r.onHand = b.onHand - q /\ r.reserved = b.reserved
    BY <2>2 DEF Balance
  <2>4. Adjusted(b, type, q) = Recomputed(r)
    BY <2>1
  <2> HIDE DEF r
  <2> QED
    BY <1>0, <1>4, <2>3, <2>4, RecomputedRow
<1> QED
  BY <1>1, <1>2, <1>3, <1>4 DEF AdjustmentTypes

(* A quarantine moves pieces to the damaged ones, from what is reserved if they
   were; what is on hand stays. *)
LEMMA QuarantinedRow ==
  ASSUME NEW b \in Balance, NEW q \in Nat, NEW source \in Sources, MayQuarantine(b, source, q)
  PROVE  /\ Quarantined(b, source, q).onHand = b.onHand
         /\ Quarantined(b, source, q).damaged = b.damaged + q
         /\ Quarantined(b, source, q).reserved
              = b.reserved - (IF source = "RESERVED" THEN q ELSE 0)
<1>0. b.reserved \in Nat /\ b.damaged \in Nat /\ b.onHand \in Nat
  BY DEF Balance
<1>1. CASE source = "AVAILABLE"
  <2>1. Quarantined(b, source, q) = Recomputed([b EXCEPT !.damaged = b.damaged + q])
    BY <1>1 DEF Quarantined
  <2>2. [b EXCEPT !.damaged = b.damaged + q] \in Balance
    BY <1>0 DEF Balance
  <2> QED
    BY <1>0, <1>1, <2>1, <2>2, RecomputedRow DEF Balance
<1>2. CASE source = "RESERVED"
  <2>1. b.reserved - q \in Nat /\ Max0(b.reserved - q) = b.reserved - q
    BY <1>0, <1>2 DEF MayQuarantine, Max0
  <2>2. Quarantined(b, source, q)
          = Recomputed([b EXCEPT !.reserved = b.reserved - q, !.damaged = b.damaged + q])
    BY <1>2, <2>1 DEF Quarantined
  <2> DEFINE r == [b EXCEPT !.reserved = b.reserved - q, !.damaged = b.damaged + q]
  <2>3. b.damaged + q \in Nat
    BY <1>0
  <2>4. /\ r \in Balance
        /\ r.damaged = b.damaged + q /\ r.onHand = b.onHand /\ r.reserved = b.reserved - q
    BY <2>1, <2>3 DEF Balance
  <2>5. Quarantined(b, source, q) = Recomputed(r)
    BY <2>2
  <2> HIDE DEF r
  <2> QED
    BY <1>0, <1>2, <2>4, <2>5, RecomputedRow
<1> QED
  BY <1>1, <1>2 DEF Sources

(* A reversion takes back what is still damaged of the pieces, to what is
   reserved if they came from there. *)
LEMMA RevertedRow ==
  ASSUME NEW b \in Balance, NEW q \in Nat, NEW source \in Sources
  PROVE  /\ Reverted(b, source, q).onHand = b.onHand
         /\ Reverted(b, source, q).damaged = b.damaged - Lesser(b.damaged, q)
         /\ Reverted(b, source, q).reserved
              = b.reserved + (IF source = "RESERVED" THEN Lesser(b.damaged, q) ELSE 0)
<1> DEFINE actual == Lesser(b.damaged, q)
<1>0. b.reserved \in Nat /\ b.damaged \in Nat /\ b.onHand \in Nat
  BY DEF Balance
<1>1. actual \in Nat /\ actual <= b.damaged
  BY <1>0 DEF Lesser
<1>2. Reverted(b, source, q) =
        IF actual <= 0 THEN b
        ELSE Recomputed(
               IF source = "RESERVED"
               THEN [b EXCEPT !.damaged = Max0(b.damaged - actual), !.reserved = b.reserved + actual]
               ELSE [b EXCEPT !.damaged = Max0(b.damaged - actual)])
  BY DEF Reverted
<1> HIDE DEF actual
<1>3. Max0(b.damaged - actual) = b.damaged - actual /\ b.damaged - actual \in Nat
  BY <1>0, <1>1 DEF Max0
<1>4. CASE actual <= 0
  <2>1. actual = 0
    BY <1>1, <1>4
  <2> QED
    BY <1>0, <1>2, <1>4, <2>1 DEF actual
<1>5. CASE actual > 0 /\ source = "RESERVED"
  <2> DEFINE r == [b EXCEPT !.damaged = Max0(b.damaged - actual), !.reserved = b.reserved + actual]
  <2>1. Reverted(b, source, q) = Recomputed(r)
    BY <1>1, <1>2, <1>5
  <2>2. b.reserved + actual \in Nat
    BY <1>0, <1>1
  <2>3. /\ r \in Balance
        /\ r.damaged = b.damaged - actual /\ r.onHand = b.onHand /\ r.reserved = b.reserved + actual
    BY <1>3, <2>2 DEF Balance
  <2> HIDE DEF r
  <2> QED
    BY <1>0, <1>5, <2>1, <2>3, RecomputedRow DEF actual
<1>6. CASE actual > 0 /\ source # "RESERVED"
  <2>1. Reverted(b, source, q) = Recomputed([b EXCEPT !.damaged = b.damaged - actual])
    BY <1>1, <1>2, <1>3, <1>6
  <2>2. [b EXCEPT !.damaged = b.damaged - actual] \in Balance
    BY <1>3 DEF Balance
  <2> QED
    BY <1>0, <1>6, <2>1, <2>2, RecomputedRow DEF Balance, actual
<1> QED
  BY <1>1, <1>4, <1>5, <1>6

-----------------------------------------------------------------------------
(* What the ledgers say of one product, and the sums over its reports. *)

NetStock(p) ==
  InitialBalance[p].onHand - ShippedStock(p) + adjusted[p]["INCREASE_ON_HAND"]
    - adjusted[p]["DECREASE_ON_HAND"] - adjusted[p]["DAMAGE_DISPOSAL"]

LedgersExplain(p) ==
  /\ balance[p].damaged = InitialBalance[p].damaged + Quarantine(p, Sources)
       + adjusted[p]["TRANSFER_TO_DAMAGED"] - adjusted[p]["DAMAGE_DISPOSAL"]
  /\ balance[p].onHand >= NetStock(p)
  /\ NeverOvershipped /\ ReportedOf(p, {"RESERVED"}) = {} => balance[p].onHand = NetStock(p)
  /\ NeverOvershipped =>
       balance[p].reserved + Quarantine(p, {"RESERVED"}) >= InitialBalance[p].reserved + HeldStock(p)

DeskStockInv ==
  DeskInv /\ (\A o \in Orders : UnshippedInv(o)) /\ \A p \in Products : LedgersExplain(p)

(* What a report keeps out of stock is an integer, and so is what all keep. *)
LEMMA QuarantineType ==
  ASSUME DeskTypeOK, NEW p \in Products, NEW sources
  PROVE  /\ IsFiniteSet(ReportedOf(p, sources)) /\ ReportedOf(p, sources) \subseteq Reported
         /\ \A e \in Reported : Kept[e] = exception[e].quantity - exception[e].reverted /\ Kept[e] \in Int
         /\ Quarantine(p, sources) \in Int
<1>1. IsFiniteSet(Reported) /\ ReportedOf(p, sources) \subseteq Reported
  BY ExceptionsAssumption, FS_Subset DEF Reported, ReportedOf
<1>2. IsFiniteSet(ReportedOf(p, sources))
  BY <1>1, FS_Subset
<1>3. ASSUME NEW e \in Reported
      PROVE  Kept[e] = exception[e].quantity - exception[e].reverted /\ Kept[e] \in Int
  <2>1. exception[e] \in ExceptionRows
    BY ReportedRow
  <2> QED
    BY <2>1 DEF Kept, ExceptionRows
<1>4. Quarantine(p, sources) \in Int
  <2>1. \A e \in ReportedOf(p, sources) : Kept[e] \in Int
    BY <1>1, <1>3
  <2> QED
    BY <1>2, <2>1, SumType DEF Quarantine
<1> QED
  BY <1>1, <1>2, <1>3, <1>4

(* So is it after a step. *)
LEMMA QuarantineTypeNext ==
  ASSUME DeskTypeOK', NEW p \in Products, NEW sources
  PROVE  /\ IsFiniteSet(ReportedOf(p, sources)') /\ ReportedOf(p, sources)' \subseteq Exceptions
         /\ \A e \in ReportedOf(p, sources)' :
              Kept'[e] = exception'[e].quantity - exception'[e].reverted /\ Kept'[e] \in Int
         /\ Quarantine(p, sources)' \in Int
<1> DEFINE U == ReportedOf(p, sources)'
           g == Kept'
<1>1. U \subseteq Reported' /\ Reported' \subseteq Exceptions /\ U \subseteq Exceptions
  BY DEF ReportedOf, Reported
<1>2. IsFiniteSet(U)
  BY <1>1, ExceptionsAssumption, FS_Subset
<1>3. ASSUME NEW x \in U
      PROVE  g[x] = exception'[x].quantity - exception'[x].reverted /\ g[x] \in Int
  <2>1. exception'[x] \in ExceptionRows
    BY <1>1 DEF Reported, DeskTypeOK
  <2> QED
    BY <1>1, <2>1 DEF Kept, ExceptionRows
<1>4. Quarantine(p, sources)' = SumFunctionOnSet(g, U)
  BY DEF Quarantine
<1> HIDE DEF U, g
<1>5. SumFunctionOnSet(g, U) \in Int
  BY <1>2, <1>3, SumType
<1> QED
  BY <1>1, <1>2, <1>3, <1>4, <1>5 DEF U, g

(* It changes by what the one report that is written adds and took away. *)
LEMMA QuarantineMoves ==
  ASSUME DeskTypeOK, DeskTypeOK', NEW e \in Exceptions, NEW p \in Products, NEW sources,
         \A x \in Exceptions \ {e} : exception'[x] = exception[x]
  PROVE  Quarantine(p, sources)' = Quarantine(p, sources)
           + (IF e \in ReportedOf(p, sources)'
              THEN exception'[e].quantity - exception'[e].reverted ELSE 0)
           - (IF e \in ReportedOf(p, sources)
              THEN exception[e].quantity - exception[e].reverted ELSE 0)
<1> DEFINE T == ReportedOf(p, sources)
           U == ReportedOf(p, sources)'
           f == Kept
           g == Kept'
<1>1. /\ IsFiniteSet(T) /\ T \subseteq Exceptions
      /\ \A x \in T : f[x] = exception[x].quantity - exception[x].reverted /\ f[x] \in Int
  BY QuarantineType DEF ReportedOf, Reported
<1>2. /\ IsFiniteSet(U) /\ U \subseteq Exceptions
      /\ \A x \in U : g[x] = exception'[x].quantity - exception'[x].reverted /\ g[x] \in Int
  BY QuarantineTypeNext
<1>3. T \ {e} = U \ {e}
  BY DEF ReportedOf, Reported
<1>4. Quarantine(p, sources) = SumFunctionOnSet(f, T) /\ Quarantine(p, sources)' = SumFunctionOnSet(g, U)
  BY DEF Quarantine
<1> HIDE DEF T, U, f, g
<1>5. \A y \in T \cap U : y # e => g[y] = f[y]
  <2> SUFFICES ASSUME NEW y \in T \cap U, y # e PROVE g[y] = f[y]
    OBVIOUS
  <2>1. exception'[y] = exception[y]
    BY <1>1
  <2> QED
    BY <1>1, <1>2, <2>1
<1>6. SumFunctionOnSet(g, U) =
        SumFunctionOnSet(f, T) + (IF e \in U THEN g[e] ELSE 0) - (IF e \in T THEN f[e] ELSE 0)
  BY <1>1, <1>2, <1>3, <1>5, SumMoved
<1>7. (IF e \in U THEN g[e] ELSE 0)
        = (IF e \in U THEN exception'[e].quantity - exception'[e].reverted ELSE 0)
  BY <1>2
<1>8. (IF e \in T THEN f[e] ELSE 0)
        = (IF e \in T THEN exception[e].quantity - exception[e].reverted ELSE 0)
  BY <1>1
<1> QED
  BY <1>4, <1>6, <1>7, <1>8 DEF T, U

(* The figures the ledgers are compared in are integers. *)
LEMMA LedgerTypes ==
  ASSUME DeskTypeOK, NEW p \in Products
  PROVE  /\ balance[p] \in Balance /\ InitialBalance[p] \in Balance
         /\ \A type \in AdjustmentTypes : adjusted[p][type] \in Nat
         /\ ShippedStock(p) \in Nat /\ HeldStock(p) \in Int /\ NetStock(p) \in Int
         /\ Quarantine(p, Sources) \in Int /\ Quarantine(p, {"RESERVED"}) \in Int
<1>1. /\ balance[p] \in Balance /\ InitialBalance[p] \in Balance
      /\ \A type \in AdjustmentTypes : adjusted[p][type] \in Nat
  BY InitialBalanceAssumption DEF DeskTypeOK, TypeOK
<1>2. ShippedStock(p) \in Nat /\ HeldStock(p) \in Int
  BY StockTerms DEF DeskTypeOK
<1>3. NetStock(p) \in Int
  BY <1>1, <1>2 DEF NetStock, Balance, AdjustmentTypes
<1> QED
  BY <1>1, <1>2, <1>3, QuarantineType

-----------------------------------------------------------------------------
(* The order flow and the ledgers. *)

(* A transaction on an order keeps what the ledgers say of every product. *)
LEMMA OrderStepExplained ==
  ASSUME DeskInv, TypeOK', NEW o \in Orders, StockMoves(o), OthersHold(o), UNCHANGED deskVars,
         NEW p \in Products, LedgersExplain(p)
  PROVE  LedgersExplain(p)'
<1>0. TypeOK /\ DeskTypeOK
  BY DEF DeskInv, DeskTypeOK
<1>1. /\ line[o][p].reserved \in Nat /\ line'[o][p].reserved \in Nat
      /\ shipped[o][p] \in Nat /\ shipped'[o][p] \in Nat
  BY <1>0 DEF TypeOK, LineRows
<1>2. balance[p] \in Balance /\ balance[p].reserved <= balance[p].onHand
  BY <1>0 DEF DeskInv, Inv, TypeOK, BalancesKeepChecks, SatisfiesChecks, Balance
<1>3. /\ balance[p].reserved \in Nat /\ balance[p].onHand \in Nat /\ balance[p].damaged \in Nat
      /\ InitialBalance[p].reserved \in Nat
      /\ ShippedStock(p) \in Nat /\ HeldStock(p) \in Int /\ NetStock(p) \in Int
      /\ Quarantine(p, Sources) \in Int /\ Quarantine(p, {"RESERVED"}) \in Int
  BY <1>0, LedgerTypes DEF Balance
<1>4. /\ HeldStock(p)' = HeldStock(p)
           + ((line'[o][p].reserved - shipped'[o][p]) - (line[o][p].reserved - shipped[o][p]))
      /\ ShippedStock(p)' = ShippedStock(p) + (shipped'[o][p] - shipped[o][p])
  BY <1>0, StockSumsMove
<1>5. /\ adjusted' = adjusted
      /\ ReportedOf(p, {"RESERVED"})' = ReportedOf(p, {"RESERVED"})
      /\ Quarantine(p, {"RESERVED"})' = Quarantine(p, {"RESERVED"})
      /\ Quarantine(p, Sources)' = Quarantine(p, Sources)
  BY DEF deskVars, Quarantine, ReportedOf, Reported, Kept
<1>6. NetStock(p)' = NetStock(p) - (shipped'[o][p] - shipped[o][p])
  <2>1. NetStock(p)' =
          InitialBalance[p].onHand - ShippedStock(p)' + adjusted[p]["INCREASE_ON_HAND"]
            - adjusted[p]["DECREASE_ON_HAND"] - adjusted[p]["DAMAGE_DISPOSAL"]
    BY <1>5 DEF NetStock
  <2>2. InitialBalance[p].onHand \in Nat /\ \A type \in AdjustmentTypes : adjusted[p][type] \in Nat
    BY <1>0, LedgerTypes DEF Balance
  <2> QED
    BY <1>1, <1>3, <1>4, <2>1, <2>2 DEF NetStock, AdjustmentTypes
<1>7. NeverOvershipped' => /\ NeverOvershipped
                           /\ shipped'[o][p] <= line'[o][p].reserved
                           /\ line[o][p].reserved - shipped[o][p] <= HeldStock(p)
  BY <1>0, OvershippedStays, HeldIsPart DEF NeverOvershipped
<1>8. CASE /\ balance'[p].damaged = balance[p].damaged
           /\ balance'[p].onHand >= balance[p].onHand - (shipped'[o][p] - shipped[o][p])
           /\ NeverOvershipped' /\ ReportedOf(p, {"RESERVED"}) = {} =>
                balance'[p].onHand = balance[p].onHand - (shipped'[o][p] - shipped[o][p])
           /\ NeverOvershipped' =>
                balance'[p].reserved >= balance[p].reserved
                  + ((line'[o][p].reserved - shipped'[o][p]) - (line[o][p].reserved - shipped[o][p]))
           /\ balance'[p].onHand \in Int /\ balance'[p].reserved \in Int
  <2>1. LedgersExplain(p)' <=>
          /\ balance'[p].damaged = InitialBalance[p].damaged + Quarantine(p, Sources)
               + adjusted[p]["TRANSFER_TO_DAMAGED"] - adjusted[p]["DAMAGE_DISPOSAL"]
          /\ balance'[p].onHand >= NetStock(p)'
          /\ NeverOvershipped' /\ ReportedOf(p, {"RESERVED"}) = {} => balance'[p].onHand = NetStock(p)'
          /\ NeverOvershipped' =>
               balance'[p].reserved + Quarantine(p, {"RESERVED"})
                 >= InitialBalance[p].reserved + HeldStock(p)'
    BY <1>5 DEF LedgersExplain
  <2>2. balance'[p].onHand >= NetStock(p)'
    BY <1>1, <1>3, <1>6, <1>8 DEF LedgersExplain
  <2>3. ASSUME NeverOvershipped', ReportedOf(p, {"RESERVED"}) = {}
        PROVE  balance'[p].onHand = NetStock(p)'
    BY <1>1, <1>3, <1>6, <1>7, <1>8, <2>3 DEF LedgersExplain
  <2>4. ASSUME NeverOvershipped'
        PROVE  balance'[p].reserved + Quarantine(p, {"RESERVED"})
                 >= InitialBalance[p].reserved + HeldStock(p)'
    BY <1>1, <1>3, <1>4, <1>7, <1>8, <2>4 DEF LedgersExplain
  <2> QED
    BY <1>8, <2>1, <2>2, <2>3, <2>4 DEF LedgersExplain
<1>9. CASE StockStands(o, p)
  <2>1. /\ shipped'[o][p] - shipped[o][p] = 0
        /\ (line'[o][p].reserved - shipped'[o][p]) - (line[o][p].reserved - shipped[o][p]) = 0
        /\ balance'[p] = balance[p]
    BY <1>1, <1>9 DEF StockStands
  <2> QED
    BY <1>3, <1>8, <2>1
<1>10. CASE StockReserved(o, p)
  <2>1. /\ balance'[p].onHand = balance[p].onHand
        /\ balance'[p].reserved = balance[p].reserved + line'[o][p].reserved
        /\ balance'[p].damaged = balance[p].damaged
    BY <1>1, <1>2, <1>10, ReserveRow DEF StockReserved
  <2>2. line[o][p].reserved = 0 /\ shipped[o][p] = 0 /\ shipped'[o][p] = 0
    BY <1>10 DEF StockReserved
  <2> QED
    BY <1>1, <1>3, <1>8, <2>1, <2>2
<1>11. CASE StockReleased(o, p)
  <2>1. /\ balance'[p].onHand = balance[p].onHand
        /\ balance'[p].reserved = balance[p].reserved - Lesser(balance[p].reserved, line[o][p].reserved)
        /\ balance'[p].damaged = balance[p].damaged
    BY <1>1, <1>2, <1>11, ReleaseRow DEF StockReleased
  <2>2. line'[o][p].reserved = 0 /\ shipped'[o][p] = shipped[o][p]
    BY <1>11 DEF StockReleased
  <2>3. /\ Lesser(balance[p].reserved, line[o][p].reserved) <= line[o][p].reserved
        /\ Lesser(balance[p].reserved, line[o][p].reserved) \in Nat
    BY <1>1, <1>3 DEF Lesser
  <2> QED
    BY <1>1, <1>3, <1>8, <2>1, <2>2, <2>3
<1>12. CASE StockShipped(o, p)
  <2>1. PICK q \in Nat : shipped'[o][p] = shipped[o][p] + q /\ balance'[p] = Relieve(balance[p], q)
    BY <1>12 DEF StockShipped
  <2>2. line'[o][p].reserved = line[o][p].reserved
    BY <1>12 DEF StockShipped
  <2>3. /\ balance'[p].onHand = Max0(balance[p].onHand - q)
        /\ balance'[p].reserved = Max0(balance[p].reserved - q)
        /\ balance'[p].damaged = balance[p].damaged
    BY <1>2, <2>1, RelieveRow
  <2>4. ASSUME NeverOvershipped', ReportedOf(p, {"RESERVED"}) = {}
        PROVE  q <= balance[p].onHand
    <3>1. Quarantine(p, {"RESERVED"}) = 0
      BY <2>4, SumEmpty DEF Quarantine
    <3>2. HeldStock(p) <= balance[p].reserved
      BY <1>3, <1>7, <2>4, <3>1 DEF LedgersExplain
    <3> QED
      BY <1>1, <1>2, <1>3, <1>7, <2>1, <2>2, <2>4, <3>2
  <2>5. /\ Max0(balance[p].onHand - q) \in Nat /\ Max0(balance[p].reserved - q) \in Nat
        /\ Max0(balance[p].onHand - q) >= balance[p].onHand - q
        /\ Max0(balance[p].reserved - q) >= balance[p].reserved - q
        /\ q <= balance[p].onHand => Max0(balance[p].onHand - q) = balance[p].onHand - q
    BY <1>3 DEF Max0
  <2>6. /\ shipped'[o][p] - shipped[o][p] = q
        /\ (line'[o][p].reserved - shipped'[o][p]) - (line[o][p].reserved - shipped[o][p]) = -q
    BY <1>1, <2>1, <2>2
  <2> QED
    BY <1>3, <1>8, <2>3, <2>4, <2>5, <2>6
<1> QED
  BY <1>9, <1>10, <1>11, <1>12 DEF StockMoves

-----------------------------------------------------------------------------
(* The desk and the ledgers. *)

(* The desk leaves orders and shipments alone: what it does to a product is
   explained when the ledgers move as its balance does. *)
LEMMA DeskMoveExplained ==
  ASSUME DeskTypeOK, DeskTypeOK', UNCHANGED <<line, shipped>>,
         NEW p \in Products, LedgersExplain(p),
         balance'[p].onHand - balance[p].onHand =
           (adjusted'[p]["INCREASE_ON_HAND"] - adjusted[p]["INCREASE_ON_HAND"])
             - (adjusted'[p]["DECREASE_ON_HAND"] - adjusted[p]["DECREASE_ON_HAND"])
             - (adjusted'[p]["DAMAGE_DISPOSAL"] - adjusted[p]["DAMAGE_DISPOSAL"]),
         balance'[p].damaged - balance[p].damaged =
           (Quarantine(p, Sources)' - Quarantine(p, Sources))
             + (adjusted'[p]["TRANSFER_TO_DAMAGED"] - adjusted[p]["TRANSFER_TO_DAMAGED"])
             - (adjusted'[p]["DAMAGE_DISPOSAL"] - adjusted[p]["DAMAGE_DISPOSAL"]),
         balance'[p].reserved - balance[p].reserved >=
           Quarantine(p, {"RESERVED"}) - Quarantine(p, {"RESERVED"})',
         ReportedOf(p, {"RESERVED"})' = {} => ReportedOf(p, {"RESERVED"}) = {}
  PROVE  LedgersExplain(p)'
<1>1. /\ NeverOvershipped' <=> NeverOvershipped
      /\ HeldStock(p)' = HeldStock(p) /\ ShippedStock(p)' = ShippedStock(p)
  BY DEF NeverOvershipped, HeldStock, ShippedStock, HeldOf, ShippedOf
<1>2. /\ balance[p].onHand \in Nat /\ balance[p].damaged \in Nat /\ balance[p].reserved \in Nat
      /\ InitialBalance[p].onHand \in Nat /\ InitialBalance[p].damaged \in Nat
      /\ InitialBalance[p].reserved \in Nat
      /\ \A type \in AdjustmentTypes : adjusted[p][type] \in Nat
      /\ ShippedStock(p) \in Nat /\ HeldStock(p) \in Int /\ NetStock(p) \in Int
      /\ Quarantine(p, Sources) \in Int /\ Quarantine(p, {"RESERVED"}) \in Int
  BY LedgerTypes DEF Balance
<1>3. /\ balance'[p].onHand \in Nat /\ balance'[p].damaged \in Nat /\ balance'[p].reserved \in Nat
      /\ \A type \in AdjustmentTypes : adjusted'[p][type] \in Nat
      /\ Quarantine(p, Sources)' \in Int /\ Quarantine(p, {"RESERVED"})' \in Int
  <2>1. /\ balance'[p] \in Balance
        /\ \A type \in AdjustmentTypes : adjusted'[p][type] \in Nat
    BY DEF DeskTypeOK, TypeOK
  <2>2. Quarantine(p, Sources)' \in Int /\ Quarantine(p, {"RESERVED"})' \in Int
    BY QuarantineTypeNext
  <2> QED
    BY <2>1, <2>2 DEF Balance
<1>6. NetStock(p)' =
        InitialBalance[p].onHand - ShippedStock(p) + adjusted'[p]["INCREASE_ON_HAND"]
          - adjusted'[p]["DECREASE_ON_HAND"] - adjusted'[p]["DAMAGE_DISPOSAL"]
  BY <1>1 DEF NetStock
<1>4. NetStock(p)' \in Int /\ NetStock(p)' - NetStock(p) = balance'[p].onHand - balance[p].onHand
  BY <1>2, <1>3, <1>6 DEF NetStock, AdjustmentTypes
<1>5. balance'[p].damaged = InitialBalance[p].damaged + Quarantine(p, Sources)'
        + adjusted'[p]["TRANSFER_TO_DAMAGED"] - adjusted'[p]["DAMAGE_DISPOSAL"]
  <2>1. balance[p].damaged = InitialBalance[p].damaged + Quarantine(p, Sources)
          + adjusted[p]["TRANSFER_TO_DAMAGED"] - adjusted[p]["DAMAGE_DISPOSAL"]
    BY DEF LedgersExplain
  <2>2. /\ adjusted[p]["TRANSFER_TO_DAMAGED"] \in Nat /\ adjusted[p]["DAMAGE_DISPOSAL"] \in Nat
        /\ adjusted'[p]["TRANSFER_TO_DAMAGED"] \in Nat /\ adjusted'[p]["DAMAGE_DISPOSAL"] \in Nat
    BY <1>2, <1>3 DEF AdjustmentTypes
  <2>3. /\ balance[p].damaged \in Int /\ balance'[p].damaged \in Int
        /\ InitialBalance[p].damaged \in Int
        /\ Quarantine(p, Sources) \in Int /\ Quarantine(p, Sources)' \in Int
    BY <1>2, <1>3
  <2>4. PICK d \in Int, dd \in Int, i \in Int, k \in Int, kk \in Int :
          /\ d = balance[p].damaged /\ dd = balance'[p].damaged /\ i = InitialBalance[p].damaged
          /\ k = Quarantine(p, Sources) /\ kk = Quarantine(p, Sources)'
    BY <2>3
  <2>5. PICK t \in Int, tt \in Int, s \in Int, ss \in Int :
          /\ t = adjusted[p]["TRANSFER_TO_DAMAGED"] /\ tt = adjusted'[p]["TRANSFER_TO_DAMAGED"]
          /\ s = adjusted[p]["DAMAGE_DISPOSAL"] /\ ss = adjusted'[p]["DAMAGE_DISPOSAL"]
    BY <2>2
  <2>6. d = i + k + t - s /\ dd - d = (kk - k) + (tt - t) - (ss - s)
    <3>1. d = i + k + t - s
      BY ONLY <2>1, <2>4, <2>5
    <3>2. dd - d = (kk - k) + (tt - t) - (ss - s)
      <4>1. balance'[p].damaged - balance[p].damaged =
              (Quarantine(p, Sources)' - Quarantine(p, Sources))
                + (adjusted'[p]["TRANSFER_TO_DAMAGED"] - adjusted[p]["TRANSFER_TO_DAMAGED"])
                - (adjusted'[p]["DAMAGE_DISPOSAL"] - adjusted[p]["DAMAGE_DISPOSAL"])
        OBVIOUS
      <4> QED
        BY ONLY <2>4, <2>5, <4>1
    <3> QED
      BY <3>1, <3>2
  <2>7. dd = i + kk + tt - ss
    <3>1. /\ d \in Int /\ dd \in Int /\ i \in Int /\ k \in Int /\ kk \in Int
          /\ t \in Int /\ tt \in Int /\ s \in Int /\ ss \in Int
      OBVIOUS
    <3> QED
      BY ONLY <2>6, <3>1
  <2> QED
    BY <2>4, <2>5, <2>7
<1>7. /\ balance'[p].onHand >= NetStock(p)'
      /\ NeverOvershipped' /\ ReportedOf(p, {"RESERVED"})' = {} => balance'[p].onHand = NetStock(p)'
  BY <1>1, <1>2, <1>3, <1>4 DEF LedgersExplain
<1>8. NeverOvershipped' =>
        balance'[p].reserved + Quarantine(p, {"RESERVED"})' >= InitialBalance[p].reserved + HeldStock(p)'
  BY <1>1, <1>2, <1>3 DEF LedgersExplain
<1> QED
  BY <1>5, <1>7, <1>8 DEF LedgersExplain

(* Desk steps: one per operation. *)

(* Products whose row and whose ledgers a desk step leaves alone. *)
LEMMA OtherProductExplained ==
  ASSUME DeskTypeOK, DeskTypeOK', UNCHANGED <<line, shipped>>,
         NEW p \in Products, LedgersExplain(p), balance'[p] = balance[p],
         adjusted'[p] = adjusted[p],
         \A sources \in {Sources, {"RESERVED"}} :
           /\ ReportedOf(p, sources)' = ReportedOf(p, sources)
           /\ Quarantine(p, sources)' = Quarantine(p, sources)
  PROVE  LedgersExplain(p)'
<1>1. NeverOvershipped' <=> NeverOvershipped
  BY DEF NeverOvershipped
<1>2. HeldStock(p)' = HeldStock(p) /\ ShippedStock(p)' = ShippedStock(p)
  BY DEF HeldStock, ShippedStock, HeldOf, ShippedOf
<1>3. NetStock(p)' = NetStock(p)
  BY <1>2 DEF NetStock
<1> QED
  BY <1>1, <1>2, <1>3 DEF LedgersExplain

(* An adjustment is explained by its own row of the adjustment ledger. *)
LEMMA AdjustExplained ==
  ASSUME DeskInv, DeskTypeOK', NEW x \in Products, NEW type \in AdjustmentTypes, NEW q \in Nat,
         AdjustBalance(x, type, q), NEW p \in Products, LedgersExplain(p)
  PROVE  LedgersExplain(p)'
<1>0. DeskTypeOK /\ UNCHANGED <<line, shipped>>
  BY DEF DeskInv, AdjustBalance
<1>1. \A sources : /\ ReportedOf(p, sources)' = ReportedOf(p, sources)
                   /\ Quarantine(p, sources)' = Quarantine(p, sources)
  BY DEF AdjustBalance, ReportedOf, Quarantine, Reported, Kept
<1>2. CASE p # x
  <2>1. balance'[p] = balance[p] /\ adjusted'[p] = adjusted[p]
    BY <1>0, <1>2 DEF AdjustBalance, DeskTypeOK, TypeOK
  <2> QED
    BY <1>0, <1>1, <2>1, OtherProductExplained
<1>3. CASE p = x
  <2>1. balance[p] \in Balance /\ SatisfiesChecks(balance[p]) /\ MayAdjust(balance[p], type, q)
    BY <1>3 DEF DeskInv, Inv, TypeOK, BalancesKeepChecks, AdjustBalance
  <2>2. balance'[p] = Adjusted(balance[p], type, q)
    BY <1>0, <1>3 DEF AdjustBalance, DeskTypeOK, TypeOK
  <2>3. /\ balance[p].onHand \in Nat /\ balance[p].damaged \in Nat /\ balance[p].reserved \in Nat
        /\ \A t \in AdjustmentTypes : adjusted[p][t] \in Nat
    BY <1>0, <2>1, LedgerTypes DEF Balance
  <2>4. \A t \in AdjustmentTypes : adjusted'[p][t] = adjusted[p][t] + (IF t = type THEN q ELSE 0)
    <3>1. adjusted' = [adjusted EXCEPT ![p][type] = adjusted[p][type] + q]
      BY <1>3 DEF AdjustBalance
    <3>2. adjusted \in [Products -> [AdjustmentTypes -> Nat]]
      BY <1>0 DEF DeskTypeOK
    <3> QED
      BY <2>3, <3>1, <3>2
  <2>5. /\ balance'[p].reserved = balance[p].reserved
        /\ balance'[p].onHand = balance[p].onHand
              + (IF type = "INCREASE_ON_HAND" THEN q ELSE 0)
              - (IF type \in {"DECREASE_ON_HAND", "DAMAGE_DISPOSAL"} THEN q ELSE 0)
        /\ balance'[p].damaged = balance[p].damaged
              + (IF type = "TRANSFER_TO_DAMAGED" THEN q ELSE 0)
              - (IF type = "DAMAGE_DISPOSAL" THEN q ELSE 0)
    BY <2>1, <2>2, AdjustedRow
  <2>6. Quarantine(p, Sources) \in Int /\ Quarantine(p, {"RESERVED"}) \in Int
    BY <1>0, LedgerTypes
  <2>7. /\ balance'[p].onHand - balance[p].onHand =
             (adjusted'[p]["INCREASE_ON_HAND"] - adjusted[p]["INCREASE_ON_HAND"])
               - (adjusted'[p]["DECREASE_ON_HAND"] - adjusted[p]["DECREASE_ON_HAND"])
               - (adjusted'[p]["DAMAGE_DISPOSAL"] - adjusted[p]["DAMAGE_DISPOSAL"])
        /\ balance'[p].damaged - balance[p].damaged =
             (adjusted'[p]["TRANSFER_TO_DAMAGED"] - adjusted[p]["TRANSFER_TO_DAMAGED"])
               - (adjusted'[p]["DAMAGE_DISPOSAL"] - adjusted[p]["DAMAGE_DISPOSAL"])
    BY <2>3, <2>4, <2>5 DEF AdjustmentTypes
  <2>8. balance'[p].damaged - balance[p].damaged =
          (Quarantine(p, Sources)' - Quarantine(p, Sources))
            + (adjusted'[p]["TRANSFER_TO_DAMAGED"] - adjusted[p]["TRANSFER_TO_DAMAGED"])
            - (adjusted'[p]["DAMAGE_DISPOSAL"] - adjusted[p]["DAMAGE_DISPOSAL"])
    <3>1. adjusted'[p]["TRANSFER_TO_DAMAGED"] - adjusted[p]["TRANSFER_TO_DAMAGED"] \in Int
      BY <2>3, <2>4 DEF AdjustmentTypes
    <3>2. Quarantine(p, Sources)' - Quarantine(p, Sources) = 0
      BY <1>1, <2>6
    <3>3. adjusted'[p]["DAMAGE_DISPOSAL"] - adjusted[p]["DAMAGE_DISPOSAL"] \in Int
      BY <2>3, <2>4 DEF AdjustmentTypes
    <3> QED
      BY <2>7, <3>1, <3>2, <3>3
  <2>9. balance'[p].reserved - balance[p].reserved >=
          Quarantine(p, {"RESERVED"}) - Quarantine(p, {"RESERVED"})'
    BY <1>1, <2>3, <2>5, <2>6
  <2> QED
    BY <1>0, <1>1, <2>7, <2>8, <2>9, DeskMoveExplained
<1> QED
  BY <1>2, <1>3

(* A desk step that writes one report and the balance of its product is
   explained by the report. *)
LEMMA ReportExplains ==
  ASSUME DeskInv, DeskTypeOK', UNCHANGED <<line, shipped, adjusted>>, NEW e \in Exceptions,
         \A f \in Exceptions \ {e} : exception'[f] = exception[f],
         exception'[e] # NoException,
         exception[e] # NoException => /\ exception'[e].product = exception[e].product
                                       /\ exception'[e].source = exception[e].source,
         NEW x \in Products, x = exception'[e].product,
         \A y \in Products \ {x} : balance'[y] = balance[y],
         NEW n \in Int,
         n = (exception'[e].quantity - exception'[e].reverted)
               - (IF exception[e] # NoException
                  THEN exception[e].quantity - exception[e].reverted ELSE 0),
         balance'[x].onHand = balance[x].onHand,
         balance'[x].damaged = balance[x].damaged + n,
         balance'[x].reserved = balance[x].reserved - (IF exception'[e].source = "RESERVED" THEN n ELSE 0),
         NEW p \in Products, LedgersExplain(p)
  PROVE  LedgersExplain(p)'
<1>0. DeskTypeOK /\ UNCHANGED <<line, shipped>> /\ adjusted' = adjusted
  BY DEF DeskInv
<1>1. exception'[e] \in ExceptionRows
  BY DEF DeskTypeOK
<1>2. exception[e] # NoException => exception[e] \in ExceptionRows
  BY <1>0 DEF DeskTypeOK
<1>3. ASSUME NEW sources
      PROVE  /\ e \in ReportedOf(p, sources)' <=> x = p /\ exception'[e].source \in sources
             /\ e \in ReportedOf(p, sources) <=>
                  exception[e] # NoException /\ x = p /\ exception'[e].source \in sources
             /\ \A f \in Exceptions \ {e} :
                  f \in ReportedOf(p, sources)' <=> f \in ReportedOf(p, sources)
             /\ ReportedOf(p, sources) \subseteq Exceptions /\ ReportedOf(p, sources)' \subseteq Exceptions
  BY DEF ReportedOf, Reported
<1>4. ASSUME NEW sources
      PROVE  Quarantine(p, sources)' = Quarantine(p, sources)
               + (IF x = p /\ exception'[e].source \in sources THEN n ELSE 0)
  <2>1. Quarantine(p, sources)' = Quarantine(p, sources)
           + (IF e \in ReportedOf(p, sources)'
              THEN exception'[e].quantity - exception'[e].reverted ELSE 0)
           - (IF e \in ReportedOf(p, sources)
              THEN exception[e].quantity - exception[e].reverted ELSE 0)
    BY <1>0, QuarantineMoves
  <2>2. Quarantine(p, sources) \in Int
    BY <1>0, QuarantineType
  <2>3. exception'[e].quantity - exception'[e].reverted \in Int
    BY <1>1 DEF ExceptionRows
  <2>4. exception[e] # NoException => exception[e].quantity - exception[e].reverted \in Int
    BY <1>2 DEF ExceptionRows
  <2>5. CASE x = p /\ exception'[e].source \in sources
    BY <1>3, <2>1, <2>2, <2>3, <2>4, <2>5
  <2>6. CASE ~(x = p /\ exception'[e].source \in sources)
    BY <1>3, <2>1, <2>2, <2>6
  <2> QED
    BY <2>5, <2>6
<1>5. CASE p # x
  <2>1. balance'[p] = balance[p]
    BY <1>5
  <2>2. \A sources \in {Sources, {"RESERVED"}} :
           /\ ReportedOf(p, sources)' = ReportedOf(p, sources)
           /\ Quarantine(p, sources)' = Quarantine(p, sources)
    <3> SUFFICES ASSUME NEW sources
                 PROVE  /\ ReportedOf(p, sources)' = ReportedOf(p, sources)
                        /\ Quarantine(p, sources)' = Quarantine(p, sources)
      OBVIOUS
    <3>1. Quarantine(p, sources) \in Int
      BY <1>0, QuarantineType
    <3>2. ReportedOf(p, sources)' = ReportedOf(p, sources)
      <4>1. e \notin ReportedOf(p, sources)' /\ e \notin ReportedOf(p, sources)
        BY <1>3, <1>5
      <4>2. ReportedOf(p, sources)' \ {e} = ReportedOf(p, sources) \ {e}
        BY <1>3
      <4> QED
        BY <4>1, <4>2
    <3> QED
      BY <1>4, <1>5, <3>1, <3>2
  <2> QED
    BY <1>0, <2>1, <2>2, OtherProductExplained
<1>6. CASE p = x
  <2>1. /\ balance[p].onHand \in Nat /\ balance[p].damaged \in Nat /\ balance[p].reserved \in Nat
        /\ \A t \in AdjustmentTypes : adjusted[p][t] \in Nat
        /\ Quarantine(p, Sources) \in Int /\ Quarantine(p, {"RESERVED"}) \in Int
    BY <1>0, LedgerTypes DEF Balance
  <2>2. exception'[e].source \in Sources
    BY <1>1 DEF ExceptionRows
  <2>3. /\ Quarantine(p, Sources)' - Quarantine(p, Sources) = n
        /\ Quarantine(p, {"RESERVED"})' - Quarantine(p, {"RESERVED"})
             = IF exception'[e].source = "RESERVED" THEN n ELSE 0
    BY <1>4, <1>6, <2>1, <2>2
  <2>4. \A t \in AdjustmentTypes : adjusted'[p][t] - adjusted[p][t] = 0
    BY <1>0, <2>1
  <2>5. balance'[p].onHand - balance[p].onHand =
          (adjusted'[p]["INCREASE_ON_HAND"] - adjusted[p]["INCREASE_ON_HAND"])
            - (adjusted'[p]["DECREASE_ON_HAND"] - adjusted[p]["DECREASE_ON_HAND"])
            - (adjusted'[p]["DAMAGE_DISPOSAL"] - adjusted[p]["DAMAGE_DISPOSAL"])
    BY <1>6, <2>1, <2>4 DEF AdjustmentTypes
  <2>6. balance'[p].damaged - balance[p].damaged =
          (Quarantine(p, Sources)' - Quarantine(p, Sources))
            + (adjusted'[p]["TRANSFER_TO_DAMAGED"] - adjusted[p]["TRANSFER_TO_DAMAGED"])
            - (adjusted'[p]["DAMAGE_DISPOSAL"] - adjusted[p]["DAMAGE_DISPOSAL"])
    BY <1>6, <2>1, <2>3, <2>4 DEF AdjustmentTypes
  <2>7. balance'[p].reserved - balance[p].reserved >=
          Quarantine(p, {"RESERVED"}) - Quarantine(p, {"RESERVED"})'
    <3>1. Quarantine(p, {"RESERVED"})' \in Int
      BY QuarantineTypeNext
    <3> QED
      BY <1>6, <2>1, <2>3, <3>1
  <2>8. ReportedOf(p, {"RESERVED"})' = {} => ReportedOf(p, {"RESERVED"}) = {}
    BY <1>3
  <2> QED
    BY <1>0, <2>5, <2>6, <2>7, <2>8, DeskMoveExplained
<1> QED
  BY <1>5, <1>6

(* A report is explained by itself. *)
LEMMA ReportExplained ==
  ASSUME DeskInv, DeskTypeOK', NEW e \in Exceptions, NEW x \in Products, NEW source \in Sources,
         NEW q \in Nat \ {0}, ReportException(e, x, source, q),
         NEW p \in Products, LedgersExplain(p)
  PROVE  LedgersExplain(p)'
<1> DEFINE row == [status |-> "PENDING_REVIEW", product |-> x, source |-> source,
                   quantity |-> q, reverted |-> 0]
<1>1. /\ exception[e] = NoException
      /\ exception \in [Exceptions -> ExceptionRows \cup {NoException}]
      /\ balance \in [Products -> Balance]
  BY DEF ReportException, Reported, DeskInv, DeskTypeOK, TypeOK
<1>2. exception' = [exception EXCEPT ![e] = row] /\ UNCHANGED <<line, shipped, adjusted>>
  BY DEF ReportException
<1>3. row # NoException /\ row.quantity = q /\ row.reverted = 0
      /\ row.product = x /\ row.source = source
  BY DEF NoException
<1>4. exception'[e] = row /\ \A f \in Exceptions \ {e} : exception'[f] = exception[f]
  BY <1>1, <1>2
<1> HIDE DEF row
<1>5. balance' = [balance EXCEPT ![x] = Quarantined(balance[x], source, q)]
      /\ MayQuarantine(balance[x], source, q)
  BY DEF ReportException
<1>6. /\ balance'[x].onHand = balance[x].onHand
      /\ balance'[x].damaged = balance[x].damaged + q
      /\ balance'[x].reserved = balance[x].reserved - (IF source = "RESERVED" THEN q ELSE 0)
      /\ \A y \in Products \ {x} : balance'[y] = balance[y]
  BY <1>1, <1>5, QuarantinedRow
<1>7. q = (exception'[e].quantity - exception'[e].reverted)
            - (IF exception[e] # NoException
               THEN exception[e].quantity - exception[e].reverted ELSE 0)
  BY <1>1, <1>3, <1>4
<1> QED
  BY <1>1, <1>2, <1>3, <1>4, <1>6, <1>7, ReportExplains

(* So is its review, whether or not it puts the pieces back. *)
LEMMA ReviewExplained ==
  ASSUME DeskInv, DeskTypeOK', NEW e \in Exceptions,
         ResolveException(e) \/ \E revert \in BOOLEAN : DismissException(e, revert),
         NEW p \in Products, LedgersExplain(p)
  PROVE  LedgersExplain(p)'
<1>0. e \in Reported /\ UNCHANGED <<line, shipped, adjusted>>
  BY DEF ResolveException, DismissException
<1>1. /\ exception[e] # NoException /\ exception[e] \in ExceptionRows
      /\ exception \in [Exceptions -> ExceptionRows \cup {NoException}]
      /\ balance \in [Products -> Balance]
  BY <1>0, ReportedRow DEF Reported, DeskInv, DeskTypeOK, TypeOK
<1> DEFINE x == exception[e].product
           q == exception[e].quantity
           n == Lesser(balance[x].damaged, q)
<1>2. /\ x \in Products /\ q \in Nat /\ exception[e].source \in Sources
      /\ exception[e].reverted \in Nat /\ balance[x] \in Balance
  BY <1>1 DEF ExceptionRows
<1>3. n \in Nat
  BY <1>2 DEF Lesser, Balance
<1>4. CASE RevertQuarantine(e)
  <2> DEFINE row == [exception[e] EXCEPT !.status = "DISMISSED", !.reverted = exception[e].reverted + n]
  <2>1. exception' = [exception EXCEPT ![e] = row]
    BY <1>4 DEF RevertQuarantine
  <2>2. /\ row # NoException /\ row.product = x /\ row.source = exception[e].source
        /\ row.quantity = q /\ row.reverted = exception[e].reverted + n
    BY <1>1 DEF ExceptionRows, NoException
  <2> HIDE DEF row
  <2>3. exception'[e] = row /\ \A f \in Exceptions \ {e} : exception'[f] = exception[f]
    BY <1>1, <2>1
  <2>4. balance' = [balance EXCEPT ![x] = Reverted(balance[x], exception[e].source, q)]
    BY <1>4 DEF RevertQuarantine
  <2>5. /\ balance'[x].onHand = balance[x].onHand
        /\ balance'[x].damaged = balance[x].damaged - n
        /\ balance'[x].reserved = balance[x].reserved
             + (IF exception[e].source = "RESERVED" THEN n ELSE 0)
        /\ \A y \in Products \ {x} : balance'[y] = balance[y]
    BY <1>1, <1>2, <2>4, RevertedRow
  <2> HIDE DEF x, q, n
  <2>6. /\ balance'[x].damaged = balance[x].damaged + (-n)
        /\ balance'[x].reserved = balance[x].reserved
             - (IF exception'[e].source = "RESERVED" THEN -n ELSE 0)
    BY <1>2, <1>3, <2>2, <2>3, <2>5 DEF Balance
  <2>7. -n = (exception'[e].quantity - exception'[e].reverted)
               - (IF exception[e] # NoException
                  THEN exception[e].quantity - exception[e].reverted ELSE 0)
    BY <1>1, <1>2, <1>3, <2>2, <2>3 DEF q
  <2>8. -n \in Int /\ x = exception'[e].product
        /\ exception'[e].product = exception[e].product /\ exception'[e].source = exception[e].source
        /\ exception'[e] # NoException
    BY <1>3, <2>2, <2>3 DEF x
  <2> QED
    BY <1>0, <1>2, <2>3, <2>5, <2>6, <2>7, <2>8, ReportExplains
<1>5. ASSUME NEW s, balance' = balance, exception' = [exception EXCEPT ![e].status = s]
      PROVE  LedgersExplain(p)'
  <2> DEFINE row == [exception[e] EXCEPT !.status = s]
  <2>1. exception' = [exception EXCEPT ![e] = row]
    BY <1>5
  <2>2. /\ row # NoException /\ row.product = x /\ row.source = exception[e].source
        /\ row.quantity = q /\ row.reverted = exception[e].reverted
    BY <1>1 DEF ExceptionRows, NoException
  <2> HIDE DEF row
  <2>3. exception'[e] = row /\ \A f \in Exceptions \ {e} : exception'[f] = exception[f]
    BY <1>1, <2>1
  <2> HIDE DEF x, q, n
  <2>4. 0 = (exception'[e].quantity - exception'[e].reverted)
              - (IF exception[e] # NoException
                 THEN exception[e].quantity - exception[e].reverted ELSE 0)
    BY <1>1, <1>2, <2>2, <2>3 DEF q
  <2>5. /\ balance'[x].onHand = balance[x].onHand
        /\ balance'[x].damaged = balance[x].damaged + 0
        /\ balance'[x].reserved = balance[x].reserved
             - (IF exception'[e].source = "RESERVED" THEN 0 ELSE 0)
        /\ \A y \in Products \ {x} : balance'[y] = balance[y]
    BY <1>2, <1>5 DEF Balance
  <2>6. 0 \in Int /\ x = exception'[e].product
        /\ exception'[e].product = exception[e].product /\ exception'[e].source = exception[e].source
        /\ exception'[e] # NoException
    BY <2>2, <2>3 DEF x
  <2> QED
    BY <1>0, <1>2, <2>3, <2>4, <2>5, <2>6, ReportExplains
<1> QED
  BY <1>4, <1>5 DEF ResolveException, DismissException

-----------------------------------------------------------------------------
(* The invariant of the ledgers. *)

(* Nothing is explained away before the first step. *)
LEMMA InitDeskStockInv == DeskInit => DeskStockInv
<1> SUFFICES ASSUME DeskInit PROVE DeskStockInv
  OBVIOUS
<1>1. DeskInv /\ StockInv
  BY InitDeskInv, InitStockInv DEF DeskInit
<1>2. \A o \in Orders : UnshippedInv(o)
  BY <1>1 DEF StockInv
<1>3. ASSUME NEW p \in Products PROVE LedgersExplain(p)
  <2>1. \A sources : ReportedOf(p, sources) = {}
    BY DEF DeskInit, ReportedOf, Reported
  <2>2. \A sources : Quarantine(p, sources) = 0
    BY <2>1, SumEmpty DEF Quarantine
  <2>3. \A o \in Orders : HeldOf(p)[o] = 0 /\ ShippedOf(p)[o] = 0
    BY DEF DeskInit, Init, HeldOf, ShippedOf
  <2>4. HeldStock(p) = 0 /\ ShippedStock(p) = 0
    BY <2>3, OrdersAssumption, SumZero DEF HeldStock, ShippedStock
  <2>5. balance = InitialBalance /\ \A type \in AdjustmentTypes : adjusted[p][type] = 0
    BY DEF DeskInit, Init
  <2>6. /\ InitialBalance[p].onHand \in Nat /\ InitialBalance[p].damaged \in Nat
        /\ InitialBalance[p].reserved \in Nat
    BY InitialBalanceAssumption DEF Balance
  <2>7. NetStock(p) = InitialBalance[p].onHand
    BY <2>4, <2>5, <2>6 DEF NetStock, AdjustmentTypes
  <2>8. adjusted[p]["TRANSFER_TO_DAMAGED"] = 0 /\ adjusted[p]["DAMAGE_DISPOSAL"] = 0
    BY <2>5 DEF AdjustmentTypes
  <2> QED
    BY <2>2, <2>4, <2>5, <2>6, <2>7, <2>8 DEF LedgersExplain
<1> QED
  BY <1>1, <1>2, <1>3 DEF DeskStockInv

(* Every step of the order flow and of the desk keeps it. *)
LEMMA StepKeepsDeskStockInv == DeskStockInv /\ [DeskNext]_stockVars => DeskStockInv'
<1> SUFFICES ASSUME DeskStockInv, [DeskNext]_stockVars PROVE DeskStockInv'
  OBVIOUS
<1>0. DeskInv /\ DeskInv'
  BY StepKeepsDeskInv DEF DeskStockInv
<1>1. DeskTypeOK /\ DeskTypeOK' /\ TypeOK /\ TypeOK' /\ Inv
  BY <1>0 DEF DeskInv, DeskTypeOK
<1>2. CASE Next /\ UNCHANGED deskVars
  <2>1. PICK o \in Orders : \/ OfficeStep(o) \/ WarehouseStep(o)
                            \/ \E m \in Missions : DriverStep(o, m)
    BY <1>2 DEF Next
  <2>2. StockMoves(o) /\ OthersHold(o)
    BY <1>1, <2>1, ActorMovesStock DEF DeskStockInv
  <2>3. ASSUME NEW y \in Orders PROVE UnshippedInv(y)'
    <3>1. CASE y = o
      BY <1>1, <2>1, <3>1, UnshippedStays DEF DeskStockInv
    <3>2. CASE y # o
      <4>1. mission'[y] = mission[y] /\ shipped'[y] = shipped[y]
        BY <1>1, <2>1, <3>2, OthersUntouched
      <4> QED
        BY <4>1 DEF DeskStockInv, UnshippedInv, ExistingMissions
    <3> QED
      BY <3>1, <3>2
  <2>4. \A p \in Products : LedgersExplain(p)'
    BY <1>0, <1>1, <1>2, <2>2, OrderStepExplained DEF DeskStockInv
  <2> QED
    BY <1>0, <2>3, <2>4 DEF DeskStockInv
<1>3. CASE DeskStep
  <2>1. UNCHANGED <<mission, shipped>>
    BY <1>3 DEF DeskStep, AdjustBalance, ReportException, ResolveException, DismissException
  <2>2. \A o \in Orders : UnshippedInv(o)'
    BY <2>1 DEF DeskStockInv, UnshippedInv, ExistingMissions
  <2>3. ASSUME NEW p \in Products PROVE LedgersExplain(p)'
    <3>0. LedgersExplain(p)
      BY DEF DeskStockInv
    <3>1. ASSUME NEW x \in Products, NEW q \in 1 .. MaxPieces, NEW type \in AdjustmentTypes,
                 AdjustBalance(x, type, q)
          PROVE  LedgersExplain(p)'
      BY <1>0, <1>1, <3>0, <3>1, AdjustExplained
    <3>2. ASSUME NEW e \in Exceptions, NEW x \in Products, NEW source \in Sources,
                 NEW q \in Pieces(x), ReportException(e, x, source, q)
          PROVE  LedgersExplain(p)'
      <4>1. q \in Nat \ {0}
        BY <1>1, MaxPiecesAssumption DEF Pieces, TypeOK, Balance
      <4> QED
        BY <1>0, <1>1, <3>0, <3>2, <4>1, ReportExplained
    <3>3. ASSUME NEW e \in Exceptions,
                 ResolveException(e) \/ \E revert \in BOOLEAN : DismissException(e, revert)
          PROVE  LedgersExplain(p)'
      BY <1>0, <1>1, <3>0, <3>3, ReviewExplained
    <3> QED
      BY <1>3, <3>1, <3>2, <3>3 DEF DeskStep
  <2> QED
    BY <1>0, <2>2, <2>3 DEF DeskStockInv
<1>4. CASE UNCHANGED stockVars
  <2>1. \A o \in Orders : UnshippedInv(o)'
    BY <1>4 DEF DeskStockInv, UnshippedInv, ExistingMissions, stockVars
  <2>2. ASSUME NEW p \in Products PROVE LedgersExplain(p)'
    <3>1. \A sources : /\ ReportedOf(p, sources)' = ReportedOf(p, sources)
                       /\ Quarantine(p, sources)' = Quarantine(p, sources)
      BY <1>4 DEF stockVars, ReportedOf, Quarantine, Reported, Kept
    <3>2. LedgersExplain(p) /\ UNCHANGED <<line, shipped, balance, adjusted>>
      BY <1>4 DEF stockVars, DeskStockInv
    <3> QED
      BY <1>1, <3>1, <3>2, OtherProductExplained
  <2> QED
    BY <1>0, <2>1, <2>2 DEF DeskStockInv
<1> QED
  BY <1>2, <1>3, <1>4 DEF DeskNext

(* It holds in every reachable state of the composition. *)
LEMMA DeskStockInvariance == DeskSpec => []DeskStockInv
BY InitDeskStockInv, StepKeepsDeskStockInv, PTL DEF DeskSpec

-----------------------------------------------------------------------------
(* The theorems. *)

(* Every column of the order flow's and the desk's tables keeps its type. *)
THEOREM DeskTypeCorrect == DeskSpec => []DeskTypeOK
<1>1. DeskInv => DeskTypeOK
  BY DEF DeskInv
<1> QED
  BY <1>1, DeskInvariance, PTL

(* No adjustment, quarantine or reversion the desk accepts, in whatever order
   with approvals, cancellations and deliveries, leaves a balance row that a
   CHECK of inventory_balances refuses. *)
THEOREM DeskBalancesSafe == DeskSpec => []BalancesKeepChecks
<1>1. DeskInv => BalancesKeepChecks
  BY DEF DeskInv, Inv
<1> QED
  BY <1>1, DeskInvariance, PTL

(* A report gives back at most what it quarantined, by its own dismissal. *)
THEOREM RevertedOnce == DeskSpec => []QuarantineRevertedOnce
<1>1. DeskInv => QuarantineRevertedOnce
  BY DEF DeskInv, ExceptionInv, Reported, QuarantineRevertedOnce
<1> QED
  BY <1>1, DeskInvariance, PTL
(* The movement ledger and the desk's own explain every damaged piece, and every
   piece on hand unless an order was overshipped or a reservation quarantined. *)
THEOREM StockIsExplained == DeskSpec => []MovementsExplainStock
<1>1. DeskStockInv => MovementsExplainStock
  BY DEF DeskStockInv, LedgersExplain, NetStock, MovementsExplainStock
<1> QED
  BY <1>1, DeskStockInvariance, PTL

(* No piece an order holds is lost to the desk: it is reserved, or kept by a
   report that took it from a reservation. *)
THEOREM HeldIsCovered == DeskSpec => []HeldIsReservedOrQuarantined
<1>1. DeskStockInv => HeldIsReservedOrQuarantined
  BY DEF DeskStockInv, LedgersExplain, HeldIsReservedOrQuarantined
<1> QED
  BY <1>1, DeskStockInvariance, PTL
=============================================================================
