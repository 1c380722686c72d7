------------------------- MODULE MCOrderFulfillment -------------------------
(* Instances of OrderFulfillment for TLC. *)
EXTENDS OrderFulfillmentLife, TLC

CONSTANTS o1, o2, o3, p1, p2

Shelf(onHand, reserved, damaged) ==
  [onHand |-> onHand, reserved |-> reserved, damaged |-> damaged,
   available |-> onHand - reserved - damaged]

(* Three orders for the only two pieces of one product: two fit, the third must
   be refused until one of them is cancelled. *)
ThreeOrders == [o \in {o1, o2, o3} |-> [p \in {p1} |-> 1]]
TwoOnHand == [p \in {p1} |-> Shelf(2, 0, 0)]
OrdersAlike == Permutations({o1, o2})

(* Bounds of that run: orders are paid on delivery or not at all, and the third
   is approved, rejected or cancelled but gets no further. *)
PaidOnDelivery ==
  \A o \in Orders :
    \/ order[o].payment = "UNPAID"
    \/ order[o].payment = "PAID" /\ order[o].delivery = "DELIVERED"

ThirdStaysInOffice ==
  /\ order[o3].fulfillment \in {"UNALLOCATED", "RESERVED"}
  /\ order[o3].delivery = "PENDING_ASSIGNMENT" /\ order[o3].payment = "UNPAID"

(* One order for two of one product and one of another, and no more in stock:
   one line may be picked short while the other is delivered in full. *)
TwoLines == [o \in {o1} |-> (p1 :> 2 @@ p2 :> 1)]
JustEnough == (p1 :> Shelf(2, 0, 0)) @@ (p2 :> Shelf(1, 0, 0))
=============================================================================
