------------------------ MODULE OrderFulfillmentLife ------------------------
(***************************************************************************)
(* OrderFulfillment implements OrderLife: forgetting stock, allocations    *)
(* and missions, every transaction is one of the steps of an order's life  *)
(* or leaves it as it is.                                                  *)
(***************************************************************************)
EXTENDS OrderFulfillment

Approved(o) == \E p \in Products : alloc[o][p].status # "NONE"

DeliveredInFull(o) ==
  /\ order[o].fulfillment = "DELIVERED" /\ order[o].delivery = "DELIVERED"
  /\ \A p \in Products : line[o][p].delivered >= Ordered[o][p]

Life == INSTANCE OrderLife WITH
  status     <- [o \in Orders |-> order[o].status],
  settlement <- [o \in Orders |-> order[o].payment],
  approved   <- [o \in Orders |-> Approved(o)],
  delivered  <- [o \in Orders |-> DeliveredInFull(o)]

(* However the transactions of the desk, the warehouse, the drivers and the
   accountants interleave, an order is approved before anything is shipped for
   it, moves only forward, and is completed exactly by the step that finds it
   paid to the cent and delivered in full. *)
ImplementsLife == Life!LifeSpec
=============================================================================
