---------------------------- MODULE MCStockDesk ----------------------------
(* Instances of StockDesk for TLC. *)
EXTENDS StockDesk, TLC

CONSTANTS o1, p1, e1, e2

(* An order for two of three pieces on hand; the third is reserved for orders
   that are not part of the instance. *)
OneOrder == [o \in {o1} |-> [p \in {p1} |-> 2]]
OneHeldByOthers ==
  [p \in {p1} |-> [onHand |-> 3, reserved |-> 1, damaged |-> 0, available |-> 2]]

ReportsAlike == Permutations({e1, e2})

(* Bounds of the run: no payments, deliveries go out without a detour, and a
   second one is assigned while the first is on the road and picked up after it
   was delivered, beside one report at most. *)
Unpaid == \A o \in Orders : order[o].payment = "UNPAID"
NoDetour == \A o \in Orders : order[o].delivery \notin {"FAILED", "RESCHEDULED", "RETURNED_TO_WAREHOUSE"}

SecondFollows ==
  \A o \in Orders : mission[o][2].status # "NONE" =>
    /\ Cardinality(Reported) <= 1
    /\ \/ mission[o][1].status = "DELIVERED"
       \/ mission[o][1].status = "OUT_FOR_DELIVERY" /\ mission[o][2].status = "ASSIGNED"

(* With a second report, two adjusted pieces of all kinds together. *)
FewAdjusted ==
  Cardinality(Reported) = 2 => \A p \in Products : SumFunction(adjusted[p]) <= 2
=============================================================================
