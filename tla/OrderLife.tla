----------------------------- MODULE OrderLife -----------------------------
(***************************************************************************)
(* What the order desk, the warehouse and the accountants promise one      *)
(* another about an order, without stock, allocations, missions, payments  *)
(* or invoices.  OrderFulfillment and PaymentSettlement both implement it: *)
(* the first abstracts the payments of an order to the steps Raise and     *)
(* Lower, the second its goods to the steps Work, Ship and Deliver.        *)
(***************************************************************************)
EXTENDS OrderStatus

CONSTANT Orders   \* the submitted orders

VARIABLES
  status,      \* orders.status
  settlement,  \* orders.payment_status
  approved,    \* whether the order has allocations, which only approval makes
  delivered    \* whether its last step delivered it, every line in full

lifeVars == <<status, settlement, approved, delivered>>

LifeTypeOK ==
  /\ status \in [Orders -> OrderStatuses]
  /\ settlement \in [Orders -> PaymentStatuses]
  /\ approved \in [Orders -> BOOLEAN]
  /\ delivered \in [Orders -> BOOLEAN]

LifeInit ==
  /\ status = [o \in Orders |-> "SUBMITTED"]
  /\ settlement = [o \in Orders |-> "UNPAID"]
  /\ approved = [o \in Orders |-> FALSE]
  /\ delivered = [o \in Orders |-> FALSE]

-----------------------------------------------------------------------------
Approve(o) ==
  /\ status[o] \in Reviewable
  /\ status' = [status EXCEPT ![o] = "APPROVED"]
  /\ approved' = [approved EXCEPT ![o] = TRUE]
  /\ UNCHANGED <<settlement, delivered>>

Reject(o) ==
  /\ status[o] \in Reviewable
  /\ status' = [status EXCEPT ![o] = "REJECTED"]
  /\ UNCHANGED <<settlement, approved, delivered>>

Cancel(o) ==
  /\ status[o] \notin Closed
  /\ status' = [status EXCEPT ![o] = "CANCELLED"]
  /\ delivered' = [delivered EXCEPT ![o] = FALSE]
  /\ UNCHANGED <<settlement, approved>>

(* Picking, packing or dispatching, approved or not. *)
Work(o) ==
  /\ status[o] \notin Closed
  /\ status' = [status EXCEPT ![o] = "PROCESSING"]
  /\ delivered' = [delivered EXCEPT ![o] = FALSE]
  /\ UNCHANGED <<settlement, approved>>

(* A step of a delivery mission short of its completion, whatever the order's
   status: another mission of a delivered order takes its delivery back. *)
Ship(o) ==
  /\ approved[o]
  /\ delivered' = [delivered EXCEPT ![o] = FALSE]
  /\ UNCHANGED <<status, settlement, approved>>

AfterLenientEvaluation(o, paid, all) ==  \* mutated
  IF status[o] \in {"APPROVED", "PROCESSING"} /\ paid \in {"PAID", "OVERPAID"} /\ all
  THEN "COMPLETED" ELSE status[o]

(* The completion rule: the step that brings the last of the two conditions
   completes an order the warehouse works on. *)
AfterEvaluation(o, paid, all) ==
  IF status[o] \in {"APPROVED", "PROCESSING"} /\ paid = "PAID" /\ all
  THEN "COMPLETED" ELSE status[o]

Deliver(o, all) ==
  /\ approved[o]
  /\ delivered' = [delivered EXCEPT ![o] = all]
  /\ status' = [status EXCEPT ![o] = AfterEvaluation(o, settlement[o], all)]
  /\ UNCHANGED <<settlement, approved>>

(* A verified payment raises the settlement and may complete the order; a
   reversal lowers it and looks at nothing else. *)
Raise(o, s) ==
  /\ s # "UNPAID" /\ Rank[s] >= Rank[settlement[o]]
  /\ settlement' = [settlement EXCEPT ![o] = s]
  /\ status' = [status EXCEPT ![o] = AfterEvaluation(o, s, delivered[o])]
  /\ UNCHANGED <<approved, delivered>>

Lower(o, s) ==
  /\ Rank[s] <= Rank[settlement[o]]
  /\ settlement' = [settlement EXCEPT ![o] = s]
  /\ UNCHANGED <<status, approved, delivered>>

LifeNext ==
  \E o \in Orders :
    \/ Approve(o) \/ Reject(o) \/ Cancel(o) \/ Work(o) \/ Ship(o)
    \/ \E all \in BOOLEAN : Deliver(o, all)
    \/ \E s \in PaymentStatuses : Raise(o, s) \/ Lower(o, s)

LifeSpec == LifeInit /\ [][LifeNext]_lifeVars
=============================================================================
