---------------------------- MODULE OrderStatus ----------------------------
(***************************************************************************)
(* The two status columns of orders that every part of the system reads:   *)
(* where an order stands, and what its verified payments amount to.        *)
(***************************************************************************)
EXTENDS Naturals

OrderStatuses ==
  {"SUBMITTED", "PENDING_APPROVAL", "APPROVED", "PROCESSING", "COMPLETED", "CANCELLED", "REJECTED"}

PaymentStatuses == {"UNPAID", "PARTIALLY_PAID", "PAID", "OVERPAID"}

(* What review acts on, and what nothing in the office or the warehouse does. *)
Reviewable == {"SUBMITTED", "PENDING_APPROVAL"}
Closed     == {"COMPLETED", "CANCELLED", "REJECTED"}

(* The order of the payment statuses by the amount they stand for. *)
Rank == [UNPAID |-> 0, PARTIALLY_PAID |-> 1, PAID |-> 2, OVERPAID |-> 3]
=============================================================================
