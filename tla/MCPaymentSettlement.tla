------------------------ MODULE MCPaymentSettlement ------------------------
(* Instances of PaymentSettlement for TLC. *)
EXTENDS PaymentSettlement, TLC

CONSTANTS o1, o2, p1, p2, p3, c1, c2

TwoUnits == [o \in Orders |-> 2]
PaymentsAlike == Permutations(Payments)
=============================================================================
