-------------------------- MODULE MCSupplierBooks --------------------------
(***************************************************************************)
(* Two clerks at the payables of one supplier, with a bill and two         *)
(* payments against it or on account, and an accountant with one           *)
(* correction to make by hand.                                             *)
(***************************************************************************)
EXTENDS SupplierClaims, TLC

Correction == {[debit |-> "EXPENSE", credit |-> "PAYABLE", amount |-> 1]}

Alike == Permutations(Clerks) \cup Permutations(Payments)
=============================================================================
