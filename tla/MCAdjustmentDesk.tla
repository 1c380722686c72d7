-------------------------- MODULE MCAdjustmentDesk --------------------------
(* Two administrators who check each other's adjustments of one line. *)
EXTENDS AdjustmentDesk, TLC

StaffAlike == Permutations(Staff)
=============================================================================
