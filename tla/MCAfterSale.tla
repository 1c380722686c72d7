---------------------------- MODULE MCAfterSale ----------------------------
(***************************************************************************)
(* One line of two pieces, each delivered from an allocation of its own,   *)
(* and two members of staff who check each other's requests.               *)
(***************************************************************************)
EXTENDS AfterSale, TLC

CONSTANT line

TheDeliveries == line :> <<1, 1>>
ThePrice == line :> 1
StaffAlike == Permutations(Staff)
=============================================================================
