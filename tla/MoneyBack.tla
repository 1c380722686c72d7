------------------------------ MODULE MoneyBack ------------------------------
(***************************************************************************)
(* What returns promise, whatever the pages show and whoever decides: a    *)
(* customer is paid back at most what was credited, credited at most what  *)
(* the accepted goods are worth, and brings back at most what was          *)
(* delivered; none of the three ever shrinks.                              *)
(***************************************************************************)
EXTENDS Integers

CONSTANT Deliverable   \* the value of the delivered goods

VARIABLES back, credited, paidOut

Init == back = 0 /\ credited = 0 /\ paidOut = 0

Bring ==
  /\ back' \in back..Deliverable
  /\ UNCHANGED <<credited, paidOut>>

Credit ==
  /\ credited' \in credited..back
  /\ UNCHANGED <<back, paidOut>>

PayOut ==
  /\ paidOut' \in paidOut..credited
  /\ UNCHANGED <<back, credited>>

Next == Bring \/ Credit \/ PayOut

Spec == Init /\ [][Next]_<<back, credited, paidOut>>
=============================================================================
