----------------------------- MODULE MCRowLocks -----------------------------
(***************************************************************************)
(* Three transactions about two orders of one customer that list the same  *)
(* two products in opposite orders.  The requests are alike, so a mix is   *)
(* given to them in one way only.                                          *)
(***************************************************************************)
EXTENDS RowLocks

CONSTANTS o1, o2, cust

TheCustomer == [o \in {o1, o2} |-> cust]
TheItems == [o \in {o1, o2} |-> IF o = o1 THEN <<1, 2>> ELSE <<2, 1>>]

Listed == <<"approve", "dispatch", "payment", "return", "deliver">>
Place(ask) ==
  (CHOOSE i \in DOMAIN Listed : Listed[i] = ask.kind) + (IF ask.order = o1 THEN 0 ELSE 5)

AllMixes ==
  {mix \in [Requests -> [kind : Kinds, order : Orders]] :
     \A w, v \in Requests : w < v => Place(mix[w]) <= Place(mix[v])}
=============================================================================
