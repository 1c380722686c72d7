----------------------------- MODULE OrderCart -----------------------------
(***************************************************************************)
(* The cart a salesman fills: one customer and a quantity for each         *)
(* product.  Notes count as part of the customer's choice; a unit of any   *)
(* product costs one unit of money here.  Prices outside the product's     *)
(* band are the server's to refuse (see CatalogueRefuses in OrderBuilder). *)
(***************************************************************************)
EXTENDS Integers, FiniteSets, Functions

CONSTANTS
  Customers,    \* the salesman's customers
  NoCustomer,   \* no customer is selected
  Products,     \* the catalogue
  MaxQuantity   \* the stepper's maximum, 999999 in the code

ASSUME CartAssumption ==
  /\ NoCustomer \notin Customers
  /\ IsFiniteSet(Products)
  /\ MaxQuantity \in Nat \ {0}

Carts == [customer : Customers \cup {NoCustomer}, lines : [Products -> 0..MaxQuantity]]

EmptyCart == [customer |-> NoCustomer, lines |-> [p \in Products |-> 0]]

InCart(c) == {p \in Products : c.lines[p] > 0}

\* mutated Clamped: the stepper's maximum is not enforced
ClampedBelow(q) == IF q < 1 THEN 1 ELSE q

Clamped(q) == IF q < 1 THEN 1 ELSE IF q > MaxQuantity THEN MaxQuantity ELSE q

WithCustomer(c, customer) == [c EXCEPT !.customer = customer]

WithLine(c, p, q) == [c EXCEPT !.lines[p] = Clamped(q)]

WithoutLine(c, p) == [c EXCEPT !.lines[p] = 0]

Total(c) == SumFunction(c.lines)

Reviewable(c) == c.customer # NoCustomer /\ InCart(c) # {}

(* doesOrderMatchDto: customer, notes, and each line's quantity and price. *)
SameOrder(a, b) ==
  /\ a.customer = b.customer
  /\ InCart(a) = InCart(b)
  /\ \A p \in InCart(a) : a.lines[p] = b.lines[p]
=============================================================================
