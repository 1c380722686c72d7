----------------------------- MODULE OrderBook -----------------------------
(***************************************************************************)
(* What the order desk promises, whatever the browsers, the network and    *)
(* the retries do: a draft is revised one version at a time until it is    *)
(* discarded or submitted; what was submitted never changes again; no two  *)
(* orders share an idempotency key; no more is collected at the checkout   *)
(* than the order is worth.                                                *)
(***************************************************************************)
EXTENDS OrderCart

CONSTANTS Ids, Keys

VARIABLE book

Row(status, key, version, cart, paid) ==
  [status |-> status, key |-> key, version |-> version, cart |-> cart, paid |-> paid]

NoRow == [status |-> "ABSENT"]

Live(o) == book[o].status \notin {"ABSENT", "DISCARDED"}

KeyFree(k, but) == \A o \in Ids \ {but} : Live(o) => book[o].key # k

Init ==
  \A o \in Ids :
    \/ book[o] = NoRow
    \/ \E k \in Keys, c \in Carts : book[o] = Row("DRAFT", k, 1, c, 0) /\ KeyFree(k, o)

Draft(o, k, c) ==
  /\ book[o] = NoRow
  /\ book' = [book EXCEPT ![o] = Row("DRAFT", k, 1, c, 0)]
  /\ KeyFree(k, o)

Place(o, k, c) ==
  /\ book[o] = NoRow
  /\ book' = [book EXCEPT ![o] = Row("SUBMITTED", k, 1, c, 0)]
  /\ KeyFree(k, o) /\ Reviewable(c)

Revise(o, c) ==
  /\ book[o].status = "DRAFT"
  /\ book' = [book EXCEPT ![o].version = @ + 1, ![o].cart = c]

Submit(o, k) ==
  /\ book[o].status = "DRAFT"
  /\ book' = [book EXCEPT ![o].status = "SUBMITTED", ![o].key = k]
  /\ KeyFree(k, o) /\ Reviewable(book[o].cart)

Discard(o) ==
  /\ book[o].status = "DRAFT"
  /\ book' = [book EXCEPT ![o] = [status |-> "DISCARDED"]]

Approve(o) ==
  /\ book[o].status = "SUBMITTED"
  /\ book' = [book EXCEPT ![o].status = "APPROVED"]

Worth(o) == IF Live(o) THEN Total(book[o].cart) ELSE 0

Collect(o, amount) ==
  /\ book[o].status \in {"SUBMITTED", "APPROVED"}
  /\ amount > 0 /\ book[o].paid + amount <= Worth(o)
  /\ book' = [book EXCEPT ![o].paid = @ + amount]

Next ==
  \E o \in Ids :
    \/ \E k \in Keys, c \in Carts : Draft(o, k, c) \/ Place(o, k, c)
    \/ \E c \in Carts : Revise(o, c)
    \/ \E k \in Keys : Submit(o, k)
    \/ Discard(o)
    \/ Approve(o)
    \/ \E amount \in 1..Worth(o) : Collect(o, amount)

Spec == Init /\ [][Next]_book
=============================================================================
