-------------------------- MODULE CustomerReturns --------------------------
(***************************************************************************)
(* Goods a customer brings back.  A return of some lines of one delivered  *)
(* order is requested, inspected in the warehouse and then approved, which *)
(* puts the good pieces back on sale and quarantines the damaged ones, or  *)
(* it is rejected or cancelled.  The operators of this module are the      *)
(* transactions of the services; the pages that call them are in           *)
(* AfterSale.                                                              *)
(***************************************************************************)
EXTENDS StockBalance, Sequences, FiniteSets, Functions

CONSTANTS
  Lines,       \* the lines of the order, each of a product of its own
  Deliveries,  \* for every line, what each of its allocations delivered
  MaxReturns,  \* bound: return requests
  Staff,
  SuperAdmins  \* exempt from maker-checker

ASSUME ReturnsAssumption ==
  /\ IsFiniteSet(Lines)
  /\ Deliveries \in [Lines -> Seq(Nat)]
  /\ MaxReturns \in Nat
  /\ SuperAdmins \subseteq Staff

VARIABLES
  returns,   \* the return requests, in the order they were made
  returned,  \* a line's returned_quantity
  taken,     \* the returned_quantity of each allocation
  balance    \* the stock of a line's product

goods == <<returns, returned, taken, balance>>

Returns == DOMAIN returns

Total(quantities) == SumFunction(quantities)

Delivered(l) == Total(Deliveries[l])

Open == {"REQUESTED", "INSPECTED"}

Terminal == {"APPROVED", "REJECTED", "CANCELLED"}

Nothing == [l \in Lines |-> 0]

Within(most) ==
  {q \in [Lines -> UNION {0..most[l] : l \in Lines}] : \A l \in Lines : q[l] <= most[l]}

Asked(l) ==
  [r \in Returns |-> IF returns[r].status \in Open THEN returns[r].requested[l] ELSE 0]

Pending(l) == Total(Asked(l))

\* mutated Returnable: open requests are not counted
ReturnableOfDelivered(l) == Max0(Delivered(l) - returned[l])

Returnable(l) == Max0(Delivered(l) - (returned[l] + Pending(l)))

Accepted(r, l) == returns[r].good[l] + returns[r].damaged[l]

-----------------------------------------------------------------------------
(* Transactions. *)

CreateRequest(u, want) ==
  /\ Len(returns) < MaxReturns
  /\ want # Nothing
  /\ \A l \in Lines : want[l] > 0 => want[l] <= Returnable(l)
  /\ returns' = Append(returns,
       [status |-> "REQUESTED", by |-> u, requested |-> want, received |-> Nothing,
        good |-> Nothing, damaged |-> Nothing])
  /\ UNCHANGED <<returned, taken, balance>>

RecordInspection(r, got) ==
  /\ returns[r].status = "REQUESTED"
  /\ \A l \in Lines : got[l] <= returns[r].requested[l]
  /\ returns' = [returns EXCEPT ![r].status = "INSPECTED", ![r].received = got]
  /\ UNCHANGED <<returned, taken, balance>>

(* Maker-checker: who requested does not decide. *)
MayDecide(u, maker) == u # maker \/ u \in SuperAdmins

(* executeDisposition: good pieces are on sale again, damaged ones are on
   hand in quarantine; the available figure is added to, not recomputed. *)
Restocked(b, good, damaged) ==
  [b EXCEPT !.onHand = @ + good + damaged, !.available = @ + good, !.damaged = @ + damaged]

\* mutated Spread: every allocation takes the whole quantity
SpreadToAll(before, delivered, q) ==
  [i \in DOMAIN before |-> before[i] + Lesser(q, Max0(delivered[i] - before[i]))]

(* Allocations take what they can hold, in order, until q is spent. *)
Spread(before, delivered, q) ==
  [i \in DOMAIN before |->
     before[i] + Lesser(Max0(delivered[i] - before[i]),
                        Max0(q - Total([j \in 1..(i - 1) |-> Max0(delivered[j] - before[j])])))]

\* mutated Dispose: only good pieces count as returned
DisposeCountingGood(good, damaged) ==
  LET q(l) == good[l] + damaged[l] IN
  /\ returned' = [l \in Lines |-> returned[l] + good[l]]
  /\ taken' = [l \in Lines |-> Spread(taken[l], Deliveries[l], q(l))]
  /\ balance' = [l \in Lines |-> Restocked(balance[l], good[l], damaged[l])]

Dispose(good, damaged) ==
  LET q(l) == good[l] + damaged[l] IN
  /\ returned' = [l \in Lines |-> returned[l] + q(l)]
  /\ taken' = [l \in Lines |-> Spread(taken[l], Deliveries[l], q(l))]
  /\ balance' = [l \in Lines |-> Restocked(balance[l], good[l], damaged[l])]

(* What is neither good nor damaged of the pieces received is rejected. *)
ApproveReturn(u, r, good, damaged) ==
  /\ MayDecide(u, returns[r].by)
  /\ returns[r].status = "INSPECTED"
  /\ \A l \in Lines : good[l] + damaged[l] <= returns[r].received[l]
  /\ \A l \in Lines : returned[l] + good[l] + damaged[l] <= Delivered(l)
  /\ returns' = [returns EXCEPT ![r].status = "APPROVED", ![r].good = good, ![r].damaged = damaged]
  /\ Dispose(good, damaged)

RejectReturn(u, r) ==
  /\ MayDecide(u, returns[r].by)
  /\ returns[r].status \notin Terminal
  /\ returns' = [returns EXCEPT ![r].status = "REJECTED", ![r].good = Nothing, ![r].damaged = Nothing]
  /\ UNCHANGED <<returned, taken, balance>>

CancelReturn(r) ==
  /\ returns[r].status = "REQUESTED"
  /\ returns' = [returns EXCEPT ![r].status = "CANCELLED"]
  /\ UNCHANGED <<returned, taken, balance>>

(* The order has been delivered and its stock shipped; some of the product
   is still on the shelves. *)
ReturnsInit ==
  /\ returns = <<>>
  /\ returned = Nothing
  /\ taken = [l \in Lines |-> [i \in DOMAIN Deliveries[l] |-> 0]]
  /\ balance = [l \in Lines |-> [onHand |-> 1, reserved |-> 0, available |-> 1, damaged |-> 0]]

-----------------------------------------------------------------------------
(* Properties. *)

Columns == [Lines -> Nat]

ReturnRows ==
  [status : Open \cup Terminal, by : Staff, requested : Columns, received : Columns,
   good : Columns, damaged : Columns]

ReturnsTypeOK ==
  /\ returns \in Seq(ReturnRows)
  /\ returned \in Columns
  /\ taken \in [Lines -> Seq(Nat)]
  /\ balance \in [Lines -> Balance]

(* However many requests are open at once, from pages of whatever age, all
   of them could be accepted in full: together with what is back already they
   never exceed what was delivered. *)
ReturnsWithinDelivery ==
  \A l \in Lines : returned[l] + Pending(l) <= Delivered(l)

CameBack(l) ==
  [r \in Returns |-> IF returns[r].status = "APPROVED" THEN Accepted(r, l) ELSE 0]

(* Every accepted piece is counted exactly once: in the line, in one of its
   allocations and in the stock, which keeps the table's CHECKs. *)
GoodsComeBackOnce ==
  \A l \in Lines :
    LET all == Total(CameBack(l))
    IN /\ returned[l] = all
       /\ Total(taken[l]) = all
       /\ \A i \in DOMAIN taken[l] : taken[l][i] <= Deliveries[l][i]
       /\ balance[l].onHand = 1 + all
       /\ SatisfiesChecks(balance[l])
=============================================================================
