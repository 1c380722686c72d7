------------------------------ MODULE RowLocks ------------------------------
(***************************************************************************)
(* The row locks of the long transactions, and who waits for whom.         *)
(*                                                                         *)
(* A transaction takes its locks one after another and keeps them to its   *)
(* end.  Approval, dispatch and assignment lock the order and then its     *)
(* customer; payments and returns the customer and then the order.         *)
(* Approvals and returns lock the stock balances of an order in ascending  *)
(* order, a delivery in the order of its items.  When transactions wait    *)
(* for each other in a circle, PostgreSQL rolls one of them back, and      *)
(* DB::transaction(..., 3) runs it again twice.                            *)
(*                                                                         *)
(* The rows that only the holder of an order locks (its items, allocations,*)
(* deliveries, payments, invoice) never make anybody wait and are left out.*)
(***************************************************************************)
EXTENDS Integers, Sequences

CONSTANTS
  Requests,      \* requests to the server, each a transaction
  Orders, Customers,
  LastProduct,   \* the products have the ids 1..LastProduct
  CustomerOf,    \* the customer of each order
  ItemsOf,       \* the products of each order, in the order of its items
  Mixes,         \* what the requests may ask for, and about which orders
  MaxAttempts    \* how often a transaction is run at most

OrderFirst == {"approve", "dispatch"}
CustomerFirst == {"payment", "return"}
Kinds == OrderFirst \cup CustomerFirst \cup {"deliver"}

Products == 1..LastProduct

ASSUME OrdersAssumption ==
  /\ CustomerOf \in [Orders -> Customers]
  /\ LastProduct \in Nat
  /\ ItemsOf \in [Orders -> Seq(Products)]
ASSUME RowsAssumption ==
  /\ Orders \cap Customers = {}
  /\ Orders \cap Products = {}
  /\ Customers \cap Products = {}
ASSUME MixesAssumption == Mixes \subseteq [Requests -> [kind : Kinds, order : Orders]]
ASSUME AttemptsAssumption == MaxAttempts \in Nat \ {0}

VARIABLES
  kind,       \* what each request asks for
  order,      \* the order it is about
  held,       \* the rows its transaction has locked
  attempts,   \* how often the transaction was begun
  phase       \* whether it is not begun, running, over, or given up

vars == <<kind, order, held, attempts, phase>>

Rows == Orders \cup Customers \cup Products

-----------------------------------------------------------------------------
(* The row a transaction locks next.                                       *)

BalancesOf(o) == {ItemsOf[o][i] : i \in DOMAIN ItemsOf[o]}

LockBalancesInAnyOrder(r, o, hs) ==   \* mutated: the balances are not sorted
  r \in BalancesOf(o) \ hs

LockBalancesForUpdate(r, o, hs) ==
  /\ r \in BalancesOf(o) \ hs
  /\ \A q \in BalancesOf(o) \ hs : r <= q

LockItemByItem(r, o, hs) ==
  \E i \in DOMAIN ItemsOf[o] :
    /\ r = ItemsOf[o][i]
    /\ r \notin hs
    /\ \A j \in 1..(i - 1) : ItemsOf[o][j] \in hs

LockOrderThenCustomer(r, o, hs) ==
  \/ o \notin hs /\ r = o
  \/ o \in hs /\ CustomerOf[o] \notin hs /\ r = CustomerOf[o]

LockCustomerThenOrder(r, o, hs) ==
  \/ CustomerOf[o] \notin hs /\ r = CustomerOf[o]
  \/ CustomerOf[o] \in hs /\ o \notin hs /\ r = o

Both(o, hs) == {o, CustomerOf[o]} \subseteq hs

ApproveOrder(r, o, hs) ==
  LockOrderThenCustomer(r, o, hs) \/ (Both(o, hs) /\ LockBalancesForUpdate(r, o, hs))

DispatchOrder(r, o, hs) == LockOrderThenCustomer(r, o, hs)

RecordPayment(r, o, hs) == LockCustomerThenOrder(r, o, hs)

ApproveReturn(r, o, hs) ==
  LockCustomerThenOrder(r, o, hs) \/ (Both(o, hs) /\ LockBalancesForUpdate(r, o, hs))

CompleteDelivery(r, o, hs) ==
  (o \notin hs /\ r = o) \/ (o \in hs /\ LockItemByItem(r, o, hs))

LocksNext(k, r, o, hs) ==
  \/ k = "approve" /\ ApproveOrder(r, o, hs)
  \/ k = "dispatch" /\ DispatchOrder(r, o, hs)
  \/ k = "payment" /\ RecordPayment(r, o, hs)
  \/ k = "return" /\ ApproveReturn(r, o, hs)
  \/ k = "deliver" /\ CompleteDelivery(r, o, hs)

Running(w) == phase[w] = "running"

Wants(w, r) == Running(w) /\ LocksNext(kind[w], r, order[w], held[w])

WaitsFor(w, v) == w # v /\ \E r \in held[v] : Wants(w, r)

(* Everyone in ws waits for somebody in ws.                                *)
Stuck(ws) == \A w \in ws : \E v \in ws : WaitsFor(w, v)

InCircle(w) ==
  \E ws \in SUBSET Requests :
    w \in ws /\ Stuck(ws) /\ \A v \in ws : \E u \in ws : WaitsFor(u, v)

-----------------------------------------------------------------------------

Init ==
  /\ \E mix \in Mixes :
       /\ kind = [w \in Requests |-> mix[w].kind]
       /\ order = [w \in Requests |-> mix[w].order]
  /\ held = [w \in Requests |-> {}]
  /\ attempts = [w \in Requests |-> 0]
  /\ phase = [w \in Requests |-> "waiting"]

Begin(w) ==
  /\ phase[w] = "waiting"
  /\ phase' = [phase EXCEPT ![w] = "running"]
  /\ attempts' = [attempts EXCEPT ![w] = @ + 1]
  /\ UNCHANGED <<kind, order, held>>

LockRow(w, r) ==
  /\ Wants(w, r)
  /\ \A v \in Requests \ {w} : r \notin held[v]
  /\ held' = [held EXCEPT ![w] = @ \cup {r}]
  /\ UNCHANGED <<kind, order, attempts, phase>>

End(w, as) ==
  /\ held' = [held EXCEPT ![w] = {}]
  /\ phase' = [phase EXCEPT ![w] = as]
  /\ UNCHANGED <<kind, order, attempts>>

Commit(w) ==
  /\ Running(w)
  /\ \A r \in Rows : ~Wants(w, r)
  /\ End(w, "over")

(* A check under the locks fails: the exception rolls everything back.     *)
Refuse(w) ==
  /\ Running(w)
  /\ held[w] # {}
  /\ End(w, "over")

GiveUpQuietly(w) ==   \* mutated: the transaction that is rolled back keeps its locks
  /\ InCircle(w)
  /\ phase' = [phase EXCEPT ![w] = "failed"]
  /\ UNCHANGED <<kind, order, held, attempts>>

DetectDeadlock(w) ==
  /\ InCircle(w)
  /\ End(w, IF attempts[w] < MaxAttempts THEN "waiting" ELSE "failed")

Step(w) ==
  \/ Begin(w)
  \/ \E r \in Rows : LockRow(w, r)
  \/ Commit(w)
  \/ DetectDeadlock(w)

Next == \E w \in Requests : Step(w) \/ Refuse(w)

Spec == Init /\ [][Next]_vars

FairSpec == Spec /\ \A w \in Requests : WF_vars(Step(w))

-----------------------------------------------------------------------------
LocksTypeOK ==
  /\ kind \in [Requests -> Kinds]
  /\ order \in [Requests -> Orders]
  /\ held \in [Requests -> SUBSET Rows]
  /\ attempts \in [Requests -> 0..MaxAttempts]
  /\ phase \in [Requests -> {"waiting", "running", "over", "failed"}]

(* Whoever waits in a circle, two of them lock a customer and an order the *)
(* opposite ways round, or one is a delivery whose items do not ascend: no *)
(* other mix of transactions can deadlock.                                 *)
Ascends(o) ==
  \A i, j \in DOMAIN ItemsOf[o] : i < j => ItemsOf[o][i] <= ItemsOf[o][j]

Inverted(ws) ==
  \/ /\ \E w \in ws : kind[w] \in OrderFirst
     /\ \E w \in ws : kind[w] \in CustomerFirst
  \/ \E w \in ws : kind[w] = "deliver" /\ ~Ascends(order[w])

OnlyInversionsDeadlock ==
  \A ws \in SUBSET Requests : ws # {} /\ Stuck(ws) => Inverted(ws)

(* Every transaction comes to an end: it commits, is refused, or is rolled *)
(* back for the last time.                                                 *)
TransactionsEnd == \A w \in Requests : <>(phase[w] \in {"over", "failed"})
=============================================================================
