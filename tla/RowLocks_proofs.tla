-------------------------- MODULE RowLocks_proofs --------------------------
(***************************************************************************)
(* Whatever the requests, orders, customers and products: transactions     *)
(* that wait for each other in a circle contain an inversion.              *)
(*                                                                         *)
(* The argument is the classical one.  Each transaction climbs a ladder of *)
(* rows, so the highest row that anybody in the circle both holds and is   *)
(* waited for on cannot exist.  There are two ladders, one per order of    *)
(* locking the order and the customer; a delivery never locks the customer *)
(* and climbs both, if its items ascend.                                   *)
(***************************************************************************)
EXTENDS RowLocks, TLAPS, WellFoundedInduction

-----------------------------------------------------------------------------
(* Types.                                                                  *)

MayBegin == \A w \in Requests : phase[w] = "waiting" => attempts[w] < MaxAttempts

LEMMA BalancesAreProducts ==
  ASSUME NEW o \in Orders
  PROVE  BalancesOf(o) \subseteq Products
BY OrdersAssumption DEF BalancesOf

(* Every column has its type at any time.                                  *)
TypeInv == LocksTypeOK /\ MayBegin

LEMMA InitTypes == Init => TypeInv
BY MixesAssumption, AttemptsAssumption
DEF Init, TypeInv, LocksTypeOK, MayBegin, Rows

LEMMA StepTypes == TypeInv /\ [Next]_vars => TypeInv'
<1> SUFFICES ASSUME TypeInv, [Next]_vars PROVE TypeInv'
  OBVIOUS
<1> USE AttemptsAssumption DEF TypeInv, LocksTypeOK, MayBegin
<1>1. ASSUME NEW w \in Requests, Begin(w) PROVE TypeInv'
  BY <1>1 DEF Begin
<1>2. ASSUME NEW w \in Requests, NEW r \in Rows, LockRow(w, r) PROVE TypeInv'
  BY <1>2 DEF LockRow
<1>3. ASSUME NEW w \in Requests, Commit(w) \/ Refuse(w) PROVE TypeInv'
  BY <1>3 DEF Commit, Refuse, End
<1>4. ASSUME NEW w \in Requests, DetectDeadlock(w) PROVE TypeInv'
  BY <1>4 DEF DetectDeadlock, End
<1>5. CASE UNCHANGED vars
  BY <1>5 DEF vars
<1> QED
  BY <1>1, <1>2, <1>3, <1>4, <1>5 DEF Next, Step

(* Every column keeps its type, and no transaction runs more often than it *)
(* may.                                                                    *)
THEOREM LocksTyped == Spec => []LocksTypeOK
<1>1. TypeInv => LocksTypeOK
  BY DEF TypeInv
<1> QED
  BY InitTypes, StepTypes, <1>1, PTL DEF Spec

-----------------------------------------------------------------------------
(* What a transaction holds is the beginning of its list of locks.         *)

SmallerHeld(p, o, hs) == \A q \in BalancesOf(o) : q < p => q \in hs

HeldInOrder(k, o, hs) ==
  /\ hs \subseteq {o, CustomerOf[o]} \cup BalancesOf(o)
  /\ k \in OrderFirst => (CustomerOf[o] \in hs => o \in hs)
  /\ k \in CustomerFirst => (o \in hs => CustomerOf[o] \in hs)
  /\ k \in OrderFirst \cup CustomerFirst =>
       \A p \in hs \cap Products : Both(o, hs) /\ SmallerHeld(p, o, hs)
  /\ k = "deliver" =>
       /\ CustomerOf[o] \notin hs
       /\ \A p \in hs \cap Products : o \in hs /\ (Ascends(o) => SmallerHeld(p, o, hs))

LockInv == TypeInv /\ \A w \in Requests : HeldInOrder(kind[w], order[w], held[w])

LEMMA NothingIsInOrder ==
  ASSUME NEW k, NEW o
  PROVE  HeldInOrder(k, o, {})
BY DEF HeldInOrder

LEMMA ItemByItemClimbs ==
  ASSUME NEW o \in Orders, NEW hs, NEW r, LockItemByItem(r, o, hs), Ascends(o)
  PROVE  SmallerHeld(r, o, hs)
<1>1. PICK i \in DOMAIN ItemsOf[o] :
        r = ItemsOf[o][i] /\ \A j \in 1..(i - 1) : ItemsOf[o][j] \in hs
  BY DEF LockItemByItem
<1>2. SUFFICES ASSUME NEW q \in BalancesOf(o), q < r PROVE q \in hs
  BY DEF SmallerHeld
<1>3. PICK k \in DOMAIN ItemsOf[o] : q = ItemsOf[o][k]
  BY <1>2 DEF BalancesOf
<1>4. ItemsOf[o] \in Seq(Products) /\ r \in Int /\ q \in Int
  BY <1>1, <1>3, OrdersAssumption DEF Products
<1>5. k < i
  BY <1>1, <1>2, <1>3, <1>4 DEF Ascends
<1> QED
  BY <1>1, <1>3, <1>4, <1>5

LEMMA LockKeepsOrder ==
  ASSUME NEW k \in Kinds, NEW o \in Orders, NEW hs, NEW r,
         HeldInOrder(k, o, hs), LocksNext(k, r, o, hs)
  PROVE  HeldInOrder(k, o, hs \cup {r})
<1> DEFINE c == CustomerOf[o]
<1>1. c \in Customers /\ c # o /\ o \notin Products /\ c \notin Products
  BY OrdersAssumption, RowsAssumption
<1>2. BalancesOf(o) \subseteq Products /\ Products \subseteq Int
  BY BalancesAreProducts DEF Products
<1>3. CASE LockOrderThenCustomer(r, o, hs) /\ k \in OrderFirst
  BY <1>1, <1>2, <1>3
  DEF HeldInOrder, LockOrderThenCustomer, OrderFirst, CustomerFirst, Both, SmallerHeld
<1>4. CASE LockCustomerThenOrder(r, o, hs) /\ k \in CustomerFirst
  BY <1>1, <1>2, <1>4
  DEF HeldInOrder, LockCustomerThenOrder, OrderFirst, CustomerFirst, Both, SmallerHeld
<1>5. CASE Both(o, hs) /\ LockBalancesForUpdate(r, o, hs) /\ k \in OrderFirst \cup CustomerFirst
  <2>1. r \in BalancesOf(o) /\ \A q \in BalancesOf(o) \ hs : r <= q
    BY <1>5 DEF LockBalancesForUpdate
  <2>2. r \in Int /\ \A q \in BalancesOf(o) : q \in Int
    BY <1>2, <2>1
  <2>3. SmallerHeld(r, o, hs)
    BY <2>1, <2>2 DEF SmallerHeld
  <2>4. r \in Products
    BY <1>2, <2>1
  <2> QED
    BY <1>1, <1>2, <1>5, <2>1, <2>3, <2>4
    DEF HeldInOrder, OrderFirst, CustomerFirst, Both, SmallerHeld
<1>6. CASE o \notin hs /\ r = o /\ k = "deliver"
  BY <1>1, <1>2, <1>6 DEF HeldInOrder, OrderFirst, CustomerFirst, SmallerHeld
<1>7. CASE o \in hs /\ LockItemByItem(r, o, hs) /\ k = "deliver"
  <2>1. r \in Products /\ r \in BalancesOf(o) /\ (Ascends(o) => SmallerHeld(r, o, hs))
    BY <1>2, <1>7, ItemByItemClimbs DEF LockItemByItem, BalancesOf
  <2> QED
    BY <1>1, <1>2, <1>7, <2>1 DEF HeldInOrder, OrderFirst, CustomerFirst, SmallerHeld
<1> QED
  BY <1>3, <1>4, <1>5, <1>6, <1>7
  DEF LocksNext, ApproveOrder, DispatchOrder, RecordPayment, ApproveReturn, CompleteDelivery,
      OrderFirst, CustomerFirst

LEMMA InitLockInv == Init => LockInv
BY InitTypes, NothingIsInOrder DEF Init, LockInv

LEMMA StepLockInv == LockInv /\ [Next]_vars => LockInv'
<1> SUFFICES ASSUME LockInv, [Next]_vars PROVE LockInv'
  OBVIOUS
<1>1. TypeInv /\ TypeInv'
  BY StepTypes DEF LockInv
<1> USE DEF LockInv
<1>2. ASSUME NEW w \in Requests, Begin(w) PROVE LockInv'
  BY <1>1, <1>2 DEF Begin
<1>3. ASSUME NEW w \in Requests, NEW r \in Rows, LockRow(w, r) PROVE LockInv'
  <2>1. /\ kind' = kind /\ order' = order
        /\ held' = [held EXCEPT ![w] = @ \cup {r}]
        /\ LocksNext(kind[w], r, order[w], held[w])
    BY <1>3 DEF LockRow, Wants
  <2>2. kind[w] \in Kinds /\ order[w] \in Orders
    BY <1>1 DEF TypeInv, LocksTypeOK
  <2>3. HeldInOrder(kind[w], order[w], held[w] \cup {r})
    BY <2>1, <2>2, LockKeepsOrder
  <2>4. held'[w] = held[w] \cup {r} /\ \A v \in Requests \ {w} : held'[v] = held[v]
    BY <1>1, <2>1 DEF TypeInv, LocksTypeOK
  <2> QED
    BY <1>1, <2>1, <2>3, <2>4
<1>4. ASSUME NEW w \in Requests, NEW as, End(w, as) PROVE LockInv'
  <2>1. /\ kind' = kind /\ order' = order
        /\ held'[w] = {} /\ \A v \in Requests \ {w} : held'[v] = held[v]
    BY <1>1, <1>4 DEF End, TypeInv, LocksTypeOK
  <2> QED
    BY <1>1, <2>1, NothingIsInOrder
<1>5. CASE UNCHANGED vars
  BY <1>1, <1>5 DEF vars
<1> QED
  BY <1>2, <1>3, <1>4, <1>5 DEF Next, Step, Commit, Refuse, DetectDeadlock

-----------------------------------------------------------------------------
(* The two ladders.                                                        *)

OrderLadder ==
  [r \in Rows |-> IF r \in Orders THEN 0 ELSE IF r \in Customers THEN 1 ELSE r + 1]

CustomerLadder ==
  [r \in Rows |-> IF r \in Customers THEN 0 ELSE IF r \in Orders THEN 1 ELSE r + 1]

LEMMA LaddersTyped ==
  OrderLadder \in [Rows -> 0..(LastProduct + 1)] /\ CustomerLadder \in [Rows -> 0..(LastProduct + 1)]
BY OrdersAssumption, RowsAssumption
DEF OrderLadder, CustomerLadder, Rows, Products

(* Who climbs which ladder.                                                *)
Climbs(k, o, family) == k \in family \/ (k = "deliver" /\ Ascends(o))

LEMMA BalanceIsNext ==
  ASSUME NEW k \in Kinds, NEW o \in Orders, NEW hs, NEW s, NEW p \in hs \cap Products,
         HeldInOrder(k, o, hs), k = "deliver" => Ascends(o), LocksNext(k, s, o, hs)
  PROVE  s \in Products /\ p < s
<1>1. BalancesOf(o) \subseteq Products /\ Products \subseteq Int
  BY BalancesAreProducts DEF Products
<1>2. SmallerHeld(p, o, hs) /\ o \in hs /\ (k # "deliver" => Both(o, hs))
  <2>1. k \in OrderFirst \cup CustomerFirst \/ (k = "deliver" /\ Ascends(o))
    BY DEF Kinds
  <2> QED
    BY <2>1 DEF HeldInOrder, Both
<1>3. s \in BalancesOf(o) /\ s \notin hs
  BY <1>2 DEF LocksNext, ApproveOrder, DispatchOrder, RecordPayment, ApproveReturn,
       CompleteDelivery, LockOrderThenCustomer, LockCustomerThenOrder, LockBalancesForUpdate,
       LockItemByItem, BalancesOf, Both
<1>4. p \in Int /\ s \in Int /\ s \in Products /\ p # s
  BY <1>1, <1>3
<1>5. ~(s < p)
  BY <1>2, <1>3 DEF SmallerHeld
<1> QED
  BY <1>4, <1>5

LEMMA OrderFirstClimbs ==
  ASSUME NEW k \in Kinds, NEW o \in Orders, NEW hs, NEW r \in hs, NEW s \in Rows,
         HeldInOrder(k, o, hs), Climbs(k, o, OrderFirst), LocksNext(k, s, o, hs)
  PROVE  OrderLadder[r] < OrderLadder[s]
<1> DEFINE c == CustomerOf[o]
<1>1. c \in Customers /\ o \notin Customers /\ c \notin Orders
  BY OrdersAssumption, RowsAssumption
<1>2. BalancesOf(o) \subseteq Products /\ Products \subseteq Int
  BY BalancesAreProducts DEF Products
<1>3. r \in Rows /\ r \in {o, c} \cup Products
  BY <1>1, <1>2 DEF HeldInOrder, Rows
<1>4. \A q \in Products : q \notin Orders /\ q \notin Customers /\ q >= 1
  BY RowsAssumption DEF Products
<1>5. CASE r \in Products
  <2>1. s \in Products /\ r < s
    BY <1>5, BalanceIsNext DEF Climbs, OrderFirst
  <2>2. OrderLadder[r] = r + 1 /\ OrderLadder[s] = s + 1
    BY <1>3, <1>4, <1>5, <2>1 DEF OrderLadder
  <2> QED
    BY <1>2, <1>5, <2>1, <2>2
<1>6. CASE r \in {o, c}
  <2>1. s \in BalancesOf(o) \/ (r = o /\ s = c)
    BY <1>1, <1>6 DEF HeldInOrder, Climbs, OrderFirst, LocksNext, ApproveOrder, DispatchOrder,
         CompleteDelivery, LockOrderThenCustomer, LockBalancesForUpdate, LockItemByItem, BalancesOf
  <2> QED
    <3>1. CASE s \in BalancesOf(o)
      <4>1. s \in Int /\ s >= 1 /\ OrderLadder[s] = s + 1
        BY <1>2, <1>4, <3>1 DEF OrderLadder
      <4>2. OrderLadder[r] \in {0, 1}
        BY <1>1, <1>3, <1>6 DEF OrderLadder
      <4> QED
        BY <4>1, <4>2
    <3>2. CASE s \notin BalancesOf(o)
      BY <1>1, <1>3, <2>1, <3>2 DEF OrderLadder
    <3> QED
      BY <3>1, <3>2
<1> QED
  BY <1>3, <1>5, <1>6

LEMMA CustomerFirstClimbs ==
  ASSUME NEW k \in Kinds, NEW o \in Orders, NEW hs, NEW r \in hs, NEW s \in Rows,
         HeldInOrder(k, o, hs), Climbs(k, o, CustomerFirst), LocksNext(k, s, o, hs)
  PROVE  CustomerLadder[r] < CustomerLadder[s]
<1> DEFINE c == CustomerOf[o]
<1>1. c \in Customers /\ o \notin Customers /\ c \notin Orders
  BY OrdersAssumption, RowsAssumption
<1>2. BalancesOf(o) \subseteq Products /\ Products \subseteq Int
  BY BalancesAreProducts DEF Products
<1>3. r \in Rows /\ r \in {o, c} \cup Products
  BY <1>1, <1>2 DEF HeldInOrder, Rows
<1>4. \A q \in Products : q \notin Orders /\ q \notin Customers /\ q >= 1
  BY RowsAssumption DEF Products
<1>5. CASE r \in Products
  <2>1. s \in Products /\ r < s
    BY <1>5, BalanceIsNext DEF Climbs, CustomerFirst
  <2>2. CustomerLadder[r] = r + 1 /\ CustomerLadder[s] = s + 1
    BY <1>3, <1>4, <1>5, <2>1 DEF CustomerLadder
  <2> QED
    BY <1>2, <1>5, <2>1, <2>2
<1>6. CASE r \in {o, c}
  <2>1. s \in BalancesOf(o) \/ (r = c /\ s = o)
    BY <1>1, <1>6 DEF HeldInOrder, Climbs, CustomerFirst, LocksNext, RecordPayment, ApproveReturn,
         CompleteDelivery, LockCustomerThenOrder, LockBalancesForUpdate, LockItemByItem, BalancesOf
  <2> QED
    <3>1. CASE s \in BalancesOf(o)
      <4>1. s \in Int /\ s >= 1 /\ CustomerLadder[s] = s + 1
        BY <1>2, <1>4, <3>1 DEF CustomerLadder
      <4>2. CustomerLadder[r] \in {0, 1}
        BY <1>1, <1>3, <1>6 DEF CustomerLadder
      <4> QED
        BY <4>1, <4>2
    <3>2. CASE s \notin BalancesOf(o)
      BY <1>1, <1>3, <2>1, <3>2 DEF CustomerLadder
    <3> QED
      BY <3>1, <3>2
<1> QED
  BY <1>3, <1>5, <1>6

-----------------------------------------------------------------------------
(* Nobody waits in a circle of climbers.                                   *)

LEMMA NoCircleOfClimbers ==
  ASSUME LocksTypeOK, NEW ws \in SUBSET Requests, ws # {}, Stuck(ws),
         NEW top \in Nat, NEW rank \in [Rows -> 0..top],
         \A w \in ws : \A r \in held[w] : \A s \in Rows : Wants(w, s) => rank[r] < rank[s]
  PROVE  FALSE
<1> DEFINE Contested == {r \in Rows : \E w, v \in ws : r \in held[v] /\ Wants(w, r)}
           Depth == {top - rank[r] : r \in Contested}
<1>1. \A w \in ws : \E v \in ws : \E r \in held[v] : Wants(w, r) /\ r \in Contested
  BY DEF Stuck, WaitsFor, LocksTypeOK
<1>2. \A r \in Contested : rank[r] \in Int /\ rank[r] <= top
  <2>1. \A r \in Contested : rank[r] \in 0..top
    OBVIOUS
  <2> QED
    BY <2>1
<1>3. Depth \subseteq Nat /\ Depth # {}
  <2>1. \A r \in Contested : top - rank[r] \in Nat
    BY <1>2
  <2>2. Contested # {}
    BY <1>1
  <2> QED
    BY <2>1, <2>2
<1>4. PICK d \in Depth : \A e \in Depth : ~(<<e, d>> \in OpToRel(<, Nat))
  BY <1>3, NatLessThanWellFounded, WFMin
<1>5. PICK r \in Contested : d = top - rank[r]
  OBVIOUS
<1>6. PICK v \in ws : r \in held[v]
  BY <1>5
<1>7. PICK s \in Contested : Wants(v, s)
  BY <1>1, <1>6
<1>8. rank[r] < rank[s]
  BY <1>6, <1>7
<1>9. top - rank[s] \in Depth /\ top - rank[s] < d
  <2>1. \A i, j \in Int : i < j => top - j < top - i
    OBVIOUS
  <2>2. top - rank[s] < top - rank[r]
    BY <1>2, <1>8, <2>1
  <2> QED
    BY <1>5, <2>2
<1> QED
  BY <1>3, <1>4, <1>9 DEF OpToRel

LEMMA CirclesAreInverted == LockInv => OnlyInversionsDeadlock
<1> SUFFICES ASSUME LockInv, NEW ws \in SUBSET Requests, ws # {}, Stuck(ws), ~Inverted(ws)
             PROVE  FALSE
  BY DEF OnlyInversionsDeadlock
<1>1. LocksTypeOK /\ \A w \in ws : HeldInOrder(kind[w], order[w], held[w])
  BY DEF LockInv, TypeInv
<1>2. \A w \in ws : kind[w] \in Kinds /\ order[w] \in Orders
  BY <1>1 DEF LocksTypeOK
<1>3. LastProduct + 1 \in Nat
  BY OrdersAssumption
<1>4. CASE \A w \in ws : kind[w] \notin CustomerFirst
  <2>1. \A w \in ws : Climbs(kind[w], order[w], OrderFirst)
    BY <1>2, <1>4 DEF Climbs, Inverted, Kinds
  <2>2. \A w \in ws : \A r \in held[w] : \A s \in Rows :
          Wants(w, s) => OrderLadder[r] < OrderLadder[s]
    BY <1>1, <1>2, <2>1, OrderFirstClimbs DEF Wants
  <2> QED
    BY <1>1, <2>2, <1>3, LaddersTyped, NoCircleOfClimbers
<1>5. CASE \A w \in ws : kind[w] \notin OrderFirst
  <2>1. \A w \in ws : Climbs(kind[w], order[w], CustomerFirst)
    BY <1>2, <1>5 DEF Climbs, Inverted, Kinds
  <2>2. \A w \in ws : \A r \in held[w] : \A s \in Rows :
          Wants(w, s) => CustomerLadder[r] < CustomerLadder[s]
    BY <1>1, <1>2, <2>1, CustomerFirstClimbs DEF Wants
  <2> QED
    BY <1>1, <2>2, <1>3, LaddersTyped, NoCircleOfClimbers
<1> QED
  BY <1>4, <1>5 DEF Inverted

(* No mix of transactions deadlocks, unless two of them lock a customer and *)
(* an order the opposite ways round or a delivery's items do not ascend.    *)
THEOREM OnlyInversions == Spec => []OnlyInversionsDeadlock
BY InitLockInv, StepLockInv, CirclesAreInverted, PTL DEF Spec
=============================================================================
