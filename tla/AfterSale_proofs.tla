-------------------------- MODULE AfterSale_proofs --------------------------
(***************************************************************************)
(* Theorems about AfterSale, for any finite set of lines, deliveries and   *)
(* prices, any staff and any number of documents: the types, the safety    *)
(* invariants of returns, credit notes and refunds, and that the whole     *)
(* chain implements MoneyBack.  All of them follow from one inductive      *)
(* invariant, SaleInv.                                                     *)
(***************************************************************************)
EXTENDS AfterSale, OperatorLemmas, SequenceTheorems

-----------------------------------------------------------------------------
(* Totals of functions on a finite set. *)

(* A total is the sum over the function's domain. *)
LEMMA TotalIs ==
  ASSUME NEW f, NEW S, DOMAIN f = S
  PROVE  Total(f) = SumFunctionOnSet(f, S)
BY DEF Total, SumFunction

(* A total of integers is an integer, one of natural numbers a natural number. *)
LEMMA TotalType ==
  ASSUME NEW S, IsFiniteSet(S)
  PROVE  /\ \A f \in [S -> Int] : Total(f) \in Int
         /\ \A f \in [S -> Nat] : Total(f) \in Nat
<1>1. ASSUME NEW f \in [S -> Int] PROVE Total(f) \in Int
  BY TotalIs, SumType
<1>2. ASSUME NEW f \in [S -> Nat] PROVE Total(f) \in Nat
  BY TotalIs, SumNat
<1> QED
  BY <1>1, <1>2

(* One value changes the total by as much as it changes itself. *)
LEMMA TotalChanges ==
  ASSUME NEW S, IsFiniteSet(S), NEW f \in [S -> Int], NEW g \in [S -> Int], NEW x \in S,
         \A y \in S : y # x => g[y] = f[y]
  PROVE  Total(g) = Total(f) + (g[x] - f[x])
<1>1. Total(f) = SumFunctionOnSet(f, S) /\ Total(g) = SumFunctionOnSet(g, S)
  BY TotalIs
<1>2. \A y \in S : f[y] \in Int /\ g[y] \in Int /\ (y # x => g[y] = f[y])
  OBVIOUS
<1> QED
  BY <1>1, <1>2, SumChanged

(* f and g give integers and differ at most at x. *)
DifferAt(f, g, S, x) ==
  /\ f \in [S -> Int] /\ g \in [S -> Int] /\ x \in S
  /\ \A y \in S : y # x => g[y] = f[y]

(* Then their totals differ as their values at x do. *)
LEMMA TotalDiffers ==
  ASSUME NEW S, IsFiniteSet(S), NEW f, NEW g, NEW x, DifferAt(f, g, S, x)
  PROVE  Total(g) = Total(f) + (g[x] - f[x])
BY TotalChanges DEF DifferAt

(* U has one more element than S: x. *)
Extends(U, S, x) == x \notin S /\ U = S \cup {x}

(* A new value is added. *)
LEMMA TotalExtended ==
  ASSUME NEW S, IsFiniteSet(S), NEW U, NEW x, Extends(U, S, x),
         NEW f \in [S -> Int], NEW g \in [U -> Int], \A y \in S : g[y] = f[y]
  PROVE  Total(g) = Total(f) + g[x]
<1>0. x \notin S /\ U = S \cup {x}
  BY DEF Extends
<1>1. Total(f) = SumFunctionOnSet(f, S) /\ Total(g) = SumFunctionOnSet(g, U)
  BY TotalIs
<1>2. IsFiniteSet(U)
  BY <1>0, FS_AddElement
<1>3. S \ {x} = U \ {x} /\ x \in U /\ g[x] \in Int
  BY <1>0
<1>4. \A y \in S : f[y] \in Int
  OBVIOUS
<1>5. \A y \in U : g[y] \in Int
  OBVIOUS
<1>6. \A y \in S \cap U : y # x => g[y] = f[y]
  BY <1>0
<1>7. SumFunctionOnSet(g, U) =
        SumFunctionOnSet(f, S) + (IF x \in U THEN g[x] ELSE 0) - (IF x \in S THEN f[x] ELSE 0)
  BY <1>2, <1>3, <1>4, <1>5, <1>6, SumMoved
<1>8. SumFunctionOnSet(f, S) \in Int
  BY <1>4, SumType
<1> QED
  BY <1>0, <1>1, <1>3, <1>7, <1>8

(* Totals add up term by term. *)
LEMMA TotalAdded ==
  ASSUME NEW S, IsFiniteSet(S), NEW f \in [S -> Int], NEW g \in [S -> Int], NEW h \in [S -> Int],
         \A x \in S : h[x] = f[x] + g[x]
  PROVE  Total(h) = Total(f) + Total(g)
<1>1. /\ Total(f) = SumFunctionOnSet(f, S) /\ Total(g) = SumFunctionOnSet(g, S)
      /\ Total(h) = SumFunctionOnSet(h, S)
  BY TotalIs
<1>2. \A x \in S : f[x] \in Int /\ g[x] \in Int /\ h[x] = f[x] + g[x]
  OBVIOUS
<1> QED
  BY <1>1, <1>2, SumPlus

(* They are ordered as their terms are. *)
LEMMA TotalOrdered ==
  ASSUME NEW S, IsFiniteSet(S), NEW f \in [S -> Int], NEW g \in [S -> Int],
         \A x \in S : f[x] <= g[x]
  PROVE  Total(f) <= Total(g)
<1>1. Total(f) = SumFunctionOnSet(f, S) /\ Total(g) = SumFunctionOnSet(g, S)
  BY TotalIs
<1>2. \A x \in S : f[x] \in Int /\ g[x] \in Int /\ f[x] <= g[x]
  OBVIOUS
<1> QED
  BY <1>1, <1>2, SumAtMost

(* Where all terms are zero there is nothing to add up. *)
LEMMA TotalZero ==
  ASSUME NEW S, IsFiniteSet(S), NEW f, DOMAIN f = S, \A x \in S : f[x] = 0
  PROVE  Total(f) = 0
BY TotalIs, SumZero

(* f is g on T and zero on the rest of S. *)
Pads(f, g, S, T) ==
  /\ T \subseteq S /\ f \in [S -> Int] /\ g \in [T -> Int]
  /\ \A x \in S : f[x] = IF x \in T THEN g[x] ELSE 0

(* Terms outside a part may be left out when they are zero. *)
LEMMA TotalSupport ==
  ASSUME NEW S, IsFiniteSet(S), NEW T, NEW f, NEW g, Pads(f, g, S, T)
  PROVE  Total(f) = Total(g)
<1>0. /\ T \subseteq S /\ f \in [S -> Int] /\ g \in [T -> Int]
      /\ \A x \in S : f[x] = IF x \in T THEN g[x] ELSE 0
  BY DEF Pads
<1>1. IsFiniteSet(T)
  BY <1>0, FS_Subset
<1>2. Total(f) = SumFunctionOnSet(f, S) /\ Total(g) = SumFunctionOnSet(g, T)
  BY <1>0, TotalIs
<1>3. SumFunctionOnSet(f, S) = SumFunctionOnSet(f, T)
  <2>1. \A x \in S : f[x] \in Int
    BY <1>0
  <2>2. \A x \in S : x \notin T => f[x] = 0
    BY <1>0
  <2> QED
    BY <1>0, <2>1, <2>2, SumSupport
<1>4. SumFunctionOnSet(f, T) = SumFunctionOnSet(g, T)
  <2>1. \A x \in T : f[x] \in Int /\ f[x] = g[x]
    BY <1>0
  <2> QED
    BY <1>1, <2>1, SumSame
<1> QED
  BY <1>2, <1>3, <1>4

-----------------------------------------------------------------------------
(* Spreading returned pieces over the allocations of a line. *)

(* A set of natural numbers has a least one. *)
LEMMA LeastNumber ==
  ASSUME NEW T, T \subseteq Nat, T # {}
  PROVE  \E n \in T : \A m \in T : n <= m
<1>1. PICK n \in T : \A m \in T : ~ (<<m, n>> \in OpToRel(<, Nat))
  BY NatLessThanWellFounded, WFMin
<1>2. \A m \in T : ~ (m < n)
  BY <1>1 DEF OpToRel
<1> QED
  BY <1>2

(* A sum over the first i numbers ends with its last term. *)
LEMMA SumUpTo ==
  ASSUME NEW i \in Nat \ {0}, NEW f, \A x \in 1..i : f[x] \in Int
  PROVE  SumFunctionOnSet(f, 1..i) = f[i] + SumFunctionOnSet(f, 1..(i - 1))
<1> DEFINE U == 1..i
<1>1. IsFiniteSet(U) /\ i \in U /\ U \ {i} = 1..(i - 1) /\ \A x \in U : f[x] \in Int
  BY FS_Interval
<1> HIDE DEF U
<1>2. SumFunctionOnSet(f, U) = f[i] + SumFunctionOnSet(f, U \ {i})
  BY <1>1, SumRemove
<1> QED
  BY <1>1, <1>2 DEF U

(* share is what each of n allocations takes of q pieces, in their order, each
   as much as it has room for. *)
InTurn(share, room, n, q) ==
  /\ share \in [1..n -> Nat] /\ room \in [1..n -> Nat]
  /\ \A i \in 1..n : share[i] = Lesser(room[i], Max0(q - SumFunctionOnSet(room, 1..(i - 1))))

(* The first k allocations take q pieces, or all they have room for. *)
LEMMA SpreadPrefix ==
  ASSUME NEW n \in Nat, NEW q \in Nat, NEW room, NEW share,
         InTurn(share, room, n, q)
  PROVE  \A k \in 0..n : SumFunctionOnSet(share, 1..k) = Lesser(q, SumFunctionOnSet(room, 1..k))
<1>0. share \in [1..n -> Nat] /\ room \in [1..n -> Nat]
  BY DEF InTurn
<1> DEFINE Bad == {i \in 0..n :
             SumFunctionOnSet(share, 1..i) # Lesser(q, SumFunctionOnSet(room, 1..i))}
<1>1. SUFFICES ASSUME Bad # {} PROVE FALSE
  OBVIOUS
<1>2. PICK i \in Bad : \A j \in Bad : i <= j
  <2>1. Bad \subseteq Nat
    OBVIOUS
  <2> HIDE DEF Bad
  <2> QED
    BY <1>1, <2>1, LeastNumber
<1>3. \A j \in 0..n : IsFiniteSet(1..j)
  BY FS_Interval
<1>4. \A j \in 0..n : SumFunctionOnSet(room, 1..j) \in Nat
  <2> SUFFICES ASSUME NEW j \in 0..n PROVE SumFunctionOnSet(room, 1..j) \in Nat
    OBVIOUS
  <2>1. \A x \in 1..j : room[x] \in Nat
    BY <1>0
  <2> QED
    BY <1>3, <2>1, SumNat
<1>5. i # 0
  <2> SUFFICES ASSUME i = 0 PROVE FALSE
    OBVIOUS
  <2>1. 1..i = {}
    OBVIOUS
  <2>2. SumFunctionOnSet(share, 1..i) = 0 /\ SumFunctionOnSet(room, 1..i) = 0
    BY <2>1, SumEmpty
  <2> QED
    BY <2>2 DEF Lesser
<1>6. i \in 1..n /\ i - 1 \in 0..n /\ i \in Nat \ {0}
  BY <1>5
<1>7. SumFunctionOnSet(share, 1..(i - 1)) = Lesser(q, SumFunctionOnSet(room, 1..(i - 1)))
  BY <1>2, <1>6
<1>8. (1..i) \ {i} = 1..(i - 1) /\ i \in 1..i /\ \A x \in 1..i : x \in 1..n /\ x - 1 \in 0..n
  BY <1>6
<1>9. SumFunctionOnSet(room, 1..i) = room[i] + SumFunctionOnSet(room, 1..(i - 1))
  <2>1. \A x \in 1..i : room[x] \in Int
    BY <1>0, <1>8
  <2> QED
    BY <1>6, <2>1, SumUpTo, Zenon
<1>10. SumFunctionOnSet(share, 1..i) = share[i] + SumFunctionOnSet(share, 1..(i - 1))
  <2>1. \A x \in 1..i : share[x] \in Int
    BY <1>0, <1>8
  <2> QED
    BY <1>6, <2>1, SumUpTo, Zenon
<1>11. /\ share[i] = Lesser(room[i], Max0(q - SumFunctionOnSet(room, 1..(i - 1))))
       /\ room[i] \in Nat /\ SumFunctionOnSet(room, 1..(i - 1)) \in Nat
  BY <1>4, <1>6 DEF InTurn
<1>12. \A s, t \in Nat :
         Lesser(s, Max0(q - t)) + Lesser(q, t) = Lesser(q, s + t)
  BY DEF Lesser, Max0
<1>13. SumFunctionOnSet(share, 1..i) = Lesser(q, SumFunctionOnSet(room, 1..i))
  BY <1>7, <1>9, <1>10, <1>11, <1>12
<1> QED
  BY <1>13

(* n allocations have room for q pieces more. *)
HasRoom(n, before, delivered, q) ==
  /\ before \in [1..n -> Nat] /\ delivered \in [1..n -> Nat]
  /\ \A i \in 1..n : before[i] <= delivered[i]
  /\ Total(before) + q <= Total(delivered)

(* after is what n allocations hold that have taken q more. *)
HaveTaken(n, before, delivered, q, after) ==
  /\ after \in [1..n -> Nat]
  /\ \A i \in 1..n : after[i] <= delivered[i]
  /\ Total(after) = Total(before) + q

(* Allocations never take more than they delivered, and together they take
   every piece when there is room for it. *)
LEMMA SpreadEffect ==
  ASSUME NEW n \in Nat, NEW before, NEW delivered, NEW q \in Nat,
         HasRoom(n, before, delivered, q)
  PROVE  HaveTaken(n, before, delivered, q, Spread(before, delivered, q))
<1> DEFINE room == [i \in 1..n |-> Max0(delivered[i] - before[i])]
           share == [i \in 1..n |->
             Lesser(room[i], Max0(q - SumFunctionOnSet(room, 1..(i - 1))))]
           after == Spread(before, delivered, q)
<1>0. /\ before \in [1..n -> Nat] /\ delivered \in [1..n -> Nat]
      /\ \A i \in 1..n : before[i] <= delivered[i]
      /\ Total(before) + q <= Total(delivered)
  BY DEF HasRoom
<1>1. IsFiniteSet(1..n) /\ \A i \in 1..n : IsFiniteSet(1..(i - 1))
  BY FS_Interval
<1>2. room \in [1..n -> Nat]
  <2>1. \A i \in 1..n : delivered[i] - before[i] \in Int
    BY <1>0
  <2>2. \A i \in 1..n : Max0(delivered[i] - before[i]) \in Nat
    BY <2>1, Max0Type
  <2> QED
    BY <2>2
<1>3. \A i \in 1..n : room[i] = delivered[i] - before[i]
  BY <1>0 DEF Max0
<1>4. \A i \in 1..n : SumFunctionOnSet(room, 1..(i - 1)) \in Nat
  <2> SUFFICES ASSUME NEW i \in 1..n PROVE SumFunctionOnSet(room, 1..(i - 1)) \in Nat
    OBVIOUS
  <2>1. \A x \in 1..(i - 1) : room[x] \in Nat
    BY <1>2
  <2> HIDE DEF room
  <2> QED
    BY <1>1, <2>1, SumNat
<1>5. \A i \in 1..n : Total([j \in 1..(i - 1) |-> Max0(delivered[j] - before[j])])
                        = SumFunctionOnSet(room, 1..(i - 1))
  <2> SUFFICES ASSUME NEW i \in 1..n
               PROVE  Total([j \in 1..(i - 1) |-> Max0(delivered[j] - before[j])])
                        = SumFunctionOnSet(room, 1..(i - 1))
    OBVIOUS
  <2> DEFINE part == [j \in 1..(i - 1) |-> Max0(delivered[j] - before[j])]
  <2>1. \A j \in 1..(i - 1) : part[j] \in Int /\ part[j] = room[j]
    BY <1>2
  <2>2. DOMAIN part = 1..(i - 1)
    OBVIOUS
  <2> HIDE DEF part, room
  <2>3. Total(part) = SumFunctionOnSet(part, 1..(i - 1))
    BY <2>2, TotalIs
  <2>4. SumFunctionOnSet(part, 1..(i - 1)) = SumFunctionOnSet(room, 1..(i - 1))
    BY <1>1, <2>1, SumSame
  <2> QED
    BY <2>3, <2>4 DEF part
<1>6. /\ DOMAIN after = 1..n
      /\ \A i \in 1..n : after[i] = before[i] + share[i]
  BY <1>0, <1>5 DEF Spread
<1>7. \A i \in 1..n :
        share[i] = Lesser(room[i], Max0(q - SumFunctionOnSet(room, 1..(i - 1))))
  OBVIOUS
<1>8. after = [i \in 1..n |-> after[i]] /\ share = [i \in 1..n |-> share[i]]
  BY <1>0 DEF Spread
<1> HIDE DEF room, share, after
<1>9. ASSUME NEW i \in 1..n
      PROVE  share[i] \in Nat /\ after[i] \in Nat /\ after[i] <= delivered[i]
  <2>1. /\ room[i] \in Nat /\ room[i] = delivered[i] - before[i]
        /\ SumFunctionOnSet(room, 1..(i - 1)) \in Nat
        /\ before[i] \in Nat /\ delivered[i] \in Nat
    BY <1>0, <1>2, <1>3, <1>4
  <2> DEFINE sofar == SumFunctionOnSet(room, 1..(i - 1))
  <2>2. sofar \in Nat /\ share[i] = Lesser(room[i], Max0(q - sofar))
    BY <1>7, <2>1
  <2> HIDE DEF sofar
  <2>3. share[i] \in Nat /\ share[i] <= room[i]
    BY <2>1, <2>2 DEF Lesser, Max0
  <2> QED
    BY <1>6, <2>1, <2>3
<1>10. after \in [1..n -> Nat] /\ share \in [1..n -> Nat]
  <2>1. \A i \in 1..n : after[i] \in Nat /\ share[i] \in Nat
    BY <1>9
  <2> QED
    BY <1>8, <2>1
<1>11. SumFunctionOnSet(share, 1..n) = Lesser(q, SumFunctionOnSet(room, 1..n))
  <2>1. n \in 0..n
    OBVIOUS
  <2>2. InTurn(share, room, n, q)
    BY <1>2, <1>7, <1>10 DEF InTurn
  <2>3. \A j \in 0..n : SumFunctionOnSet(share, 1..j) = Lesser(q, SumFunctionOnSet(room, 1..j))
    BY <2>2, SpreadPrefix
  <2> QED
    BY <2>1, <2>3
<1>12. SumFunctionOnSet(delivered, 1..n) = SumFunctionOnSet(before, 1..n) + SumFunctionOnSet(room, 1..n)
  <2>1. \A x \in 1..n : before[x] \in Int /\ room[x] \in Int /\ delivered[x] = before[x] + room[x]
    BY <1>0, <1>2, <1>3
  <2> QED
    BY <1>1, <2>1, SumPlus
<1>13. SumFunctionOnSet(after, 1..n) = SumFunctionOnSet(before, 1..n) + SumFunctionOnSet(share, 1..n)
  <2>1. \A x \in 1..n : before[x] \in Int /\ share[x] \in Int /\ after[x] = before[x] + share[x]
    BY <1>0, <1>6, <1>9
  <2> QED
    BY <1>1, <2>1, SumPlus
<1>14. /\ Total(before) = SumFunctionOnSet(before, 1..n)
       /\ Total(delivered) = SumFunctionOnSet(delivered, 1..n)
       /\ Total(after) = SumFunctionOnSet(after, 1..n)
  BY <1>0, <1>10, TotalIs
<1>15. SumFunctionOnSet(before, 1..n) \in Int /\ SumFunctionOnSet(room, 1..n) \in Nat
  BY <1>0, <1>1, <1>2, SumType, SumNat
<1>16. SumFunctionOnSet(share, 1..n) = q
  BY <1>0, <1>11, <1>12, <1>14, <1>15 DEF Lesser
<1>17. Total(after) = Total(before) + q
  BY <1>13, <1>14, <1>16
<1> QED
  BY <1>9, <1>10, <1>17 DEF after, HaveTaken
-----------------------------------------------------------------------------
(* Steps and the transactions they make. *)

RefundStatuses == Undecided \cup {"APPROVED", "PROCESSED", "REJECTED", "CANCELLED"}

(* A transaction of CustomerReturns, on rows that exist. *)
ReturnsMove ==
  \/ \E u \in Staff, want \in Columns : CreateRequest(u, want)
  \/ \E r \in Returns, got \in Columns : RecordInspection(r, got)
  \/ \E u \in Staff, r \in Returns, good \in Columns, damaged \in Columns :
       ApproveReturn(u, r, good, damaged)
  \/ \E u \in Staff, r \in Returns : RejectReturn(u, r)
  \/ \E r \in Returns : CancelReturn(r)

(* A transaction of CreditRefunds, on rows that exist. *)
MoneyMoves ==
  \/ \E r \in Returns : Generate(r)
  \/ \E u \in Staff, r \in 1..MaxReturns, amount \in Nat \ {0} : CreateRefund(u, r, amount)
  \/ \E f \in Refunds, s \in RefundStatuses \ {"PROCESSED"} :
       refunds[f].status \notin {"PROCESSED", "REJECTED"} /\ MoveTo(f, s)
  \/ \E f \in Refunds : ProcessRefund(f)

(* A page of a document names one that exists. *)
Knows(shown) ==
  /\ shown.at = "return" => shown.id \in Returns
  /\ shown.at = "refund" => shown.id \in Refunds

PagesKnow == \A u \in Staff : Knows(page[u])

PagesTyped == DOMAIN page = Staff /\ \A u \in Staff : page[u] \in Pages

(* Numbers chosen in a form are natural numbers. *)
LEMMA WithinColumns ==
  ASSUME NEW most \in Columns
  PROVE  Within(most) \subseteq Columns
<1> SUFFICES ASSUME NEW q \in Within(most) PROVE q \in Columns
  OBVIOUS
<1>1. q \in [Lines -> UNION {0..most[l] : l \in Lines}]
  BY DEF Within
<1>2. UNION {0..most[l] : l \in Lines} \subseteq Nat
  BY DEF Columns
<1> QED
  BY <1>1, <1>2 DEF Columns

(* What a page shows depends on where it is. *)
LEMMA PageRows ==
  ASSUME NEW shown \in Pages
  PROVE  /\ shown.at = "newReturn" => shown.doc \in Columns
         /\ shown.at = "return" =>
              /\ shown.id \in 1..MaxReturns /\ shown.doc \in ReturnRows
              /\ \A doc : [shown EXCEPT !.doc = doc] = [at |-> "return", id |-> shown.id, doc |-> doc]
         /\ shown.at = "note" => shown.id \in 1..MaxReturns /\ shown.doc \in Notes
         /\ shown.at = "refund" =>
              /\ shown.id \in 1..MaxRefunds /\ shown.doc \in RefundRows
              /\ \A doc : [shown EXCEPT !.doc = doc] = [at |-> "refund", id |-> shown.id, doc |-> doc]
<1>1. CASE shown = Away
  BY <1>1 DEF Away
<1>2. CASE shown \in [at : {"newReturn"}, doc : Columns]
  BY <1>2
<1>3. CASE shown \in [at : {"return"}, id : 1..MaxReturns, doc : ReturnRows]
  BY <1>3
<1>4. CASE shown \in [at : {"note"}, id : 1..MaxReturns, doc : Notes]
  BY <1>4
<1>5. CASE shown \in [at : {"refund"}, id : 1..MaxRefunds, doc : RefundRows]
  BY <1>5
<1> QED
  BY <1>1, <1>2, <1>3, <1>4, <1>5 DEF Pages

(* A step is a transaction on existing rows, or only pages change. *)
LEMMA Transacts ==
  ASSUME AfterSaleTypeOK, PagesKnow, [Next]_vars
  PROVE  \/ ReturnsMove /\ UNCHANGED money
         \/ MoneyMoves /\ UNCHANGED goods
         \/ UNCHANGED <<goods, money>>
<1>1. CASE UNCHANGED vars
  BY <1>1 DEF vars
<1>2. CASE IssueCredit
  BY <1>2 DEF IssueCredit, MoneyMoves
<1>3. ASSUME NEW u \in Staff,
             OpenForm(u) \/ OpenReturn(u) \/ OpenNote(u) \/ OpenRefund(u)
      PROVE  UNCHANGED <<goods, money>>
  BY <1>3 DEF OpenForm, OpenReturn, OpenNote, OpenRefund, TurnTo
<1>4. ASSUME NEW u \in Staff
      PROVE  page[u] \in Pages /\ Knows(page[u])
  BY DEF AfterSaleTypeOK, PagesKnow
<1>5. ASSUME NEW u \in Staff, RequestReturn(u)
      PROVE  ReturnsMove /\ UNCHANGED money
  <2>1. page[u].doc \in Columns
    BY <1>4, <1>5, PageRows DEF RequestReturn, On
  <2>2. PICK want \in Within(page[u].doc) : CreateRequest(u, want)
    BY <1>5 DEF RequestReturn, Wants, Doc
  <2>3. want \in Columns
    BY <2>1, WithinColumns
  <2> QED
    BY <1>5, <2>2, <2>3 DEF RequestReturn, ReturnsMove
<1>6. ASSUME NEW u \in Staff, page[u].at = "return"
      PROVE  page[u].id \in Returns /\ page[u].doc \in ReturnRows
  BY <1>4, <1>6, PageRows DEF Knows
<1>7. ASSUME NEW u \in Staff, Inspect(u)
      PROVE  ReturnsMove /\ UNCHANGED money
  <2>1. page[u].id \in Returns /\ page[u].doc.requested \in Columns
    BY <1>6, <1>7 DEF Inspect, On, ReturnRows
  <2>2. PICK got \in Within(page[u].doc.requested) : RecordInspection(page[u].id, got)
    BY <1>7 DEF Inspect, Counts, Doc, Id
  <2>3. got \in Columns
    BY <2>1, WithinColumns
  <2> QED
    BY <1>7, <2>1, <2>2, <2>3 DEF Inspect, ReturnsMove
<1>8. ASSUME NEW u \in Staff, Approve(u)
      PROVE  ReturnsMove /\ UNCHANGED money
  <2>1. page[u].id \in Returns /\ page[u].doc.received \in Columns
    BY <1>6, <1>8 DEF Approve, On, ReturnRows
  <2>2. PICK s \in Splits(u) : ApproveReturn(u, page[u].id, s.good, s.damaged)
    BY <1>8 DEF Approve, Id
  <2>3. s.good \in Within(page[u].doc.received) /\ s.damaged \in Within(page[u].doc.received)
    BY DEF Splits, Doc
  <2>4. s.good \in Columns /\ s.damaged \in Columns
    BY <2>1, <2>3, WithinColumns
  <2> QED
    BY <1>8, <2>1, <2>2, <2>4 DEF Approve, ReturnsMove
<1>9. ASSUME NEW u \in Staff, Reject(u) \/ Cancel(u)
      PROVE  ReturnsMove /\ UNCHANGED money
  <2>1. page[u].id \in Returns
    BY <1>6, <1>9 DEF Reject, Cancel, On
  <2> QED
    BY <1>9, <2>1 DEF Reject, Cancel, Id, ReturnsMove
<1>10. ASSUME NEW u \in Staff, RequestRefund(u)
       PROVE  MoneyMoves /\ UNCHANGED goods
  <2>1. page[u].id \in 1..MaxReturns /\ page[u].doc \in Notes
    BY <1>4, <1>10, PageRows DEF RequestRefund, On
  <2>2. PICK amount \in 1..page[u].doc.remaining : CreateRefund(u, page[u].id, amount)
    BY <1>10 DEF RequestRefund, Amounts, Doc, Id
  <2>3. amount \in Nat \ {0}
    OBVIOUS
  <2> QED
    BY <1>10, <2>1, <2>2, <2>3 DEF RequestRefund, MoneyMoves
<1>11. ASSUME NEW u \in Staff, Decide(u)
       PROVE  MoneyMoves /\ UNCHANGED goods
  <2>1. page[u].id \in Refunds
    BY <1>4, <1>11 DEF Decide, On, Knows
  <2> DEFINE f == page[u].id
  <2>2. \/ Review(f) \/ ApproveRefund(u, f) \/ RejectRefund(u, f) \/ CancelRefund(f)
        \/ ProcessRefund(f)
    BY <1>11 DEF Decide, Id
  <2>3. UNCHANGED goods
    BY <1>11 DEF Decide
  <2> HIDE DEF f
  <2>4. CASE ProcessRefund(f)
    BY <2>1, <2>3, <2>4 DEF MoneyMoves, f
  <2>5. ASSUME NEW s \in RefundStatuses \ {"PROCESSED"},
               refunds[f].status \in Undecided, MoveTo(f, s)
        PROVE  MoneyMoves
    BY <2>1, <2>5 DEF MoneyMoves, Undecided, f
  <2>6. CASE Review(f)
    BY <2>3, <2>5, <2>6 DEF Review, RefundStatuses, Undecided
  <2>7. CASE ApproveRefund(u, f)
    BY <2>3, <2>5, <2>7 DEF ApproveRefund, RefundStatuses, Undecided
  <2>8. CASE RejectRefund(u, f)
    BY <2>3, <2>5, <2>8 DEF RejectRefund, RefundStatuses, Undecided
  <2>9. CASE CancelRefund(f)
    BY <2>3, <2>5, <2>9 DEF CancelRefund, RefundStatuses, Undecided
  <2> QED
    BY <2>2, <2>4, <2>6, <2>7, <2>8, <2>9
<1> QED
  BY <1>1, <1>2, <1>3, <1>5, <1>7, <1>8, <1>9, <1>10, <1>11 DEF Next
-----------------------------------------------------------------------------
(* Rows. *)

(* A new row comes last and leaves the others alone. *)
LEMMA Appended ==
  ASSUME NEW S, NEW rows \in Seq(S), NEW row \in S, NEW after, after = Append(rows, row)
  PROVE  /\ after \in Seq(S) /\ Len(after) = Len(rows) + 1 /\ Len(rows) \in Nat
         /\ DOMAIN rows = 1..Len(rows) /\ DOMAIN after = DOMAIN rows \cup {Len(rows) + 1}
         /\ Len(rows) + 1 \notin DOMAIN rows
         /\ after[Len(rows) + 1] = row
         /\ \A i \in DOMAIN rows : after[i] = rows[i]
<1>1. Len(rows) \in Nat /\ rows \in [1..Len(rows) -> S] /\ DOMAIN rows = 1..Len(rows)
  BY LenProperties
<1>2. after \in Seq(S) /\ Len(after) = Len(rows) + 1
  OBVIOUS
<1>3. DOMAIN after = 1..(Len(rows) + 1)
  BY <1>2, LenProperties
<1>4. after[Len(rows) + 1] = row /\ \A i \in 1..Len(rows) : after[i] = rows[i]
  BY <1>1
<1> QED
  BY <1>1, <1>2, <1>3, <1>4

(* A row that is written again leaves the others alone. *)
LEMMA Replaced ==
  ASSUME NEW S, NEW rows \in Seq(S), NEW i \in DOMAIN rows, NEW row \in S,
         NEW after, after = [rows EXCEPT ![i] = row]
  PROVE  /\ after \in Seq(S) /\ Len(after) = Len(rows) /\ DOMAIN after = DOMAIN rows
         /\ after[i] = row
         /\ \A j \in DOMAIN rows : j # i => after[j] = rows[j]
<1>1. DOMAIN rows = 1..Len(rows)
  BY LenProperties
<1>2. /\ after \in Seq(S) /\ Len(after) = Len(rows)
      /\ \A j \in 1..Len(rows) : after[j] = IF j = i THEN row ELSE rows[j]
  BY <1>1, ExceptSeq
<1>3. DOMAIN after = DOMAIN rows
  BY <1>1, <1>2, LenProperties
<1> QED
  BY <1>1, <1>2, <1>3

(* The rows of a table are finitely many and of its type. *)
LEMMA RowsTyped ==
  ASSUME NEW S, NEW rows \in Seq(S)
  PROVE  /\ Len(rows) \in Nat /\ DOMAIN rows = 1..Len(rows)
         /\ IsFiniteSet(DOMAIN rows)
         /\ \A i \in DOMAIN rows : rows[i] \in S
<1>1. Len(rows) \in Nat /\ DOMAIN rows = 1..Len(rows)
  BY LenProperties
<1> QED
  BY <1>1, ElementOfSeq, FS_Interval

(* The rows the transactions of a return write. *)
RequestedRow(u, want) ==
  [status |-> "REQUESTED", by |-> u, requested |-> want, received |-> Nothing,
   good |-> Nothing, damaged |-> Nothing]

InspectedRow(r, got) == [returns[r] EXCEPT !.status = "INSPECTED", !.received = got]

DecidedRow(r, status, good, damaged) ==
  [returns[r] EXCEPT !.status = status, !.good = good, !.damaged = damaged]

CancelledRow(r) == [returns[r] EXCEPT !.status = "CANCELLED"]

(* Each of them is a row of the table. *)
LEMMA WrittenRows ==
  ASSUME ReturnsTypeOK
  PROVE  /\ \A u \in Staff, want \in Columns : RequestedRow(u, want) \in ReturnRows
         /\ \A r \in Returns, got \in Columns : InspectedRow(r, got) \in ReturnRows
         /\ \A r \in Returns, status \in Terminal, good \in Columns, damaged \in Columns :
              DecidedRow(r, status, good, damaged) \in ReturnRows
         /\ \A r \in Returns : CancelledRow(r) \in ReturnRows
<1>1. \A r \in Returns : returns[r] \in ReturnRows
  BY RowsTyped DEF ReturnsTypeOK, Returns
<1>2. Nothing \in Columns
  BY DEF Nothing, Columns
<1>3. \A u \in Staff, want \in Columns : RequestedRow(u, want) \in ReturnRows
  BY <1>2 DEF RequestedRow, ReturnRows, Open
<1>4. \A r \in Returns, got \in Columns : InspectedRow(r, got) \in ReturnRows
  BY <1>1 DEF InspectedRow, ReturnRows, Open
<1>6. \A r \in Returns : CancelledRow(r) \in ReturnRows
  BY <1>1 DEF CancelledRow, ReturnRows, Terminal
<1>5. \A r \in Returns, status \in Terminal, good \in Columns, damaged \in Columns :
        DecidedRow(r, status, good, damaged) \in ReturnRows
  BY <1>1 DEF DecidedRow, ReturnRows
<1> QED
  BY <1>3, <1>4, <1>5, <1>6

(* What a transaction of returns does to the table: it adds a request or
   writes one row, and only an approval touches the goods. *)
LEMMA ReturnsWritten ==
  ASSUME ReturnsTypeOK, ReturnsMove
  PROVE  \/ \E u \in Staff, want \in Columns :
              CreateRequest(u, want) /\ returns' = Append(returns, RequestedRow(u, want))
         \/ \E r \in Returns, got \in Columns :
              /\ RecordInspection(r, got)
              /\ returns' = [returns EXCEPT ![r] = InspectedRow(r, got)]
         \/ \E u \in Staff, r \in Returns, good \in Columns, damaged \in Columns :
              /\ ApproveReturn(u, r, good, damaged)
              /\ returns' = [returns EXCEPT ![r] = DecidedRow(r, "APPROVED", good, damaged)]
         \/ \E r \in Returns :
              /\ returns[r].status \in Open
              /\ \E row \in {DecidedRow(r, "REJECTED", Nothing, Nothing), CancelledRow(r)} :
                   returns' = [returns EXCEPT ![r] = row]
              /\ UNCHANGED <<returned, taken, balance>>
<1>1. \A r \in Returns : returns[r] \in ReturnRows
  BY RowsTyped DEF ReturnsTypeOK, Returns
<1>3. ASSUME NEW u \in Staff, NEW want \in Columns, CreateRequest(u, want)
      PROVE  returns' = Append(returns, RequestedRow(u, want))
  BY <1>3 DEF CreateRequest, RequestedRow
<1>4. ASSUME NEW r \in Returns, NEW got \in Columns, RecordInspection(r, got)
      PROVE  returns' = [returns EXCEPT ![r] = InspectedRow(r, got)]
  BY <1>4 DEF RecordInspection, InspectedRow
<1>5. ASSUME NEW u \in Staff, NEW r \in Returns, NEW good \in Columns, NEW damaged \in Columns,
             ApproveReturn(u, r, good, damaged)
      PROVE  returns' = [returns EXCEPT ![r] = DecidedRow(r, "APPROVED", good, damaged)]
  BY <1>5 DEF ApproveReturn, DecidedRow
<1>6. ASSUME NEW u \in Staff, NEW r \in Returns, RejectReturn(u, r)
      PROVE  /\ returns[r].status \in Open
             /\ returns' = [returns EXCEPT ![r] = DecidedRow(r, "REJECTED", Nothing, Nothing)]
             /\ UNCHANGED <<returned, taken, balance>>
  <2>1. returns[r].status \in Open \cup Terminal
    BY <1>1 DEF ReturnRows
  <2> QED
    BY <1>6, <2>1 DEF RejectReturn, DecidedRow
<1>7. ASSUME NEW r \in Returns, CancelReturn(r)
      PROVE  /\ returns[r].status \in Open
             /\ returns' = [returns EXCEPT ![r] = CancelledRow(r)]
             /\ UNCHANGED <<returned, taken, balance>>
  BY <1>7 DEF CancelReturn, CancelledRow, Open
<1> QED
  <2>1. CASE \E u \in Staff, want \in Columns : CreateRequest(u, want)
    BY <1>3, <2>1
  <2>2. CASE \E r \in Returns, got \in Columns : RecordInspection(r, got)
    BY <1>4, <2>2
  <2>3. CASE \E u \in Staff, r \in Returns, good \in Columns, damaged \in Columns :
               ApproveReturn(u, r, good, damaged)
    BY <1>5, <2>3
  <2>4. CASE \E u \in Staff, r \in Returns : RejectReturn(u, r)
    BY <1>6, <2>4
  <2>5. CASE \E r \in Returns : CancelReturn(r)
    BY <1>7, <2>5
  <2> QED
    BY <2>1, <2>2, <2>3, <2>4, <2>5 DEF ReturnsMove
-----------------------------------------------------------------------------
(* What quantities are worth. *)

(* Arithmetic of prices. *)
LEMMA Prices ==
  \A p, a, b \in Nat :
    /\ p * a \in Nat /\ p * (a + b) = p * a + p * b
    /\ a <= b => p * a <= p * b
<1>1. \A p, a \in Nat : p * a \in Nat
  OBVIOUS
<1>2. \A p, a, b \in Nat : p * (a + b) = p * a + p * b
  OBVIOUS
<1>3. ASSUME NEW p \in Nat, NEW a \in Nat, NEW b \in Nat, a <= b
      PROVE  p * a <= p * b
  <2>1. b - a \in Nat /\ b = a + (b - a)
    BY <1>3
  <2>2. p * b = p * a + p * (b - a)
    BY <1>2, <2>1
  <2>3. p * (b - a) \in Nat /\ p * a \in Nat
    BY <1>1, <2>1
  <2> QED
    BY <2>2, <2>3
<1> QED
  BY <1>1, <1>2, <1>3

(* Worth is a number, adds up, grows with the quantities and starts at zero. *)
LEMMA WorthFacts ==
  /\ \A q \in Columns : Worth(q) \in Nat
  /\ \A q, added, sum \in Columns :
       (\A l \in Lines : sum[l] = q[l] + added[l]) => Worth(sum) = Worth(q) + Worth(added)
  /\ \A q, more \in Columns : (\A l \in Lines : q[l] <= more[l]) => Worth(q) <= Worth(more)
  /\ Worth(Nothing) = 0
<1> DEFINE priced(q) == [l \in Lines |-> Price[l] * q[l]]
<1>1. IsFiniteSet(Lines)
  BY ReturnsAssumption
<1>2. \A l \in Lines : Price[l] \in Nat
  BY CreditAssumption
<1>3. \A q \in Columns : \A l \in Lines : q[l] \in Nat /\ priced(q)[l] = Price[l] * q[l]
  BY DEF Columns
<1>4. \A q \in Columns : priced(q) \in [Lines -> Nat] /\ priced(q) \in [Lines -> Int]
  <2> SUFFICES ASSUME NEW q \in Columns PROVE priced(q) \in [Lines -> Nat]
    OBVIOUS
  <2>1. \A l \in Lines : Price[l] * q[l] \in Nat
    BY <1>2, <1>3, Prices
  <2> QED
    BY <2>1
<1>5. \A q : Worth(q) = Total(priced(q))
  BY DEF Worth
<1> HIDE DEF priced
<1>6. \A q \in Columns : Worth(q) \in Nat
  BY <1>1, <1>4, <1>5, TotalType
<1>7. ASSUME NEW q \in Columns, NEW added \in Columns, NEW sum \in Columns,
             \A l \in Lines : sum[l] = q[l] + added[l]
      PROVE  Worth(sum) = Worth(q) + Worth(added)
  <2>1. \A l \in Lines : priced(sum)[l] = priced(q)[l] + priced(added)[l]
    BY <1>2, <1>3, <1>7, Prices
  <2>2. Total(priced(sum)) = Total(priced(q)) + Total(priced(added))
    BY <1>1, <1>4, <2>1, TotalAdded
  <2> QED
    BY <1>5, <2>2
<1>8. ASSUME NEW q \in Columns, NEW more \in Columns, \A l \in Lines : q[l] <= more[l]
      PROVE  Worth(q) <= Worth(more)
  <2>1. \A l \in Lines : priced(q)[l] <= priced(more)[l]
    BY <1>2, <1>3, <1>8, Prices
  <2>2. Total(priced(q)) <= Total(priced(more))
    BY <1>1, <1>4, <2>1, TotalOrdered
  <2> QED
    BY <1>5, <2>2
<1>9. Worth(Nothing) = 0
  <2>1. Nothing \in Columns /\ \A l \in Lines : Nothing[l] = 0
    BY DEF Nothing, Columns
  <2>2. \A l \in Lines : priced(Nothing)[l] = 0
    <3>1. \A p \in Nat : p * 0 = 0
      OBVIOUS
    <3> QED
      BY <1>2, <1>3, <2>1, <3>1
  <2>3. DOMAIN priced(Nothing) = Lines
    BY <1>4, <2>1
  <2> QED
    BY <1>1, <1>5, <2>2, <2>3, TotalZero
<1> QED
  BY <1>6, <1>7, <1>8, <1>9

-----------------------------------------------------------------------------
(* Totals over the return requests. *)

(* What a row asks for, brought back, and was worth. *)
RowAsks(row, l) == IF row.status \in Open THEN row.requested[l] ELSE 0

RowCame(row, l) == IF row.status = "APPROVED" THEN row.good[l] + row.damaged[l] ELSE 0

RowGoods(row) == [l \in Lines |-> row.good[l] + row.damaged[l]]

RowWorth(row) == IF row.status = "APPROVED" THEN Worth(RowGoods(row)) ELSE 0

AskedIn(rows, l) == [r \in DOMAIN rows |-> RowAsks(rows[r], l)]

CameIn(rows, l) == [r \in DOMAIN rows |-> RowCame(rows[r], l)]

WorthIn(rows) == [r \in DOMAIN rows |-> RowWorth(rows[r])]

(* They are natural numbers. *)
LEMMA RowNumbers ==
  ASSUME NEW row \in ReturnRows
  PROVE  /\ RowGoods(row) \in Columns /\ RowWorth(row) \in Nat
         /\ \A l \in Lines : RowAsks(row, l) \in Nat /\ RowCame(row, l) \in Nat
<1>1. row.requested \in Columns /\ row.good \in Columns /\ row.damaged \in Columns
  BY DEF ReturnRows
<1>2. \A l \in Lines : row.requested[l] \in Nat /\ row.good[l] + row.damaged[l] \in Nat
  BY <1>1 DEF Columns
<1>3. RowGoods(row) \in Columns
  BY <1>2 DEF RowGoods, Columns
<1> QED
  BY <1>2, <1>3, WorthFacts DEF RowWorth, RowAsks, RowCame

(* So are their totals. *)
LEMMA TableNumbers ==
  ASSUME NEW rows \in Seq(ReturnRows)
  PROVE  /\ WorthIn(rows) \in [DOMAIN rows -> Int] /\ Total(WorthIn(rows)) \in Nat
         /\ \A l \in Lines :
              /\ AskedIn(rows, l) \in [DOMAIN rows -> Int] /\ Total(AskedIn(rows, l)) \in Nat
              /\ CameIn(rows, l) \in [DOMAIN rows -> Int] /\ Total(CameIn(rows, l)) \in Nat
<1>1. IsFiniteSet(DOMAIN rows) /\ \A r \in DOMAIN rows : rows[r] \in ReturnRows
  BY RowsTyped
<1>2. WorthIn(rows) \in [DOMAIN rows -> Nat]
  <2>1. \A r \in DOMAIN rows : RowWorth(rows[r]) \in Nat
    BY <1>1, RowNumbers
  <2> QED
    BY <2>1 DEF WorthIn
<1>3. ASSUME NEW l \in Lines
      PROVE  AskedIn(rows, l) \in [DOMAIN rows -> Nat] /\ CameIn(rows, l) \in [DOMAIN rows -> Nat]
  <2>1. \A r \in DOMAIN rows : RowAsks(rows[r], l) \in Nat /\ RowCame(rows[r], l) \in Nat
    BY <1>1, RowNumbers
  <2> QED
    BY <2>1 DEF AskedIn, CameIn
<1>4. \A S : \A f \in [S -> Nat] : f \in [S -> Int]
  OBVIOUS
<1> QED
  BY <1>1, <1>2, <1>3, <1>4, TotalType

(* A new row adds its numbers. *)
LEMMA TableAdds ==
  ASSUME NEW rows \in Seq(ReturnRows), NEW row \in ReturnRows, NEW after, after = Append(rows, row)
  PROVE  /\ Total(WorthIn(after)) = Total(WorthIn(rows)) + RowWorth(row)
         /\ \A l \in Lines :
              /\ Total(AskedIn(after, l)) = Total(AskedIn(rows, l)) + RowAsks(row, l)
              /\ Total(CameIn(after, l)) = Total(CameIn(rows, l)) + RowCame(row, l)
<1> DEFINE S == DOMAIN rows
           n == Len(rows) + 1
           U == S \cup {n}
<1>1. /\ after \in Seq(ReturnRows) /\ DOMAIN after = U /\ U = S \cup {n} /\ n \notin S /\ after[n] = row
      /\ \A i \in S : after[i] = rows[i]
  BY Appended
<1>2. IsFiniteSet(S)
  BY RowsTyped
<1> HIDE DEF n, S, U
<1>3. ASSUME NEW f \in [S -> Int], NEW g \in [U -> Int], \A i \in S : g[i] = f[i]
      PROVE  Total(g) = Total(f) + g[n]
  <2>1. Extends(U, S, n)
    BY <1>1 DEF Extends
  <2> QED
    BY <1>2, <1>3, <2>1, TotalExtended, SMTT(60)
<1>4. Total(WorthIn(after)) = Total(WorthIn(rows)) + RowWorth(row)
  <2>1. WorthIn(rows) \in [S -> Int] /\ WorthIn(after) \in [U -> Int]
    BY <1>1, TableNumbers DEF S
  <2>2. /\ \A i \in S : WorthIn(after)[i] = WorthIn(rows)[i]
        /\ WorthIn(after)[n] = RowWorth(row)
    BY <1>1 DEF WorthIn, S
  <2> QED
    BY <1>3, <2>1, <2>2
<1>5. ASSUME NEW l \in Lines
      PROVE  Total(AskedIn(after, l)) = Total(AskedIn(rows, l)) + RowAsks(row, l)
  <2>1. AskedIn(rows, l) \in [S -> Int] /\ AskedIn(after, l) \in [U -> Int]
    BY <1>1, TableNumbers DEF S
  <2>2. /\ \A i \in S : AskedIn(after, l)[i] = AskedIn(rows, l)[i]
        /\ AskedIn(after, l)[n] = RowAsks(row, l)
    BY <1>1 DEF AskedIn, S
  <2> QED
    BY <1>3, <2>1, <2>2
<1>6. ASSUME NEW l \in Lines
      PROVE  Total(CameIn(after, l)) = Total(CameIn(rows, l)) + RowCame(row, l)
  <2>1. CameIn(rows, l) \in [S -> Int] /\ CameIn(after, l) \in [U -> Int]
    BY <1>1, TableNumbers DEF S
  <2>2. /\ \A i \in S : CameIn(after, l)[i] = CameIn(rows, l)[i]
        /\ CameIn(after, l)[n] = RowCame(row, l)
    BY <1>1 DEF CameIn, S
  <2> QED
    BY <1>3, <2>1, <2>2
<1> QED
  BY <1>4, <1>5, <1>6

(* after is the table rows with row i written again. *)
Rewrites(after, rows, i, row) == after = [rows EXCEPT ![i] = row]

(* The totals of after are those of rows, with row i exchanged for another. *)
Retotals(after, rows, i, row) ==
  /\ Total(WorthIn(after)) = Total(WorthIn(rows)) + (RowWorth(row) - RowWorth(rows[i]))
  /\ \A l \in Lines :
       /\ Total(AskedIn(after, l))
            = Total(AskedIn(rows, l)) + (RowAsks(row, l) - RowAsks(rows[i], l))
       /\ Total(CameIn(after, l))
            = Total(CameIn(rows, l)) + (RowCame(row, l) - RowCame(rows[i], l))

(* A row written again changes the totals by what changes in it. *)
LEMMA TableChanges ==
  ASSUME NEW rows \in Seq(ReturnRows), NEW i \in DOMAIN rows, NEW row \in ReturnRows,
         NEW after, Rewrites(after, rows, i, row)
  PROVE  Retotals(after, rows, i, row)
<1> DEFINE S == DOMAIN rows
<1>1. /\ after \in Seq(ReturnRows) /\ DOMAIN after = S /\ after[i] = row
      /\ \A j \in S : j # i => after[j] = rows[j]
  BY Replaced DEF Rewrites
<1>2. IsFiniteSet(S) /\ i \in S
  BY RowsTyped
<1> HIDE DEF S
<1>3. ASSUME NEW f \in [S -> Int], NEW g \in [S -> Int], \A j \in S : j # i => g[j] = f[j]
      PROVE  Total(g) = Total(f) + (g[i] - f[i])
  BY <1>2, <1>3, TotalChanges
<1>4. Total(WorthIn(after)) = Total(WorthIn(rows)) + (RowWorth(row) - RowWorth(rows[i]))
  <2>1. WorthIn(rows) \in [S -> Int] /\ WorthIn(after) \in [S -> Int]
    BY <1>1, TableNumbers DEF S
  <2>2. /\ \A j \in S : j # i => WorthIn(after)[j] = WorthIn(rows)[j]
        /\ WorthIn(after)[i] = RowWorth(row) /\ WorthIn(rows)[i] = RowWorth(rows[i])
    BY <1>1, <1>2 DEF WorthIn, S
  <2> QED
    BY <1>3, <2>1, <2>2
<1>5. ASSUME NEW l \in Lines
      PROVE  Total(AskedIn(after, l))
               = Total(AskedIn(rows, l)) + (RowAsks(row, l) - RowAsks(rows[i], l))
  <2>1. AskedIn(rows, l) \in [S -> Int] /\ AskedIn(after, l) \in [S -> Int]
    BY <1>1, TableNumbers DEF S
  <2>2. /\ \A j \in S : j # i => AskedIn(after, l)[j] = AskedIn(rows, l)[j]
        /\ AskedIn(after, l)[i] = RowAsks(row, l) /\ AskedIn(rows, l)[i] = RowAsks(rows[i], l)
    BY <1>1, <1>2 DEF AskedIn, S
  <2> QED
    BY <1>3, <2>1, <2>2
<1>6. ASSUME NEW l \in Lines
      PROVE  Total(CameIn(after, l))
               = Total(CameIn(rows, l)) + (RowCame(row, l) - RowCame(rows[i], l))
  <2>1. CameIn(rows, l) \in [S -> Int] /\ CameIn(after, l) \in [S -> Int]
    BY <1>1, TableNumbers DEF S
  <2>2. /\ \A j \in S : j # i => CameIn(after, l)[j] = CameIn(rows, l)[j]
        /\ CameIn(after, l)[i] = RowCame(row, l) /\ CameIn(rows, l)[i] = RowCame(rows[i], l)
    BY <1>1, <1>2 DEF CameIn, S
  <2> QED
    BY <1>3, <2>1, <2>2
<1> QED
  BY <1>4, <1>5, <1>6 DEF Retotals

(* The model's totals are these. *)
LEMMA TotalsOfReturns ==
  /\ \A l \in Lines : Asked(l) = AskedIn(returns, l) /\ CameBack(l) = CameIn(returns, l)
  /\ \A r \in Returns : Value(r) = Worth(RowGoods(returns[r]))
BY DEF Asked, AskedIn, RowAsks, CameBack, CameIn, RowCame, Accepted, Value, RowGoods, Returns
-----------------------------------------------------------------------------
(* The inductive invariant of the goods. *)

(* One line: what is back, in its allocations and in its stock, when asked
   pieces are asked for and came have come. *)
BackFits(l, back, alloc, stock, asked, came) ==
  /\ back + asked <= Delivered(l) /\ back = came
  /\ DOMAIN alloc = DOMAIN Deliveries[l]
  /\ Total(alloc) = came /\ \A i \in DOMAIN alloc : alloc[i] <= Deliveries[l][i]
  /\ stock.onHand = 1 + came /\ SatisfiesChecks(stock)

LineFits(l) ==
  BackFits(l, returned[l], taken[l], balance[l],
           Total(AskedIn(returns, l)), Total(CameIn(returns, l)))

(* An inspection receives no more than was requested. *)
Inspected(row) ==
  row.status = "INSPECTED" => \A l \in Lines : row.received[l] <= row.requested[l]

GoodsInv ==
  /\ ReturnsTypeOK /\ Len(returns) <= MaxReturns
  /\ \A l \in Lines : LineFits(l)
  /\ \A r \in Returns : Inspected(returns[r])
  /\ Worth(returned) = Total(WorthIn(returns))

(* What was delivered is a sequence of natural numbers. *)
LEMMA DeliveredTyped ==
  ASSUME NEW l \in Lines
  PROVE  /\ Len(Deliveries[l]) \in Nat /\ DOMAIN Deliveries[l] = 1..Len(Deliveries[l])
         /\ Deliveries[l] \in [1..Len(Deliveries[l]) -> Nat]
         /\ Delivered(l) \in Nat
<1>1. Deliveries[l] \in Seq(Nat)
  BY ReturnsAssumption
<1>2. /\ Len(Deliveries[l]) \in Nat /\ DOMAIN Deliveries[l] = 1..Len(Deliveries[l])
      /\ Deliveries[l] \in [1..Len(Deliveries[l]) -> Nat]
  BY <1>1, LenProperties
<1>3. IsFiniteSet(1..Len(Deliveries[l]))
  BY <1>2, FS_Interval
<1>4. Delivered(l) \in Nat
  BY <1>2, <1>3, TotalType DEF Delivered
<1> QED
  BY <1>2, <1>4

(* The invariant is about the properties the runs check. *)
LEMMA GoodsAreRight ==
  ASSUME GoodsInv
  PROVE  ReturnsWithinDelivery /\ GoodsComeBackOnce
<1>1. \A l \in Lines :
        Pending(l) = Total(AskedIn(returns, l)) /\ CameBack(l) = CameIn(returns, l)
  BY TotalsOfReturns DEF Pending
<1>2. ReturnsWithinDelivery
  BY <1>1 DEF GoodsInv, LineFits, BackFits, ReturnsWithinDelivery
<1>3. GoodsComeBackOnce
  BY <1>1 DEF GoodsInv, LineFits, BackFits, GoodsComeBackOnce
<1> QED
  BY <1>2, <1>3

(* Restocking writes these figures. *)
LEMMA RestockedRow ==
  ASSUME NEW stock \in Balance, NEW good \in Nat, NEW damaged \in Nat
  PROVE  /\ Restocked(stock, good, damaged) \in Balance
         /\ Restocked(stock, good, damaged).onHand = stock.onHand + good + damaged
         /\ Restocked(stock, good, damaged).reserved = stock.reserved
         /\ Restocked(stock, good, damaged).available = stock.available + good
         /\ Restocked(stock, good, damaged).damaged = stock.damaged + damaged
<1> DEFINE hand == stock.onHand + good + damaged
           free == stock.available + good
           aside == stock.damaged + damaged
           held == [stock EXCEPT !.onHand = hand, !.available = free, !.damaged = aside]
<1>1. hand \in Nat /\ free \in Nat /\ aside \in Nat
  BY DEF Balance
<1>2. Restocked(stock, good, damaged) = held
  BY DEF Restocked
<1> HIDE DEF hand, free, aside
<1>3. /\ held \in Balance /\ held.onHand = hand /\ held.reserved = stock.reserved
      /\ held.available = free /\ held.damaged = aside
  BY <1>1 DEF Balance
<1> QED
  BY <1>2, <1>3 DEF hand, free, aside

(* They keep the table's CHECKs. *)
LEMMA RestockedKeepsChecks ==
  ASSUME NEW stock \in Balance, NEW good \in Nat, NEW damaged \in Nat, SatisfiesChecks(stock)
  PROVE  SatisfiesChecks(Restocked(stock, good, damaged))
<1>1. /\ stock.onHand \in Nat /\ stock.reserved \in Nat
      /\ stock.available \in Nat /\ stock.damaged \in Nat
  BY DEF Balance
<1>2. /\ stock.reserved + stock.damaged <= stock.onHand
      /\ stock.available = stock.onHand - stock.reserved - stock.damaged
  BY DEF SatisfiesChecks
<1> DEFINE held == Restocked(stock, good, damaged)
<1>3. /\ held.onHand = stock.onHand + good + damaged /\ held.reserved = stock.reserved
      /\ held.available = stock.available + good /\ held.damaged = stock.damaged + damaged
  BY RestockedRow
<1> HIDE DEF held
<1>4. /\ held.onHand >= 0 /\ held.reserved >= 0 /\ held.available >= 0 /\ held.damaged >= 0
      /\ held.reserved + held.damaged <= held.onHand
      /\ held.available = held.onHand - held.reserved - held.damaged
  BY <1>1, <1>2, <1>3
<1>5. SatisfiesChecks(held)
  BY <1>4 DEF SatisfiesChecks
<1> QED
  BY <1>5 DEF held

(* Accepting good and damaged pieces of a request of one line. *)
LEMMA AcceptedFits ==
  ASSUME NEW l \in Lines, NEW back \in Nat, NEW alloc \in Seq(Nat), NEW stock \in Balance,
         NEW asked \in Nat, NEW came \in Nat, BackFits(l, back, alloc, stock, asked, came),
         NEW good \in Nat, NEW damaged \in Nat, NEW request \in Nat,
         good + damaged <= request, back + good + damaged <= Delivered(l)
  PROVE  /\ BackFits(l, back + (good + damaged), Spread(alloc, Deliveries[l], good + damaged),
                     Restocked(stock, good, damaged), asked - request, came + (good + damaged))
         /\ Spread(alloc, Deliveries[l], good + damaged) \in Seq(Nat)
         /\ Restocked(stock, good, damaged) \in Balance
<1> DEFINE q == good + damaged
           after == Spread(alloc, Deliveries[l], q)
           n == Len(Deliveries[l])
           held == Restocked(stock, good, damaged)
<1>1. /\ n \in Nat /\ DOMAIN Deliveries[l] = 1..n /\ Deliveries[l] \in [1..n -> Nat]
      /\ Delivered(l) \in Nat
  BY DeliveredTyped
<1>2. /\ back + asked <= Delivered(l) /\ back = came /\ DOMAIN alloc = 1..n
      /\ Total(alloc) = came /\ \A i \in 1..n : alloc[i] <= Deliveries[l][i]
      /\ stock.onHand = 1 + came /\ SatisfiesChecks(stock)
  BY <1>1 DEF BackFits
<1>3. alloc \in [1..n -> Nat]
  <2>1. alloc \in [1..Len(alloc) -> Nat] /\ DOMAIN alloc = 1..Len(alloc)
    BY LenProperties
  <2> QED
    BY <1>2, <2>1
<1>4. q \in Nat /\ Total(alloc) + q <= Total(Deliveries[l])
  BY <1>1, <1>2 DEF Delivered
<1> HIDE DEF n, q
<1>5. /\ after \in [1..n -> Nat] /\ Total(after) = Total(alloc) + q
      /\ \A i \in 1..n : after[i] <= Deliveries[l][i]
  <2>1. HasRoom(n, alloc, Deliveries[l], q)
    BY <1>1, <1>2, <1>3, <1>4 DEF HasRoom
  <2>2. n \in Nat /\ q \in Nat
    BY <1>1, <1>4
  <2>3. HaveTaken(n, alloc, Deliveries[l], q, after)
    BY <2>1, <2>2, SpreadEffect
  <2> HIDE DEF after
  <2> QED
    BY <2>3 DEF HaveTaken
<1>6. after \in Seq(Nat) /\ DOMAIN after = 1..n
  BY <1>1, <1>5, SeqDef
<1>7. /\ held \in Balance /\ held.onHand = stock.onHand + good + damaged
      /\ SatisfiesChecks(held)
  <2>1. held \in Balance /\ held.onHand = stock.onHand + good + damaged
    BY RestockedRow
  <2>2. SatisfiesChecks(stock)
    BY <1>2
  <2>3. SatisfiesChecks(held)
    BY <2>2, RestockedKeepsChecks
  <2> QED
    BY <2>1, <2>3
<1>8. /\ back + q + (asked - request) <= Delivered(l) /\ back + q = came + q
      /\ held.onHand = 1 + (came + q)
  BY <1>1, <1>2, <1>7 DEF q
<1> HIDE DEF held, after
<1>9. BackFits(l, back + q, after, held, asked - request, came + q)
  BY <1>1, <1>2, <1>5, <1>6, <1>7, <1>8 DEF BackFits
<1> QED
  BY <1>6, <1>7, <1>9 DEF q, after, held

(* What the rows of the goods are. *)
LEMMA GoodsTyped ==
  ASSUME ReturnsTypeOK
  PROVE  /\ returns \in Seq(ReturnRows) /\ Returns = DOMAIN returns
         /\ \A r \in Returns : returns[r] \in ReturnRows
         /\ \A l \in Lines :
              /\ returned[l] \in Nat /\ taken[l] \in Seq(Nat) /\ balance[l] \in Balance
              /\ Total(AskedIn(returns, l)) \in Nat /\ Total(CameIn(returns, l)) \in Nat
              /\ Delivered(l) \in Nat
BY RowsTyped, TableNumbers, DeliveredTyped DEF ReturnsTypeOK, Returns, Columns

(* A transaction that leaves the goods alone keeps the invariant when it asks
   for no more than can come back. *)
LEMMA GoodsLeftAlone ==
  ASSUME GoodsInv, UNCHANGED <<returned, taken, balance>>,
         returns' \in Seq(ReturnRows), Len(returns') <= MaxReturns,
         \A r \in DOMAIN returns' : Inspected(returns'[r]),
         Total(WorthIn(returns')) = Total(WorthIn(returns)),
         \A l \in Lines :
           /\ Total(CameIn(returns', l)) = Total(CameIn(returns, l))
           /\ returned[l] + Total(AskedIn(returns', l)) <= Delivered(l)
  PROVE  GoodsInv'
<1>1. ReturnsTypeOK'
  BY DEF GoodsInv, ReturnsTypeOK
<1>2. \A l \in Lines : LineFits(l)'
  BY DEF GoodsInv, LineFits, BackFits
<1>3. Worth(returned)' = Total(WorthIn(returns))
  BY DEF GoodsInv, Worth
<1> QED
  BY <1>1, <1>2, <1>3 DEF GoodsInv, Returns
(* A new request asks for no more than is returnable. *)
LEMMA RequestKeepsGoods ==
  ASSUME GoodsInv, NEW u \in Staff, NEW want \in Columns, CreateRequest(u, want),
         returns' = Append(returns, RequestedRow(u, want))
  PROVE  GoodsInv'
<1> DEFINE row == RequestedRow(u, want)
<1>1. /\ returns \in Seq(ReturnRows) /\ row \in ReturnRows
      /\ \A l \in Lines :
           /\ returned[l] \in Nat /\ Delivered(l) \in Nat
           /\ Total(AskedIn(returns, l)) \in Nat /\ Total(CameIn(returns, l)) \in Nat
  BY GoodsTyped, WrittenRows DEF GoodsInv
<1>2. /\ RowWorth(row) = 0 /\ Inspected(row)
      /\ \A l \in Lines : RowAsks(row, l) = want[l] /\ RowCame(row, l) = 0
  BY DEF RequestedRow, RowWorth, RowAsks, RowCame, Inspected, Open
<1> HIDE DEF row
<1>3. /\ returns' \in Seq(ReturnRows) /\ Len(returns') = Len(returns) + 1 /\ Len(returns) \in Nat
      /\ DOMAIN returns' = DOMAIN returns \cup {Len(returns) + 1}
      /\ returns'[Len(returns) + 1] = row
      /\ \A r \in DOMAIN returns : returns'[r] = returns[r]
  BY <1>1, Appended DEF row
<1>4. /\ Total(WorthIn(returns')) = Total(WorthIn(returns)) + RowWorth(row)
      /\ \A l \in Lines :
           /\ Total(AskedIn(returns', l)) = Total(AskedIn(returns, l)) + RowAsks(row, l)
           /\ Total(CameIn(returns', l)) = Total(CameIn(returns, l)) + RowCame(row, l)
  BY <1>1, TableAdds DEF row
<1>5. Len(returns') <= MaxReturns
  BY <1>3, ReturnsAssumption DEF CreateRequest
<1>6. \A r \in DOMAIN returns' : Inspected(returns'[r])
  BY <1>2, <1>3 DEF GoodsInv, Returns
<1>7. Total(WorthIn(returns')) = Total(WorthIn(returns))
  BY <1>1, <1>2, <1>4, TableNumbers
<1>8. ASSUME NEW l \in Lines
      PROVE  /\ Total(CameIn(returns', l)) = Total(CameIn(returns, l))
             /\ returned[l] + Total(AskedIn(returns', l)) <= Delivered(l)
  <2>1. want[l] \in Nat /\ (want[l] > 0 => want[l] <= Returnable(l))
    BY DEF CreateRequest, Columns
  <2>2. Returnable(l) = Max0(Delivered(l) - (returned[l] + Total(AskedIn(returns, l))))
    BY TotalsOfReturns DEF Returnable, Pending
  <2>3. returned[l] + Total(AskedIn(returns, l)) <= Delivered(l)
    BY DEF GoodsInv, LineFits, BackFits
  <2>4. returned[l] + Total(AskedIn(returns, l)) + want[l] <= Delivered(l)
    BY <1>1, <2>1, <2>2, <2>3 DEF Max0
  <2> QED
    BY <1>1, <1>2, <1>4, <2>1, <2>4
<1>9. UNCHANGED <<returned, taken, balance>>
  BY DEF CreateRequest
<1> QED
  BY <1>3, <1>5, <1>6, <1>7, <1>8, <1>9, GoodsLeftAlone

(* A row that asks for no more than before and brings nothing back. *)
LEMMA QuietRowKeepsGoods ==
  ASSUME GoodsInv, NEW r \in Returns, returns[r].status \in Open, NEW row \in ReturnRows,
         row.status # "APPROVED", Inspected(row),
         row.status \in Open => row.requested = returns[r].requested,
         Rewrites(returns', returns, r, row), UNCHANGED <<returned, taken, balance>>
  PROVE  GoodsInv'
<1>1. /\ returns \in Seq(ReturnRows) /\ returns[r] \in ReturnRows /\ r \in DOMAIN returns
      /\ \A l \in Lines :
           /\ returned[l] \in Nat /\ Delivered(l) \in Nat
           /\ Total(AskedIn(returns, l)) \in Nat /\ Total(CameIn(returns, l)) \in Nat
  BY GoodsTyped DEF GoodsInv
<1>2. /\ RowWorth(row) = 0 /\ RowWorth(returns[r]) = 0
      /\ \A l \in Lines :
           /\ RowCame(row, l) = 0 /\ RowCame(returns[r], l) = 0
           /\ RowAsks(row, l) \in Nat /\ RowAsks(returns[r], l) \in Nat
           /\ RowAsks(row, l) <= RowAsks(returns[r], l)
  <2>1. \A l \in Lines : RowAsks(row, l) \in Nat /\ RowAsks(returns[r], l) \in Nat
    BY <1>1, RowNumbers
  <2>2. returns[r].status # "APPROVED"
    BY DEF Open
  <2>3. \A l \in Lines : RowAsks(row, l) = RowAsks(returns[r], l) \/ RowAsks(row, l) = 0
    BY DEF RowAsks
  <2> QED
    BY <2>1, <2>2, <2>3 DEF RowWorth, RowCame
<1>3. /\ returns' \in Seq(ReturnRows) /\ Len(returns') = Len(returns)
      /\ DOMAIN returns' = DOMAIN returns /\ returns'[r] = row
      /\ \A s \in DOMAIN returns : s # r => returns'[s] = returns[s]
  BY <1>1, Replaced DEF Rewrites
<1>4. /\ Total(WorthIn(returns')) = Total(WorthIn(returns)) + (RowWorth(row) - RowWorth(returns[r]))
      /\ \A l \in Lines :
           /\ Total(AskedIn(returns', l))
                = Total(AskedIn(returns, l)) + (RowAsks(row, l) - RowAsks(returns[r], l))
           /\ Total(CameIn(returns', l))
                = Total(CameIn(returns, l)) + (RowCame(row, l) - RowCame(returns[r], l))
  <2>1. Retotals(returns', returns, r, row)
    BY <1>1, TableChanges
  <2> QED
    BY <2>1 DEF Retotals
<1>5. Len(returns') <= MaxReturns /\ \A s \in DOMAIN returns' : Inspected(returns'[s])
  BY <1>3 DEF GoodsInv, Returns
<1>6. Total(WorthIn(returns')) = Total(WorthIn(returns))
  BY <1>1, <1>2, <1>4, TableNumbers
<1>7. \A l \in Lines :
        /\ Total(CameIn(returns', l)) = Total(CameIn(returns, l))
        /\ returned[l] + Total(AskedIn(returns', l)) <= Delivered(l)
  <2>1. \A l \in Lines : returned[l] + Total(AskedIn(returns, l)) <= Delivered(l)
    BY DEF GoodsInv, LineFits, BackFits
  <2>2. \A back, delivered, asked, now, before \in Int :
          now <= before /\ back + asked <= delivered => back + (asked + (now - before)) <= delivered
    OBVIOUS
  <2>3. ASSUME NEW l \in Lines
        PROVE  /\ Total(CameIn(returns', l)) = Total(CameIn(returns, l))
               /\ returned[l] + Total(AskedIn(returns', l)) <= Delivered(l)
    <3> DEFINE asked == Total(AskedIn(returns, l))
               now == RowAsks(row, l)
               before == RowAsks(returns[r], l)
    <3>1. /\ asked \in Int /\ now \in Int /\ before \in Int /\ returned[l] \in Int
          /\ Delivered(l) \in Int /\ now <= before /\ returned[l] + asked <= Delivered(l)
      BY <1>1, <1>2, <2>1
    <3>2. Total(AskedIn(returns', l)) = asked + (now - before)
      BY <1>4
    <3>3. Total(CameIn(returns', l)) = Total(CameIn(returns, l))
      BY <1>1, <1>2, <1>4
    <3> HIDE DEF asked, now, before
    <3> QED
      BY <2>2, <3>1, <3>2, <3>3
  <2> QED
    BY <2>3
<1> QED
  BY <1>3, <1>5, <1>6, <1>7, GoodsLeftAlone

(* An approval brings back what it accepts, once in every place. *)
LEMMA ApprovalKeepsGoods ==
  ASSUME GoodsInv, NEW u \in Staff, NEW r \in Returns, NEW good \in Columns,
         NEW damaged \in Columns, ApproveReturn(u, r, good, damaged),
         returns' = [returns EXCEPT ![r] = DecidedRow(r, "APPROVED", good, damaged)]
  PROVE  GoodsInv'
<1> DEFINE row == DecidedRow(r, "APPROVED", good, damaged)
           q == [l \in Lines |-> good[l] + damaged[l]]
<1>1. /\ returns \in Seq(ReturnRows) /\ returns[r] \in ReturnRows /\ r \in DOMAIN returns
      /\ \A l \in Lines :
           /\ returned[l] \in Nat /\ taken[l] \in Seq(Nat) /\ balance[l] \in Balance
           /\ Total(AskedIn(returns, l)) \in Nat /\ Total(CameIn(returns, l)) \in Nat
           /\ Delivered(l) \in Nat
  BY GoodsTyped DEF GoodsInv
<1>2. row \in ReturnRows
  BY WrittenRows DEF GoodsInv, Terminal
<1>3. /\ row.status = "APPROVED" /\ row.good = good /\ row.damaged = damaged
  BY <1>1 DEF DecidedRow, ReturnRows
<1>4. /\ returns[r].status = "INSPECTED"
      /\ \A l \in Lines : good[l] + damaged[l] <= returns[r].received[l]
      /\ \A l \in Lines : returned[l] + good[l] + damaged[l] <= Delivered(l)
      /\ returned' = [l \in Lines |-> returned[l] + q[l]]
      /\ taken' = [l \in Lines |-> Spread(taken[l], Deliveries[l], q[l])]
      /\ balance' = [l \in Lines |-> Restocked(balance[l], good[l], damaged[l])]
  BY DEF ApproveReturn, Dispose
<1>5. \A l \in Lines : good[l] \in Nat /\ damaged[l] \in Nat /\ q[l] = good[l] + damaged[l]
  BY DEF Columns
<1>6. q \in Columns
  BY <1>5 DEF Columns
<1> HIDE DEF row, q
<1>7. /\ RowWorth(row) = Worth(q) /\ RowWorth(returns[r]) = 0
      /\ \A l \in Lines :
           /\ RowCame(row, l) = q[l] /\ RowCame(returns[r], l) = 0
           /\ RowAsks(row, l) = 0 /\ RowAsks(returns[r], l) = returns[r].requested[l]
  BY <1>3, <1>4, <1>5 DEF RowWorth, RowGoods, RowCame, RowAsks, Open, q
<1>8. \A l \in Lines : returns[r].requested[l] \in Nat /\ q[l] <= returns[r].requested[l]
  <2>1. \A l \in Lines : returns[r].received[l] <= returns[r].requested[l]
    BY <1>1, <1>4 DEF GoodsInv, Inspected, Returns
  <2>2. \A l \in Lines : returns[r].received[l] \in Nat /\ returns[r].requested[l] \in Nat
    BY <1>1 DEF ReturnRows, Columns
  <2> QED
    BY <1>4, <1>5, <2>1, <2>2
<1>9. /\ returns' \in Seq(ReturnRows) /\ Len(returns') = Len(returns)
      /\ DOMAIN returns' = DOMAIN returns /\ returns'[r] = row
      /\ \A s \in DOMAIN returns : s # r => returns'[s] = returns[s]
  BY <1>1, <1>2, Replaced DEF row
<1>10. /\ Total(WorthIn(returns')) = Total(WorthIn(returns)) + (RowWorth(row) - RowWorth(returns[r]))
       /\ \A l \in Lines :
            /\ Total(AskedIn(returns', l))
                 = Total(AskedIn(returns, l)) + (RowAsks(row, l) - RowAsks(returns[r], l))
            /\ Total(CameIn(returns', l))
                 = Total(CameIn(returns, l)) + (RowCame(row, l) - RowCame(returns[r], l))
  <2>1. Rewrites(returns', returns, r, row)
    BY DEF Rewrites, row
  <2>2. returns \in Seq(ReturnRows) /\ r \in DOMAIN returns /\ row \in ReturnRows
    BY <1>1, <1>2
  <2>3. Retotals(returns', returns, r, row)
    BY <2>1, <2>2, TableChanges
  <2> QED
    BY <2>3 DEF Retotals
<1>11. ASSUME NEW l \in Lines
       PROVE  /\ LineFits(l)' /\ returned'[l] \in Nat
              /\ taken'[l] \in Seq(Nat) /\ balance'[l] \in Balance
  <2> DEFINE asked == Total(AskedIn(returns, l))
             came == Total(CameIn(returns, l))
             request == returns[r].requested[l]
             g == good[l]
             d == damaged[l]
  <2>1. BackFits(l, returned[l], taken[l], balance[l], asked, came)
    BY DEF GoodsInv, LineFits
  <2>6. /\ asked \in Nat /\ came \in Nat /\ request \in Nat /\ g \in Nat /\ d \in Nat
        /\ returned[l] \in Nat
    BY <1>1, <1>5, <1>8
  <2>7. /\ g + d <= request /\ returned[l] + g + d <= Delivered(l)
    BY <1>4, <1>5, <1>8
  <2>8. /\ Total(AskedIn(returns', l)) = asked + (0 - request)
        /\ Total(CameIn(returns', l)) = came + ((g + d) - 0)
    BY <1>5, <1>7, <1>10
  <2>3. /\ returned'[l] = returned[l] + (g + d)
        /\ taken'[l] = Spread(taken[l], Deliveries[l], g + d)
        /\ balance'[l] = Restocked(balance[l], g, d)
    BY <1>4, <1>5
  <2> HIDE DEF asked, came, request, g, d
  <2>2. /\ Total(AskedIn(returns', l)) = asked - request
        /\ Total(CameIn(returns', l)) = came + (g + d)
    BY <2>6, <2>8
  <2>4. /\ BackFits(l, returned[l] + (g + d), Spread(taken[l], Deliveries[l], g + d),
                    Restocked(balance[l], g, d), asked - request, came + (g + d))
        /\ Spread(taken[l], Deliveries[l], g + d) \in Seq(Nat)
        /\ Restocked(balance[l], g, d) \in Balance
    BY <1>1, <2>1, <2>6, <2>7, AcceptedFits
  <2>5. returned[l] + (g + d) \in Nat
    BY <2>6
  <2> QED
    BY <2>2, <2>3, <2>4, <2>5 DEF LineFits
<1>12. ReturnsTypeOK'
  BY <1>4, <1>9, <1>11 DEF ReturnsTypeOK, Columns
<1>13. Worth(returned') = Total(WorthIn(returns'))
  <2>1. returned \in Columns /\ returned' \in Columns
    BY <1>12 DEF GoodsInv, ReturnsTypeOK
  <2>2. \A l \in Lines : returned'[l] = returned[l] + q[l]
    BY <1>4
  <2>3. Worth(returned') = Worth(returned) + Worth(q)
    BY <1>6, <2>1, <2>2, WorthFacts
  <2>4. Worth(q) \in Nat /\ Worth(returned) = Total(WorthIn(returns)) /\ Worth(returned) \in Nat
    BY <1>6, <2>1, WorthFacts DEF GoodsInv
  <2> QED
    BY <1>7, <1>10, <2>3, <2>4
<1>14. Len(returns') <= MaxReturns /\ \A s \in DOMAIN returns' : Inspected(returns'[s])
  BY <1>3, <1>9 DEF GoodsInv, Returns, Inspected
<1>15. Worth(returned)' = Worth(returned')
  BY DEF Worth
<1> QED
  BY <1>11, <1>12, <1>13, <1>14, <1>15 DEF GoodsInv, Returns, WorthIn

(* Every transaction of returns keeps the invariant, and what has been
   approved stays as it is. *)
LEMMA ReturnsKeepGoods ==
  ASSUME GoodsInv, ReturnsMove
  PROVE  /\ GoodsInv'
         /\ Len(returns) <= Len(returns')
         /\ \A r \in Returns : returns[r].status = "APPROVED" => returns'[r] = returns[r]
<1>1. /\ ReturnsTypeOK /\ returns \in Seq(ReturnRows) /\ Returns = DOMAIN returns
      /\ Len(returns) \in Nat /\ \A r \in Returns : returns[r] \in ReturnRows
  BY GoodsTyped, RowsTyped DEF GoodsInv
<1>2. ASSUME NEW r \in Returns, NEW row \in ReturnRows, returns[r].status # "APPROVED",
             returns' = [returns EXCEPT ![r] = row]
      PROVE  /\ Len(returns) <= Len(returns')
             /\ \A s \in Returns : returns[s].status = "APPROVED" => returns'[s] = returns[s]
  <2>1. Len(returns') = Len(returns) /\ \A s \in Returns : s # r => returns'[s] = returns[s]
    BY <1>1, <1>2, Replaced
  <2> QED
    BY <1>1, <1>2, <2>1
<1>3. CASE \E u \in Staff, want \in Columns :
             CreateRequest(u, want) /\ returns' = Append(returns, RequestedRow(u, want))
  <2>1. PICK u \in Staff, want \in Columns :
          CreateRequest(u, want) /\ returns' = Append(returns, RequestedRow(u, want))
    BY <1>3
  <2>2. RequestedRow(u, want) \in ReturnRows
    BY <1>1, WrittenRows
  <2>3. Len(returns') = Len(returns) + 1 /\ \A r \in Returns : returns'[r] = returns[r]
    BY <1>1, <2>1, <2>2, Appended
  <2> QED
    BY <1>1, <2>1, <2>3, RequestKeepsGoods
<1>4. CASE \E r \in Returns, got \in Columns :
             /\ RecordInspection(r, got)
             /\ returns' = [returns EXCEPT ![r] = InspectedRow(r, got)]
  <2>1. PICK r \in Returns, got \in Columns :
             /\ RecordInspection(r, got)
             /\ returns' = [returns EXCEPT ![r] = InspectedRow(r, got)]
    BY <1>4
  <2>2. InspectedRow(r, got) \in ReturnRows
    BY <1>1, WrittenRows
  <2>3. /\ InspectedRow(r, got).status = "INSPECTED" /\ InspectedRow(r, got).received = got
        /\ InspectedRow(r, got).requested = returns[r].requested
    BY <1>1 DEF InspectedRow, ReturnRows
  <2>4. /\ returns[r].status = "REQUESTED" /\ UNCHANGED <<returned, taken, balance>>
        /\ \A l \in Lines : got[l] <= returns[r].requested[l]
    BY <2>1 DEF RecordInspection
  <2>5. Inspected(InspectedRow(r, got)) /\ returns[r].status \in Open
    BY <2>3, <2>4 DEF Inspected, Open
  <2> QED
    BY <1>2, <2>1, <2>2, <2>3, <2>4, <2>5, QuietRowKeepsGoods DEF Rewrites
<1>5. CASE \E u \in Staff, r \in Returns, good \in Columns, damaged \in Columns :
             /\ ApproveReturn(u, r, good, damaged)
             /\ returns' = [returns EXCEPT ![r] = DecidedRow(r, "APPROVED", good, damaged)]
  <2>1. PICK u \in Staff, r \in Returns, good \in Columns, damaged \in Columns :
             /\ ApproveReturn(u, r, good, damaged)
             /\ returns' = [returns EXCEPT ![r] = DecidedRow(r, "APPROVED", good, damaged)]
    BY <1>5
  <2>2. DecidedRow(r, "APPROVED", good, damaged) \in ReturnRows
    BY <1>1, WrittenRows DEF Terminal
  <2>3. returns[r].status # "APPROVED"
    BY <2>1 DEF ApproveReturn
  <2> QED
    BY <1>2, <2>1, <2>2, <2>3, ApprovalKeepsGoods
<1>6. CASE \E r \in Returns :
             /\ returns[r].status \in Open
             /\ \E row \in {DecidedRow(r, "REJECTED", Nothing, Nothing), CancelledRow(r)} :
                  returns' = [returns EXCEPT ![r] = row]
             /\ UNCHANGED <<returned, taken, balance>>
  <2>1. PICK r \in Returns :
             /\ returns[r].status \in Open
             /\ \E row \in {DecidedRow(r, "REJECTED", Nothing, Nothing), CancelledRow(r)} :
                  returns' = [returns EXCEPT ![r] = row]
             /\ UNCHANGED <<returned, taken, balance>>
    BY <1>6
  <2>2. PICK row \in {DecidedRow(r, "REJECTED", Nothing, Nothing), CancelledRow(r)} :
          returns' = [returns EXCEPT ![r] = row]
    BY <2>1
  <2>3. Nothing \in Columns
    BY DEF Nothing, Columns
  <2>4. row \in ReturnRows
    BY <1>1, <2>3, WrittenRows DEF Terminal
  <2>5. row.status \in {"REJECTED", "CANCELLED"}
    BY <1>1 DEF DecidedRow, CancelledRow, ReturnRows
  <2>6. row.status # "APPROVED" /\ row.status \notin Open /\ Inspected(row)
    BY <2>5 DEF Open, Inspected
  <2>7. returns[r].status # "APPROVED"
    BY <2>1 DEF Open
  <2> QED
    BY <1>2, <2>1, <2>2, <2>4, <2>6, <2>7, QuietRowKeepsGoods DEF Rewrites
<1> QED
  BY <1>1, <1>3, <1>4, <1>5, <1>6, ReturnsWritten
-----------------------------------------------------------------------------
(* The inductive invariant of the money. *)

DrawnIn(rows, paid, r) == [f \in DOMAIN rows |-> IF rows[f].note = r THEN paid[f] ELSE 0]

Allocated(note) == IF note = NoNote THEN 0 ELSE note.allocated

AllocatedIn(notes) == [r \in 1..MaxReturns |-> Allocated(notes[r])]

(* A note, its entry in the ledger, the value of its return and the refunds
   paid out of it. *)
NoteAgrees(note, entry, value, drawn) ==
  IF note = NoNote THEN entry = 0 /\ drawn = 0
  ELSE /\ entry = value /\ drawn <= value
       /\ note = Note(IF drawn = 0 THEN "ISSUED"
                      ELSE IF drawn = value THEN "FULLY_REFUNDED" ELSE "PARTIALLY_REFUNDED",
                      value, drawn)

NoteFits(r) ==
  /\ NoteAgrees(credits[r], posted.credit[r], Value(r), Total(DrawnIn(refunds, posted.refund, r)))
  /\ credits[r] # NoNote => r \in Returns /\ returns[r].status = "APPROVED"

(* A refund draws on a note that was issued, and is paid when it is processed. *)
RefundFits(f) ==
  IF f \in Refunds
  THEN /\ credits[refunds[f].note] # NoNote
       /\ posted.refund[f] = IF refunds[f].status = "PROCESSED" THEN refunds[f].amount ELSE 0
  ELSE posted.refund[f] = 0

MoneyInv ==
  /\ CreditsTypeOK /\ Len(refunds) <= MaxRefunds
  /\ \A r \in 1..MaxReturns : NoteFits(r)
  /\ \A f \in 1..MaxRefunds : RefundFits(f)
  /\ Total(posted.refund) = Total(AllocatedIn(credits))

(* The invariant is about the property the runs check. *)
LEMMA MoneyIsRight ==
  ASSUME MoneyInv
  PROVE  NotesMatchLedger
<1>1. \A r : Drawn(r) = DrawnIn(refunds, posted.refund, r)
  BY DEF Drawn, DrawnIn, Refunds
<1>2. \A r \in 1..MaxReturns :
        LET allocated == Total(Drawn(r))
        IN IF credits[r] = NoNote THEN posted.credit[r] = 0 /\ allocated = 0
           ELSE /\ posted.credit[r] = Value(r)
                /\ credits[r] = Note(IF allocated = 0 THEN "ISSUED"
                                     ELSE IF allocated = Value(r) THEN "FULLY_REFUNDED"
                                     ELSE "PARTIALLY_REFUNDED", Value(r), allocated)
  BY <1>1 DEF MoneyInv, NoteFits, NoteAgrees
<1>3. Refunds \subseteq 1..MaxRefunds
  <2>1. Len(refunds) \in Nat /\ Refunds = 1..Len(refunds)
    BY RowsTyped DEF MoneyInv, CreditsTypeOK, Refunds
  <2> QED
    BY <2>1, CreditAssumption DEF MoneyInv
<1>4. \A f \in Refunds :
        posted.refund[f] = IF refunds[f].status = "PROCESSED" THEN refunds[f].amount ELSE 0
  BY <1>3 DEF MoneyInv, RefundFits
<1> QED
  BY <1>2, <1>4 DEF NotesMatchLedger

(* What a note says. *)
LEMMA NoteFacts ==
  ASSUME NEW status \in {"ISSUED", "PARTIALLY_REFUNDED", "FULLY_REFUNDED"},
         NEW total \in Nat, NEW allocated \in Nat, allocated <= total
  PROVE  /\ Note(status, total, allocated) \in Notes
         /\ Note(status, total, allocated) # NoNote
         /\ Note(status, total, allocated).total = total
         /\ Note(status, total, allocated).allocated = allocated
         /\ Note(status, total, allocated).remaining = total - allocated
         /\ Note(status, total, allocated).status = status
<1>1. total - allocated \in Nat
  OBVIOUS
<1>2. Note(status, total, allocated).status # NoNote.status
  BY DEF Note, NoNote
<1> QED
  BY <1>1, <1>2 DEF Note, Notes

(* The types of what the money is. *)
LEMMA MoneyTyped ==
  ASSUME CreditsTypeOK, Len(refunds) <= MaxRefunds
  PROVE  /\ refunds \in Seq(RefundRows) /\ Refunds = DOMAIN refunds
         /\ Len(refunds) \in Nat /\ Refunds = 1..Len(refunds)
         /\ Refunds \subseteq 1..MaxRefunds /\ IsFiniteSet(Refunds)
         /\ \A f \in Refunds : refunds[f] \in RefundRows
         /\ credits \in [1..MaxReturns -> Notes]
         /\ posted.credit \in [1..MaxReturns -> Nat] /\ posted.refund \in [1..MaxRefunds -> Nat]
         /\ IsFiniteSet(1..MaxReturns) /\ IsFiniteSet(1..MaxRefunds)
<1>1. refunds \in Seq(RefundRows) /\ credits \in [1..MaxReturns -> Notes]
  BY DEF CreditsTypeOK
<1>2. posted.credit \in [1..MaxReturns -> Nat] /\ posted.refund \in [1..MaxRefunds -> Nat]
  BY DEF CreditsTypeOK
<1>3. /\ Len(refunds) \in Nat /\ Refunds = 1..Len(refunds) /\ IsFiniteSet(Refunds)
      /\ \A f \in Refunds : refunds[f] \in RefundRows
  BY <1>1, RowsTyped DEF Refunds
<1>4. Refunds \subseteq 1..MaxRefunds
  BY <1>3, CreditAssumption
<1>5. IsFiniteSet(1..MaxReturns) /\ IsFiniteSet(1..MaxRefunds)
  BY ReturnsAssumption, CreditAssumption, FS_Interval
<1> QED
  BY <1>1, <1>2, <1>3, <1>4, <1>5 DEF Refunds

(* Totals of what was drawn are natural numbers. *)
LEMMA DrawnTyped ==
  ASSUME NEW rows \in Seq(RefundRows), NEW paid \in [1..MaxRefunds -> Nat],
         Len(rows) <= MaxRefunds, NEW r
  PROVE  /\ DrawnIn(rows, paid, r) \in [DOMAIN rows -> Int]
         /\ Total(DrawnIn(rows, paid, r)) \in Nat
<1>1. Len(rows) \in Nat /\ DOMAIN rows = 1..Len(rows) /\ IsFiniteSet(DOMAIN rows)
  BY RowsTyped
<1>2. \A f \in DOMAIN rows : paid[f] \in Nat
  BY <1>1, CreditAssumption
<1>3. DrawnIn(rows, paid, r) \in [DOMAIN rows -> Nat]
  BY <1>2 DEF DrawnIn
<1>4. DrawnIn(rows, paid, r) \in [DOMAIN rows -> Int]
  BY <1>3
<1> QED
  BY <1>1, <1>3, <1>4, TotalType

(* What a transaction of returns does to the money: nothing. *)
LEMMA ReturnsKeepMoney ==
  ASSUME GoodsInv, MoneyInv, ReturnsMove, UNCHANGED money
  PROVE  MoneyInv'
<1>1. /\ Len(returns) <= Len(returns')
      /\ \A r \in Returns : returns[r].status = "APPROVED" => returns'[r] = returns[r]
      /\ GoodsInv'
  BY ReturnsKeepGoods
<1>2. Returns \subseteq Returns'
  <2>1. /\ Len(returns) \in Nat /\ Returns = 1..Len(returns)
    BY RowsTyped DEF GoodsInv, ReturnsTypeOK, Returns
  <2>2. /\ Len(returns') \in Nat /\ Returns' = 1..Len(returns')
    BY <1>1, RowsTyped DEF GoodsInv, ReturnsTypeOK, Returns
  <2> QED
    BY <1>1, <2>1, <2>2
<1>3. credits' = credits /\ refunds' = refunds /\ posted' = posted
  BY DEF money
<1>4. ASSUME NEW r \in 1..MaxReturns
      PROVE  NoteFits(r)'
  <2>1. NoteFits(r)
    BY DEF MoneyInv
  <2>2. CASE credits[r] = NoNote
    BY <1>3, <2>1, <2>2 DEF NoteFits, NoteAgrees
  <2>3. CASE credits[r] # NoNote
    <3>1. r \in Returns /\ returns[r].status = "APPROVED"
      BY <2>1, <2>3 DEF NoteFits
    <3>2. r \in Returns' /\ returns'[r] = returns[r]
      BY <1>1, <1>2, <3>1
    <3>3. Value(r)' = Value(r)
      BY <3>2 DEF Value, Accepted, Worth
    <3> QED
      BY <1>3, <2>1, <3>1, <3>2, <3>3 DEF NoteFits
  <2> QED
    BY <2>2, <2>3
<1>5. \A f \in 1..MaxRefunds : RefundFits(f)'
  BY <1>3 DEF MoneyInv, RefundFits, Refunds
<1>6. CreditsTypeOK' /\ (Len(refunds) <= MaxRefunds)'
  BY <1>3 DEF MoneyInv, CreditsTypeOK
<1>7. Total(posted.refund)' = Total(AllocatedIn(credits))'
  BY <1>3 DEF MoneyInv, Total, AllocatedIn
<1> QED
  BY <1>4, <1>5, <1>6, <1>7 DEF MoneyInv

(* Notes and refunds do not depend on anything else of the goods. *)
LEMMA ValueStays ==
  ASSUME UNCHANGED goods
  PROVE  Returns' = Returns /\ returns' = returns /\ \A r \in Returns : Value(r)' = Value(r)
BY DEF goods, Returns, Value, Accepted, Worth
(* A credit note is issued once, for what the return is worth. *)
LEMMA GenerateKeepsMoney ==
  ASSUME GoodsInv, MoneyInv, UNCHANGED goods, NEW r \in Returns, Generate(r)
  PROVE  /\ MoneyInv' /\ posted'.refund = posted.refund /\ refunds' = refunds
         /\ \A s \in 1..MaxReturns : posted.credit[s] <= posted'.credit[s]
<1> DEFINE n == Note("ISSUED", Value(r), 0)
           entry == posted.credit[r] + Value(r)
<1>1. /\ refunds \in Seq(RefundRows) /\ credits \in [1..MaxReturns -> Notes]
      /\ posted.credit \in [1..MaxReturns -> Nat] /\ posted.refund \in [1..MaxRefunds -> Nat]
      /\ IsFiniteSet(1..MaxReturns) /\ \A f \in Refunds : refunds[f] \in RefundRows
  BY MoneyTyped DEF MoneyInv
<1>2. /\ Returns \subseteq 1..MaxReturns /\ Value(r) \in Nat
  <2>1. Len(returns) \in Nat /\ Returns = 1..Len(returns) /\ returns[r] \in ReturnRows
    BY RowsTyped DEF GoodsInv, ReturnsTypeOK, Returns
  <2>2. RowGoods(returns[r]) \in Columns
    BY <2>1, RowNumbers
  <2>3. Value(r) \in Nat
    BY <2>2, WorthFacts, TotalsOfReturns
  <2> QED
    BY <2>1, <2>3, ReturnsAssumption DEF GoodsInv
<1>3. /\ credits[r] = NoNote /\ returns[r].status = "APPROVED"
      /\ credits' = [credits EXCEPT ![r] = n] /\ refunds' = refunds
      /\ posted' = [posted EXCEPT !.credit[r] = @ + Value(r)]
  BY DEF Generate
<1>4. /\ posted'.credit = [posted.credit EXCEPT ![r] = entry]
      /\ posted'.refund = posted.refund
      /\ posted' \in [credit : [1..MaxReturns -> Nat], refund : [1..MaxRefunds -> Nat]]
  <2>1. posted \in [credit : [1..MaxReturns -> Nat], refund : [1..MaxRefunds -> Nat]]
    BY DEF MoneyInv, CreditsTypeOK
  <2>2. r \in 1..MaxReturns /\ entry \in Nat
    <3>1. r \in 1..MaxReturns
      BY <1>2
    <3>2. posted.credit[r] \in Nat
      BY <1>1, <3>1
    <3> QED
      BY <1>2, <3>1, <3>2
  <2>3. posted' = [posted EXCEPT !.credit = [posted.credit EXCEPT ![r] = entry]]
    BY <1>3, <2>1
  <2>4. [posted.credit EXCEPT ![r] = entry] \in [1..MaxReturns -> Nat]
    BY <1>1, <2>2
  <2> QED
    BY <2>1, <2>3, <2>4
<1>5. n \in Notes /\ n # NoNote /\ n.allocated = 0
  BY <1>2, NoteFacts
<1>6. NoteAgrees(NoNote, posted.credit[r], Value(r), Total(DrawnIn(refunds, posted.refund, r)))
  BY <1>2, <1>3 DEF MoneyInv, NoteFits
<1>7. entry = Value(r) /\ Total(DrawnIn(refunds, posted.refund, r)) = 0
  BY <1>2, <1>6 DEF NoteAgrees
<1>8. NoteAgrees(n, entry, Value(r), 0)
  BY <1>2, <1>5, <1>7 DEF NoteAgrees
<1> HIDE DEF n, entry
<1>9. /\ credits' \in [1..MaxReturns -> Notes] /\ credits'[r] = n
      /\ \A s \in 1..MaxReturns : s # r => credits'[s] = credits[s]
      /\ posted'.credit[r] = entry
      /\ \A s \in 1..MaxReturns : s # r => posted'.credit[s] = posted.credit[s]
  BY <1>1, <1>2, <1>3, <1>4, <1>5
<1>10. /\ Returns' = Returns /\ returns' = returns
       /\ \A s \in Returns : Value(s)' = Value(s)
  BY ValueStays
<1>11. ASSUME NEW s \in 1..MaxReturns
       PROVE  NoteFits(s)'
  <2>1. CASE s = r
    <3>1. credits'[s] = n /\ posted'.credit[s] = entry /\ Value(s)' = Value(r)
      BY <1>9, <1>10, <2>1
    <3>2. Total(DrawnIn(refunds', posted'.refund, s)) = 0
      BY <1>3, <1>4, <1>7, <2>1
    <3>3. s \in Returns' /\ returns'[s].status = "APPROVED"
      BY <1>3, <1>10, <2>1
    <3> QED
      BY <1>8, <3>1, <3>2, <3>3 DEF NoteFits
  <2>2. CASE s # r
    <3>1. credits'[s] = credits[s] /\ posted'.credit[s] = posted.credit[s]
      BY <1>9, <2>2
    <3>2. NoteFits(s)
      BY DEF MoneyInv
    <3>3. CASE credits[s] = NoNote
      BY <1>3, <1>4, <3>1, <3>2, <3>3 DEF NoteFits, NoteAgrees
    <3>4. CASE credits[s] # NoNote
      BY <1>3, <1>4, <1>10, <3>1, <3>2, <3>4 DEF NoteFits
    <3> QED
      BY <3>3, <3>4
  <2> QED
    BY <2>1, <2>2
<1>12. ASSUME NEW f \in 1..MaxRefunds
       PROVE  RefundFits(f)'
  <2>1. RefundFits(f)
    BY DEF MoneyInv
  <2>2. f \in Refunds => refunds[f].note \in 1..MaxReturns
    BY <1>1 DEF RefundRows
  <2> QED
    BY <1>3, <1>4, <1>5, <1>9, <2>1, <2>2 DEF RefundFits, Refunds
<1>13. CreditsTypeOK'
  BY <1>1, <1>3, <1>4, <1>9 DEF CreditsTypeOK
<1>14. AllocatedIn(credits)' = AllocatedIn(credits)
  <2>1. \A s \in 1..MaxReturns : Allocated(credits'[s]) = Allocated(credits[s])
    BY <1>3, <1>5, <1>9 DEF Allocated
  <2> QED
    BY <2>1 DEF AllocatedIn
<1>15. (Total(posted.refund) = Total(AllocatedIn(credits)))'
  BY <1>4, <1>14 DEF MoneyInv, Total
<1>16. (Len(refunds) <= MaxRefunds)'
  BY <1>3 DEF MoneyInv
<1>17. \A s \in 1..MaxReturns : posted.credit[s] <= posted'.credit[s]
  <2>1. posted.credit[r] <= entry
    <3>1. posted.credit[r] \in Nat
      BY <1>1, <1>2
    <3> QED
      BY <1>2, <3>1 DEF entry
  <2>2. \A s \in 1..MaxReturns : posted.credit[s] \in Nat
    BY <1>1
  <2> QED
    BY <1>9, <2>1, <2>2
<1> QED
  BY <1>3, <1>4, <1>11, <1>12, <1>13, <1>15, <1>16, <1>17 DEF MoneyInv

(* A transaction that only writes refunds keeps the invariant when every note
   has drawn what it had. *)
LEMMA RefundsKeepMoney ==
  ASSUME MoneyInv, UNCHANGED goods, credits' = credits, posted' = posted,
         refunds' \in Seq(RefundRows), Len(refunds') <= MaxRefunds,
         \A r \in 1..MaxReturns :
           Total(DrawnIn(refunds', posted.refund, r)) = Total(DrawnIn(refunds, posted.refund, r)),
         \A f \in 1..MaxRefunds : RefundFits(f)'
  PROVE  MoneyInv'
<1>1. /\ Returns' = Returns /\ returns' = returns /\ \A s \in Returns : Value(s)' = Value(s)
  BY ValueStays
<1>2. ASSUME NEW r \in 1..MaxReturns
      PROVE  NoteFits(r)'
  <2>1. NoteFits(r)
    BY DEF MoneyInv
  <2>2. CASE credits[r] = NoNote
    BY <2>1, <2>2 DEF NoteFits, NoteAgrees
  <2>3. CASE credits[r] # NoNote
    BY <1>1, <2>1, <2>3 DEF NoteFits
  <2> QED
    BY <2>2, <2>3
<1>3. CreditsTypeOK'
  BY DEF MoneyInv, CreditsTypeOK
<1>4. (Total(posted.refund) = Total(AllocatedIn(credits)))'
  BY DEF MoneyInv, Total, AllocatedIn
<1> QED
  BY <1>2, <1>3, <1>4 DEF MoneyInv

(* A new refund request draws nothing yet. *)
LEMMA RequestKeepsMoney ==
  ASSUME MoneyInv, UNCHANGED goods, NEW u \in Staff, NEW r \in 1..MaxReturns,
         NEW amount \in Nat \ {0}, CreateRefund(u, r, amount)
  PROVE  MoneyInv' /\ Len(refunds) <= Len(refunds')
<1> DEFINE row == [status |-> "REQUESTED", note |-> r, amount |-> amount, by |-> u]
           n == Len(refunds) + 1
           S == DOMAIN refunds
           U == DOMAIN refunds'
<1>1. /\ refunds \in Seq(RefundRows) /\ Refunds = S /\ Len(refunds) \in Nat
      /\ IsFiniteSet(S) /\ S = 1..Len(refunds) /\ S \subseteq 1..MaxRefunds
      /\ posted.refund \in [1..MaxRefunds -> Nat]
  BY MoneyTyped DEF MoneyInv
<1>2. row \in RefundRows /\ row.status # "PROCESSED" /\ row.note = r
  BY DEF RefundRows, Undecided
<1>3. /\ Len(refunds) < MaxRefunds /\ refunds' = Append(refunds, row)
      /\ credits' = credits /\ posted' = posted
      /\ credits[r] # NoNote
  BY DEF CreateRefund, NoNote
<1> HIDE DEF row
<1>4. /\ refunds' \in Seq(RefundRows) /\ Len(refunds') = n
      /\ U = S \cup {n} /\ n \notin S /\ refunds'[n] = row
      /\ \A f \in S : refunds'[f] = refunds[f]
  BY <1>1, <1>2, <1>3, Appended
<1>5. n \in 1..MaxRefunds /\ Len(refunds') <= MaxRefunds /\ Len(refunds) <= Len(refunds')
  BY <1>1, <1>3, <1>4, CreditAssumption
<1>6. posted.refund[n] = 0
  BY <1>1, <1>4, <1>5 DEF MoneyInv, RefundFits
<1> HIDE DEF n, S, U
<1>7. Extends(U, S, n)
  BY <1>4 DEF Extends
<1>8. ASSUME NEW f \in [S -> Int], NEW g \in [U -> Int], \A i \in S : g[i] = f[i]
       PROVE  Total(g) = Total(f) + g[n]
  BY <1>1, <1>7, <1>8, TotalExtended, SMTT(60)
<1>9. ASSUME NEW s \in 1..MaxReturns
      PROVE  Total(DrawnIn(refunds', posted.refund, s)) = Total(DrawnIn(refunds, posted.refund, s))
  <2> DEFINE before == DrawnIn(refunds, posted.refund, s)
             after == DrawnIn(refunds', posted.refund, s)
  <2>1. before \in [S -> Int] /\ after \in [U -> Int] /\ Total(before) \in Nat
    BY <1>1, <1>4, <1>5, DrawnTyped DEF MoneyInv, S, U
  <2>2. \A f \in S : after[f] = before[f]
    BY <1>4 DEF DrawnIn, S, U
  <2>3. after[n] = 0
    BY <1>4, <1>6 DEF DrawnIn, U
  <2> HIDE DEF before, after
  <2>5. Total(after) = Total(before) + after[n]
    BY <1>8, <2>1, <2>2
  <2> QED
    BY <2>1, <2>3, <2>5 DEF before, after
<1>10. ASSUME NEW f \in 1..MaxRefunds
      PROVE  RefundFits(f)'
  <2>1. RefundFits(f)
    BY DEF MoneyInv
  <2>2. Refunds' = U
    BY DEF Refunds, U
  <2>3. CASE f = n
    BY <1>2, <1>3, <1>4, <1>6, <2>2, <2>3 DEF RefundFits
  <2>4. CASE f # n
    <3>1. f \in Refunds' <=> f \in Refunds
      BY <1>1, <1>4, <2>2, <2>4
    <3>2. f \in Refunds => refunds'[f] = refunds[f]
      BY <1>1, <1>4
    <3> QED
      BY <1>3, <2>1, <3>1, <3>2 DEF RefundFits
  <2> QED
    BY <2>3, <2>4
<1> QED
  BY <1>3, <1>4, <1>5, <1>9, <1>10, RefundsKeepMoney
(* Review and decisions write a status: nothing is paid. *)
LEMMA MoveKeepsMoney ==
  ASSUME MoneyInv, UNCHANGED goods, NEW f \in Refunds, NEW s \in RefundStatuses \ {"PROCESSED"},
         refunds[f].status \notin {"PROCESSED", "REJECTED"}, MoveTo(f, s)
  PROVE  MoneyInv' /\ Len(refunds) <= Len(refunds')
<1> DEFINE row == [refunds[f] EXCEPT !.status = s]
<1>1. /\ refunds \in Seq(RefundRows) /\ Refunds = DOMAIN refunds /\ Len(refunds) \in Nat
      /\ Len(refunds) <= MaxRefunds
      /\ refunds[f] \in RefundRows
  BY MoneyTyped DEF MoneyInv
<1>2. /\ row \in RefundRows /\ row.status = s /\ row.note = refunds[f].note
  BY <1>1 DEF RefundRows, RefundStatuses
<1>3. /\ refunds' = [refunds EXCEPT ![f] = row] /\ credits' = credits /\ posted' = posted
  BY DEF MoveTo
<1> HIDE DEF row
<1>4. /\ refunds' \in Seq(RefundRows) /\ Len(refunds') = Len(refunds)
      /\ DOMAIN refunds' = DOMAIN refunds /\ refunds'[f] = row
      /\ \A g \in DOMAIN refunds : g # f => refunds'[g] = refunds[g]
  BY <1>1, <1>2, <1>3, Replaced
<1>5. \A r : DrawnIn(refunds', posted.refund, r) = DrawnIn(refunds, posted.refund, r)
  <2>1. \A g \in DOMAIN refunds : refunds'[g].note = refunds[g].note
    BY <1>2, <1>4
  <2> QED
    BY <1>4, <2>1 DEF DrawnIn
<1>6. ASSUME NEW g \in 1..MaxRefunds
      PROVE  RefundFits(g)'
  <2>1. RefundFits(g)
    BY DEF MoneyInv
  <2>2. Refunds' = Refunds
    BY <1>4 DEF Refunds
  <2>3. CASE g = f
    BY <1>2, <1>3, <1>4, <2>1, <2>2, <2>3 DEF RefundFits
  <2>4. CASE g # f
    BY <1>1, <1>3, <1>4, <2>1, <2>2, <2>4 DEF RefundFits
  <2> QED
    BY <2>3, <2>4
<1>7. \A r \in 1..MaxReturns :
        Total(DrawnIn(refunds', posted.refund, r)) = Total(DrawnIn(refunds, posted.refund, r))
  BY <1>5
<1>8. Len(refunds') <= MaxRefunds /\ Len(refunds) <= Len(refunds')
  BY <1>1, <1>4
<1>9. credits' = credits /\ posted' = posted /\ refunds' \in Seq(RefundRows)
  BY <1>3, <1>4
<1> QED
  BY <1>6, <1>7, <1>8, <1>9, RefundsKeepMoney

(* A refund is paid out of what its note has left. *)
LEMMA ProcessKeepsMoney ==
  ASSUME GoodsInv, MoneyInv, UNCHANGED goods, NEW f \in Refunds, ProcessRefund(f)
  PROVE  /\ MoneyInv' /\ posted'.credit = posted.credit /\ Len(refunds) <= Len(refunds')
         /\ \A g \in 1..MaxRefunds : posted.refund[g] <= posted'.refund[g]
<1>1. /\ refunds \in Seq(RefundRows) /\ Refunds = DOMAIN refunds /\ Len(refunds) \in Nat
      /\ Len(refunds) <= MaxRefunds /\ Refunds \subseteq 1..MaxRefunds /\ IsFiniteSet(Refunds)
      /\ refunds[f] \in RefundRows /\ \A g \in Refunds : refunds[g] \in RefundRows
      /\ credits \in [1..MaxReturns -> Notes]
      /\ posted.credit \in [1..MaxReturns -> Nat] /\ posted.refund \in [1..MaxRefunds -> Nat]
      /\ IsFiniteSet(1..MaxReturns) /\ IsFiniteSet(1..MaxRefunds)
  BY MoneyTyped DEF MoneyInv
<1>2. PICK r \in 1..MaxReturns, amount \in Nat \ {0} :
        refunds[f].note = r /\ refunds[f].amount = amount /\ f \in 1..MaxRefunds
  BY <1>1 DEF RefundRows
<1> DEFINE row == [refunds[f] EXCEPT !.status = "PROCESSED"]
           note == PaidFrom(credits[r], amount)
           drawn == Total(DrawnIn(refunds, posted.refund, r))
           entry == posted.refund[f] + amount
<1>3. /\ refunds[f].status = "APPROVED" /\ amount <= credits[r].remaining
      /\ credits' = [credits EXCEPT ![r] = note]
      /\ refunds' = [refunds EXCEPT ![f] = row]
      /\ posted' = [posted EXCEPT !.refund[f] = @ + amount]
  BY <1>2 DEF ProcessRefund
<1>4. credits[r] # NoNote /\ posted.refund[f] = 0
  BY <1>2, <1>3 DEF MoneyInv, RefundFits
<1>5. /\ drawn \in Nat
      /\ NoteAgrees(credits[r], posted.credit[r], Value(r), drawn)
      /\ r \in Returns /\ returns[r].status = "APPROVED"
  BY <1>1, <1>2, <1>4, DrawnTyped DEF MoneyInv, NoteFits
<1>6. Value(r) \in Nat
  <2>1. returns[r] \in ReturnRows
    BY <1>5, RowsTyped DEF GoodsInv, ReturnsTypeOK, Returns
  <2>2. RowGoods(returns[r]) \in Columns
    BY <2>1, RowNumbers
  <2> QED
    BY <1>5, <2>2, WorthFacts, TotalsOfReturns
<1>7. /\ drawn <= Value(r) /\ posted.credit[r] = Value(r)
      /\ credits[r].total = Value(r) /\ credits[r].allocated = drawn
      /\ credits[r].remaining = Value(r) - drawn
  <2> DEFINE status == IF drawn = 0 THEN "ISSUED"
                       ELSE IF drawn = Value(r) THEN "FULLY_REFUNDED" ELSE "PARTIALLY_REFUNDED"
  <2>1. drawn <= Value(r) /\ posted.credit[r] = Value(r) /\ credits[r] = Note(status, Value(r), drawn)
    BY <1>4, <1>5 DEF NoteAgrees
  <2>2. status \in {"ISSUED", "PARTIALLY_REFUNDED", "FULLY_REFUNDED"}
    OBVIOUS
  <2> HIDE DEF status, drawn
  <2> QED
    BY <1>5, <1>6, <2>1, <2>2, NoteFacts
<1>8. /\ posted' \in [credit : [1..MaxReturns -> Nat], refund : [1..MaxRefunds -> Nat]]
      /\ posted'.credit = posted.credit
      /\ posted'.refund = [posted.refund EXCEPT ![f] = entry]
  <2>1. posted \in [credit : [1..MaxReturns -> Nat], refund : [1..MaxRefunds -> Nat]]
    BY DEF MoneyInv, CreditsTypeOK
  <2>2. posted.refund[f] \in Nat
    BY <1>1, <1>2
  <2>3. entry \in Nat
    BY <1>2, <2>2
  <2>4. posted' = [posted EXCEPT !.refund = [posted.refund EXCEPT ![f] = entry]]
    BY <1>3, <2>1
  <2>5. [posted.refund EXCEPT ![f] = entry] \in [1..MaxRefunds -> Nat]
    BY <1>1, <2>3
  <2> QED
    BY <2>1, <2>4, <2>5
<1>9. /\ row \in RefundRows /\ row.status = "PROCESSED" /\ row.note = r /\ row.amount = amount
  BY <1>1, <1>2 DEF RefundRows
<1>10. entry = amount
  BY <1>2, <1>4
<1>11. /\ note \in Notes /\ note # NoNote /\ note.allocated = drawn + amount
       /\ NoteAgrees(note, posted.credit[r], Value(r), drawn + amount)
  <2> DEFINE status == IF drawn + amount = Value(r) THEN "FULLY_REFUNDED" ELSE "PARTIALLY_REFUNDED"
  <2>1. note = Note(status, Value(r), drawn + amount)
    BY <1>7 DEF PaidFrom
  <2>2. status \in {"ISSUED", "PARTIALLY_REFUNDED", "FULLY_REFUNDED"}
    OBVIOUS
  <2>3. /\ drawn + amount \in Nat /\ drawn + amount # 0 /\ drawn + amount <= Value(r)
    <3>1. \A a, b, c \in Nat : b # 0 /\ b <= c - a => a + b \in Nat /\ a + b # 0 /\ a + b <= c
      OBVIOUS
    <3> HIDE DEF drawn
    <3> QED
      BY <1>2, <1>3, <1>5, <1>6, <1>7, <3>1
  <2> DEFINE sum == drawn + amount
  <2> HIDE DEF sum, status, note
  <2>4. /\ note \in Notes /\ note # NoNote /\ note.allocated = sum
    <3>1. note = Note(status, Value(r), sum) /\ sum \in Nat /\ sum <= Value(r)
      BY <2>1, <2>3 DEF sum
    <3> QED
      BY <1>6, <2>2, <3>1, NoteFacts
  <2>5. NoteAgrees(note, posted.credit[r], Value(r), drawn + amount)
    <3> HIDE DEF drawn
    <3> QED
      BY <1>7, <2>1, <2>3, <2>4 DEF NoteAgrees, status
  <2> QED
    BY <2>4, <2>5 DEF sum
<1> HIDE DEF row, note, drawn, entry
<1>12. /\ refunds' \in Seq(RefundRows) /\ Len(refunds') = Len(refunds)
       /\ DOMAIN refunds' = DOMAIN refunds /\ refunds'[f] = row
       /\ \A g \in DOMAIN refunds : g # f => refunds'[g] = refunds[g]
  BY <1>1, <1>3, <1>9, Replaced
<1>13. /\ credits' \in [1..MaxReturns -> Notes] /\ credits'[r] = note
       /\ \A s \in 1..MaxReturns : s # r => credits'[s] = credits[s]
       /\ posted'.refund \in [1..MaxRefunds -> Nat] /\ posted'.refund[f] = amount
       /\ \A g \in 1..MaxRefunds : g # f => posted'.refund[g] = posted.refund[g]
  BY <1>1, <1>2, <1>3, <1>8, <1>10, <1>11
<1>14. ASSUME NEW s \in 1..MaxReturns
       PROVE  Total(DrawnIn(refunds', posted'.refund, s))
                = Total(DrawnIn(refunds, posted.refund, s)) + (IF s = r THEN amount ELSE 0)
  <2> DEFINE before == DrawnIn(refunds, posted.refund, s)
             after == DrawnIn(refunds', posted'.refund, s)
             S == Refunds
  <2>1. before \in [S -> Int] /\ after \in [S -> Int] /\ Total(before) \in Nat
    BY <1>1, <1>12, <1>13, DrawnTyped
  <2>2. \A g \in S : g # f => after[g] = before[g]
    BY <1>1, <1>12, <1>13 DEF DrawnIn
  <2>3. after[f] = (IF s = r THEN amount ELSE 0) /\ before[f] = 0
    BY <1>1, <1>4, <1>9, <1>12, <1>13 DEF DrawnIn
  <2> HIDE DEF before, after
  <2>5. DifferAt(before, after, S, f)
    BY <2>1, <2>2 DEF DifferAt
  <2>4. Total(after) = Total(before) + (after[f] - before[f])
    BY <1>1, <2>5, TotalDiffers
  <2> QED
    BY <1>2, <2>1, <2>3, <2>4 DEF before, after
<1>15. /\ Returns' = Returns /\ returns' = returns
       /\ \A s \in Returns : Value(s)' = Value(s)
  BY ValueStays
<1>16. ASSUME NEW s \in 1..MaxReturns
       PROVE  NoteFits(s)'
  <2>1. NoteFits(s)
    BY DEF MoneyInv
  <2>2. CASE s = r
    <3>1. Total(DrawnIn(refunds', posted'.refund, r)) = drawn + amount
      BY <1>2, <1>14 DEF drawn
    <3>2. Value(r)' = Value(r)
      BY <1>5, <1>15
    <3>3. credits'[r] = note /\ posted'.credit[r] = posted.credit[r]
      BY <1>8, <1>13
    <3>4. NoteAgrees(credits'[r], posted'.credit[r], Value(r)', Total(DrawnIn(refunds', posted'.refund, r)))
      BY <1>11, <3>1, <3>2, <3>3
    <3>5. r \in Returns' /\ returns'[r].status = "APPROVED"
      BY <1>5, <1>15
    <3>6. /\ NoteAgrees(credits'[s], posted'.credit[s], Value(s)', Total(DrawnIn(refunds', posted'.refund, s)))
          /\ s \in Returns' /\ returns'[s].status = "APPROVED"
      BY <2>2, <3>4, <3>5
    <3> QED
      BY <3>6 DEF NoteFits
  <2>3. CASE s # r
    <3>1. DrawnIn(refunds, posted.refund, s) \in [DOMAIN refunds -> Int]
          /\ Total(DrawnIn(refunds, posted.refund, s)) \in Nat
      BY <1>1, DrawnTyped
    <3>2. Total(DrawnIn(refunds', posted'.refund, s)) = Total(DrawnIn(refunds, posted.refund, s))
      BY <1>14, <2>3, <3>1
    <3>3. credits'[s] = credits[s] /\ posted'.credit[s] = posted.credit[s]
      BY <1>8, <1>13, <2>3
    <3>4. CASE credits[s] = NoNote
      BY <2>1, <3>2, <3>3, <3>4 DEF NoteFits, NoteAgrees
    <3>5. CASE credits[s] # NoNote
      BY <1>15, <2>1, <3>2, <3>3, <3>5 DEF NoteFits
    <3> QED
      BY <3>4, <3>5
  <2> QED
    BY <2>2, <2>3
<1>17. ASSUME NEW g \in 1..MaxRefunds
       PROVE  RefundFits(g)'
  <2>1. RefundFits(g)
    BY DEF MoneyInv
  <2>2. Refunds' = Refunds
    BY <1>12 DEF Refunds
  <2>3. \A s \in 1..MaxReturns : credits[s] # NoNote => credits'[s] # NoNote
    BY <1>11, <1>13
  <2>4. CASE g = f
    BY <1>2, <1>9, <1>11, <1>12, <1>13, <2>2, <2>4 DEF RefundFits
  <2>5. CASE g # f
    <3>1. posted'.refund[g] = posted.refund[g]
      BY <1>13, <2>5
    <3>2. g \in Refunds => refunds'[g] = refunds[g] /\ refunds[g].note \in 1..MaxReturns
      BY <1>1, <1>12, <2>5 DEF RefundRows
    <3> QED
      BY <2>1, <2>2, <2>3, <3>1, <3>2 DEF RefundFits
  <2> QED
    BY <2>4, <2>5
<1>18. CreditsTypeOK'
  BY <1>8, <1>12, <1>13 DEF CreditsTypeOK
<1>19. Total(posted'.refund) = Total(AllocatedIn(credits'))
  <2> DEFINE paid == posted.refund
             paidNow == posted'.refund
             old == AllocatedIn(credits)
             new == AllocatedIn(credits')
  <2>1. \A s \in 1..MaxReturns : Allocated(credits[s]) \in Nat /\ Allocated(credits'[s]) \in Nat
    <3>1. \A any \in Notes : Allocated(any) \in Nat
      BY DEF Notes, Allocated
    <3> QED
      BY <1>1, <1>13, <3>1
  <2>2. /\ old \in [1..MaxReturns -> Nat] /\ new \in [1..MaxReturns -> Nat]
        /\ old \in [1..MaxReturns -> Int] /\ new \in [1..MaxReturns -> Int]
    BY <2>1 DEF AllocatedIn
  <2>3. /\ \A s \in 1..MaxReturns : s # r => new[s] = old[s]
        /\ new[r] = drawn + amount /\ old[r] = drawn
    BY <1>2, <1>4, <1>7, <1>11, <1>13 DEF AllocatedIn, Allocated
  <2>4. /\ paid \in [1..MaxRefunds -> Int] /\ paidNow \in [1..MaxRefunds -> Int]
    BY <1>1, <1>13
  <2>5. /\ \A g \in 1..MaxRefunds : g # f => paidNow[g] = paid[g]
        /\ paidNow[f] = amount /\ paid[f] = 0
    BY <1>4, <1>13
  <2>6. Total(old) = Total(paid)
    BY DEF MoneyInv
  <2> HIDE DEF paid, paidNow, old, new
  <2>11. DifferAt(old, new, 1..MaxReturns, r)
    BY <1>2, <2>2, <2>3 DEF DifferAt
  <2>12. DifferAt(paid, paidNow, 1..MaxRefunds, f)
    BY <1>2, <2>4, <2>5 DEF DifferAt
  <2>7. Total(new) = Total(old) + (new[r] - old[r])
    BY <1>1, <2>11, TotalDiffers
  <2>8. Total(paidNow) = Total(paid) + (paidNow[f] - paid[f])
    BY <1>1, <2>12, TotalDiffers
  <2>9. Total(old) \in Nat
    BY <1>1, <2>2, TotalType
  <2>10. Total(paidNow) = Total(new)
    BY <1>2, <1>5, <2>3, <2>5, <2>6, <2>7, <2>8, <2>9
  <2> QED
    BY <2>10 DEF paidNow, new
<1>20. (Total(posted.refund) = Total(AllocatedIn(credits)))'
  BY <1>19 DEF Total, AllocatedIn
<1>21. (Len(refunds) <= MaxRefunds)' /\ Len(refunds) <= Len(refunds')
  BY <1>1, <1>12
<1>22. \A g \in 1..MaxRefunds : posted.refund[g] <= posted'.refund[g]
  <2>1. \A g \in 1..MaxRefunds : posted.refund[g] \in Nat
    BY <1>1
  <2> QED
    BY <1>2, <1>4, <1>13, <2>1
<1> QED
  BY <1>8, <1>16, <1>17, <1>18, <1>20, <1>21, <1>22 DEF MoneyInv

(* Every transaction of credit notes and refunds keeps the invariant. *)
LEMMA MoneyKeepsMoney ==
  ASSUME GoodsInv, MoneyInv, MoneyMoves, UNCHANGED goods
  PROVE  MoneyInv' /\ Len(refunds) <= Len(refunds')
<1>1. ASSUME NEW r \in Returns, Generate(r)
      PROVE  MoneyInv' /\ Len(refunds) <= Len(refunds')
  <2>1. Len(refunds) \in Nat
    BY MoneyTyped DEF MoneyInv
  <2> QED
    BY <1>1, <2>1, GenerateKeepsMoney
<1> QED
  BY <1>1, RequestKeepsMoney, MoveKeepsMoney, ProcessKeepsMoney DEF MoneyMoves
-----------------------------------------------------------------------------
(* Pages. *)

SaleInv == GoodsInv /\ MoneyInv /\ PagesTyped /\ PagesKnow

(* A page of an existing document may be shown. *)
LEMMA DocumentPages ==
  /\ \A doc \in Columns : [at |-> "newReturn", doc |-> doc] \in Pages
  /\ \A id \in 1..MaxReturns, doc \in ReturnRows : [at |-> "return", id |-> id, doc |-> doc] \in Pages
  /\ \A id \in 1..MaxReturns, doc \in Notes : [at |-> "note", id |-> id, doc |-> doc] \in Pages
  /\ \A id \in 1..MaxRefunds, doc \in RefundRows : [at |-> "refund", id |-> id, doc |-> doc] \in Pages
BY DEF Pages

(* Whoever turns a page leaves the others alone; documents stay. *)
LEMMA PageTurned ==
  ASSUME PagesTyped, PagesKnow, Returns \subseteq Returns', Refunds \subseteq Refunds',
         NEW u \in Staff, NEW next \in Pages,
         next.at = "return" => next.id \in Returns', next.at = "refund" => next.id \in Refunds',
         page' = [page EXCEPT ![u] = next] \/ page' = page
  PROVE  PagesTyped' /\ PagesKnow'
<1>1. /\ DOMAIN page' = Staff
      /\ \A v \in Staff : page'[v] = page[v] \/ page'[v] = next
  BY DEF PagesTyped
<1>2. ASSUME NEW v \in Staff
      PROVE  /\ page'[v] \in Pages
             /\ page'[v].at = "return" => page'[v].id \in Returns'
             /\ page'[v].at = "refund" => page'[v].id \in Refunds'
  <2>1. CASE page'[v] = page[v]
    BY <2>1 DEF PagesTyped, PagesKnow, Knows
  <2>2. CASE page'[v] = next
    BY <2>2
  <2> QED
    BY <1>1, <2>1, <2>2
<1>3. PagesTyped'
  BY <1>1, <1>2 DEF PagesTyped
<1>4. PagesKnow'
  BY <1>2 DEF PagesKnow, Knows
<1> QED
  BY <1>3, <1>4

(* The tables, their lengths and their rows. *)
LEMMA TablesTyped ==
  ASSUME GoodsInv, MoneyInv
  PROVE  /\ Len(returns) \in Nat /\ Returns = 1..Len(returns) /\ Returns \subseteq 1..MaxReturns
         /\ \A r \in Returns : returns[r] \in ReturnRows
         /\ Len(refunds) \in Nat /\ Refunds = 1..Len(refunds) /\ Refunds \subseteq 1..MaxRefunds
         /\ \A f \in Refunds : refunds[f] \in RefundRows
         /\ \A r \in 1..MaxReturns : credits[r] \in Notes
         /\ [l \in Lines |-> Returnable(l)] \in Columns
<1>1. /\ Len(returns) \in Nat /\ Returns = 1..Len(returns)
      /\ \A r \in Returns : returns[r] \in ReturnRows
  BY RowsTyped DEF GoodsInv, ReturnsTypeOK, Returns
<1>2. Returns \subseteq 1..MaxReturns
  BY <1>1, ReturnsAssumption DEF GoodsInv
<1>3. /\ Len(refunds) \in Nat /\ Refunds = 1..Len(refunds) /\ Refunds \subseteq 1..MaxRefunds
      /\ \A f \in Refunds : refunds[f] \in RefundRows
      /\ \A r \in 1..MaxReturns : credits[r] \in Notes
  BY MoneyTyped DEF MoneyInv
<1>4. \A l \in Lines : Returnable(l) \in Nat
  <2> SUFFICES ASSUME NEW l \in Lines PROVE Returnable(l) \in Nat
    OBVIOUS
  <2>1. returned[l] \in Nat /\ Total(AskedIn(returns, l)) \in Nat /\ Delivered(l) \in Nat
    BY GoodsTyped DEF GoodsInv
  <2>2. Returnable(l) = Max0(Delivered(l) - (returned[l] + Total(AskedIn(returns, l))))
    BY TotalsOfReturns DEF Returnable, Pending
  <2>3. Delivered(l) - (returned[l] + Total(AskedIn(returns, l))) \in Int
    BY <2>1
  <2> QED
    BY <2>2, <2>3, Max0Type
<1> QED
  BY <1>1, <1>2, <1>3, <1>4 DEF Columns

(* Tables that have not shrunk still hold every row. *)
LEMMA TablesGrow ==
  ASSUME GoodsInv, MoneyInv, GoodsInv', MoneyInv',
         Len(returns) <= Len(returns'), Len(refunds) <= Len(refunds')
  PROVE  /\ Returns \subseteq Returns' /\ Returns' \subseteq 1..MaxReturns
         /\ Refunds \subseteq Refunds' /\ Refunds' \subseteq 1..MaxRefunds
         /\ Returns' = 1..Len(returns') /\ Refunds' = 1..Len(refunds')
         /\ Len(returns') \in Nat /\ Len(refunds') \in Nat
         /\ \A r \in Returns' : returns'[r] \in ReturnRows
         /\ \A f \in Refunds' : refunds'[f] \in RefundRows
<1>1. /\ Len(returns) \in Nat /\ Returns = 1..Len(returns)
      /\ Len(refunds) \in Nat /\ Refunds = 1..Len(refunds)
  BY TablesTyped
<1>2. /\ Len(returns') \in Nat /\ Returns' = 1..Len(returns')
      /\ \A r \in Returns' : returns'[r] \in ReturnRows
  BY RowsTyped DEF GoodsInv, ReturnsTypeOK, Returns
<1>3. /\ Len(refunds') \in Nat /\ Refunds' = 1..Len(refunds')
      /\ \A f \in Refunds' : refunds'[f] \in RefundRows
  BY RowsTyped DEF MoneyInv, CreditsTypeOK, Refunds
<1>4. Returns \subseteq Returns' /\ Refunds \subseteq Refunds'
  BY <1>1, <1>2, <1>3
<1>5. Returns' \subseteq 1..MaxReturns /\ Refunds' \subseteq 1..MaxRefunds
  BY <1>2, <1>3, ReturnsAssumption, CreditAssumption DEF GoodsInv, MoneyInv
<1> QED
  BY <1>2, <1>3, <1>4, <1>5

(* Every step keeps pages of existing documents. *)
LEMMA PagesKept ==
  ASSUME SaleInv, Next, GoodsInv', MoneyInv',
         Len(returns) <= Len(returns'), Len(refunds) <= Len(refunds')
  PROVE  PagesTyped' /\ PagesKnow'
<1>1. PagesTyped /\ PagesKnow /\ GoodsInv /\ MoneyInv
  BY DEF SaleInv
<1>2. /\ Returns \subseteq Returns' /\ Returns' \subseteq 1..MaxReturns
      /\ Refunds \subseteq Refunds' /\ Refunds' \subseteq 1..MaxRefunds
      /\ Returns' = 1..Len(returns') /\ Refunds' = 1..Len(refunds')
      /\ Len(returns') \in Nat /\ Len(refunds') \in Nat
      /\ \A r \in Returns' : returns'[r] \in ReturnRows
      /\ \A f \in Refunds' : refunds'[f] \in RefundRows
  BY <1>1, TablesGrow
<1>3. /\ Returns \subseteq 1..MaxReturns /\ Refunds \subseteq 1..MaxRefunds
      /\ \A r \in Returns : returns[r] \in ReturnRows
      /\ \A f \in Refunds : refunds[f] \in RefundRows
      /\ \A r \in 1..MaxReturns : credits[r] \in Notes
      /\ [l \in Lines |-> Returnable(l)] \in Columns
      /\ Len(returns) \in Nat /\ Len(refunds) \in Nat
      /\ Returns = 1..Len(returns) /\ Refunds = 1..Len(refunds)
  BY <1>1, TablesTyped
<1>4. ASSUME NEW u \in Staff, NEW next \in Pages,
             next.at = "return" => next.id \in Returns', next.at = "refund" => next.id \in Refunds',
             page' = [page EXCEPT ![u] = next] \/ page' = page
      PROVE  PagesTyped' /\ PagesKnow'
  BY <1>1, <1>2, <1>4, PageTurned
<1>5. ASSUME NEW u \in Staff, NEW r \in Returns', Answer(u, [at |-> "return", id |-> r, doc |-> returns'[r]])
      PROVE  PagesTyped' /\ PagesKnow'
  <2> DEFINE next == [at |-> "return", id |-> r, doc |-> returns'[r]]
  <2>1. next \in Pages
    BY <1>2, DocumentPages
  <2>2. next.at = "return" /\ next.id = r
    OBVIOUS
  <2>3. page' = [page EXCEPT ![u] = next] \/ page' = page
    BY <1>5 DEF Answer
  <2> HIDE DEF next
  <2> QED
    BY <1>4, <2>1, <2>2, <2>3
<1>6. ASSUME NEW u \in Staff, NEW f \in Refunds', Answer(u, [at |-> "refund", id |-> f, doc |-> refunds'[f]])
      PROVE  PagesTyped' /\ PagesKnow'
  <2> DEFINE next == [at |-> "refund", id |-> f, doc |-> refunds'[f]]
  <2>1. next \in Pages
    BY <1>2, DocumentPages
  <2>2. next.at = "refund" /\ next.id = f
    OBVIOUS
  <2>3. page' = [page EXCEPT ![u] = next] \/ page' = page
    BY <1>6 DEF Answer
  <2> HIDE DEF next
  <2> QED
    BY <1>4, <2>1, <2>2, <2>3
<1>7. ASSUME NEW u \in Staff
      PROVE  page[u] \in Pages /\ Knows(page[u])
  BY <1>1 DEF PagesTyped, PagesKnow
<1>8. ASSUME NEW u \in Staff, OpenForm(u) \/ OpenReturn(u) \/ OpenNote(u) \/ OpenRefund(u)
      PROVE  PagesTyped' /\ PagesKnow'
  <2>1. CASE OpenForm(u)
    <3> DEFINE next == [at |-> "newReturn", doc |-> [l \in Lines |-> Returnable(l)]]
    <3>1. next \in Pages /\ next.at = "newReturn"
      BY <1>3, DocumentPages
    <3>2. page' = [page EXCEPT ![u] = next]
      BY <2>1 DEF OpenForm, TurnTo, NewReturnPage
    <3> HIDE DEF next
    <3> QED
      BY <1>4, <3>1, <3>2
  <2>2. CASE OpenReturn(u)
    <3>1. PICK r \in Returns : TurnTo(u, ReturnPage(r))
      BY <2>2 DEF OpenReturn
    <3>2. r \in Returns' /\ returns' = returns
      BY <1>2, <3>1 DEF TurnTo, goods
    <3>3. Answer(u, [at |-> "return", id |-> r, doc |-> returns'[r]])
      BY <3>1, <3>2 DEF TurnTo, ReturnPage, Answer
    <3> QED
      BY <1>5, <3>2, <3>3
  <2>3. CASE OpenNote(u)
    <3>1. PICK r \in {s \in 1..MaxReturns : credits[s] # NoNote} : TurnTo(u, NotePage(r))
      BY <2>3 DEF OpenNote
    <3> DEFINE next == [at |-> "note", id |-> r, doc |-> credits[r]]
    <3>2. next \in Pages /\ next.at = "note"
      BY <1>3, DocumentPages
    <3>3. page' = [page EXCEPT ![u] = next]
      BY <3>1 DEF TurnTo, NotePage
    <3> HIDE DEF next
    <3> QED
      BY <1>4, <3>2, <3>3
  <2>4. CASE OpenRefund(u)
    <3>1. PICK f \in Refunds : TurnTo(u, RefundPage(f))
      BY <2>4 DEF OpenRefund
    <3>2. f \in Refunds' /\ refunds' = refunds
      BY <1>2, <3>1 DEF TurnTo, money
    <3>3. Answer(u, [at |-> "refund", id |-> f, doc |-> refunds'[f]])
      BY <3>1, <3>2 DEF TurnTo, RefundPage, Answer
    <3> QED
      BY <1>6, <3>2, <3>3
  <2> QED
    BY <1>8, <2>1, <2>2, <2>3, <2>4
<1>9. ASSUME NEW u \in Staff, RequestReturn(u)
      PROVE  PagesTyped' /\ PagesKnow'
  <2>1. PICK want : CreateRequest(u, want)
    BY <1>9 DEF RequestReturn
  <2>2. Len(returns') \in Returns'
    <3>1. Len(returns') = Len(returns) + 1
      BY <1>1, <2>1, LenProperties DEF CreateRequest, GoodsInv, ReturnsTypeOK
    <3> QED
      BY <1>2, <1>3, <3>1
  <2> QED
    BY <1>5, <1>9, <2>2 DEF RequestReturn
<1>10. ASSUME NEW u \in Staff, Inspect(u) \/ Approve(u) \/ Reject(u) \/ Cancel(u)
       PROVE  PagesTyped' /\ PagesKnow'
  <2>1. page[u].at = "return" /\ Answer(u, Refreshed(u))
    BY <1>10 DEF Inspect, Approve, Reject, Cancel, On
  <2>2. /\ Refreshed(u) = [at |-> "return", id |-> page[u].id, doc |-> returns'[page[u].id]]
        /\ page[u].id \in Returns
    BY <1>7, <2>1, PageRows DEF Refreshed, Knows
  <2>3. page[u].id \in Returns'
    BY <1>2, <2>2
  <2> QED
    BY <1>5, <2>1, <2>2, <2>3
<1>11. ASSUME NEW u \in Staff, RequestRefund(u)
       PROVE  PagesTyped' /\ PagesKnow'
  <2>1. PICK amount : CreateRefund(u, page[u].id, amount)
    BY <1>11 DEF RequestRefund, Id
  <2>2. Len(refunds') \in Refunds'
    <3>1. Len(refunds') = Len(refunds) + 1
      BY <1>1, <2>1, LenProperties DEF CreateRefund, MoneyInv, CreditsTypeOK
    <3> QED
      BY <1>2, <1>3, <3>1
  <2> QED
    BY <1>6, <1>11, <2>2 DEF RequestRefund
<1>12. ASSUME NEW u \in Staff, Decide(u)
       PROVE  PagesTyped' /\ PagesKnow'
  <2>1. page[u].at = "refund" /\ Answer(u, [page[u] EXCEPT !.doc = refunds'[page[u].id]])
    BY <1>12 DEF Decide, On, Id
  <2>2. /\ [page[u] EXCEPT !.doc = refunds'[page[u].id]]
             = [at |-> "refund", id |-> page[u].id, doc |-> refunds'[page[u].id]]
        /\ page[u].id \in Refunds
    BY <1>7, <2>1, PageRows DEF Knows
  <2>3. page[u].id \in Refunds'
    BY <1>2, <2>2
  <2> QED
    BY <1>6, <2>1, <2>2, <2>3
<1>13. ASSUME IssueCredit
       PROVE  PagesTyped' /\ PagesKnow'
  <2>1. page' = page
    BY <1>13 DEF IssueCredit
  <2>2. PagesTyped'
    BY <1>1, <2>1 DEF PagesTyped
  <2>3. PagesKnow'
    BY <1>1, <1>2, <2>1 DEF PagesKnow, Knows
  <2> QED
    BY <2>2, <2>3
<1> QED
  BY <1>8, <1>9, <1>10, <1>11, <1>12, <1>13 DEF Next
-----------------------------------------------------------------------------
(* The invariant holds in every reachable state. *)

(* It holds when the order has just been delivered. *)
LEMMA SaleStarts ==
  ASSUME Init
  PROVE  SaleInv
<1>1. /\ returns = <<>> /\ returned = Nothing
      /\ taken = [l \in Lines |-> [i \in DOMAIN Deliveries[l] |-> 0]]
      /\ balance = [l \in Lines |-> [onHand |-> 1, reserved |-> 0, available |-> 1, damaged |-> 0]]
      /\ credits = [r \in 1..MaxReturns |-> NoNote] /\ refunds = <<>>
      /\ posted = [credit |-> [r \in 1..MaxReturns |-> 0], refund |-> [f \in 1..MaxRefunds |-> 0]]
      /\ page = [u \in Staff |-> Away]
  BY DEF Init, ReturnsInit, CreditsInit
<1>2. /\ returns \in Seq(ReturnRows) /\ Len(returns) = 0 /\ DOMAIN returns = {} /\ Returns = {}
      /\ refunds \in Seq(RefundRows) /\ Len(refunds) = 0 /\ DOMAIN refunds = {} /\ Refunds = {}
  BY <1>1 DEF Returns, Refunds
<1>3. IsFiniteSet({}) /\ IsFiniteSet(1..MaxReturns) /\ IsFiniteSet(1..MaxRefunds)
  BY ReturnsAssumption, CreditAssumption, FS_Interval, FS_EmptySet
<1>4. /\ Total(WorthIn(returns)) = 0
      /\ \A l \in Lines : Total(AskedIn(returns, l)) = 0 /\ Total(CameIn(returns, l)) = 0
      /\ \A r : Total(DrawnIn(refunds, posted.refund, r)) = 0
  <2>1. /\ DOMAIN WorthIn(returns) = {}
        /\ \A l \in Lines : DOMAIN AskedIn(returns, l) = {} /\ DOMAIN CameIn(returns, l) = {}
        /\ \A r : DOMAIN DrawnIn(refunds, posted.refund, r) = {}
    BY <1>2 DEF WorthIn, AskedIn, CameIn, DrawnIn
  <2>2. \A f : DOMAIN f = {} => Total(f) = 0
    BY <1>3, TotalZero
  <2> QED
    BY <2>1, <2>2
<1>5. Nothing \in Columns /\ \A l \in Lines : returned[l] = 0
  BY <1>1 DEF Nothing, Columns
<1>6. ASSUME NEW l \in Lines
      PROVE  LineFits(l) /\ taken[l] \in Seq(Nat) /\ balance[l] \in Balance
  <2> DEFINE n == Len(Deliveries[l])
             none == taken[l]
  <2>1. /\ n \in Nat /\ DOMAIN Deliveries[l] = 1..n /\ Deliveries[l] \in [1..n -> Nat]
        /\ Delivered(l) \in Nat
    BY DeliveredTyped
  <2>2. none = [i \in 1..n |-> 0]
    BY <1>1, <2>1
  <2>3. none \in [1..n -> Nat] /\ DOMAIN none = 1..n /\ \A i \in 1..n : none[i] = 0
    BY <2>2
  <2>4. none \in Seq(Nat)
    BY <2>1, <2>3, SeqDef
  <2>5. Total(none) = 0
    <3>1. IsFiniteSet(1..n)
      BY <2>1, FS_Interval
    <3> HIDE DEF none, n
    <3> QED
      BY <2>3, <3>1, TotalZero
  <2>6. balance[l] \in Balance /\ balance[l].onHand = 1 /\ SatisfiesChecks(balance[l])
    BY <1>1 DEF Balance, SatisfiesChecks
  <2>7. \A i \in 1..n : none[i] <= Deliveries[l][i]
    BY <2>1, <2>3
  <2> HIDE DEF none, n
  <2>8. BackFits(l, 0, none, balance[l], 0, 0)
    BY <2>1, <2>3, <2>5, <2>6, <2>7 DEF BackFits
  <2> QED
    BY <1>4, <1>5, <2>4, <2>6, <2>8 DEF LineFits, none
<1>7. ReturnsTypeOK
  <2>1. \A l \in Lines : taken[l] \in Seq(Nat) /\ balance[l] \in Balance
    BY <1>6
  <2>2. taken = [l \in Lines |-> taken[l]] /\ balance = [l \in Lines |-> balance[l]]
    BY <1>1
  <2> QED
    BY <1>1, <1>2, <1>5, <2>1, <2>2 DEF ReturnsTypeOK
<1>8. GoodsInv
  BY <1>1, <1>2, <1>4, <1>6, <1>7, WorthFacts, ReturnsAssumption DEF GoodsInv
<1>9. /\ \A r \in 1..MaxReturns : credits[r] = NoNote /\ posted.credit[r] = 0
      /\ \A f \in 1..MaxRefunds : posted.refund[f] = 0
  BY <1>1
<1>10. \A r \in 1..MaxReturns : NoteFits(r)
  BY <1>4, <1>9 DEF NoteFits, NoteAgrees
<1>11. \A f \in 1..MaxRefunds : RefundFits(f)
  BY <1>2, <1>9 DEF RefundFits
<1>12. CreditsTypeOK
  BY <1>1, <1>2 DEF CreditsTypeOK, Notes
<1>13. Total(posted.refund) = 0 /\ Total(AllocatedIn(credits)) = 0
  <2>1. /\ DOMAIN posted.refund = 1..MaxRefunds
        /\ DOMAIN AllocatedIn(credits) = 1..MaxReturns
        /\ \A r \in 1..MaxReturns : AllocatedIn(credits)[r] = 0
    BY <1>1 DEF AllocatedIn, Allocated
  <2> QED
    BY <1>3, <1>9, <2>1, TotalZero
<1>14. MoneyInv
  BY <1>2, <1>10, <1>11, <1>12, <1>13, CreditAssumption DEF MoneyInv
<1>15. PagesTyped /\ PagesKnow
  BY <1>1 DEF PagesTyped, PagesKnow, Pages, Knows, Away
<1> QED
  BY <1>8, <1>14, <1>15 DEF SaleInv

(* Every step keeps it. *)
LEMMA SaleKept ==
  ASSUME SaleInv, [Next]_vars
  PROVE  SaleInv'
<1>1. GoodsInv /\ MoneyInv /\ PagesTyped /\ PagesKnow
  BY DEF SaleInv
<1>2. Len(returns) \in Nat /\ Len(refunds) \in Nat
  BY <1>1, TablesTyped
<1>3. AfterSaleTypeOK
  BY <1>1 DEF GoodsInv, MoneyInv, PagesTyped, AfterSaleTypeOK
<1>4. UNCHANGED goods => GoodsInv' /\ Len(returns) <= Len(returns')
  <2>1. SUFFICES ASSUME UNCHANGED goods PROVE GoodsInv' /\ Len(returns) <= Len(returns')
    OBVIOUS
  <2>2. returns' = returns /\ returned' = returned /\ taken' = taken /\ balance' = balance
    BY <2>1 DEF goods
  <2>3. ReturnsTypeOK' /\ (\A l \in Lines : LineFits(l))' /\ (Worth(returned) = Total(WorthIn(returns)))'
    BY <1>1, <2>2 DEF GoodsInv, ReturnsTypeOK, LineFits, Worth
  <2>4. (Len(returns) <= MaxReturns /\ \A r \in Returns : Inspected(returns[r]))'
    BY <1>1, <2>2 DEF GoodsInv, Returns
  <2> QED
    BY <1>2, <2>2, <2>3, <2>4 DEF GoodsInv
<1>5. GoodsInv' /\ MoneyInv' /\ Len(returns) <= Len(returns') /\ Len(refunds) <= Len(refunds')
  <2>1. CASE ReturnsMove /\ UNCHANGED money
    BY <1>1, <1>2, <2>1, ReturnsKeepGoods, ReturnsKeepMoney DEF money
  <2>2. CASE MoneyMoves /\ UNCHANGED goods
    BY <1>1, <1>4, <2>2, MoneyKeepsMoney
  <2>3. CASE UNCHANGED <<goods, money>>
    <3>1. credits' = credits /\ refunds' = refunds /\ posted' = posted
      BY <2>3 DEF money
    <3>2. /\ Returns' = Returns /\ returns' = returns
          /\ \A r \in Returns : Value(r)' = Value(r)
      BY <2>3, ValueStays
    <3>3. (\A r \in 1..MaxReturns : NoteFits(r))'
      <4> SUFFICES ASSUME NEW r \in 1..MaxReturns PROVE NoteFits(r)'
        OBVIOUS
      <4>1. NoteFits(r)
        BY <1>1 DEF MoneyInv
      <4> QED
        BY <3>1, <3>2, <4>1 DEF NoteFits, NoteAgrees
    <3>4. (\A f \in 1..MaxRefunds : RefundFits(f))'
      BY <1>1, <3>1 DEF MoneyInv, RefundFits, Refunds
    <3>5. CreditsTypeOK' /\ (Total(posted.refund) = Total(AllocatedIn(credits)))'
      BY <1>1, <3>1 DEF MoneyInv, CreditsTypeOK, Total, AllocatedIn
    <3>6. MoneyInv'
      BY <1>1, <3>1, <3>3, <3>4, <3>5 DEF MoneyInv
    <3> QED
      BY <1>2, <1>4, <2>3, <3>1, <3>6
  <2> QED
    BY <1>1, <1>3, <2>1, <2>2, <2>3, Transacts
<1>6. PagesTyped' /\ PagesKnow'
  <2>1. CASE Next
    BY <1>5, <2>1, PagesKept
  <2>2. CASE UNCHANGED vars
    BY <1>1, <2>2 DEF vars, goods, money, PagesTyped, PagesKnow, Knows, Returns, Refunds
  <2> QED
    BY <2>1, <2>2
<1> QED
  BY <1>5, <1>6 DEF SaleInv

(* So it always holds. *)
LEMMA SaleAlways == Spec => []SaleInv
<1>1. Init => SaleInv
  BY SaleStarts
<1>2. SaleInv /\ [Next]_vars => SaleInv'
  BY SaleKept
<1> QED
  BY <1>1, <1>2, PTL DEF Spec

-----------------------------------------------------------------------------
(* The theorems. *)

(* Every row and every page has its type, and a page shows a row that was:
   whatever page a member of staff acts from, the server finds the document. *)
THEOREM AfterSaleTyped == Spec => []AfterSaleTypeOK
<1>1. SaleInv => AfterSaleTypeOK
  BY DEF SaleInv, GoodsInv, MoneyInv, PagesTyped, AfterSaleTypeOK
<1> QED
  BY <1>1, SaleAlways, PTL

(* However many requests are open at once, from pages of whatever age, all of
   them can be accepted: with what is back they never exceed the delivery
   (ReturnService::validateReturnableQuantity). *)
THEOREM NeverOverReturned == Spec => []ReturnsWithinDelivery
<1>1. SaleInv => ReturnsWithinDelivery
  BY GoodsAreRight DEF SaleInv
<1> QED
  BY <1>1, SaleAlways, PTL

(* Every accepted piece is counted once in the line, in the allocations and
   in the stock, whose CHECKs hold (ReturnService::executeDisposition). *)
THEOREM PiecesComeBackOnce == Spec => []GoodsComeBackOnce
<1>1. SaleInv => GoodsComeBackOnce
  BY GoodsAreRight DEF SaleInv
<1> QED
  BY <1>1, SaleAlways, PTL

(* Notes, refunds and the general ledger agree at every moment
   (CreditNoteService, RefundService). *)
THEOREM NotesAlwaysMatch == Spec => []NotesMatchLedger
<1>1. SaleInv => NotesMatchLedger
  BY MoneyIsRight DEF SaleInv
<1> QED
  BY <1>1, SaleAlways, PTL
-----------------------------------------------------------------------------
(* The chain keeps the promise of MoneyBack. *)

DeliveredWorth == Worth([l \in Lines |-> Delivered(l)])

AccountsFit ==
  /\ Total(posted.refund) \in Nat /\ Total(posted.credit) \in Nat /\ Worth(returned) \in Nat
  /\ DeliveredWorth \in Nat
  /\ Total(posted.refund) <= Total(posted.credit)
  /\ Total(posted.credit) <= Worth(returned)
  /\ Worth(returned) <= DeliveredWorth

(* What was paid back is within what was credited, that within what is back,
   and that within what was delivered. *)
LEMMA AccountsBounded ==
  ASSUME SaleInv
  PROVE  AccountsFit
<1>1. /\ GoodsInv /\ MoneyInv /\ Returns \subseteq 1..MaxReturns
      /\ \A r \in Returns : returns[r] \in ReturnRows
  BY TablesTyped DEF SaleInv
<1>2. /\ posted.credit \in [1..MaxReturns -> Nat] /\ posted.refund \in [1..MaxRefunds -> Nat]
      /\ IsFiniteSet(1..MaxReturns) /\ IsFiniteSet(1..MaxRefunds)
      /\ refunds \in Seq(RefundRows) /\ Len(refunds) <= MaxRefunds
  BY <1>1, MoneyTyped DEF MoneyInv
<1>3. /\ returned \in Columns /\ returns \in Seq(ReturnRows)
      /\ \A l \in Lines : returned[l] \in Nat /\ Delivered(l) \in Nat
  BY <1>1, GoodsTyped DEF GoodsInv, ReturnsTypeOK
<1>4. Worth(returned) <= DeliveredWorth /\ DeliveredWorth \in Nat /\ Worth(returned) \in Nat
  <2> DEFINE all == [l \in Lines |-> Delivered(l)]
  <2>1. all \in Columns /\ \A l \in Lines : all[l] = Delivered(l)
    BY <1>3 DEF Columns
  <2>2. \A l \in Lines : returned[l] <= Delivered(l)
    <3> SUFFICES ASSUME NEW l \in Lines PROVE returned[l] <= Delivered(l)
      OBVIOUS
    <3>1. returned[l] + Total(AskedIn(returns, l)) <= Delivered(l)
      BY <1>1 DEF GoodsInv, LineFits, BackFits
    <3>2. Total(AskedIn(returns, l)) \in Nat
      BY <1>3, TableNumbers
    <3> QED
      BY <1>3, <3>1, <3>2
  <2> HIDE DEF all
  <2>3. Worth(returned) <= Worth(all) /\ Worth(all) \in Nat /\ Worth(returned) \in Nat
    BY <1>3, <2>1, <2>2, WorthFacts
  <2> QED
    BY <2>3 DEF DeliveredWorth, all
<1>5. Total(posted.refund) \in Nat /\ Total(posted.credit) \in Nat
  BY <1>2, TotalType
<1>6. ASSUME NEW r \in 1..MaxReturns
      PROVE  /\ posted.credit[r] \in Nat /\ Allocated(credits[r]) \in Nat
             /\ Allocated(credits[r]) <= posted.credit[r]
             /\ posted.credit[r] <= IF r \in Returns THEN RowWorth(returns[r]) ELSE 0
             /\ r \in Returns => RowWorth(returns[r]) \in Nat
  <2> DEFINE drawn == Total(DrawnIn(refunds, posted.refund, r))
  <2>1. /\ NoteAgrees(credits[r], posted.credit[r], Value(r), drawn)
        /\ credits[r] # NoNote => r \in Returns /\ returns[r].status = "APPROVED"
    BY <1>1 DEF MoneyInv, NoteFits
  <2>2. posted.credit[r] \in Nat /\ (r \in Returns => RowWorth(returns[r]) \in Nat)
    BY <1>1, <1>2, RowNumbers
  <2>3. drawn \in Nat
    BY <1>2, DrawnTyped
  <2> HIDE DEF drawn
  <2>4. CASE credits[r] = NoNote
    BY <2>1, <2>2, <2>4 DEF NoteAgrees, Allocated
  <2>5. CASE credits[r] # NoNote
    <3>1. /\ r \in Returns /\ returns[r].status = "APPROVED"
          /\ posted.credit[r] = Value(r) /\ drawn <= Value(r)
      BY <2>1, <2>5 DEF NoteAgrees
    <3>2. credits[r].allocated = drawn
      BY <2>1, <2>5 DEF NoteAgrees, Note
    <3>3. RowWorth(returns[r]) = Value(r)
      BY <3>1, TotalsOfReturns DEF RowWorth
    <3> QED
      BY <2>2, <2>3, <2>5, <3>1, <3>2, <3>3 DEF Allocated
  <2> QED
    BY <2>4, <2>5
<1>7. Total(posted.refund) <= Total(posted.credit)
  <2> DEFINE out == AllocatedIn(credits)
             in == posted.credit
  <2>1. /\ out \in [1..MaxReturns -> Int] /\ in \in [1..MaxReturns -> Int]
        /\ \A r \in 1..MaxReturns : out[r] <= in[r]
    BY <1>2, <1>6 DEF AllocatedIn
  <2>2. Total(posted.refund) = Total(out)
    BY <1>1 DEF MoneyInv
  <2> HIDE DEF out, in
  <2>3. Total(out) <= Total(in)
    BY <1>2, <2>1, TotalOrdered
  <2> QED
    BY <2>2, <2>3 DEF in
<1>8. Total(posted.credit) <= Worth(returned)
  <2> DEFINE padded == [r \in 1..MaxReturns |-> IF r \in Returns THEN RowWorth(returns[r]) ELSE 0]
             entries == posted.credit
             worth == WorthIn(returns)
  <2>1. /\ padded \in [1..MaxReturns -> Int] /\ entries \in [1..MaxReturns -> Int]
        /\ \A r \in 1..MaxReturns : entries[r] <= padded[r]
    BY <1>2, <1>6
  <2>2. /\ worth \in [Returns -> Int]
        /\ \A r \in 1..MaxReturns : padded[r] = IF r \in Returns THEN worth[r] ELSE 0
    BY <1>3, TableNumbers DEF WorthIn, Returns
  <2>3. Worth(returned) = Total(worth)
    BY <1>1 DEF GoodsInv
  <2> HIDE DEF padded, entries, worth
  <2>4. Total(entries) <= Total(padded)
    BY <1>2, <2>1, TotalOrdered
  <2>6. Pads(padded, worth, 1..MaxReturns, Returns)
    BY <1>1, <2>1, <2>2 DEF Pads
  <2>5. Total(padded) = Total(worth)
    BY <1>2, <2>6, TotalSupport
  <2> QED
    BY <2>3, <2>4, <2>5 DEF entries
<1> QED
  BY <1>4, <1>5, <1>7, <1>8 DEF AccountsFit

(* Returns bring goods back and never take any away. *)
LEMMA BackGrows ==
  ASSUME GoodsInv, GoodsInv', ReturnsMove
  PROVE  Worth(returned) <= Worth(returned')
<1>1. returned \in Columns /\ returned' \in Columns
  BY DEF GoodsInv, ReturnsTypeOK
<1>2. \A l \in Lines : returned[l] <= returned'[l]
  <2>1. CASE returned' = returned
    BY <1>1, <2>1 DEF Columns
  <2>2. CASE \E u \in Staff, r \in Returns, good \in Columns, damaged \in Columns :
               ApproveReturn(u, r, good, damaged)
    <3>1. PICK u \in Staff, r \in Returns, good \in Columns, damaged \in Columns :
            ApproveReturn(u, r, good, damaged)
      BY <2>2
    <3>2. returned' = [l \in Lines |-> returned[l] + (good[l] + damaged[l])]
      BY <3>1 DEF ApproveReturn, Dispose
    <3>3. \A l \in Lines : returned[l] \in Nat /\ good[l] \in Nat /\ damaged[l] \in Nat
      BY <1>1 DEF Columns
    <3> QED
      BY <3>2, <3>3
  <2> QED
    BY <2>1, <2>2 DEF ReturnsMove, CreateRequest, RecordInspection, RejectReturn, CancelReturn
<1> QED
  BY <1>1, <1>2, WorthFacts

(* A step of the chain is a step of MoneyBack or leaves its figures alone. *)
LEMMA SaleStepsAccount ==
  ASSUME SaleInv, SaleInv', AccountsFit, AccountsFit', [Next]_vars
  PROVE  [Account!Next]_<<Worth(returned), Total(posted.credit), Total(posted.refund)>>
<1>1. GoodsInv /\ MoneyInv /\ GoodsInv' /\ MoneyInv' /\ AfterSaleTypeOK /\ PagesKnow
  BY DEF SaleInv, GoodsInv, MoneyInv, PagesTyped, AfterSaleTypeOK
<1>2. /\ Total(posted.refund) \in Nat /\ Total(posted.credit) \in Nat /\ Worth(returned) \in Nat
      /\ Total(posted'.refund) \in Nat /\ Total(posted'.credit) \in Nat
      /\ Worth(returned') \in Nat /\ DeliveredWorth \in Nat
      /\ Total(posted'.refund) <= Total(posted'.credit)
      /\ Total(posted'.credit) <= Worth(returned')
      /\ Worth(returned') <= DeliveredWorth
  BY DEF AccountsFit, DeliveredWorth, Worth, Total
<1>3. /\ Worth(returned)' = Worth(returned') /\ Total(posted.credit)' = Total(posted'.credit)
      /\ Total(posted.refund)' = Total(posted'.refund)
  BY DEF Worth, Total
<1>4. /\ posted.credit \in [1..MaxReturns -> Int] /\ posted'.credit \in [1..MaxReturns -> Int]
      /\ posted.refund \in [1..MaxRefunds -> Int] /\ posted'.refund \in [1..MaxRefunds -> Int]
      /\ IsFiniteSet(1..MaxReturns) /\ IsFiniteSet(1..MaxRefunds)
  <2>1. IsFiniteSet(1..MaxReturns) /\ IsFiniteSet(1..MaxRefunds)
    BY ReturnsAssumption, CreditAssumption, FS_Interval
  <2> QED
    BY <1>1, <2>1 DEF MoneyInv, CreditsTypeOK
<1>5. CASE ReturnsMove /\ UNCHANGED money
  <2>1. posted' = posted
    BY <1>5 DEF money
  <2>2. Worth(returned) <= Worth(returned')
    BY <1>1, <1>5, BackGrows
  <2>3. Account!Bring
    BY <1>2, <1>3, <2>1, <2>2 DEF Account!Bring, DeliveredWorth
  <2> QED
    BY <2>3 DEF Account!Next
<1>6. CASE MoneyMoves /\ UNCHANGED goods
  <2>1. returned' = returned
    BY <1>6 DEF goods
  <2>2. ASSUME NEW r \in Returns, Generate(r)
        PROVE  Account!Credit
    <3>1. /\ posted'.refund = posted.refund
          /\ \A s \in 1..MaxReturns : posted.credit[s] <= posted'.credit[s]
      BY <1>1, <1>6, <2>2, GenerateKeepsMoney
    <3>2. Total(posted.credit) <= Total(posted'.credit)
      BY <1>4, <3>1, TotalOrdered
    <3> QED
      BY <1>2, <1>3, <2>1, <3>1, <3>2 DEF Account!Credit
  <2>3. ASSUME NEW f \in Refunds, ProcessRefund(f)
        PROVE  Account!PayOut
    <3>1. /\ posted'.credit = posted.credit
          /\ \A g \in 1..MaxRefunds : posted.refund[g] <= posted'.refund[g]
      BY <1>1, <1>6, <2>3, ProcessKeepsMoney
    <3>2. Total(posted.refund) <= Total(posted'.refund)
      BY <1>4, <3>1, TotalOrdered
    <3> QED
      BY <1>2, <1>3, <2>1, <3>1, <3>2 DEF Account!PayOut
  <2>4. CASE posted' = posted
    BY <1>3, <2>1, <2>4
  <2> QED
    BY <1>6, <2>2, <2>3, <2>4 DEF MoneyMoves, CreateRefund, MoveTo, Account!Next
<1>7. CASE UNCHANGED <<goods, money>>
  BY <1>3, <1>7 DEF goods, money
<1> QED
  BY <1>1, <1>5, <1>6, <1>7, Transacts

(* The whole chain of returns, credit notes and refunds implements MoneyBack:
   however it interleaves, the customer is paid at most what was credited,
   credited at most what came back, and that is at most what was delivered. *)
THEOREM SaleKeepsThePromise == Spec => ImplementsMoneyBack
<1>1. Init => Account!Init
  <2> SUFFICES ASSUME Init PROVE Account!Init
    OBVIOUS
  <2>1. SaleInv
    BY SaleStarts
  <2>2. returned = Nothing /\ \A r \in 1..MaxReturns : posted.credit[r] = 0
    BY DEF Init, ReturnsInit, CreditsInit
  <2>3. Worth(returned) = 0
    BY <2>2, WorthFacts
  <2>4. /\ Total(posted.refund) \in Nat /\ Total(posted.credit) \in Nat
        /\ Total(posted.refund) <= Total(posted.credit) /\ Total(posted.credit) <= Worth(returned)
    BY <2>1, AccountsBounded DEF AccountsFit
  <2> QED
    BY <2>3, <2>4 DEF Account!Init
<1>2. SaleInv => AccountsFit
  BY AccountsBounded
<1>3. SaleInv /\ SaleInv' /\ AccountsFit /\ AccountsFit' /\ [Next]_vars
        => [Account!Next]_<<Worth(returned), Total(posted.credit), Total(posted.refund)>>
  BY SaleStepsAccount
<1> QED
  BY <1>1, <1>2, <1>3, SaleAlways, PTL DEF Spec, ImplementsMoneyBack, Account!Spec
=============================================================================
