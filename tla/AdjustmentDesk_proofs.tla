------------------------ MODULE AdjustmentDesk_proofs ------------------------
(***************************************************************************)
(* Theorems about AdjustmentDesk, for any quantities, any number of        *)
(* adjustments and any administrators: its types, that the line, the order *)
(* and the allocations follow the adjustments in force, that the stock     *)
(* holds what the allocations count on, and that the desk implements       *)
(* AdjustmentStack.                                                        *)
(***************************************************************************)
EXTENDS AdjustmentDesk, OperatorLemmas, SequenceTheorems

-----------------------------------------------------------------------------
(* Rows of allocations. *)

(* A row that keeps the CHECKs of its table. *)
Rows == {a \in Allocations : a.reserved <= a.allocated /\ a.picked <= a.allocated}

(* What the figures of one row are, and how they compare. *)
LEMMA RowFigures ==
  ASSUME NEW a \in Rows
  PROVE  /\ LiveAllocated(a) \in Nat /\ LiveReserved(a) \in Nat /\ LivePicked(a) \in Nat
         /\ UntouchedPart(a) \in Nat /\ CountedOn(a) \in Nat
         /\ a.picked \in Nat /\ a.allocated \in Nat /\ a.reserved \in Nat
         /\ UntouchedPart(a) <= LiveAllocated(a) /\ CountedOn(a) <= LiveReserved(a)
         /\ UntouchedPart(a) <= a.allocated /\ CountedOn(a) <= a.reserved
BY DEF Rows, Allocations, LiveAllocated, LiveReserved, LivePicked, UntouchedPart, CountedOn, Active,
       Untouched

(* The parts of a row that count towards one of the sums. *)
LEMMA PartsOf ==
  ASSUME NEW rs \in Seq(Rows)
  PROVE  /\ Len(rs) \in Nat /\ DOMAIN rs = 1..Len(rs)
         /\ \A i \in 1..Len(rs) : rs[i] \in Rows
         /\ [i \in DOMAIN rs |-> LiveAllocated(rs[i])] \in [1..Len(rs) -> Nat]
         /\ [i \in DOMAIN rs |-> LiveReserved(rs[i])] \in [1..Len(rs) -> Nat]
         /\ [i \in DOMAIN rs |-> LivePicked(rs[i])] \in [1..Len(rs) -> Nat]
         /\ [i \in DOMAIN rs |-> UntouchedPart(rs[i])] \in [1..Len(rs) -> Nat]
         /\ [i \in DOMAIN rs |-> CountedOn(rs[i])] \in [1..Len(rs) -> Nat]
         /\ [i \in DOMAIN rs |-> rs[i].picked] \in [1..Len(rs) -> Nat]
<1>1. Len(rs) \in Nat /\ DOMAIN rs = 1..Len(rs) /\ \A i \in 1..Len(rs) : rs[i] \in Rows
  BY LenProperties, ElementOfSeq
<1>2. \A i \in 1..Len(rs) :
        /\ LiveAllocated(rs[i]) \in Nat /\ LiveReserved(rs[i]) \in Nat /\ LivePicked(rs[i]) \in Nat
        /\ UntouchedPart(rs[i]) \in Nat /\ CountedOn(rs[i]) \in Nat /\ rs[i].picked \in Nat
  BY <1>1, RowFigures
<1> QED
  BY <1>1, <1>2

(* The sums over the rows of a line are natural numbers, and what nobody has
   touched is part of what is allocated. *)
LEMMA Figures ==
  ASSUME NEW rs \in Seq(Rows)
  PROVE  /\ AllocatedIn(rs) \in Nat /\ ReservedIn(rs) \in Nat
         /\ PickedIn(rs) \in Nat /\ UntouchedIn(rs) \in Nat
         /\ UntouchedIn(rs) <= AllocatedIn(rs)
<1>1. AllocatedIn(rs) \in Nat /\ ReservedIn(rs) \in Nat /\ PickedIn(rs) \in Nat /\ UntouchedIn(rs) \in Nat
  BY PartsOf, SumOfNat DEF AllocatedIn, ReservedIn, PickedIn, UntouchedIn
<1>2. UntouchedIn(rs) <= AllocatedIn(rs)
  <2> DEFINE f == [i \in DOMAIN rs |-> UntouchedPart(rs[i])]
             g == [i \in DOMAIN rs |-> LiveAllocated(rs[i])]
  <2>1. Len(rs) \in Nat /\ f \in [1..Len(rs) -> Nat] /\ g \in [1..Len(rs) -> Nat]
    BY PartsOf
  <2>2. \A i \in 1..Len(rs) : f[i] <= g[i]
    BY PartsOf, RowFigures
  <2>3. UntouchedIn(rs) = SumFunction(f) /\ AllocatedIn(rs) = SumFunction(g)
    BY DEF UntouchedIn, AllocatedIn
  <2> HIDE DEF f, g
  <2> QED
    BY <2>1, <2>2, <2>3, SumOfSmaller
<1> QED
  BY <1>1, <1>2

(* Two versions of the rows that have the same rows live allocate and reserve
   the same. *)
LEMMA SameLive ==
  ASSUME NEW rs \in Seq(Rows), NEW bs \in Seq(Rows), Len(bs) = Len(rs),
         \A i \in 1..Len(rs) : /\ LiveAllocated(bs[i]) = LiveAllocated(rs[i])
                               /\ LiveReserved(bs[i]) = LiveReserved(rs[i])
  PROVE  AllocatedIn(bs) = AllocatedIn(rs) /\ ReservedIn(bs) = ReservedIn(rs)
<1> DEFINE f == [i \in DOMAIN rs |-> LiveAllocated(rs[i])]
           g == [i \in DOMAIN bs |-> LiveAllocated(bs[i])]
           h == [i \in DOMAIN rs |-> LiveReserved(rs[i])]
           k == [i \in DOMAIN bs |-> LiveReserved(bs[i])]
<1>1. DOMAIN rs = 1..Len(rs) /\ DOMAIN bs = 1..Len(rs)
  BY PartsOf
<1>2. f = g /\ h = k
  BY <1>1
<1> QED
  BY <1>2 DEF AllocatedIn, ReservedIn

(* Rows that allocate less each allocate less together. *)
LEMMA LessLive ==
  ASSUME NEW rs \in Seq(Rows), NEW bs \in Seq(Rows), Len(bs) = Len(rs),
         \A i \in 1..Len(rs) : LiveAllocated(bs[i]) <= LiveAllocated(rs[i])
  PROVE  AllocatedIn(bs) <= AllocatedIn(rs)
<1> DEFINE f == [i \in DOMAIN rs |-> LiveAllocated(rs[i])]
           g == [i \in DOMAIN bs |-> LiveAllocated(bs[i])]
<1>1. Len(rs) \in Nat /\ f \in [1..Len(rs) -> Nat] /\ g \in [1..Len(rs) -> Nat]
  BY PartsOf
<1>2. \A i \in 1..Len(rs) : g[i] <= f[i]
  BY PartsOf
<1>3. AllocatedIn(rs) = SumFunction(f) /\ AllocatedIn(bs) = SumFunction(g)
  BY DEF AllocatedIn
<1> HIDE DEF f, g
<1> QED
  BY <1>1, <1>2, <1>3, SumOfSmaller

(* A line that has one row has its figures. *)
LEMMA OneRow ==
  ASSUME NEW a \in Rows
  PROVE  /\ <<a>> \in Seq(Rows)
         /\ AllocatedIn(<<a>>) = LiveAllocated(a) /\ ReservedIn(<<a>>) = LiveReserved(a)
<1> DEFINE rs == <<a>>
           f == [i \in DOMAIN rs |-> LiveAllocated(rs[i])]
           g == [i \in DOMAIN rs |-> LiveReserved(rs[i])]
<1>1. rs \in Seq(Rows) /\ rs[1] = a /\ DOMAIN rs = {1}
  OBVIOUS
<1>2. AllocatedIn(rs) = SumFunction(f) /\ ReservedIn(rs) = SumFunction(g)
  BY DEF AllocatedIn, ReservedIn
<1>3. LiveAllocated(a) \in Nat /\ LiveReserved(a) \in Nat
  BY RowFigures
<1>4. /\ DOMAIN f = {1} /\ f[1] = LiveAllocated(a)
      /\ DOMAIN g = {1} /\ g[1] = LiveReserved(a)
  BY <1>1
<1> HIDE DEF f, g
<1> QED
  BY <1>1, <1>2, <1>3, <1>4, SumOfOne

(* Rows none of which is live reserve nothing. *)
LEMMA NothingReserved ==
  ASSUME NEW rs \in Seq(Rows), \A i \in 1..Len(rs) : LiveReserved(rs[i]) = 0
  PROVE  ReservedIn(rs) = 0
<1> DEFINE f == [i \in DOMAIN rs |-> LiveReserved(rs[i])]
<1>1. Len(rs) \in Nat /\ f \in [1..Len(rs) -> Nat]
  BY PartsOf
<1>2. \A i \in 1..Len(rs) : f[i] = 0
  BY PartsOf
<1> HIDE DEF f
<1> QED
  BY <1>1, <1>2, SumOfZeros DEF ReservedIn, f

-----------------------------------------------------------------------------
(* How an adjustment rewrites the rows. *)

(* b is row a after adjustment n took something from it, or left it alone. *)
Thinned(a, b, n) ==
  /\ b \in Rows
  /\ a.notes \subseteq b.notes /\ b.notes \subseteq a.notes \cup {n}
  /\ b.status \in {a.status, "RELEASED"}
  /\ b.allocated <= a.allocated /\ CountedOn(b) <= CountedOn(a)

(* b is a row that adjustment n added and that reserves nothing. *)
Quiet(b, n) ==
  b.status \in {"ALLOCATED", "RELEASED"} /\ b.notes = {n} /\ CountedOn(b) = 0

(* bs are the rows rs after adjustment n thinned them and perhaps added one that
   reserves nothing. *)
Follows(rs, bs, n) ==
  /\ bs \in Seq(Rows) /\ Len(bs) \in {Len(rs), Len(rs) + 1}
  /\ \A i \in 1..Len(rs) : Thinned(rs[i], bs[i], n)
  /\ \A i \in 1..Len(bs) : i > Len(rs) => Quiet(bs[i], n)

(* A row that is left alone. *)
LEMMA ThinnedSame ==
  ASSUME NEW a \in Rows, NEW n
  PROVE  Thinned(a, a, n)
BY RowFigures DEF Thinned

(* A row that is released. *)
LEMMA ThinnedReleased ==
  ASSUME NEW a \in Rows, NEW n, NEW b \in Rows,
         b.status = "RELEASED", a.notes \subseteq b.notes, b.notes \subseteq a.notes \cup {n},
         b.allocated = a.allocated
  PROVE  Thinned(a, b, n)
BY RowFigures DEF Thinned, CountedOn, Untouched

(* Row a released, with the notes ns. *)
Freed(a, ns) == [a EXCEPT !.status = "RELEASED", !.reserved = 0, !.notes = ns]

(* A released row is a row. *)
LEMMA FreedRow ==
  ASSUME NEW a \in Rows, NEW ns, ns \subseteq 1..MaxAdjustments
  PROVE  /\ Freed(a, ns) \in Rows /\ Freed(a, ns).status = "RELEASED"
         /\ Freed(a, ns).notes = ns /\ Freed(a, ns).allocated = a.allocated
<1>1. /\ a \in Allocations /\ a.allocated \in Nat \ {0} /\ a.picked \in Nat /\ a.picked <= a.allocated
  BY DEF Rows, Allocations
<1>2. /\ Freed(a, ns) \in Allocations /\ Freed(a, ns).status = "RELEASED" /\ Freed(a, ns).notes = ns
      /\ Freed(a, ns).allocated = a.allocated
      /\ Freed(a, ns).picked = a.picked /\ Freed(a, ns).reserved = 0
  BY <1>1 DEF Allocations, Freed
<1>3. Freed(a, ns).reserved <= Freed(a, ns).allocated /\ Freed(a, ns).picked <= Freed(a, ns).allocated
  BY <1>1, <1>2
<1> QED
  BY <1>2, <1>3 DEF Rows

(* What a row gives up, in whole or in part, thins it. *)
LEMMA GivingUpRow ==
  ASSUME NEW a \in Rows, NEW q \in 0..UntouchedPart(a), NEW n \in 1..MaxAdjustments
  PROVE  Thinned(a, GivingUp(a, q, n), n) /\ (q = 0 => GivingUp(a, q, n) = a)
<1>0. a.allocated \in Nat \ {0} /\ a.notes \subseteq 1..MaxAdjustments
  BY DEF Rows, Allocations
<1>1. CASE q = 0
  <2>1. GivingUp(a, q, n) = a
    BY <1>0, <1>1 DEF GivingUp
  <2> QED
    BY <2>1, ThinnedSame
<1>2. CASE q # 0 /\ q = a.allocated
  <2>0. PICK ns : ns = a.notes \cup {n}
    OBVIOUS
  <2>1. GivingUp(a, q, n) = Freed(a, ns)
    BY <1>2, <2>0 DEF GivingUp, Freed
  <2>2. ns \subseteq 1..MaxAdjustments /\ a.notes \subseteq ns /\ ns \subseteq a.notes \cup {n}
    BY <1>0, <2>0
  <2>3. /\ Freed(a, ns) \in Rows /\ Freed(a, ns).status = "RELEASED"
        /\ Freed(a, ns).notes = ns /\ Freed(a, ns).allocated = a.allocated
    BY <2>2, FreedRow
  <2>4. Thinned(a, Freed(a, ns), n)
    BY <2>2, <2>3, ThinnedReleased
  <2> QED
    BY <1>2, <2>1, <2>4
<1>3. CASE q # 0 /\ q # a.allocated
  <2> DEFINE b == [a EXCEPT !.allocated = @ - q, !.reserved = @ - Lesser(q, @), !.notes = @ \cup {n}]
  <2>1. GivingUp(a, q, n) = b
    BY <1>3 DEF GivingUp
  <2>2. Untouched(a) /\ q \in Nat \ {0} /\ q < a.allocated /\ a.picked = 0
    BY <1>3, RowFigures DEF UntouchedPart, Untouched
  <2>3. /\ a.allocated \in Nat /\ a.reserved \in Nat /\ a.reserved <= a.allocated
        /\ a.notes \subseteq 1..MaxAdjustments
    BY DEF Rows, Allocations
  <2>4. PICK r : r = a.reserved - Lesser(q, a.reserved)
    OBVIOUS
  <2>5. r \in Nat /\ r <= a.reserved /\ r <= a.allocated - q /\ a.allocated - q \in Nat \ {0}
    BY <2>2, <2>3, <2>4 DEF Lesser
  <2>6. b = [a EXCEPT !.allocated = a.allocated - q, !.reserved = r, !.notes = a.notes \cup {n}]
    BY <2>4
  <2>7. /\ b \in Allocations /\ b.status = a.status /\ b.allocated = a.allocated - q
        /\ b.reserved = r /\ b.picked = a.picked /\ b.notes = a.notes \cup {n}
    BY <2>3, <2>5, <2>6 DEF Rows, Allocations
  <2> HIDE DEF b
  <2>8. b \in Rows
    BY <2>2, <2>5, <2>7 DEF Rows
  <2>9. CountedOn(b) = r /\ CountedOn(a) = a.reserved
    BY <2>2, <2>7 DEF CountedOn, Untouched
  <2>10. b.allocated <= a.allocated
    BY <2>2, <2>3, <2>7
  <2>11. Thinned(a, b, n)
    BY <2>5, <2>7, <2>8, <2>9, <2>10 DEF Thinned
  <2> QED
    BY <1>3, <2>1, <2>11
<1> QED
  BY <1>1, <1>2, <1>3

(* What a row gives up is a part of what nobody has touched of it. *)
LEMMA GivesType ==
  ASSUME allocs \in Seq(Rows), NEW i \in 1..Len(allocs), NEW needed \in Nat
  PROVE  Gives(i, needed) \in 0..UntouchedPart(allocs[i]) /\ (needed = 0 => Gives(i, needed) = 0)
<1>1. Younger(i) \in Nat
  <2> DEFINE f == [j \in DOMAIN allocs |-> UntouchedPart(allocs[j])]
             later == {j \in DOMAIN allocs : j > i}
  <2>1. f \in [1..Len(allocs) -> Nat] /\ DOMAIN allocs = 1..Len(allocs) /\ Len(allocs) \in Nat
    BY PartsOf
  <2>2. \A j \in later : f[j] \in Nat
    BY <2>1
  <2>3. IsFiniteSet(later)
    <3>1. later \in SUBSET (1..Len(allocs)) /\ IsFiniteSet(1..Len(allocs))
      BY <2>1, FS_Interval
    <3> HIDE DEF later
    <3> QED
      BY <3>1, FS_Subset
  <2>4. Younger(i) = SumFunctionOnSet(f, later)
    BY DEF Younger
  <2> HIDE DEF f, later
  <2> QED
    BY <2>2, <2>3, <2>4, SumNat
<1>2. UntouchedPart(allocs[i]) \in Nat
  BY PartsOf, RowFigures
<1>3. PICK m : m = Max0(needed - Younger(i))
  OBVIOUS
<1>4. m \in Nat /\ (needed = 0 => m = 0)
  BY <1>1, <1>3 DEF Max0
<1>5. Gives(i, needed) = Lesser(UntouchedPart(allocs[i]), m)
  BY <1>3 DEF Gives
<1> QED
  BY <1>2, <1>4, <1>5 DEF Lesser

(* The row that the released part of a row becomes. *)
LEMMA PartType ==
  ASSUME NEW q \in Nat \ {0}, NEW n \in 1..MaxAdjustments
  PROVE  Part(q, n) \in Rows /\ Quiet(Part(q, n), n)
<1>1. Part(q, n) = [status |-> "RELEASED", allocated |-> q, reserved |-> 0, picked |-> 0, notes |-> {n}]
  BY DEF Part, NewRow
<1> QED
  BY <1>1 DEF Rows, Allocations, Quiet, CountedOn, Untouched

(* A row that is made for a change or for the review of the order. *)
LEMMA NewRowType ==
  ASSUME NEW q \in Nat \ {0}, NEW r \in 0..q, NEW ns \in SUBSET (1..MaxAdjustments)
  PROVE  /\ NewRow(q, r, ns) \in Rows /\ NewRow(q, r, ns).status = "ALLOCATED"
         /\ NewRow(q, r, ns).allocated = q
         /\ NewRow(q, r, ns).notes = ns /\ CountedOn(NewRow(q, r, ns)) = r
         /\ LiveAllocated(NewRow(q, r, ns)) = q /\ LiveReserved(NewRow(q, r, ns)) = r
<1>1. NewRow(q, r, ns) = [status |-> "ALLOCATED", allocated |-> q, reserved |-> r, picked |-> 0, notes |-> ns]
  BY DEF NewRow
<1> QED
  BY <1>1 DEF Rows, Allocations, CountedOn, Untouched, LiveAllocated, LiveReserved, Active

(* What a sequence is with a member added at its end. *)
LEMMA Lengthened ==
  ASSUME NEW S, NEW qs \in Seq(S), NEW r \in S
  PROVE  /\ Append(qs, r) \in Seq(S) /\ Len(Append(qs, r)) = Len(qs) + 1 /\ Len(qs) \in Nat
         /\ \A i \in 1..Len(qs) : Append(qs, r)[i] = qs[i]
         /\ \A i \in 1..(Len(qs) + 1) : i > Len(qs) => Append(qs, r)[i] = r
<1>1. \A i \in 1..(Len(qs) + 1) : i > Len(qs) => i = Len(qs) + 1
  BY LenProperties
<1>2. /\ Append(qs, r) \in Seq(S) /\ Len(Append(qs, r)) = Len(qs) + 1
      /\ \A i \in 1..Len(qs) : Append(qs, r)[i] = qs[i]
      /\ Append(qs, r)[Len(qs) + 1] = r
  BY AppendProperties
<1> QED
  BY <1>1, <1>2, LenProperties

(* A row added at the end leaves the others where they are. *)
LEMMA RowAdded ==
  ASSUME NEW rs \in Seq(Rows), NEW b \in Rows, NEW n, Quiet(b, n),
         NEW bs \in Seq(Rows), Len(bs) = Len(rs),
         \A i \in 1..Len(rs) : Thinned(rs[i], bs[i], n)
  PROVE  Follows(rs, Append(bs, b), n)
<1>1. /\ Append(bs, b) \in Seq(Rows) /\ Len(Append(bs, b)) = Len(bs) + 1
      /\ \A i \in 1..Len(bs) : Append(bs, b)[i] = bs[i]
      /\ \A i \in 1..(Len(bs) + 1) : i > Len(bs) => Append(bs, b)[i] = b
  BY Lengthened
<1>2. ASSUME NEW i \in 1..Len(rs) PROVE Thinned(rs[i], Append(bs, b)[i], n)
  BY <1>1
<1> QED
  BY <1>1, <1>2 DEF Follows

(* A reduction thins rows and adds at most a released one; one that needs
   nothing changes nothing. *)
LEMMA ReleasedRows ==
  ASSUME allocs \in Seq(Rows), NEW needed \in Nat, NEW n \in 1..MaxAdjustments
  PROVE  /\ Follows(allocs, ReleaseRows(needed, n), n)
         /\ needed = 0 \/ allocs = <<>> => ReleaseRows(needed, n) = allocs
<1> DEFINE left == [i \in DOMAIN allocs |-> GivingUp(allocs[i], Gives(i, needed), n)]
<1>0. Len(allocs) \in Nat /\ DOMAIN allocs = 1..Len(allocs) /\ \A i \in 1..Len(allocs) : allocs[i] \in Rows
  BY PartsOf
<1>1. \A i \in 1..Len(allocs) :
        Thinned(allocs[i], left[i], n) /\ (needed = 0 => left[i] = allocs[i])
  <2> TAKE i \in 1..Len(allocs)
  <2>1. Gives(i, needed) \in 0..UntouchedPart(allocs[i]) /\ (needed = 0 => Gives(i, needed) = 0)
    BY GivesType
  <2>2. left[i] = GivingUp(allocs[i], Gives(i, needed), n)
    BY <1>0
  <2> QED
    BY <1>0, <2>1, <2>2, GivingUpRow
<1>2. \A i \in 1..Len(allocs) : left[i] \in Rows
  BY <1>1 DEF Thinned
<1>3. left \in Seq(Rows) /\ Len(left) = Len(allocs)
  <2>1. left \in [1..Len(allocs) -> Rows]
    BY <1>0, <1>2
  <2> HIDE DEF left
  <2> QED
    BY <1>0, <2>1
<1>4. needed = 0 \/ allocs = <<>> => left = allocs
  <2>1. ASSUME needed = 0 \/ allocs = <<>> PROVE \A i \in 1..Len(allocs) : left[i] = allocs[i]
    BY <1>0, <1>1, <2>1
  <2> HIDE DEF left
  <2> QED
    BY <1>3, <2>1, SeqEqual
<1>5. needed = 0 \/ allocs = <<>> => Split(needed) = {}
  BY <1>0, GivesType DEF Split
<1>6. CASE Split(needed) = {}
  <2>1. ReleaseRows(needed, n) = left
    BY <1>6 DEF ReleaseRows
  <2> HIDE DEF left
  <2>2. Follows(allocs, left, n)
    BY <1>0, <1>1, <1>3 DEF Follows
  <2> QED
    BY <1>4, <2>1, <2>2
<1>7. CASE Split(needed) # {}
  <2>1. PICK i : i = CHOOSE j \in Split(needed) : TRUE
    OBVIOUS
  <2>2. i \in 1..Len(allocs) /\ Gives(i, needed) \in 1..(allocs[i].allocated - 1)
    BY <1>0, <1>7, <2>1 DEF Split
  <2>3. Gives(i, needed) \in Nat \ {0}
    BY <2>2
  <2>4. ReleaseRows(needed, n) = Append(left, Part(Gives(i, needed), n))
    BY <1>7, <2>1 DEF ReleaseRows
  <2> HIDE DEF left
  <2>5. Follows(allocs, Append(left, Part(Gives(i, needed), n)), n)
    BY <1>1, <1>3, <2>3, PartType, RowAdded
  <2> QED
    BY <1>5, <1>7, <2>4, <2>5
<1> QED
  BY <1>6, <1>7

(* The reversal of an increase releases rows of it. *)
LEMMA TakenBackRows ==
  ASSUME allocs \in Seq(Rows), NEW n
  PROVE  /\ Follows(allocs, TakenBack(n), n) /\ Len(TakenBack(n)) = Len(allocs)
         /\ \A i \in 1..Len(allocs) :
              /\ TakenBack(n)[i].notes = allocs[i].notes
              /\ n \in allocs[i].notes => CountedOn(TakenBack(n)[i]) = 0
<1>0. Len(allocs) \in Nat /\ DOMAIN allocs = 1..Len(allocs) /\ \A i \in 1..Len(allocs) : allocs[i] \in Rows
  BY PartsOf
<1>1. \A i \in 1..Len(allocs) :
        /\ Thinned(allocs[i], TakenBack(n)[i], n) /\ TakenBack(n)[i].notes = allocs[i].notes
        /\ n \in allocs[i].notes => CountedOn(TakenBack(n)[i]) = 0
  <2> TAKE i \in 1..Len(allocs)
  <2>1. CASE n \in allocs[i].notes /\ allocs[i].status \in {"ALLOCATED", "RESERVED"}
    <3>0. PICK a \in Rows : a = allocs[i]
      BY <1>0
    <3>a. PICK b : b = [a EXCEPT !.status = "RELEASED", !.reserved = 0]
      OBVIOUS
    <3>1. TakenBack(n)[i] = b
      BY <1>0, <2>1, <3>0, <3>a DEF TakenBack
    <3>b. /\ a \in Allocations /\ a.allocated \in Nat \ {0} /\ a.picked \in Nat
          /\ a.picked <= a.allocated
      BY DEF Rows, Allocations
    <3>c. /\ b \in Allocations /\ b.status = "RELEASED" /\ b.notes = a.notes /\ b.allocated = a.allocated
          /\ b.picked = a.picked /\ b.reserved = 0
      BY <3>a, <3>b DEF Allocations
    <3>2. /\ b \in Rows /\ b.status = "RELEASED" /\ b.notes = allocs[i].notes
          /\ b.allocated = allocs[i].allocated
      BY <3>0, <3>b, <3>c DEF Rows
    <3>3. Thinned(allocs[i], b, n)
      BY <1>0, <3>2, ThinnedReleased
    <3>4. CountedOn(b) = 0
      BY <3>2 DEF CountedOn, Untouched
    <3> QED
      BY <3>1, <3>2, <3>3, <3>4
  <2>2. CASE ~ (n \in allocs[i].notes /\ allocs[i].status \in {"ALLOCATED", "RESERVED"})
    <3>1. TakenBack(n)[i] = allocs[i]
      BY <1>0, <2>2 DEF TakenBack
    <3>2. n \in allocs[i].notes => CountedOn(allocs[i]) = 0
      BY <2>2 DEF CountedOn, Untouched
    <3> QED
      BY <1>0, <3>1, <3>2, ThinnedSame
  <2> QED
    BY <2>1, <2>2
<1>2. TakenBack(n) \in Seq(Rows) /\ Len(TakenBack(n)) = Len(allocs)
  <2>1. TakenBack(n) \in [1..Len(allocs) -> Rows]
    <3>1. \A i \in 1..Len(allocs) : TakenBack(n)[i] \in Rows
      BY <1>1 DEF Thinned
    <3>2. TakenBack(n) = [i \in 1..Len(allocs) |-> TakenBack(n)[i]]
      BY <1>0 DEF TakenBack
    <3> QED
      BY <3>1, <3>2
  <2> QED
    BY <1>0, <2>1
<1> QED
  BY <1>0, <1>1, <1>2 DEF Follows

(* The reversal of a reduction adds a row that reserves nothing. *)
LEMMA GivenBackRows ==
  ASSUME allocs \in Seq(Rows), adjustments \in Seq(Adjustments), NEW n \in Numbers, n \in 1..MaxAdjustments
  PROVE  Follows(allocs, GivenBack(n), n)
<1>0. Len(allocs) \in Nat /\ \A i \in 1..Len(allocs) : allocs[i] \in Rows
  BY PartsOf
<1>1. \A i \in 1..Len(allocs) : Thinned(allocs[i], allocs[i], n)
  BY <1>0, ThinnedSame
<1>2. adjustments[n].affected \in Nat
  <2>1. adjustments[n] \in Adjustments
    BY LenProperties, ElementOfSeq DEF Numbers
  <2> QED
    BY <2>1 DEF Adjustments
<1>3. CASE adjustments[n].affected > 0
  <2>1. PICK b : b = NewRow(adjustments[n].affected, 0, {n})
    OBVIOUS
  <2>2. b \in Rows /\ b.status = "ALLOCATED" /\ b.notes = {n} /\ CountedOn(b) = 0
    BY <1>2, <1>3, <2>1, NewRowType
  <2>3. GivenBack(n) = Append(allocs, b)
    BY <1>3, <2>1 DEF GivenBack
  <2>4. Quiet(b, n)
    BY <2>2 DEF Quiet
  <2> QED
    BY <1>1, <2>2, <2>3, <2>4, RowAdded
<1>4. CASE ~ adjustments[n].affected > 0
  <2>1. GivenBack(n) = allocs
    BY <1>4 DEF GivenBack
  <2> QED
    BY <1>0, <1>1, <2>1 DEF Follows
<1> QED
  BY <1>3, <1>4

-----------------------------------------------------------------------------
(* The adjustments in force. *)

(* The increases, and the reductions, that the requests qs numbered in ns ask for. *)
AddedBy(qs, ns) == SumFunctionOnSet([n \in DOMAIN qs |-> Max0(qs[n].change)], ns)

TakenBy(qs, ns) == SumFunctionOnSet([n \in DOMAIN qs |-> Max0(-qs[n].change)], ns)

(* The sums of the model are these. *)
LEMMA SumsAre == Added = AddedBy(adjustments, Applied) /\ Taken = TakenBy(adjustments, Applied)
BY DEF Added, Taken, AddedBy, TakenBy, Increase, Reduction, Numbers

(* What a request asks for, in numbers. *)
LEMMA RequestFigures ==
  ASSUME NEW qs \in Seq(Adjustments)
  PROVE  /\ DOMAIN qs = 1..Len(qs) /\ Len(qs) \in Nat
         /\ \A n \in 1..Len(qs) :
              /\ qs[n] \in Adjustments
              /\ qs[n].change \in Int /\ qs[n].change # 0
              /\ qs[n].affected \in Nat /\ qs[n].at \in Nat
              /\ Max0(qs[n].change) \in Nat /\ Max0(-qs[n].change) \in Nat
<1>1. DOMAIN qs = 1..Len(qs) /\ Len(qs) \in Nat /\ \A n \in 1..Len(qs) : qs[n] \in Adjustments
  BY LenProperties, ElementOfSeq
<1>2. ASSUME NEW a \in Adjustments
      PROVE  /\ a.change \in Int /\ a.change # 0 /\ a.affected \in Nat /\ a.at \in Nat
             /\ Max0(a.change) \in Nat /\ Max0(-a.change) \in Nat
  BY AdjustmentsAssumption DEF Adjustments, Changes, Max0
<1> QED
  BY <1>1, <1>2

(* What x counts for when n is one of T. *)
CountsIn(n, T, x) == IF n \in T THEN x ELSE 0

(* Of the requests qs those in S, of the requests ts those in T are in force; but for
   request n they are the same and ask for the same. *)
Moves(qs, ts, S, T, n) ==
  /\ qs \in Seq(Adjustments) /\ ts \in Seq(Adjustments)
  /\ S \in SUBSET (DOMAIN qs) /\ T \in SUBSET (DOMAIN ts) /\ S \ {n} = T \ {n}
  /\ \A m \in S \cap T : m # n => ts[m].change = qs[m].change

(* When one request joins or leaves those in force, its change is added to the sums
   or taken away. *)
LEMMA SumsMove ==
  ASSUME NEW qs, NEW ts, NEW S, NEW T, NEW n, Moves(qs, ts, S, T, n)
  PROVE  /\ AddedBy(ts, T) = AddedBy(qs, S) + CountsIn(n, T, Max0(ts[n].change))
                                            - CountsIn(n, S, Max0(qs[n].change))
         /\ TakenBy(ts, T) = TakenBy(qs, S) + CountsIn(n, T, Max0(-ts[n].change))
                                            - CountsIn(n, S, Max0(-qs[n].change))
         /\ AddedBy(qs, S) \in Nat /\ TakenBy(qs, S) \in Nat
<1> DEFINE f == [m \in DOMAIN qs |-> Max0(qs[m].change)]
           g == [m \in DOMAIN ts |-> Max0(ts[m].change)]
           h == [m \in DOMAIN qs |-> Max0(-qs[m].change)]
           k == [m \in DOMAIN ts |-> Max0(-ts[m].change)]
<1>0. /\ qs \in Seq(Adjustments) /\ ts \in Seq(Adjustments)
      /\ S \in SUBSET (DOMAIN qs) /\ T \in SUBSET (DOMAIN ts) /\ S \ {n} = T \ {n}
      /\ \A m \in S \cap T : m # n => ts[m].change = qs[m].change
  BY DEF Moves
<1>1. IsFiniteSet(S) /\ IsFiniteSet(T)
  <2>1. S \in SUBSET (1..Len(qs)) /\ T \in SUBSET (1..Len(ts))
    BY <1>0, RequestFigures
  <2>2. IsFiniteSet(1..Len(qs)) /\ IsFiniteSet(1..Len(ts))
    BY <1>0, RequestFigures, FS_Interval
  <2> QED
    BY <2>1, <2>2, FS_Subset
<1>2. \A m \in S : f[m] = Max0(qs[m].change) /\ h[m] = Max0(-qs[m].change) /\ f[m] \in Nat /\ h[m] \in Nat
  BY <1>0, RequestFigures
<1>3. \A m \in T : g[m] = Max0(ts[m].change) /\ k[m] = Max0(-ts[m].change) /\ g[m] \in Nat /\ k[m] \in Nat
  BY <1>0, RequestFigures
<1>4. /\ \A m \in S : f[m] \in Int
      /\ \A m \in S : h[m] \in Int
      /\ \A m \in T : g[m] \in Int
      /\ \A m \in T : k[m] \in Int
      /\ \A m \in S \cap T : m # n => g[m] = f[m]
      /\ \A m \in S \cap T : m # n => k[m] = h[m]
  <2>1. ASSUME NEW m \in S \cap T, m # n PROVE g[m] = f[m] /\ k[m] = h[m]
    <3>1. ts[m].change = qs[m].change
      BY <1>0, <2>1
    <3> QED
      BY <1>2, <1>3, <2>1, <3>1
  <2> HIDE DEF f, g, h, k
  <2>2. \A m \in S : f[m] \in Int /\ h[m] \in Int
    BY <1>2
  <2>3. \A m \in T : g[m] \in Int /\ k[m] \in Int
    BY <1>3
  <2> QED
    BY <2>1, <2>2, <2>3
<1>5. /\ AddedBy(qs, S) = SumFunctionOnSet(f, S) /\ AddedBy(ts, T) = SumFunctionOnSet(g, T)
      /\ TakenBy(qs, S) = SumFunctionOnSet(h, S) /\ TakenBy(ts, T) = SumFunctionOnSet(k, T)
  BY DEF AddedBy, TakenBy
<1> HIDE DEF f, g, h, k
<1>6. SumFunctionOnSet(g, T) =
        SumFunctionOnSet(f, S) + (IF n \in T THEN g[n] ELSE 0) - (IF n \in S THEN f[n] ELSE 0)
  <2>1. /\ \A m \in S : f[m] \in Int
        /\ \A m \in T : g[m] \in Int
        /\ \A m \in S \cap T : m # n => g[m] = f[m]
    BY <1>4
  <2>2. S \ {n} = T \ {n}
    BY <1>0
  <2> QED
    BY <1>1, <2>1, <2>2, SumMoved
<1>7. SumFunctionOnSet(k, T) =
        SumFunctionOnSet(h, S) + (IF n \in T THEN k[n] ELSE 0) - (IF n \in S THEN h[n] ELSE 0)
  <2>1. /\ \A m \in S : h[m] \in Int
        /\ \A m \in T : k[m] \in Int
        /\ \A m \in S \cap T : m # n => k[m] = h[m]
    BY <1>4
  <2>2. S \ {n} = T \ {n}
    BY <1>0
  <2> QED
    BY <1>1, <2>1, <2>2, SumMoved
<1>8. SumFunctionOnSet(f, S) \in Nat /\ SumFunctionOnSet(h, S) \in Nat
  BY <1>1, <1>2, SumNat
<1> QED
  BY <1>2, <1>3, <1>5, <1>6, <1>7, <1>8 DEF CountsIn

(* The sums depend on the changes of the requests in force only. *)
LEMMA SumsStay ==
  ASSUME NEW qs \in Seq(Adjustments), NEW ts \in Seq(Adjustments),
         NEW S \in SUBSET (DOMAIN qs), S \subseteq DOMAIN ts,
         \A m \in S : ts[m].change = qs[m].change
  PROVE  /\ AddedBy(ts, S) = AddedBy(qs, S) /\ TakenBy(ts, S) = TakenBy(qs, S)
         /\ AddedBy(qs, S) \in Nat /\ TakenBy(qs, S) \in Nat
<1>1. 0 \notin S
  BY RequestFigures
<1>2. Moves(qs, ts, S, S, 0)
  BY DEF Moves
<1>3. /\ AddedBy(ts, S) = AddedBy(qs, S) + CountsIn(0, S, Max0(ts[0].change))
                                         - CountsIn(0, S, Max0(qs[0].change))
      /\ TakenBy(ts, S) = TakenBy(qs, S) + CountsIn(0, S, Max0(-ts[0].change))
                                         - CountsIn(0, S, Max0(-qs[0].change))
      /\ AddedBy(qs, S) \in Nat /\ TakenBy(qs, S) \in Nat
  BY <1>2, SumsMove
<1> QED
  BY <1>1, <1>3 DEF CountsIn

-----------------------------------------------------------------------------
(* What the stock holds beside the adjustments in force. *)

(* The part a row counts on that none of the increases ns brought. *)
FreePart(a, ns) == IF a.notes \cap ns = {} THEN CountedOn(a) ELSE 0

FreeIn(rs, ns) == SumFunction([i \in DOMAIN rs |-> FreePart(rs[i], ns)])

CountedIn(rs) == SumFunction([i \in DOMAIN rs |-> CountedOn(rs[i])])

(* The free parts of rows are numbers. *)
LEMMA FreeParts ==
  ASSUME NEW rs \in Seq(Rows), NEW ns
  PROVE  /\ [i \in DOMAIN rs |-> FreePart(rs[i], ns)] \in [1..Len(rs) -> Nat]
         /\ \A i \in 1..Len(rs) : FreePart(rs[i], ns) \in Nat /\ FreePart(rs[i], ns) <= CountedOn(rs[i])
         /\ FreeIn(rs, ns) \in Nat
<1>1. \A i \in 1..Len(rs) : FreePart(rs[i], ns) \in Nat /\ FreePart(rs[i], ns) <= CountedOn(rs[i])
  <2> TAKE i \in 1..Len(rs)
  <2>1. rs[i] \in Rows
    BY PartsOf
  <2>2. CountedOn(rs[i]) \in Nat
    BY <2>1, RowFigures
  <2>3. CASE rs[i].notes \cap ns = {}
    <3>1. FreePart(rs[i], ns) = CountedOn(rs[i])
      BY <2>3 DEF FreePart
    <3> QED
      BY <2>2, <3>1
  <2>4. CASE rs[i].notes \cap ns # {}
    <3>1. FreePart(rs[i], ns) = 0
      BY <2>4 DEF FreePart
    <3> QED
      BY <2>2, <3>1
  <2> QED
    BY <2>3, <2>4
<1>2. [i \in DOMAIN rs |-> FreePart(rs[i], ns)] \in [1..Len(rs) -> Nat] /\ Len(rs) \in Nat
  BY <1>1, PartsOf
<1>3. FreeIn(rs, ns) \in Nat
  BY <1>2, SumOfNat DEF FreeIn
<1> QED
  BY <1>1, <1>2, <1>3

(* No row's free part grows, and a new row has none. *)
Frees(rs, bs, ns, ms) ==
  /\ Len(bs) = Len(rs) \/ Len(bs) = Len(rs) + 1
  /\ \A i \in 1..Len(rs) : FreePart(bs[i], ms) <= FreePart(rs[i], ns)
  /\ \A i \in 1..Len(bs) : i > Len(rs) => FreePart(bs[i], ms) = 0

(* Then their sum does not grow. *)
LEMMA FreeShrinks ==
  ASSUME NEW rs \in Seq(Rows), NEW bs \in Seq(Rows), NEW ns, NEW ms, Frees(rs, bs, ns, ms)
  PROVE  FreeIn(bs, ms) <= FreeIn(rs, ns)
<1>0. Len(rs) \in Nat /\ Len(bs) \in Nat /\ (Len(bs) = Len(rs) \/ Len(bs) = Len(rs) + 1)
  BY LenProperties DEF Frees
<1>a. /\ \A i \in 1..Len(rs) : i \in 1..Len(bs)
      /\ Len(bs) = Len(rs) + 1 => Len(bs) \in 1..Len(bs) /\ Len(bs) > Len(rs)
  BY <1>0
<1> DEFINE f == [i \in DOMAIN rs |-> FreePart(rs[i], ns)]
           g == [i \in DOMAIN bs |-> FreePart(bs[i], ms)]
           h == [i \in 1..Len(rs) |-> FreePart(bs[i], ms)]
<1>1. /\ Len(rs) \in Nat /\ DOMAIN rs = 1..Len(rs) /\ DOMAIN bs = 1..Len(bs)
      /\ Len(bs) = Len(rs) \/ Len(bs) = Len(rs) + 1
  BY PartsOf DEF Frees
<1>2. f \in [1..Len(rs) -> Nat] /\ g \in [1..Len(bs) -> Nat]
  BY FreeParts
<1>3. h \in [1..Len(rs) -> Nat]
  <2>2. \A i \in 1..Len(rs) : FreePart(bs[i], ms) \in Nat
    BY <1>a, FreeParts
  <2> QED
    BY <2>2
<1>4. (\A i \in 1..Len(rs) : h[i] <= f[i]) /\ \A i \in 1..Len(rs) : g[i] = h[i]
  <2> SUFFICES ASSUME NEW i \in 1..Len(rs) PROVE h[i] <= f[i] /\ g[i] = h[i]
    OBVIOUS
  <2>1. i \in DOMAIN rs /\ i \in DOMAIN bs
    BY <1>1, <1>a
  <2> QED
    BY <2>1 DEF Frees
<1>5. FreeIn(rs, ns) = SumFunction(f) /\ FreeIn(bs, ms) = SumFunction(g)
  BY DEF FreeIn
<1>6. Len(bs) = Len(rs) + 1 => g[Len(rs) + 1] = 0
  <2> SUFFICES ASSUME Len(bs) = Len(rs) + 1 PROVE g[Len(bs)] = 0
    OBVIOUS
  <2>1. Len(bs) \in 1..Len(bs) /\ Len(bs) > Len(rs) /\ Len(bs) \in DOMAIN bs
    BY <1>1, <1>a
  <2> QED
    BY <2>1 DEF Frees
<1>7. Len(bs) = Len(rs) => g = h
  BY <1>1
<1> HIDE DEF f, g, h
<1>8. SumFunction(h) <= SumFunction(f) /\ SumFunction(h) \in Nat
  BY <1>1, <1>2, <1>3, <1>4, SumOfSmaller, SumOfNat
<1>9. Len(bs) = Len(rs) + 1 => SumFunction(g) = SumFunction(h) + g[Len(rs) + 1]
  <2> SUFFICES ASSUME Len(bs) = Len(rs) + 1 PROVE SumFunction(g) = SumFunction(h) + g[Len(rs) + 1]
    OBVIOUS
  <2>1. Len(rs) \in Nat /\ g \in [1..(Len(rs) + 1) -> Nat] /\ \A i \in 1..Len(rs) : g[i] = h[i]
    BY <1>0, <1>2, <1>4
  <2> QED
    BY <1>3, <2>1, SumOfLonger
<1> QED
  BY <1>0, <1>5, <1>6, <1>7, <1>8, <1>9

(* The rows of a line with one row. *)
LEMMA FreeOfOne ==
  ASSUME NEW a \in Rows, NEW ns
  PROVE  FreeIn(<<a>>, ns) <= CountedOn(a)
<1> DEFINE rs == <<a>>
           f == [i \in DOMAIN rs |-> FreePart(rs[i], ns)]
<1>1. rs \in Seq(Rows) /\ rs[1] = a /\ DOMAIN rs = {1} /\ Len(rs) = 1
  OBVIOUS
<1>2. FreeIn(rs, ns) = SumFunction(f)
  BY DEF FreeIn
<1>3. FreePart(a, ns) \in Nat /\ FreePart(a, ns) <= CountedOn(a)
  BY RowFigures DEF FreePart
<1>4. DOMAIN f = {1} /\ f[1] = FreePart(a, ns)
  BY <1>1
<1> HIDE DEF f
<1>5. SumFunction(f) = f[1]
  BY <1>3, <1>4, SumOfOne
<1> QED
  BY <1>2, <1>3, <1>4, <1>5

-----------------------------------------------------------------------------
(* How a request is rewritten. *)

Statuses == {"SUBMITTED", "APPROVED", "REJECTED", "CANCELLED", "APPLIED", "REVERSED"}

(* ts are the requests qs with request n rewritten to r. *)
Rewritten(qs, ts, n, r) ==
  /\ ts \in Seq(Adjustments) /\ Len(ts) = Len(qs) /\ DOMAIN ts = DOMAIN qs
  /\ ts[n] = r /\ \A m \in DOMAIN qs : m # n => ts[m] = qs[m]

(* A request with its status, its reviewer and its place in time. *)
RequestAs(a, status, reviewer, at) ==
  [change |-> a.change, affected |-> a.affected, status |-> status, version |-> a.version,
   by |-> a.by, reviewer |-> reviewer, at |-> at]

(* It is a request. *)
LEMMA RequestAsType ==
  ASSUME NEW a \in Adjustments, NEW s \in Statuses, NEW u \in Staff \cup {"nobody"}, NEW t \in Nat
  PROVE  RequestAs(a, s, u, t) \in Adjustments
BY DEF RequestAs, Adjustments, Statuses

(* A request rewritten in place is the record of its fields. *)
LEMMA RequestClosed ==
  ASSUME NEW a \in Adjustments, NEW s
  PROVE  [a EXCEPT !.status = s] = RequestAs(a, s, a.reviewer, a.at)
BY DEF RequestAs, Adjustments

(* The same of one that is decided. *)
LEMMA RequestDecided ==
  ASSUME NEW a \in Adjustments, NEW s, NEW u
  PROVE  [a EXCEPT !.status = s, !.reviewer = u] = RequestAs(a, s, u, a.at)
<1>1. PICK b : b = [a EXCEPT !.status = s]
  OBVIOUS
<1>2. b = RequestAs(a, s, a.reviewer, a.at)
  BY <1>1, RequestClosed
<1>3. [b EXCEPT !.reviewer = u] = RequestAs(a, s, u, a.at)
  BY <1>2 DEF RequestAs
<1> QED
  BY <1>1, <1>3

(* The same of one that is applied. *)
LEMMA RequestDated ==
  ASSUME NEW a \in Adjustments, NEW s, NEW t
  PROVE  [a EXCEPT !.status = s, !.at = t] = RequestAs(a, s, a.reviewer, t)
<1>1. PICK b : b = [a EXCEPT !.status = s]
  OBVIOUS
<1>2. b = RequestAs(a, s, a.reviewer, a.at)
  BY <1>1, RequestClosed
<1>3. [b EXCEPT !.at = t] = RequestAs(a, s, a.reviewer, t)
  BY <1>2 DEF RequestAs
<1> QED
  BY <1>1, <1>3

(* The types of its fields. *)
LEMMA RequestFields ==
  ASSUME NEW a \in Adjustments
  PROVE  a.reviewer \in Staff \cup {"nobody"} /\ a.at \in Nat /\ a.status \in Statuses
BY DEF Adjustments, Statuses

(* Writing one request leaves the others. *)
LEMMA RewrittenBy ==
  ASSUME NEW qs \in Seq(Adjustments), NEW n \in DOMAIN qs, NEW r \in Adjustments,
         NEW ts, ts = [qs EXCEPT ![n] = r]
  PROVE  Rewritten(qs, ts, n, r)
<1>1. DOMAIN qs = 1..Len(qs) /\ Len(qs) \in Nat
  BY RequestFigures
<1>2. ts \in Seq(Adjustments) /\ Len(ts) = Len(qs)
  BY <1>1, ExceptSeq
<1>3. DOMAIN ts = DOMAIN qs /\ ts[n] = r /\ \A m \in DOMAIN qs : m # n => ts[m] = qs[m]
  OBVIOUS
<1> QED
  BY <1>2, <1>3 DEF Rewritten

(* The writes of the handlers. *)
LEMMA Writes ==
  ASSUME NEW qs \in Seq(Adjustments), NEW n \in DOMAIN qs
  PROVE  /\ \A s \in Statuses, u \in Staff \cup {"nobody"} :
              Rewritten(qs, [qs EXCEPT ![n].status = s, ![n].reviewer = u], n, RequestAs(qs[n], s, u, qs[n].at))
         /\ \A t \in Nat :
              Rewritten(qs, [qs EXCEPT ![n].status = "APPLIED", ![n].at = t], n,
                        RequestAs(qs[n], "APPLIED", qs[n].reviewer, t))
         /\ Rewritten(qs, [qs EXCEPT ![n].status = "REVERSED"], n,
                      RequestAs(qs[n], "REVERSED", qs[n].reviewer, qs[n].at))
<1>1. qs[n] \in Adjustments
  BY RequestFigures
<1>2. ASSUME NEW s \in Statuses, NEW u \in Staff \cup {"nobody"}
      PROVE  Rewritten(qs, [qs EXCEPT ![n].status = s, ![n].reviewer = u], n, RequestAs(qs[n], s, u, qs[n].at))
  <2>1. [qs EXCEPT ![n].status = s, ![n].reviewer = u] =
          [qs EXCEPT ![n] = [qs[n] EXCEPT !.status = s, !.reviewer = u]]
    OBVIOUS
  <2>2. [qs[n] EXCEPT !.status = s, !.reviewer = u] = RequestAs(qs[n], s, u, qs[n].at)
    BY <1>1, RequestDecided
  <2>3. RequestAs(qs[n], s, u, qs[n].at) \in Adjustments
    BY <1>1, RequestFields, RequestAsType
  <2> QED
    BY <2>1, <2>2, <2>3, RewrittenBy
<1>3. ASSUME NEW t \in Nat
      PROVE  Rewritten(qs, [qs EXCEPT ![n].status = "APPLIED", ![n].at = t], n,
                       RequestAs(qs[n], "APPLIED", qs[n].reviewer, t))
  <2>1. [qs EXCEPT ![n].status = "APPLIED", ![n].at = t] =
          [qs EXCEPT ![n] = [qs[n] EXCEPT !.status = "APPLIED", !.at = t]]
    OBVIOUS
  <2>2. [qs[n] EXCEPT !.status = "APPLIED", !.at = t] = RequestAs(qs[n], "APPLIED", qs[n].reviewer, t)
    BY <1>1, RequestDated
  <2>3. RequestAs(qs[n], "APPLIED", qs[n].reviewer, t) \in Adjustments
    BY <1>1, RequestFields, RequestAsType DEF Statuses
  <2> QED
    BY <2>1, <2>2, <2>3, RewrittenBy
<1>4. Rewritten(qs, [qs EXCEPT ![n].status = "REVERSED"], n,
                RequestAs(qs[n], "REVERSED", qs[n].reviewer, qs[n].at))
  <2>1. [qs EXCEPT ![n].status = "REVERSED"] = [qs EXCEPT ![n] = [qs[n] EXCEPT !.status = "REVERSED"]]
    OBVIOUS
  <2>2. [qs[n] EXCEPT !.status = "REVERSED"] = RequestAs(qs[n], "REVERSED", qs[n].reviewer, qs[n].at)
    BY <1>1, RequestClosed
  <2>3. RequestAs(qs[n], "REVERSED", qs[n].reviewer, qs[n].at) \in Adjustments
    BY <1>1, RequestFields, RequestAsType DEF Statuses
  <2> QED
    BY <2>1, <2>2, <2>3, RewrittenBy
<1> QED
  BY <1>2, <1>3, <1>4

-----------------------------------------------------------------------------
(* The inductive invariant of the rows. *)

(* The rows have their types and keep their CHECKs. *)
RowsTyped ==
  /\ order \in Orders /\ line \in Lines /\ allocs \in Seq(Rows)
  /\ balance \in Balance /\ SatisfiesChecks(balance)
  /\ adjustments \in Seq(Adjustments) /\ Len(adjustments) <= MaxAdjustments

Booked == {"APPLIED", "REVERSED"}

Increases == {n \in Applied : adjustments[n].change > 0}

(* Row i is the only one that increase n brought, and n is all that it brought. *)
Owned(i, n) ==
  /\ allocs[i].allocated <= adjustments[n].change
  /\ \A j \in 1..Len(allocs) : n \in allocs[j].notes => j = i
  /\ \A m \in allocs[i].notes : adjustments[m].change > 0 => m = n

(* The numbers on the rows are of adjustments that were applied, and an increase
   brought one row at most. *)
Noted ==
  \A i \in 1..Len(allocs) : \A n \in allocs[i].notes :
    /\ n \in Numbers /\ adjustments[n].status \in Booked
    /\ adjustments[n].change > 0 => Owned(i, n)

(* The floor has not been at an order that may still be released. *)
Unpicked ==
  order.status = "APPROVED" \/ order.fulfillment = "RESERVED" =>
    \A i \in 1..Len(allocs) : allocs[i].status \notin {"PICKED", "PACKED"}

(* Until the order is cancelled the stock holds the increases in force, whether or
   not they brought a row, beside what the other rows count on. *)
Held ==
  IF order.status = "CANCELLED" THEN CountedIn(allocs) <= balance.reserved
  ELSE Added + FreeIn(allocs, Increases) <= balance.reserved

(* What is in force was applied at versions of its own. *)
InTime ==
  /\ \A n \in Applied : adjustments[n].at <= order.version
  /\ \A m, n \in Applied : adjustments[m].at = adjustments[n].at => m = n

(* A request that waits was reviewed by nobody. *)
Unreviewed == \A n \in Numbers : adjustments[n].status = "SUBMITTED" => adjustments[n].reviewer = "nobody"

RowsInv ==
  /\ RowsTyped
  /\ LinesMatchApplied
  /\ line.reserved = ReservedIn(allocs)
  /\ order.status = "SUBMITTED" => allocs = <<>>
  /\ Noted /\ Unpicked /\ Held /\ InTime /\ Unreviewed

(* Requests and rows of a typed state. *)
LEMMA TypedParts ==
  ASSUME RowsTyped
  PROVE  /\ Numbers = 1..Len(adjustments) /\ Len(adjustments) \in Nat
         /\ Applied \subseteq Numbers /\ Increases \subseteq Numbers
         /\ Numbers \subseteq 1..MaxAdjustments
         /\ \A n \in Numbers : /\ adjustments[n] \in Adjustments
                               /\ adjustments[n].change \in Int /\ adjustments[n].change # 0
                               /\ adjustments[n].affected \in Nat /\ adjustments[n].at \in Nat
                               /\ Increase(n) \in Nat /\ Reduction(n) \in Nat
         /\ Added \in Nat /\ Taken \in Nat
         /\ Len(allocs) \in Nat /\ DOMAIN allocs = 1..Len(allocs)
         /\ \A i \in 1..Len(allocs) : allocs[i] \in Rows
<1>1. /\ adjustments \in Seq(Adjustments) /\ allocs \in Seq(Rows) /\ Len(adjustments) <= MaxAdjustments
  BY DEF RowsTyped
<1>2. /\ Numbers = 1..Len(adjustments) /\ Len(adjustments) \in Nat
      /\ \A n \in Numbers : /\ adjustments[n] \in Adjustments
                            /\ adjustments[n].change \in Int /\ adjustments[n].change # 0
                            /\ adjustments[n].affected \in Nat /\ adjustments[n].at \in Nat
                            /\ Increase(n) \in Nat /\ Reduction(n) \in Nat
  BY <1>1, RequestFigures DEF Numbers, Increase, Reduction
<1>3. Numbers \subseteq 1..MaxAdjustments
  BY <1>1, <1>2, AdjustmentsAssumption
<1>4. Applied \subseteq Numbers /\ Increases \subseteq Numbers
  BY DEF Applied, Increases
<1>5. Added \in Nat /\ Taken \in Nat
  <2>1. Applied \in SUBSET (DOMAIN adjustments) /\ Applied \subseteq DOMAIN adjustments
    BY <1>4 DEF Numbers
  <2>2. AddedBy(adjustments, Applied) \in Nat /\ TakenBy(adjustments, Applied) \in Nat
    BY <1>1, <2>1, SumsStay
  <2> QED
    BY <2>2, SumsAre
<1>6. /\ Len(allocs) \in Nat /\ DOMAIN allocs = 1..Len(allocs)
      /\ \A i \in 1..Len(allocs) : allocs[i] \in Rows
  BY <1>1, PartsOf
<1> QED
  BY <1>2, <1>3, <1>4, <1>5, <1>6

-----------------------------------------------------------------------------
(* Steps that apply and reverse nothing. *)

(* The requests stay, and with them which of them are in force. *)
SameBooks ==
  /\ \A m \in Numbers : /\ m \in Numbers' /\ adjustments'[m].change = adjustments[m].change
                        /\ adjustments'[m].at = adjustments[m].at
                        /\ (adjustments[m].status \in Booked \/ adjustments'[m].status \in Booked) =>
                              adjustments'[m].status = adjustments[m].status
  /\ \A m \in Numbers' : m \notin Numbers => adjustments'[m].status \notin Booked

(* Nothing is forgotten. *)
KeepsBooked ==
  \A m \in Numbers : /\ m \in Numbers' /\ adjustments'[m].change = adjustments[m].change
                     /\ adjustments[m].status \in Booked => adjustments'[m].status \in Booked

(* The adjustments in force and their sums are then the same. *)
LEMMA BooksStay ==
  ASSUME RowsTyped, RowsTyped', SameBooks
  PROVE  /\ Applied' = Applied /\ Increases' = Increases
         /\ Added' = Added /\ Taken' = Taken /\ KeepsBooked
<1>1. Applied' = Applied
  <2>1. \A m \in Numbers : m \in Numbers' /\ (adjustments'[m].status = "APPLIED" <=> adjustments[m].status = "APPLIED")
    BY DEF SameBooks, Booked
  <2>2. \A m \in Numbers' : m \notin Numbers => adjustments'[m].status # "APPLIED"
    BY DEF SameBooks, Booked
  <2> QED
    BY <2>1, <2>2 DEF Applied
<1>2. \A m \in Applied : adjustments'[m].change = adjustments[m].change /\ m \in Numbers /\ m \in Numbers'
  BY DEF SameBooks, Applied
<1>3. Increases' = Increases
  BY <1>1, <1>2 DEF Increases
<1>4. Added' = Added /\ Taken' = Taken
  <2>1. adjustments \in Seq(Adjustments) /\ adjustments' \in Seq(Adjustments)
    BY DEF RowsTyped
  <2>2. Applied \in SUBSET (DOMAIN adjustments) /\ Applied \subseteq DOMAIN adjustments'
    BY <1>2 DEF Numbers
  <2>3. \A m \in Applied : adjustments'[m].change = adjustments[m].change
    BY <1>2
  <2>4. /\ AddedBy(adjustments', Applied) = AddedBy(adjustments, Applied)
        /\ TakenBy(adjustments', Applied) = TakenBy(adjustments, Applied)
    BY <2>1, <2>2, <2>3, SumsStay
  <2>5. Added' = AddedBy(adjustments', Applied') /\ Taken' = TakenBy(adjustments', Applied')
    BY DEF Added, Taken, AddedBy, TakenBy, Increase, Reduction, Numbers
  <2> QED
    BY <1>1, <2>4, <2>5, SumsAre
<1>5. KeepsBooked
  BY DEF SameBooks, KeepsBooked
<1> QED
  BY <1>1, <1>3, <1>4, <1>5

(* A paper step changes no row but the request, and of the order only what its
   page says of adjustments. *)
SameOrder ==
  /\ order'.status = order.status /\ order'.fulfillment = order.fulfillment
  /\ order'.version = order.version /\ order'.total = order.total /\ order'.adjusted = order.adjusted

LEMMA PaperStep ==
  ASSUME RowsInv, RowsTyped', SameBooks, SameOrder, UNCHANGED <<line, allocs, balance>>, Unreviewed'
  PROVE  RowsInv'
<1>1. /\ Applied' = Applied /\ Increases' = Increases
      /\ Added' = Added /\ Taken' = Taken /\ KeepsBooked
  BY BooksStay DEF RowsInv
<1>2. LinesMatchApplied'
  BY <1>1 DEF RowsInv, LinesMatchApplied, SameOrder
<1>3. (line.reserved = ReservedIn(allocs))' /\ (order.status = "SUBMITTED" => allocs = <<>>)'
  BY DEF RowsInv, SameOrder
<1>4. Noted'
  <2>1. Noted /\ \A m \in Numbers : /\ m \in Numbers' /\ adjustments'[m].change = adjustments[m].change
                                    /\ adjustments[m].status \in Booked => adjustments'[m].status \in Booked
    BY <1>1 DEF RowsInv, KeepsBooked
  <2> SUFFICES ASSUME NEW i \in 1..Len(allocs), NEW n \in allocs[i].notes
               PROVE  /\ n \in Numbers' /\ adjustments'[n].status \in Booked
                      /\ adjustments'[n].change > 0 => Owned(i, n)'
    BY DEF Noted
  <2>2. n \in Numbers /\ adjustments[n].status \in Booked /\ (adjustments[n].change > 0 => Owned(i, n))
    BY <2>1 DEF Noted
  <2>3. \A m \in allocs[i].notes : adjustments'[m].change = adjustments[m].change
    BY <2>1 DEF Noted
  <2> QED
    BY <2>1, <2>2, <2>3 DEF Owned
<1>5. Unpicked' /\ Held'
  BY <1>1 DEF RowsInv, Unpicked, Held, SameOrder
<1>6. InTime'
  <2>1. \A n \in Applied : adjustments'[n].at = adjustments[n].at
    BY DEF SameBooks, Applied
  <2> QED
    BY <1>1, <2>1 DEF RowsInv, InTime, SameOrder
<1> QED
  BY <1>2, <1>3, <1>4, <1>5, <1>6 DEF RowsInv

(* The order's page says something else of adjustments. *)
LEMMA OrderMarked ==
  ASSUME order \in Orders, NEW x \in {"NONE", "REQUESTED", "APPLIED", "REVERSED"},
         order' = [order EXCEPT !.adjustment = x]
  PROVE  order' \in Orders /\ SameOrder
BY DEF Orders, SameOrder

(* What the line still needs and has. *)
LEMMA LineFigures ==
  ASSUME RowsTyped
  PROVE  /\ Fulfillable(line) \in Nat /\ Unallocated \in Nat
         /\ AllocatedIn(allocs) \in Nat /\ UntouchedIn(allocs) \in Nat
         /\ UntouchedIn(allocs) <= AllocatedIn(allocs)
         /\ line.increased \in Nat /\ line.cancelled \in Nat /\ line.reserved \in Nat
         /\ Fulfillable(line) = Max0(Ordered + line.increased - line.cancelled)
         /\ Unallocated = Max0(Fulfillable(line) - AllocatedIn(allocs))
         /\ Ordered \in Nat
<1>1. /\ line.increased \in Nat /\ line.cancelled \in 0..Ordered /\ line.reserved \in Nat /\ Ordered \in Nat
      /\ allocs \in Seq(Rows)
  BY AdjustmentsAssumption DEF RowsTyped, Lines
<1>2. /\ AllocatedIn(allocs) \in Nat /\ UntouchedIn(allocs) \in Nat /\ UntouchedIn(allocs) <= AllocatedIn(allocs)
  BY <1>1, Figures
<1>3. Fulfillable(line) = Max0(Ordered + line.increased - line.cancelled) /\ Fulfillable(line) \in Nat
  <2>1. Ordered + line.increased - line.cancelled \in Int
    BY <1>1
  <2> QED
    BY <2>1, Max0Type DEF Fulfillable
<1>4. Unallocated = Max0(Fulfillable(line) - AllocatedIn(allocs)) /\ Unallocated \in Nat
  BY <1>2, <1>3, Max0Type DEF Unallocated
<1> QED
  BY <1>1, <1>2, <1>3, <1>4

(* A request is made: it is in force for nobody yet. *)
LEMMA CreateKeeps ==
  ASSUME RowsInv, NEW u \in Staff, NEW change \in Changes, CreateRequest(u, change)
  PROVE  RowsInv'
<1> DEFINE r == [change |-> change, affected |-> Max0(-change - Unallocated), status |-> "SUBMITTED",
                 version |-> order.version, by |-> u, reviewer |-> "nobody", at |-> 0]
<1>0. RowsTyped /\ Unreviewed
  BY DEF RowsInv
<1>1. /\ adjustments' = Append(adjustments, r) /\ Len(adjustments) < MaxAdjustments
      /\ order' = [order EXCEPT !.adjustment = "REQUESTED"] /\ UNCHANGED <<line, allocs, balance>>
  BY DEF CreateRequest
<1>2. r \in Adjustments /\ r.status = "SUBMITTED" /\ r.reviewer = "nobody"
  <2>1. change \in Int /\ Unallocated \in Nat /\ order.version \in Nat
    BY <1>0, LineFigures, AdjustmentsAssumption DEF Changes, RowsTyped, Orders
  <2>2. Max0(-change - Unallocated) \in Nat
    BY <2>1, Max0Type
  <2> QED
    BY <2>1, <2>2 DEF Adjustments
<1> HIDE DEF r
<1>3. adjustments \in Seq(Adjustments)
  BY <1>0 DEF RowsTyped
<1>4. /\ adjustments' \in Seq(Adjustments) /\ Len(adjustments') = Len(adjustments) + 1
      /\ \A m \in 1..Len(adjustments) : adjustments'[m] = adjustments[m]
      /\ \A m \in 1..(Len(adjustments) + 1) : m > Len(adjustments) => adjustments'[m] = r
      /\ Len(adjustments) \in Nat
  BY <1>1, <1>2, <1>3, Lengthened
<1>5. Numbers = 1..Len(adjustments) /\ Numbers' = 1..(Len(adjustments) + 1)
  BY <1>3, <1>4, LenProperties DEF Numbers
<1>6. /\ \A m \in Numbers : m \in Numbers' /\ adjustments'[m] = adjustments[m]
      /\ \A m \in Numbers' : m \notin Numbers => adjustments'[m] = r
  BY <1>4, <1>5
<1>7. order' \in Orders /\ SameOrder
  BY <1>0, <1>1, OrderMarked DEF RowsTyped
<1>8. RowsTyped'
  <2>1. Len(adjustments') <= MaxAdjustments
    BY <1>1, <1>4, AdjustmentsAssumption
  <2> QED
    BY <1>0, <1>1, <1>4, <1>7, <2>1 DEF RowsTyped
<1>9. SameBooks
  BY <1>2, <1>6 DEF SameBooks, Booked
<1>10. Unreviewed'
  BY <1>0, <1>2, <1>6 DEF Unreviewed
<1> QED
  BY <1>1, <1>7, <1>8, <1>9, <1>10, PaperStep

(* A request that waits is rewritten and none is in force before or after. *)
LEMMA DecisionKeeps ==
  ASSUME RowsInv, NEW n \in Numbers, adjustments[n].status = "SUBMITTED",
         NEW s \in {"APPROVED", "REJECTED", "CANCELLED"}, NEW v \in Staff \cup {"nobody"},
         adjustments' = [adjustments EXCEPT ![n].status = s, ![n].reviewer = v],
         NEW x \in {"NONE", "REQUESTED", "APPLIED", "REVERSED"},
         order' = [order EXCEPT !.adjustment = x], UNCHANGED <<line, allocs, balance>>
  PROVE  RowsInv'
<1>0. RowsTyped /\ Unreviewed
  BY DEF RowsInv
<1> DEFINE r == RequestAs(adjustments[n], s, v, adjustments[n].at)
<1>1. Rewritten(adjustments, adjustments', n, r)
  <2>1. adjustments \in Seq(Adjustments) /\ n \in DOMAIN adjustments /\ s \in Statuses
    BY <1>0 DEF RowsTyped, Numbers, Statuses
  <2> QED
    BY <2>1, Writes
<1>2. r.status = s /\ r.change = adjustments[n].change /\ r.at = adjustments[n].at
  BY DEF RequestAs
<1> HIDE DEF r
<1>3. /\ adjustments' \in Seq(Adjustments) /\ Len(adjustments') = Len(adjustments) /\ Numbers' = Numbers
      /\ adjustments'[n] = r /\ \A m \in Numbers : m # n => adjustments'[m] = adjustments[m]
  BY <1>1 DEF Rewritten, Numbers
<1>4. order' \in Orders /\ SameOrder
  BY <1>0, OrderMarked DEF RowsTyped
<1>5. RowsTyped'
  BY <1>0, <1>3, <1>4 DEF RowsTyped
<1>6. SameBooks
  BY <1>2, <1>3 DEF SameBooks, Booked
<1>7. Unreviewed'
  BY <1>0, <1>2, <1>3 DEF Unreviewed
<1> QED
  BY <1>4, <1>5, <1>6, <1>7, PaperStep

(* Dismissals and approvals are such decisions. *)
LEMMA DismissKeeps ==
  ASSUME RowsInv, NEW n \in Numbers, NEW s \in {"REJECTED", "CANCELLED"},
         NEW v \in Staff \cup {"nobody"}, Dismiss(n, s, v)
  PROVE  RowsInv'
<1>1. PICK x \in {"NONE", "REQUESTED", "APPLIED", "REVERSED"} : x = IF AnyApplied({}) THEN "APPLIED" ELSE "NONE"
  OBVIOUS
<1>2. /\ adjustments[n].status = "SUBMITTED" /\ s \in {"APPROVED", "REJECTED", "CANCELLED"}
      /\ adjustments' = [adjustments EXCEPT ![n].status = s, ![n].reviewer = v]
      /\ order' = [order EXCEPT !.adjustment = x] /\ UNCHANGED <<line, allocs, balance>>
  BY <1>1 DEF Dismiss
<1> QED
  BY <1>2, DecisionKeeps

LEMMA ApproveKeeps ==
  ASSUME RowsInv, NEW n \in Numbers, NEW u \in Staff, NEW ack, ApproveAdjustment(u, n, ack)
  PROVE  RowsInv'
<1>1. /\ adjustments[n].status = "SUBMITTED"
      /\ adjustments' = [adjustments EXCEPT ![n].status = "APPROVED", ![n].reviewer = u]
      /\ order' = [order EXCEPT !.adjustment = "REQUESTED"] /\ UNCHANGED <<line, allocs, balance>>
  BY DEF ApproveAdjustment
<1>2. "APPROVED" \in {"APPROVED", "REJECTED", "CANCELLED"} /\ u \in Staff \cup {"nobody"}
         /\ "REQUESTED" \in {"NONE", "REQUESTED", "APPLIED", "REVERSED"}
  OBVIOUS
<1> QED
  BY <1>1, <1>2, DecisionKeeps

-----------------------------------------------------------------------------
(* The order moves on and its adjustments stay. *)

(* What is in force and its sums stay when the requests do. *)
LEMMA RequestsStay ==
  ASSUME RowsTyped, RowsTyped', adjustments' = adjustments
  PROVE  /\ Applied' = Applied /\ Increases' = Increases
         /\ Added' = Added /\ Taken' = Taken /\ Numbers' = Numbers
<1>1. Numbers' = Numbers
  BY DEF Numbers
<1>2. SameBooks
  BY <1>1 DEF SameBooks
<1> QED
  BY <1>1, <1>2, BooksStay

(* The total of the order is what its line may be allocated. *)
LEMMA TotalFulfillable ==
  ASSUME RowsInv
  PROVE  order.total = Fulfillable(line) /\ order.total \in Nat
<1>1. /\ order.total \in Nat /\ order.total = Ordered + Added - Taken
      /\ line.increased = Added /\ line.cancelled = Taken
  BY DEF RowsInv, RowsTyped, Orders, LinesMatchApplied
<1>2. Fulfillable(line) = Max0(order.total)
  BY <1>1 DEF Fulfillable
<1> QED
  BY <1>1, <1>2 DEF Max0

(* The order is reviewed. *)
LEMMA ApproveOrderKeeps ==
  ASSUME RowsInv, ApproveOrder
  PROVE  RowsInv'
<1>0. RowsTyped
  BY DEF RowsInv
<1>1. PICK q : q = Fulfillable(line)
  OBVIOUS
<1>2. PICK a : a = NewRow(q, q, {})
  OBVIOUS
<1>3. /\ order.status = "SUBMITTED" /\ q > 0 /\ balance.available >= q
      /\ balance' = Reserve(balance, q)
      /\ line' = [line EXCEPT !.reserved = q]
      /\ allocs' = Append(allocs, a)
      /\ order' = [order EXCEPT !.status = "APPROVED", !.fulfillment = "RESERVED"]
      /\ adjustments' = adjustments
  BY <1>1, <1>2 DEF ApproveOrder
<1>4. q \in Nat \ {0} /\ q \in 0..q /\ q = order.total
  BY <1>0, <1>1, <1>3, LineFigures, TotalFulfillable
<1>5. /\ a \in Rows /\ a.status = "ALLOCATED" /\ a.notes = {}
      /\ CountedOn(a) = q /\ LiveAllocated(a) = q /\ LiveReserved(a) = q
  BY <1>2, <1>4, NewRowType
<1>6. allocs' = <<a>>
  BY <1>3 DEF RowsInv
<1>7. /\ allocs' \in Seq(Rows) /\ AllocatedIn(allocs') = q /\ ReservedIn(allocs') = q
      /\ FreeIn(allocs', Increases) <= q
  BY <1>5, <1>6, OneRow, FreeOfOne
<1>8. /\ order' \in Orders /\ order'.status = "APPROVED" /\ order'.version = order.version
      /\ order'.total = order.total /\ order'.adjusted = order.adjusted
  BY <1>0, <1>3 DEF RowsTyped, Orders, Adjustable
<1>9. /\ line' \in Lines /\ line'.reserved = q
      /\ line'.increased = line.increased /\ line'.cancelled = line.cancelled
  BY <1>0, <1>3, <1>4 DEF RowsTyped, Lines
<1>10. /\ balance' \in Balance /\ SatisfiesChecks(balance') /\ balance'.reserved = balance.reserved + q
       /\ balance.reserved \in Nat
  <2>1. balance \in Balance /\ SatisfiesChecks(balance) /\ q \in Nat
    BY <1>0, <1>4 DEF RowsTyped
  <2>2. balance.reserved \in Nat
    BY <2>1 DEF Balance
  <2> QED
    BY <1>3, <2>1, <2>2, ReserveType, ReserveRow, ReserveKeepsChecks
<1>11. RowsTyped'
  BY <1>0, <1>3, <1>7, <1>8, <1>9, <1>10 DEF RowsTyped
<1>12. /\ Applied' = Applied /\ Increases' = Increases
       /\ Added' = Added /\ Taken' = Taken /\ Numbers' = Numbers
  BY <1>0, <1>3, <1>11, RequestsStay
<1>13. LinesMatchApplied'
  BY <1>4, <1>7, <1>8, <1>9, <1>12 DEF RowsInv, LinesMatchApplied
<1>14. Noted' /\ Unpicked'
  <2>1. \A i \in 1..Len(allocs') : allocs'[i] = a
    BY <1>6
  <2> QED
    BY <1>5, <2>1 DEF Noted, Unpicked
<1>15. Held'
  <2>1. Added + FreeIn(allocs, Increases) <= balance.reserved
    BY <1>3 DEF RowsInv, Held
  <2>2. FreeIn(allocs, Increases) \in Nat /\ Added \in Nat
    BY <1>0, FreeParts, TypedParts DEF RowsTyped
  <2>3. FreeIn(allocs', Increases) \in Nat
    BY <1>7, FreeParts
  <2>4. Added + FreeIn(allocs', Increases) <= balance'.reserved
    BY <1>4, <1>7, <1>10, <2>1, <2>2, <2>3
  <2> QED
    BY <1>8, <1>12, <2>4 DEF Held
<1>16. InTime' /\ Unreviewed'
  BY <1>3, <1>8, <1>12 DEF RowsInv, InTime, Unreviewed
<1>17. (line.reserved = ReservedIn(allocs))' /\ (order.status = "SUBMITTED" => allocs = <<>>)'
  BY <1>7, <1>8, <1>9
<1> QED
  BY <1>11, <1>13, <1>14, <1>15, <1>16, <1>17 DEF RowsInv

(* b is row a with other figures, and the adjustments on it are the same. *)
Kept(a, b) == b \in Rows /\ b.notes = a.notes /\ b.allocated = a.allocated

(* Rows that keep their notes keep what the notes say. *)
LEMMA NotesStay ==
  ASSUME RowsInv, RowsTyped', adjustments' = adjustments, Len(allocs') = Len(allocs),
         \A i \in 1..Len(allocs) : Kept(allocs[i], allocs'[i])
  PROVE  Noted'
<1>1. Noted
  BY DEF RowsInv
<1>2. Numbers' = Numbers
  BY DEF Numbers
<1>3. \A i \in 1..Len(allocs) : allocs'[i].notes = allocs[i].notes /\ allocs'[i].allocated = allocs[i].allocated
  BY DEF Kept
<1> SUFFICES ASSUME NEW i \in 1..Len(allocs), NEW n \in allocs'[i].notes
             PROVE  /\ n \in Numbers /\ adjustments[n].status \in Booked
                    /\ adjustments[n].change > 0 => Owned(i, n)'
  BY <1>2 DEF Noted
<1>4. n \in Numbers /\ adjustments[n].status \in Booked /\ (adjustments[n].change > 0 => Owned(i, n))
  BY <1>1, <1>3 DEF Noted
<1>5. Owned(i, n) => Owned(i, n)'
  BY <1>3 DEF Owned
<1> QED
  BY <1>4, <1>5

(* A row of an order that is cancelled. *)
LEMMA CancelledRow ==
  ASSUME NEW a \in Rows
  PROVE  /\ Kept(a, Cancelled(a)) /\ CountedOn(Cancelled(a)) = 0
         /\ LiveAllocated(Cancelled(a)) <= LiveAllocated(a)
         /\ Cancelled(a).status \in {a.status, "CANCELLED"}
         /\ a.status \notin {"PICKED", "PACKED"} => LiveReserved(Cancelled(a)) = 0
<1>0. LiveAllocated(a) \in Nat
  BY RowFigures
<1>1. CASE a.status \in {"ALLOCATED", "RESERVED"}
  <2>1. PICK b : b = [a EXCEPT !.status = "CANCELLED", !.reserved = 0]
    OBVIOUS
  <2>2. Cancelled(a) = b
    BY <1>1, <2>1 DEF Cancelled
  <2>3. /\ a \in Allocations /\ a.allocated \in Nat \ {0} /\ a.picked \in Nat
        /\ a.picked <= a.allocated
    BY DEF Rows, Allocations
  <2>4. /\ b \in Allocations /\ b.status = "CANCELLED" /\ b.notes = a.notes /\ b.allocated = a.allocated
        /\ b.picked = a.picked /\ b.reserved = 0
    BY <2>1, <2>3 DEF Allocations
  <2>5. b \in Rows
    BY <2>3, <2>4 DEF Rows
  <2>6. LiveAllocated(b) = 0 /\ LiveReserved(b) = 0 /\ CountedOn(b) = 0
    BY <2>4 DEF LiveAllocated, LiveReserved, CountedOn, Active, Untouched
  <2> QED
    BY <1>0, <2>2, <2>4, <2>5, <2>6 DEF Kept
<1>2. CASE a.status \notin {"ALLOCATED", "RESERVED"}
  <2>1. Cancelled(a) = a
    BY <1>2 DEF Cancelled
  <2>2. a.status \in {"PICKED", "PACKED", "CANCELLED", "RELEASED"}
    BY <1>2 DEF Rows, Allocations
  <2>3. CountedOn(a) = 0 /\ (a.status \notin {"PICKED", "PACKED"} => LiveReserved(a) = 0)
    BY <1>2, <2>2 DEF CountedOn, LiveReserved, Active, Untouched
  <2> QED
    BY <1>0, <2>1, <2>3 DEF Kept
<1> QED
  BY <1>1, <1>2

(* Rows nobody counts on. *)
LEMMA NothingCounted ==
  ASSUME NEW rs \in Seq(Rows), \A i \in 1..Len(rs) : CountedOn(rs[i]) = 0
  PROVE  CountedIn(rs) = 0
<1> DEFINE f == [i \in DOMAIN rs |-> CountedOn(rs[i])]
<1>1. Len(rs) \in Nat /\ f \in [1..Len(rs) -> Nat]
  BY PartsOf
<1>2. \A i \in 1..Len(rs) : f[i] = 0
  BY PartsOf
<1> HIDE DEF f
<1> QED
  BY <1>1, <1>2, SumOfZeros DEF CountedIn, f

(* While the increases in force are held beside the free parts of the rows, every
   row that is counted on is reserved: what an increase brought is a row of no more
   than its change. *)
LEMMA HoldingsFollow ==
  ASSUME RowsTyped, Noted, Added + FreeIn(allocs, Increases) <= balance.reserved
  PROVE  CountedIn(allocs) <= balance.reserved
<1> DEFINE S == 1..Len(allocs)
           M == {i \in S : allocs[i].notes \cap Increases # {}}
           c == [i \in DOMAIN allocs |-> CountedOn(allocs[i])]
           f == [i \in DOMAIN allocs |-> FreePart(allocs[i], Increases)]
           g == [i \in S |-> IF i \in M THEN CountedOn(allocs[i]) ELSE 0]
           h == [i \in M |-> CHOOSE n \in allocs[i].notes \cap Increases : TRUE]
           inc == [n \in DOMAIN adjustments |-> Max0(adjustments[n].change)]
           k == [i \in M |-> inc[h[i]]]
<1>1. /\ Len(allocs) \in Nat /\ DOMAIN allocs = S /\ \A i \in S : allocs[i] \in Rows
      /\ allocs \in Seq(Rows) /\ adjustments \in Seq(Adjustments)
  BY TypedParts DEF RowsTyped
<1>2. IsFiniteSet(S) /\ M \in SUBSET S /\ IsFiniteSet(M)
  <2>1. IsFiniteSet(S) /\ M \in SUBSET S
    BY <1>1, FS_Interval
  <2> HIDE DEF S, M
  <2> QED
    BY <2>1, FS_Subset
<1>3. \A i \in S : CountedOn(allocs[i]) \in Nat /\ CountedOn(allocs[i]) <= allocs[i].allocated
  <2> TAKE i \in S
  <2>1. allocs[i] \in Rows
    BY <1>1
  <2>2. /\ CountedOn(allocs[i]) \in Nat /\ CountedOn(allocs[i]) <= allocs[i].reserved
        /\ allocs[i].reserved \in Nat /\ allocs[i].allocated \in Nat
    BY <2>1, RowFigures
  <2>3. allocs[i].reserved <= allocs[i].allocated
    BY <2>1 DEF Rows
  <2> QED
    BY <2>2, <2>3
<1>4. \A i \in S : /\ c[i] = CountedOn(allocs[i])
                   /\ i \in M => f[i] = 0
                   /\ i \notin M => f[i] = CountedOn(allocs[i])
  BY <1>1 DEF FreePart
<1>5. /\ \A i \in S : f[i] \in Int /\ g[i] \in Int /\ c[i] = f[i] + g[i]
      /\ \A i \in S : g[i] \in Int
      /\ \A i \in S : i \notin M => g[i] = 0
      /\ \A i \in M : g[i] = CountedOn(allocs[i])
  <2>1. ASSUME NEW i \in S, i \in M PROVE g[i] = CountedOn(allocs[i]) /\ f[i] = 0 /\ c[i] = CountedOn(allocs[i])
    BY <1>4, <2>1
  <2>2. ASSUME NEW i \in S, i \notin M PROVE g[i] = 0 /\ f[i] = CountedOn(allocs[i]) /\ c[i] = CountedOn(allocs[i])
    BY <1>4, <2>2
  <2> HIDE DEF S, M, c, f, g
  <2> QED
    BY <1>2, <1>3, <2>1, <2>2
<1>6. CountedIn(allocs) = SumFunctionOnSet(c, S) /\ FreeIn(allocs, Increases) = SumFunctionOnSet(f, S)
  <2>1. DOMAIN c = S /\ DOMAIN f = S
    BY <1>1
  <2>2. CountedIn(allocs) = SumFunction(c) /\ FreeIn(allocs, Increases) = SumFunction(f)
    BY DEF CountedIn, FreeIn
  <2> HIDE DEF c, f, S
  <2> QED
    BY <2>1, <2>2, SumIs
<1>7. ASSUME NEW i \in M
      PROVE  /\ h[i] \in allocs[i].notes /\ h[i] \in Increases /\ h[i] \in Applied
             /\ inc[h[i]] \in Int /\ k[i] \in Int /\ CountedOn(allocs[i]) <= k[i]
  <2>1. h[i] \in allocs[i].notes \cap Increases
    OBVIOUS
  <2>2. i \in S /\ h[i] \in Numbers /\ adjustments[h[i]].change > 0 /\ h[i] \in Applied
    BY <2>1 DEF Increases, Applied
  <2>3. k[i] = inc[h[i]]
    OBVIOUS
  <2> HIDE DEF M, h, k
  <2>4. PICK n : n = h[i]
    OBVIOUS
  <2>5. adjustments[n].change \in Int /\ adjustments[n].change > 0 /\ n \in DOMAIN adjustments
    BY <2>2, <2>4, TypedParts DEF Numbers
  <2>6. inc[n] = adjustments[n].change
    BY <2>5 DEF Max0
  <2>7. allocs[i].allocated <= adjustments[n].change
    BY <2>1, <2>2, <2>4 DEF Noted, Owned
  <2>8. allocs[i].allocated \in Nat /\ CountedOn(allocs[i]) \in Nat /\ CountedOn(allocs[i]) <= allocs[i].allocated
    BY <1>1, <1>3, <2>2, RowFigures
  <2>9. CountedOn(allocs[i]) <= adjustments[n].change
    BY <2>5, <2>7, <2>8
  <2> QED
    BY <2>1, <2>2, <2>3, <2>4, <2>5, <2>6, <2>9
<1>8. \A i, j \in M : h[i] = h[j] => i = j
  <2> SUFFICES ASSUME NEW i \in M, NEW j \in M, h[i] = h[j] PROVE i = j
    OBVIOUS
  <2>1. i \in S /\ j \in S
    OBVIOUS
  <2>2. h[i] \in allocs[i].notes /\ h[i] \in allocs[j].notes /\ h[i] \in Increases
    BY <1>7
  <2> HIDE DEF h
  <2>3. adjustments[h[i]].change > 0
    BY <2>2 DEF Increases
  <2> QED
    BY <2>1, <2>2, <2>3 DEF Noted, Owned
<1>9. \A i \in M : k[i] \in Int /\ inc[h[i]] = k[i]
  <2> TAKE i \in M
  <2>1. k[i] = inc[h[i]]
    OBVIOUS
  <2>2. k[i] \in Int
    BY <1>7
  <2> QED
    BY <2>1, <2>2
<1>10. \A i \in M : g[i] \in Int /\ k[i] \in Int /\ g[i] <= k[i]
  BY <1>2, <1>5, <1>7
<1>11. RowsAs(h, M) \in SUBSET Applied
  BY <1>7 DEF RowsAs
<1>12. IsFiniteSet(Applied) /\ \A n \in Applied : inc[n] \in Nat
  <2>1. Applied \in SUBSET (1..Len(adjustments)) /\ Applied \subseteq DOMAIN adjustments
    BY TypedParts DEF Numbers
  <2>2. IsFiniteSet(1..Len(adjustments))
    BY TypedParts, FS_Interval
  <2>3. \A n \in DOMAIN adjustments : Max0(adjustments[n].change) \in Nat
    BY TypedParts DEF Numbers, Increase
  <2> QED
    BY <2>1, <2>2, <2>3, FS_Subset
<1>13. Added = SumFunctionOnSet(inc, Applied)
  BY SumsAre DEF AddedBy
<1> HIDE DEF S, M, c, f, g, h, inc, k
<1>14. SumFunctionOnSet(c, S) = SumFunctionOnSet(f, S) + SumFunctionOnSet(g, S)
  BY <1>2, <1>5, SumPlus
<1>15. SumFunctionOnSet(g, S) = SumFunctionOnSet(g, M)
  BY <1>2, <1>5, SumSupport
<1>16. SumFunctionOnSet(g, M) <= SumFunctionOnSet(k, M)
  BY <1>2, <1>10, SumAtMost
<1>17. SumFunctionOnSet(inc, RowsAs(h, M)) = SumFunctionOnSet(k, M)
  BY <1>2, <1>8, <1>9, SumMapped
<1>18. SumFunctionOnSet(inc, RowsAs(h, M)) <= SumFunctionOnSet(inc, Applied)
  BY <1>11, <1>12, SumSubset
<1>19. /\ SumFunctionOnSet(f, S) \in Int /\ SumFunctionOnSet(g, M) \in Int
       /\ SumFunctionOnSet(k, M) \in Int /\ SumFunctionOnSet(inc, Applied) \in Int
  <2>1. /\ \A i \in S : f[i] \in Int
        /\ \A i \in M : g[i] \in Int
        /\ \A i \in M : k[i] \in Int
        /\ \A n \in Applied : inc[n] \in Int
    BY <1>5, <1>10, <1>12
  <2> QED
    BY <1>2, <1>12, <2>1, SumType
<1>20. balance.reserved \in Nat
  BY DEF RowsTyped, Balance
<1> QED
  BY <1>6, <1>13, <1>14, <1>15, <1>16, <1>17, <1>18, <1>19, <1>20

(* The property of the rows. *)
LEMMA HoldingsHold ==
  ASSUME RowsInv
  PROVE  HoldingsAreReserved
<1>1. CountedIn(allocs) <= balance.reserved
  BY HoldingsFollow DEF RowsInv, Held
<1> QED
  BY <1>1 DEF RowsInv, HoldingsAreReserved, CountedIn

(* The order is cancelled: what it still reserves is released, unless the floor has
   been at it. *)
LEMMA CancelOrderKeeps ==
  ASSUME RowsInv, CancelOrder
  PROVE  RowsInv'
<1>0. RowsTyped
  BY DEF RowsInv
<1> DEFINE releases == order.status = "APPROVED" \/ order.fulfillment = "RESERVED"
<1>1. /\ order.status # "CANCELLED" /\ adjustments' = adjustments
      /\ order' = [order EXCEPT !.status = "CANCELLED", !.fulfillment = "UNALLOCATED"]
      /\ releases => /\ balance' = Release(balance, line.reserved)
                     /\ line' = [line EXCEPT !.reserved = 0]
                     /\ allocs' = [i \in DOMAIN allocs |-> Cancelled(allocs[i])]
      /\ ~ releases => UNCHANGED <<balance, line, allocs>>
  BY DEF CancelOrder
<1>2. /\ order' \in Orders /\ order'.status = "CANCELLED" /\ order'.fulfillment = "UNALLOCATED"
      /\ order'.version = order.version
      /\ order'.total = order.total /\ order'.adjusted = order.adjusted
  BY <1>0, <1>1 DEF RowsTyped, Orders, Adjustable
<1>3. /\ line' \in Lines /\ line'.increased = line.increased /\ line'.cancelled = line.cancelled
      /\ releases => line'.reserved = 0
  <2>1. line \in Lines
    BY <1>0 DEF RowsTyped
  <2>2. \/ releases /\ line' = [line EXCEPT !.reserved = 0]
        \/ ~ releases /\ line' = line
    BY <1>1
  <2> HIDE DEF releases
  <2> QED
    BY <2>1, <2>2 DEF Lines
<1>4. balance' \in Balance /\ SatisfiesChecks(balance')
  <2>1. balance \in Balance /\ SatisfiesChecks(balance) /\ line.reserved \in Nat
    BY <1>0 DEF RowsTyped, Lines
  <2> QED
    BY <1>1, <2>1, ReleaseType, ReleaseKeepsChecks
<1>5. /\ Len(allocs) \in Nat /\ DOMAIN allocs = 1..Len(allocs) /\ allocs \in Seq(Rows)
      /\ \A i \in 1..Len(allocs) : allocs[i] \in Rows
  BY <1>0, TypedParts DEF RowsTyped
<1>6. ASSUME releases
      PROVE  /\ allocs' \in Seq(Rows) /\ Len(allocs') = Len(allocs)
             /\ \A i \in 1..Len(allocs) : allocs'[i] = Cancelled(allocs[i])
  <2>1. \A i \in 1..Len(allocs) : Cancelled(allocs[i]) \in Rows
    BY <1>5, CancelledRow DEF Kept
  <2>2. allocs' = [i \in 1..Len(allocs) |-> Cancelled(allocs[i])]
    BY <1>1, <1>5, <1>6
  <2>3. allocs' \in [1..Len(allocs) -> Rows]
    BY <2>1, <2>2
  <2> QED
    BY <1>5, <2>2, <2>3
<1>7. allocs' \in Seq(Rows) /\ Len(allocs') = Len(allocs)
  BY <1>1, <1>5, <1>6
<1>8. RowsTyped'
  BY <1>0, <1>1, <1>2, <1>3, <1>4, <1>7 DEF RowsTyped
<1>9. /\ Applied' = Applied /\ Increases' = Increases
      /\ Added' = Added /\ Taken' = Taken /\ Numbers' = Numbers
  BY <1>0, <1>1, <1>8, RequestsStay
<1>10. \A i \in 1..Len(allocs) : Kept(allocs[i], allocs'[i])
  <2>1. ASSUME NEW i \in 1..Len(allocs), releases PROVE Kept(allocs[i], allocs'[i])
    BY <1>5, <1>6, <2>1, CancelledRow
  <2>2. ASSUME NEW i \in 1..Len(allocs), ~ releases PROVE Kept(allocs[i], allocs'[i])
    BY <1>1, <1>5, <2>2 DEF Kept
  <2> QED
    BY <2>1, <2>2
<1>11. Noted'
  BY <1>1, <1>7, <1>8, <1>10, NotesStay
<1>12. AllocatedIn(allocs') <= AllocatedIn(allocs)
  <2>1. ASSUME releases PROVE AllocatedIn(allocs') <= AllocatedIn(allocs)
    <3>1. \A i \in 1..Len(allocs) : LiveAllocated(allocs'[i]) <= LiveAllocated(allocs[i])
      BY <1>5, <1>6, <2>1, CancelledRow
    <3> QED
      BY <1>5, <1>7, <3>1, LessLive
  <2>2. AllocatedIn(allocs) \in Nat
    BY <1>5, Figures
  <2> QED
    BY <1>1, <2>1, <2>2
<1>13. LinesMatchApplied'
  <2>1. AllocatedIn(allocs) \in Nat /\ AllocatedIn(allocs') \in Nat /\ order.total \in Nat
    BY <1>0, <1>5, <1>7, Figures DEF RowsTyped, Orders
  <2> QED
    BY <1>2, <1>3, <1>9, <1>12, <2>1 DEF RowsInv, LinesMatchApplied
<1>14. (line.reserved = ReservedIn(allocs))'
  <2>1. ASSUME releases PROVE line'.reserved = ReservedIn(allocs')
    <3>1. \A i \in 1..Len(allocs) : allocs[i].status \notin {"PICKED", "PACKED"}
      BY <2>1 DEF RowsInv, Unpicked
    <3>2. \A i \in 1..Len(allocs') : LiveReserved(allocs'[i]) = 0
      BY <1>5, <1>6, <2>1, <3>1, CancelledRow
    <3> QED
      BY <1>3, <1>7, <2>1, <3>2, NothingReserved
  <2>2. ASSUME ~ releases PROVE line'.reserved = ReservedIn(allocs')
    BY <1>1, <2>2 DEF RowsInv
  <2> QED
    BY <2>1, <2>2
<1>15. Held'
  <2>1. ASSUME releases PROVE CountedIn(allocs') <= balance'.reserved
    <3>1. \A i \in 1..Len(allocs') : CountedOn(allocs'[i]) = 0
      BY <1>5, <1>6, <2>1, CancelledRow
    <3>2. balance'.reserved \in Nat
      BY <1>4 DEF Balance
    <3> QED
      BY <1>7, <3>1, <3>2, NothingCounted
  <2>2. ASSUME ~ releases PROVE CountedIn(allocs') <= balance'.reserved
    BY <1>1, <2>2, HoldingsHold DEF HoldingsAreReserved, CountedIn
  <2> QED
    BY <1>2, <2>1, <2>2 DEF Held
<1>16. Unpicked' /\ (order.status = "SUBMITTED" => allocs = <<>>)'
  BY <1>2 DEF Unpicked
<1>17. InTime' /\ Unreviewed'
  BY <1>1, <1>2, <1>9 DEF RowsInv, InTime, Unreviewed
<1> QED
  BY <1>8, <1>11, <1>13, <1>14, <1>15, <1>16, <1>17 DEF RowsInv

-----------------------------------------------------------------------------
(* The warehouse. *)

(* A row that the floor writes. *)
MarkedAs(a, s, q) == [a EXCEPT !.status = s, !.picked = q]

(* It keeps its figures, and nobody counts on it any more. *)
LEMMA MarkedRow ==
  ASSUME NEW a \in Rows, a.status \in {"ALLOCATED", "RESERVED", "PICKED", "PACKED"},
         NEW s \in {"PICKED", "PACKED"}, NEW q \in Nat, q <= a.allocated
  PROVE  /\ Kept(a, MarkedAs(a, s, q)) /\ CountedOn(MarkedAs(a, s, q)) = 0
         /\ LiveAllocated(MarkedAs(a, s, q)) = LiveAllocated(a)
         /\ LiveReserved(MarkedAs(a, s, q)) = LiveReserved(a)
         /\ MarkedAs(a, s, q).picked = q
<1> DEFINE b == MarkedAs(a, s, q)
<1>1. /\ a \in Allocations /\ a.allocated \in Nat \ {0} /\ a.reserved \in Nat /\ a.reserved <= a.allocated
  BY DEF Rows, Allocations
<1>2. /\ b \in Allocations /\ b.status = s /\ b.notes = a.notes /\ b.allocated = a.allocated
      /\ b.picked = q /\ b.reserved = a.reserved
  BY <1>1 DEF Allocations, MarkedAs
<1> HIDE DEF b
<1>3. b \in Rows
  BY <1>1, <1>2 DEF Rows
<1>4. CountedOn(b) = 0
  BY <1>2 DEF CountedOn, Untouched
<1>5. LiveAllocated(b) = LiveAllocated(a) /\ LiveReserved(b) = LiveReserved(a)
  BY <1>2 DEF LiveAllocated, LiveReserved, Active
<1> QED
  BY <1>2, <1>3, <1>4, <1>5 DEF Kept, b

(* Picking and packing take rows from what is counted on and leave the figures of
   the line. *)
LEMMA MarkKeeps ==
  ASSUME RowsInv, NEW from \in SUBSET {"ALLOCATED", "RESERVED", "PICKED", "PACKED"},
         NEW s \in {"PICKED", "PACKED"}, NEW q \in Nat,
         order.status # "CANCELLED", Mark(from, s, q)
  PROVE  RowsInv'
<1>0. RowsTyped
  BY DEF RowsInv
<1>1. /\ \A i \in DOMAIN allocs : allocs[i].status \in from => q <= allocs[i].allocated
      /\ allocs' = [i \in DOMAIN allocs |->
            IF allocs[i].status \in from THEN [allocs[i] EXCEPT !.status = s, !.picked = q] ELSE allocs[i]]
      /\ line' = [line EXCEPT !.picked = q]
      /\ order' = [order EXCEPT !.status = "PROCESSING", !.fulfillment = s]
      /\ balance' = balance /\ adjustments' = adjustments
  BY DEF Mark
<1>2. /\ order' \in Orders /\ order'.status = "PROCESSING" /\ order'.fulfillment = s
      /\ order'.version = order.version
      /\ order'.total = order.total /\ order'.adjusted = order.adjusted
  BY <1>0, <1>1 DEF RowsTyped, Orders, Adjustable
<1>3. /\ line' \in Lines /\ line'.increased = line.increased /\ line'.cancelled = line.cancelled
      /\ line'.reserved = line.reserved
  BY <1>0, <1>1 DEF RowsTyped, Lines
<1>4. /\ Len(allocs) \in Nat /\ DOMAIN allocs = 1..Len(allocs) /\ allocs \in Seq(Rows)
      /\ \A i \in 1..Len(allocs) : allocs[i] \in Rows
  BY <1>0, TypedParts DEF RowsTyped
<1>5. \A i \in 1..Len(allocs) :
        /\ Kept(allocs[i], allocs'[i]) /\ CountedOn(allocs'[i]) <= CountedOn(allocs[i])
        /\ LiveAllocated(allocs'[i]) = LiveAllocated(allocs[i])
        /\ LiveReserved(allocs'[i]) = LiveReserved(allocs[i])
  <2> TAKE i \in 1..Len(allocs)
  <2>0. CountedOn(allocs[i]) \in Nat /\ allocs[i] \in Rows
    BY <1>4, RowFigures
  <2>1. CASE allocs[i].status \in from
    <3>1. PICK b : b = MarkedAs(allocs[i], s, q)
      OBVIOUS
    <3>2. allocs'[i] = b
      BY <1>1, <1>4, <2>1, <3>1 DEF MarkedAs
    <3>3. q <= allocs[i].allocated /\ allocs[i].status \in {"ALLOCATED", "RESERVED", "PICKED", "PACKED"}
      BY <1>1, <1>4, <2>1
    <3>4. /\ Kept(allocs[i], b) /\ CountedOn(b) = 0
          /\ LiveAllocated(b) = LiveAllocated(allocs[i]) /\ LiveReserved(b) = LiveReserved(allocs[i])
      BY <2>0, <3>1, <3>3, MarkedRow
    <3> QED
      BY <2>0, <3>2, <3>4
  <2>2. CASE allocs[i].status \notin from
    <3>1. allocs'[i] = allocs[i]
      BY <1>1, <1>4, <2>2
    <3> QED
      BY <2>0, <3>1 DEF Kept
  <2> QED
    BY <2>1, <2>2
<1>6. allocs' \in Seq(Rows) /\ Len(allocs') = Len(allocs)
  <2>1. allocs' = [i \in 1..Len(allocs) |-> allocs'[i]]
    BY <1>1, <1>4
  <2>2. \A i \in 1..Len(allocs) : allocs'[i] \in Rows
    BY <1>5 DEF Kept
  <2>3. allocs' \in [1..Len(allocs) -> Rows]
    BY <2>1, <2>2
  <2> QED
    BY <1>4, <2>1, <2>3
<1>7. RowsTyped'
  BY <1>0, <1>1, <1>2, <1>3, <1>6 DEF RowsTyped
<1>8. /\ Applied' = Applied /\ Increases' = Increases
      /\ Added' = Added /\ Taken' = Taken /\ Numbers' = Numbers
  BY <1>0, <1>1, <1>7, RequestsStay
<1>9. Noted'
  <2>1. \A i \in 1..Len(allocs) : Kept(allocs[i], allocs'[i])
    BY <1>5
  <2> QED
    BY <1>1, <1>6, <1>7, <2>1, NotesStay
<1>10. AllocatedIn(allocs') = AllocatedIn(allocs) /\ ReservedIn(allocs') = ReservedIn(allocs)
  <2>1. \A i \in 1..Len(allocs) : /\ LiveAllocated(allocs'[i]) = LiveAllocated(allocs[i])
                                  /\ LiveReserved(allocs'[i]) = LiveReserved(allocs[i])
    BY <1>5
  <2> QED
    BY <1>4, <1>6, <2>1, SameLive
<1>11. LinesMatchApplied' /\ (line.reserved = ReservedIn(allocs))'
  BY <1>2, <1>3, <1>8, <1>10 DEF RowsInv, LinesMatchApplied
<1>12. Held'
  <2>1. Frees(allocs, allocs', Increases, Increases)
    <3>1. ASSUME NEW i \in 1..Len(allocs)
          PROVE  FreePart(allocs'[i], Increases) <= FreePart(allocs[i], Increases)
      <4>1. /\ allocs'[i].notes = allocs[i].notes /\ CountedOn(allocs'[i]) <= CountedOn(allocs[i])
        BY <1>5 DEF Kept
      <4> QED
        BY <4>1 DEF FreePart
    <3>2. \A i \in 1..Len(allocs') : ~ i > Len(allocs)
      BY <1>4, <1>6
    <3> QED
      BY <1>6, <3>1, <3>2 DEF Frees
  <2>2. FreeIn(allocs', Increases) <= FreeIn(allocs, Increases)
    BY <1>4, <1>6, <2>1, FreeShrinks
  <2>3. Added + FreeIn(allocs, Increases) <= balance.reserved
    BY DEF RowsInv, Held
  <2>4. FreeIn(allocs, Increases) \in Nat /\ FreeIn(allocs', Increases) \in Nat /\ Added \in Nat
    BY <1>0, <1>4, <1>6, FreeParts, TypedParts
  <2>5. balance.reserved \in Nat
    BY <1>0 DEF RowsTyped, Balance
  <2>6. Added + FreeIn(allocs', Increases) <= balance.reserved
    BY <2>2, <2>3, <2>4, <2>5
  <2> QED
    BY <1>1, <1>2, <1>8, <2>6 DEF Held
<1>13. Unpicked' /\ (order.status = "SUBMITTED" => allocs = <<>>)'
  BY <1>2 DEF Unpicked
<1>14. InTime' /\ Unreviewed'
  BY <1>1, <1>2, <1>8 DEF RowsInv, InTime, Unreviewed
<1> QED
  BY <1>7, <1>9, <1>11, <1>12, <1>13, <1>14 DEF RowsInv

-----------------------------------------------------------------------------
(* Applications and reversals. *)

(* What an adjustment writes on the rows it thins does not touch what the other
   notes say. *)
LEMMA NotesFollow ==
  ASSUME RowsTyped, Noted, NEW n \in Numbers, Follows(allocs, allocs', n), KeepsBooked,
         adjustments'[n].status \in Booked,
         \/ adjustments[n].change < 0
         \/ /\ Len(allocs') = Len(allocs)
            /\ \A i \in 1..Len(allocs) : allocs'[i].notes = allocs[i].notes
  PROVE  Noted'
<1>1. Len(allocs) \in Nat /\ Len(allocs') \in Nat /\ adjustments[n].change \in Int
  BY TypedParts, LenProperties DEF Follows
<1>2. \A i \in 1..Len(allocs) : Thinned(allocs[i], allocs'[i], n)
  BY DEF Follows
<1>3. \A m \in Numbers : /\ m \in Numbers' /\ adjustments'[m].change = adjustments[m].change
                         /\ adjustments[m].status \in Booked => adjustments'[m].status \in Booked
  BY DEF KeepsBooked
<1>4. \A i \in 1..Len(allocs') : i \notin 1..Len(allocs) => allocs'[i].notes = {n} /\ adjustments[n].change < 0
  <2>1. ASSUME NEW i \in 1..Len(allocs'), i \notin 1..Len(allocs) PROVE i > Len(allocs)
    BY <1>1, <2>1
  <2> QED
    BY <2>1 DEF Follows, Quiet
<1>5. \A i \in 1..Len(allocs) : \A m \in allocs'[i].notes :
        m \in allocs[i].notes \/ (m = n /\ adjustments[n].change < 0)
  BY <1>2 DEF Thinned
<1>6. \A i \in 1..Len(allocs) : /\ allocs'[i].allocated <= allocs[i].allocated
                                /\ allocs[i].allocated \in Nat /\ allocs'[i].allocated \in Nat
  BY <1>2, TypedParts, RowFigures DEF Thinned
<1> SUFFICES ASSUME NEW i \in 1..Len(allocs'), NEW m \in allocs'[i].notes
             PROVE  /\ m \in Numbers' /\ adjustments'[m].status \in Booked
                    /\ adjustments'[m].change > 0 => Owned(i, m)'
  BY DEF Noted
<1>7. CASE m = n /\ adjustments[n].change < 0
  <2>1. ~ adjustments'[m].change > 0
    BY <1>1, <1>3, <1>7
  <2> QED
    BY <1>3, <1>7, <2>1
<1>8. CASE ~ (m = n /\ adjustments[n].change < 0)
  <2>1. i \in 1..Len(allocs) /\ m \in allocs[i].notes
    BY <1>4, <1>5, <1>8
  <2>2. m \in Numbers /\ adjustments[m].status \in Booked /\ (adjustments[m].change > 0 => Owned(i, m))
    BY <2>1 DEF Noted
  <2>3. ASSUME adjustments'[m].change > 0
        PROVE  Owned(i, m)'
    <3>1. Owned(i, m) /\ adjustments'[m].change = adjustments[m].change /\ adjustments[m].change \in Int
      BY <1>3, <2>2, <2>3, TypedParts
    <3>2. allocs'[i].allocated <= adjustments'[m].change
      BY <1>6, <2>1, <3>1 DEF Owned
    <3>3. ASSUME NEW j \in 1..Len(allocs'), m \in allocs'[j].notes PROVE j = i
      <4>1. j \in 1..Len(allocs) /\ m \in allocs[j].notes
        BY <1>4, <1>5, <1>8, <3>3
      <4> QED
        BY <3>1, <4>1 DEF Owned
    <3>4. ASSUME NEW k \in allocs'[i].notes, adjustments'[k].change > 0 PROVE k = m
      <4>1. CASE k \in allocs[i].notes
        <5>1. k \in Numbers
          BY <2>1, <4>1 DEF Noted
        <5>2. adjustments[k].change > 0
          BY <1>3, <3>4, <5>1
        <5> QED
          BY <3>1, <4>1, <5>2 DEF Owned
      <4>2. CASE k \notin allocs[i].notes
        <5>1. k = n /\ adjustments[n].change < 0
          BY <1>5, <2>1, <4>2
        <5> QED
          BY <1>1, <1>3, <3>4, <5>1
      <4> QED
        BY <4>1, <4>2
    <3> QED
      BY <3>2, <3>3, <3>4 DEF Owned
  <2> QED
    BY <1>3, <2>2, <2>3
<1> QED
  BY <1>7, <1>8

(* A reduction, applied or reversed, frees rows. *)
LEMMA ReductionFrees ==
  ASSUME NEW rs \in Seq(Rows), NEW bs \in Seq(Rows), NEW n, NEW ns, n \notin ns, Follows(rs, bs, n)
  PROVE  Frees(rs, bs, ns, ns)
<1>1. \A i \in 1..Len(rs) : rs[i] \in Rows /\ Thinned(rs[i], bs[i], n)
  BY PartsOf DEF Follows
<1>2. ASSUME NEW i \in 1..Len(rs) PROVE FreePart(bs[i], ns) <= FreePart(rs[i], ns)
  <2>1. /\ rs[i].notes \cap ns = {} <=> bs[i].notes \cap ns = {}
        /\ CountedOn(bs[i]) <= CountedOn(rs[i])
    BY <1>1 DEF Thinned
  <2> QED
    BY <2>1 DEF FreePart
<1>3. \A i \in 1..Len(bs) : i > Len(rs) => FreePart(bs[i], ns) = 0
  BY DEF Follows, Quiet, FreePart
<1> QED
  BY <1>2, <1>3 DEF Follows, Frees

(* So does an increase that joins those in force, and one that leaves them when its
   rows are released. *)
LEMMA IncreaseFrees ==
  ASSUME NEW rs \in Seq(Rows), NEW n, NEW ns
  PROVE  /\ Frees(rs, rs, ns, ns \cup {n})
         /\ \A bs \in Seq(Rows) :
              (/\ Follows(rs, bs, n) /\ Len(bs) = Len(rs)
               /\ \A i \in 1..Len(rs) : /\ bs[i].notes = rs[i].notes
                                        /\ n \in rs[i].notes => CountedOn(bs[i]) = 0)
              => Frees(rs, bs, ns, ns \ {n})
<1>1. Len(rs) \in Nat /\ \A i \in 1..Len(rs) : ~ i > Len(rs) /\ rs[i] \in Rows
  BY PartsOf
<1>2. \A i \in 1..Len(rs) : CountedOn(rs[i]) \in Nat
  BY <1>1, RowFigures
<1>3. Frees(rs, rs, ns, ns \cup {n})
  <2>1. ASSUME NEW i \in 1..Len(rs) PROVE FreePart(rs[i], ns \cup {n}) <= FreePart(rs[i], ns)
    <3>1. rs[i].notes \cap (ns \cup {n}) = {} => rs[i].notes \cap ns = {}
      OBVIOUS
    <3> QED
      BY <1>2, <3>1 DEF FreePart
  <2> QED
    BY <1>1, <2>1 DEF Frees
<1>4. ASSUME NEW bs \in Seq(Rows), Follows(rs, bs, n), Len(bs) = Len(rs),
             \A i \in 1..Len(rs) : /\ bs[i].notes = rs[i].notes
                                   /\ n \in rs[i].notes => CountedOn(bs[i]) = 0
      PROVE  Frees(rs, bs, ns, ns \ {n})
  <2>1. ASSUME NEW i \in 1..Len(rs) PROVE FreePart(bs[i], ns \ {n}) <= FreePart(rs[i], ns)
    <3>0. CountedOn(bs[i]) <= CountedOn(rs[i]) /\ bs[i].notes = rs[i].notes
      BY <1>4 DEF Follows, Thinned
    <3>1. CASE n \in rs[i].notes
      <4>1. FreePart(bs[i], ns \ {n}) = 0
        BY <1>4, <3>1 DEF FreePart
      <4>2. FreePart(rs[i], ns) \in Nat
        BY <1>2 DEF FreePart
      <4> QED
        BY <4>1, <4>2
    <3>2. CASE n \notin rs[i].notes
      <4>1. bs[i].notes \cap (ns \ {n}) = {} <=> rs[i].notes \cap ns = {}
        BY <3>0, <3>2
      <4> QED
        BY <3>0, <4>1 DEF FreePart
    <3> QED
      BY <3>1, <3>2
  <2>2. \A i \in 1..Len(bs) : ~ i > Len(rs)
    BY <1>1, <1>4
  <2> QED
    BY <1>4, <2>1, <2>2 DEF Frees
<1> QED
  BY <1>3, <1>4

(* The floor has been at no row that an adjustment leaves or makes. *)
LEMMA StatusesFollow ==
  ASSUME NEW rs \in Seq(Rows), NEW bs \in Seq(Rows), NEW n, Follows(rs, bs, n),
         \A i \in 1..Len(rs) : rs[i].status \notin {"PICKED", "PACKED"}
  PROVE  \A i \in 1..Len(bs) : bs[i].status \notin {"PICKED", "PACKED"}
<1>1. Len(rs) \in Nat /\ Len(bs) \in Nat
  BY LenProperties
<1> SUFFICES ASSUME NEW i \in 1..Len(bs) PROVE bs[i].status \notin {"PICKED", "PACKED"}
  OBVIOUS
<1>2. i \in 1..Len(rs) \/ i > Len(rs)
  BY <1>1
<1>3. CASE i \in 1..Len(rs)
  BY <1>3 DEF Follows, Thinned
<1>4. CASE i > Len(rs)
  BY <1>4 DEF Follows, Quiet
<1> QED
  BY <1>2, <1>3, <1>4

(* The end of a transaction on the line. *)
LEMMA Settled ==
  ASSUME RowsTyped, NEW inc \in Nat, NEW taken \in Nat, NEW bs \in Seq(Rows),
         Settle([line EXCEPT !.increased = inc, !.cancelled = taken], bs)
  PROVE  /\ line' \in Lines /\ line'.increased = inc /\ line'.cancelled = taken
         /\ line'.reserved = ReservedIn(bs) /\ allocs' = bs
         /\ Fulfillable(line') = Max0(Ordered + inc - taken)
         /\ AllocatedIn(bs) <= Max0(Ordered + inc - taken)
<1>1. PICK l : l = [line EXCEPT !.increased = inc, !.cancelled = taken]
  OBVIOUS
<1>2. /\ AllocatedIn(bs) <= Fulfillable(l) /\ l.cancelled <= Ordered /\ allocs' = bs
      /\ line' = SyncOrderItemRollups(l, bs)
  BY <1>1 DEF Settle
<1>3. /\ l = [increased |-> inc, cancelled |-> taken, reserved |-> line.reserved, picked |-> line.picked]
      /\ taken \in 0..Ordered
  <2>1. l = [increased |-> inc, cancelled |-> taken, reserved |-> line.reserved, picked |-> line.picked]
    BY <1>1 DEF RowsTyped, Lines
  <2>2. taken <= Ordered /\ Ordered \in Nat
    BY <1>2, <2>1, AdjustmentsAssumption
  <2> QED
    BY <2>1, <2>2
<1>4. line' = [increased |-> inc, cancelled |-> taken, reserved |-> ReservedIn(bs), picked |-> PickedIn(bs)]
  BY <1>2, <1>3 DEF SyncOrderItemRollups
<1>5. line' \in Lines
  BY <1>3, <1>4, Figures DEF Lines
<1> QED
  BY <1>2, <1>3, <1>4, <1>5 DEF Fulfillable

(* What a transaction writes on the order. *)
LEMMA RetotalledOrder ==
  ASSUME order \in Orders, NEW x \in Int, NEW s \in {"NONE", "REQUESTED", "APPLIED", "REVERSED"},
         Fulfillable(line') \in Nat, order' = Retotalled(x, s)
  PROVE  /\ order' \in Orders /\ order'.status = order.status /\ order'.fulfillment = order.fulfillment
         /\ order'.version = order.version + 1 /\ order.version \in Nat
         /\ order'.total = Fulfillable(line') /\ order'.adjusted = x
<1>1. PICK t \in Nat : t = Fulfillable(line')
  OBVIOUS
<1>2. order' = [order EXCEPT !.total = t, !.adjusted = x, !.adjustment = s, !.version = order.version + 1]
  BY <1>1 DEF Retotalled
<1>3. order.version \in Nat
  BY DEF Orders
<1>4. PICK w \in Nat : w = order.version + 1
  BY <1>3
<1>5. order' = [status |-> order.status, fulfillment |-> order.fulfillment, adjustment |-> s,
                version |-> w, total |-> t, adjusted |-> x]
  BY <1>2, <1>4 DEF Orders
<1> QED
  BY <1>1, <1>3, <1>4, <1>5 DEF Orders

(* One adjustment joins those in force, or leaves them: the sums follow. *)
LEMMA BooksMove ==
  ASSUME RowsTyped, adjustments' \in Seq(Adjustments), NEW n \in Numbers, Numbers' = Numbers,
         \A m \in Numbers : adjustments'[m].change = adjustments[m].change,
         Applied \ {n} = Applied' \ {n}
  PROVE  /\ Added' = Added + CountsIn(n, Applied', Increase(n))
                           - CountsIn(n, Applied, Increase(n))
         /\ Taken' = Taken + CountsIn(n, Applied', Reduction(n))
                           - CountsIn(n, Applied, Reduction(n))
         /\ Added' \in Nat /\ Taken' \in Nat
<1>1. PICK qs, ts, S, T : qs = adjustments /\ ts = adjustments' /\ S = Applied /\ T = Applied'
  OBVIOUS
<1>2. /\ qs \in Seq(Adjustments) /\ ts \in Seq(Adjustments)
      /\ S \in SUBSET (DOMAIN qs) /\ T \in SUBSET (DOMAIN ts) /\ T \subseteq DOMAIN ts
      /\ S \ {n} = T \ {n}
  BY <1>1 DEF RowsTyped, Applied, Numbers
<1>3. \A m \in S \cap T : m # n => ts[m].change = qs[m].change
  BY <1>1, <1>2 DEF Numbers
<1>4. /\ AddedBy(ts, T) = AddedBy(qs, S) + CountsIn(n, T, Max0(ts[n].change))
                                          - CountsIn(n, S, Max0(qs[n].change))
      /\ TakenBy(ts, T) = TakenBy(qs, S) + CountsIn(n, T, Max0(-ts[n].change))
                                          - CountsIn(n, S, Max0(-qs[n].change))
  <2>1. Moves(qs, ts, S, T, n)
    BY <1>2, <1>3 DEF Moves
  <2> QED
    BY <2>1, SumsMove
<1>5. AddedBy(ts, T) \in Nat /\ TakenBy(ts, T) \in Nat
  BY <1>2, SumsStay
<1>6. Added' = AddedBy(ts, T) /\ Taken' = TakenBy(ts, T)
  BY <1>1 DEF Added, Taken, AddedBy, TakenBy, Increase, Reduction, Numbers
<1>7. Added = AddedBy(qs, S) /\ Taken = TakenBy(qs, S)
  BY <1>1, SumsAre
<1>8. ts[n].change = qs[n].change /\ Increase(n) = Max0(qs[n].change) /\ Reduction(n) = Max0(-qs[n].change)
  BY <1>1 DEF Increase, Reduction
<1> QED
  BY <1>1, <1>4, <1>5, <1>6, <1>7, <1>8

(* What is in force once request n is carried out. *)
LEMMA BooksGrow ==
  ASSUME RowsInv, NEW n \in Numbers, adjustments[n].status = "APPROVED",
         NEW r, Rewritten(adjustments, adjustments', n, r),
         r.status = "APPLIED", r.change = adjustments[n].change, r.at = order.version + 1
  PROVE  /\ adjustments' \in Seq(Adjustments) /\ Len(adjustments') = Len(adjustments) /\ Numbers' = Numbers
         /\ KeepsBooked /\ adjustments'[n].status \in Booked
         /\ Applied' = Applied \cup {n} /\ n \notin Applied
         /\ Increases' = IF adjustments[n].change > 0 THEN Increases \cup {n} ELSE Increases
         /\ n \notin Increases
         /\ Added' = Added + Increase(n) /\ Taken' = Taken + Reduction(n)
         /\ \A i \in 1..Len(allocs) : n \notin allocs[i].notes
         /\ order.version \in Nat /\ (order'.version = order.version + 1 => InTime') /\ Unreviewed'
<1>0. RowsTyped /\ Noted /\ InTime /\ Unreviewed
  BY DEF RowsInv
<1>3. /\ adjustments' \in Seq(Adjustments) /\ Len(adjustments') = Len(adjustments) /\ Numbers' = Numbers
      /\ adjustments'[n] = r /\ \A m \in Numbers : m # n => adjustments'[m] = adjustments[m]
  BY DEF Rewritten, Numbers
<1>4. /\ \A m \in Numbers : adjustments'[m].change = adjustments[m].change
      /\ adjustments'[n].status = "APPLIED" /\ adjustments'[n].at = order.version + 1
  BY <1>3
<1>5. Applied' = Applied \cup {n} /\ n \notin Applied /\ n \notin Increases
  BY <1>3, <1>4 DEF Applied, Increases
<1>6. Increases' = IF adjustments[n].change > 0 THEN Increases \cup {n} ELSE Increases
  <2>1. \A m \in Numbers : m \in Increases' <=> m \in Applied' /\ adjustments[m].change > 0
    BY <1>3, <1>4 DEF Increases, Applied
  <2>2. \A m \in Numbers : m \in Increases <=> m \in Applied /\ adjustments[m].change > 0
    BY DEF Increases, Applied
  <2>3. Increases \subseteq Numbers /\ Increases' \subseteq Numbers
    BY <1>3 DEF Increases, Applied
  <2> QED
    BY <1>5, <2>1, <2>2, <2>3 DEF CountsIn
<1>7. KeepsBooked
  BY <1>3, <1>4 DEF KeepsBooked, Booked
<1>8. Added' = Added + Increase(n) /\ Taken' = Taken + Reduction(n)
  <2>1. Applied \ {n} = Applied' \ {n} /\ n \in Applied'
    BY <1>5
  <2>2. Increase(n) \in Nat /\ Reduction(n) \in Nat /\ Added \in Nat /\ Taken \in Nat
    BY <1>0, TypedParts
  <2>3. /\ Added' = Added + CountsIn(n, Applied', Increase(n))
                           - CountsIn(n, Applied, Increase(n))
        /\ Taken' = Taken + CountsIn(n, Applied', Reduction(n))
                           - CountsIn(n, Applied, Reduction(n))
    BY <1>0, <1>3, <1>4, <2>1, BooksMove
  <2> QED
    BY <1>5, <2>1, <2>2, <2>3 DEF CountsIn
<1>9. \A i \in 1..Len(allocs) : n \notin allocs[i].notes
  BY <1>0 DEF Noted, Booked
<1>10. order.version \in Nat
  BY <1>0 DEF RowsTyped, Orders
<1>11. ASSUME order'.version = order.version + 1 PROVE InTime'
  <2>1. \A m \in Applied : adjustments'[m].at = adjustments[m].at /\ adjustments[m].at <= order.version
                           /\ adjustments[m].at \in Nat
    <3>1. \A m \in Applied : m \in Numbers /\ m # n
      BY <1>5 DEF Applied
    <3> QED
      BY <1>0, <1>3, <3>1, TypedParts DEF InTime
  <2>2. \A m \in Applied : adjustments'[m].at < order.version + 1 /\ adjustments'[m].at <= order.version + 1
    BY <1>10, <2>1
  <2>3. \A m \in Applied' : adjustments'[m].at <= order'.version
    BY <1>4, <1>5, <1>10, <1>11, <2>2
  <2>4. ASSUME NEW m \in Applied', NEW k \in Applied', adjustments'[m].at = adjustments'[k].at
        PROVE  m = k
    <3>1. CASE m = n
      BY <1>4, <1>5, <1>10, <2>1, <2>2, <2>4, <3>1
    <3>2. CASE k = n
      BY <1>4, <1>5, <1>10, <2>1, <2>2, <2>4, <3>2
    <3>3. CASE m # n /\ k # n
      <4>1. m \in Applied /\ k \in Applied
        BY <1>5, <3>3
      <4> QED
        BY <1>0, <2>1, <2>4, <4>1 DEF InTime
    <3> QED
      BY <3>1, <3>2, <3>3
  <2> QED
    BY <2>3, <2>4 DEF InTime
<1>12. Unreviewed'
  BY <1>0, <1>3, <1>4 DEF Unreviewed
<1>13. adjustments'[n].status \in Booked
  BY <1>4 DEF Booked
<1> QED
  BY <1>3, <1>5, <1>6, <1>7, <1>8, <1>9, <1>10, <1>11, <1>12, <1>13

(* What is in force once adjustment n is reversed. *)
LEMMA BooksShrink ==
  ASSUME RowsInv, NEW n \in Numbers, adjustments[n].status = "APPLIED",
         NEW r, Rewritten(adjustments, adjustments', n, r),
         r.status = "REVERSED", r.change = adjustments[n].change, r.at = adjustments[n].at
  PROVE  /\ adjustments' \in Seq(Adjustments) /\ Len(adjustments') = Len(adjustments) /\ Numbers' = Numbers
         /\ KeepsBooked /\ adjustments'[n].status \in Booked
         /\ Applied' = Applied \ {n} /\ n \in Applied /\ Increases' = Increases \ {n}
         /\ (n \in Increases <=> adjustments[n].change > 0)
         /\ Added' = Added - Increase(n) /\ Taken' = Taken - Reduction(n)
         /\ Added' \in Nat /\ Taken' \in Nat
         /\ (order'.version = order.version + 1 => InTime') /\ Unreviewed'
<1>0. RowsTyped /\ InTime /\ Unreviewed
  BY DEF RowsInv
<1>3. /\ adjustments' \in Seq(Adjustments) /\ Len(adjustments') = Len(adjustments) /\ Numbers' = Numbers
      /\ adjustments'[n] = r /\ \A m \in Numbers : m # n => adjustments'[m] = adjustments[m]
  BY DEF Rewritten, Numbers
<1>4. /\ \A m \in Numbers : /\ adjustments'[m].change = adjustments[m].change
                            /\ adjustments'[m].at = adjustments[m].at
      /\ adjustments'[n].status = "REVERSED"
  BY <1>3
<1>5. Applied' = Applied \ {n} /\ n \in Applied
  BY <1>3, <1>4 DEF Applied
<1>6. Increases' = Increases \ {n} /\ (n \in Increases <=> adjustments[n].change > 0)
  <2>1. \A m \in Numbers : m \in Increases' <=> m \in Applied' /\ adjustments[m].change > 0
    BY <1>3, <1>4 DEF Increases, Applied
  <2>2. \A m \in Numbers : m \in Increases <=> m \in Applied /\ adjustments[m].change > 0
    BY DEF Increases, Applied
  <2>3. Increases \subseteq Numbers /\ Increases' \subseteq Numbers
    BY <1>3 DEF Increases, Applied
  <2> QED
    BY <1>5, <2>1, <2>2, <2>3 DEF CountsIn
<1>7. KeepsBooked
  BY <1>3, <1>4 DEF KeepsBooked, Booked
<1>8. Added' = Added - Increase(n) /\ Taken' = Taken - Reduction(n) /\ Added' \in Nat /\ Taken' \in Nat
  <2>1. Applied \ {n} = Applied' \ {n} /\ n \notin Applied'
    BY <1>5
  <2>2. Increase(n) \in Nat /\ Reduction(n) \in Nat /\ Added \in Nat /\ Taken \in Nat
    BY <1>0, TypedParts
  <2>3. /\ Added' = Added + CountsIn(n, Applied', Increase(n))
                           - CountsIn(n, Applied, Increase(n))
        /\ Taken' = Taken + CountsIn(n, Applied', Reduction(n))
                           - CountsIn(n, Applied, Reduction(n))
        /\ Added' \in Nat /\ Taken' \in Nat
    BY <1>0, <1>3, <1>4, <2>1, BooksMove
  <2> QED
    BY <1>5, <2>1, <2>2, <2>3 DEF CountsIn
<1>10. ASSUME order'.version = order.version + 1 PROVE InTime'
  <2>1. \A m \in Applied' : m \in Applied /\ m \in Numbers /\ adjustments'[m].at = adjustments[m].at
    BY <1>4, <1>5 DEF Applied
  <2>2. order.version \in Nat /\ \A m \in Applied' : adjustments[m].at \in Nat
    BY <1>0, <2>1, TypedParts DEF RowsTyped, Orders
  <2>3. \A m \in Applied' : adjustments'[m].at <= order'.version
    BY <1>0, <1>10, <2>1, <2>2 DEF InTime
  <2>4. \A m, k \in Applied' : adjustments'[m].at = adjustments'[k].at => m = k
    BY <1>0, <2>1 DEF InTime
  <2> QED
    BY <2>3, <2>4 DEF InTime
<1>11. Unreviewed'
  BY <1>0, <1>3, <1>4 DEF Unreviewed
<1>12. adjustments'[n].status \in Booked
  BY <1>4 DEF Booked
<1> QED
  BY <1>3, <1>5, <1>6, <1>7, <1>8, <1>10, <1>11, <1>12

(* The row that an increase brings is its own: it was on none. *)
LEMMA NotesBrought ==
  ASSUME RowsTyped, Noted, NEW n \in Numbers, NEW a \in Rows, a.notes = {n},
         a.allocated <= adjustments[n].change, allocs' = Append(allocs, a), KeepsBooked,
         adjustments'[n].status \in Booked, \A i \in 1..Len(allocs) : n \notin allocs[i].notes
  PROVE  Noted'
<1>1. allocs \in Seq(Rows)
  BY DEF RowsTyped
<1>2. /\ Len(allocs') = Len(allocs) + 1 /\ Len(allocs) \in Nat
      /\ \A i \in 1..Len(allocs) : allocs'[i] = allocs[i]
      /\ \A i \in 1..(Len(allocs) + 1) : i > Len(allocs) => allocs'[i] = a
  BY <1>1, Lengthened
<1>3. \A m \in Numbers : /\ m \in Numbers' /\ adjustments'[m].change = adjustments[m].change
                         /\ adjustments[m].status \in Booked => adjustments'[m].status \in Booked
  BY DEF KeepsBooked
<1>4. \A i \in 1..Len(allocs') : i \in 1..Len(allocs) \/ (i = Len(allocs) + 1 /\ i > Len(allocs))
  BY <1>2
<1>5. \A i \in 1..Len(allocs') : i \notin 1..Len(allocs) => allocs'[i] = a /\ i = Len(allocs) + 1
  BY <1>2, <1>4
<1> SUFFICES ASSUME NEW i \in 1..Len(allocs'), NEW m \in allocs'[i].notes
             PROVE  /\ m \in Numbers' /\ adjustments'[m].status \in Booked
                    /\ adjustments'[m].change > 0 => Owned(i, m)'
  BY DEF Noted
<1>6. CASE i \notin 1..Len(allocs)
  <2>1. allocs'[i] = a /\ m = n /\ i = Len(allocs) + 1
    BY <1>5, <1>6
  <2>2. ASSUME NEW j \in 1..Len(allocs'), n \in allocs'[j].notes PROVE j = i
    BY <1>2, <1>5, <2>1, <2>2
  <2>3. allocs'[i].allocated <= adjustments'[m].change
    BY <1>3, <2>1
  <2>4. Owned(i, m)'
    BY <2>1, <2>2, <2>3 DEF Owned
  <2> QED
    BY <1>3, <2>1, <2>4
<1>7. CASE i \in 1..Len(allocs)
  <2>1. allocs'[i] = allocs[i] /\ m \in allocs[i].notes
    BY <1>2, <1>7
  <2>2. m \in Numbers /\ adjustments[m].status \in Booked /\ m # n /\ (adjustments[m].change > 0 => Owned(i, m))
    BY <1>7, <2>1 DEF Noted
  <2>3. ASSUME adjustments'[m].change > 0
        PROVE  Owned(i, m)'
    <3>1. Owned(i, m) /\ adjustments'[m].change = adjustments[m].change
      BY <1>3, <2>2, <2>3
    <3>2. ASSUME NEW j \in 1..Len(allocs'), m \in allocs'[j].notes PROVE j = i
      <4>1. j \in 1..Len(allocs) /\ m \in allocs[j].notes
        BY <1>2, <1>5, <2>2, <3>2
      <4> QED
        BY <3>1, <4>1 DEF Owned
    <3>3. ASSUME NEW k \in allocs'[i].notes, adjustments'[k].change > 0 PROVE k = m
      <4>1. k \in allocs[i].notes /\ k \in Numbers
        BY <1>7, <2>1 DEF Noted
      <4> QED
        BY <1>3, <3>1, <3>3, <4>1 DEF Owned
    <3> QED
      BY <2>1, <3>1, <3>2, <3>3 DEF Owned
  <2> QED
    BY <1>3, <2>2, <2>3
<1> QED
  BY <1>6, <1>7

(* And the increase holds what it counts on. *)
LEMMA RowBrought ==
  ASSUME NEW rs \in Seq(Rows), NEW a \in Rows, NEW n, a.notes = {n}, NEW ns
  PROVE  Append(rs, a) \in Seq(Rows) /\ Frees(rs, Append(rs, a), ns, ns \cup {n})
<1>1. /\ Append(rs, a) \in Seq(Rows) /\ Len(Append(rs, a)) = Len(rs) + 1 /\ Len(rs) \in Nat
      /\ \A i \in 1..Len(rs) : Append(rs, a)[i] = rs[i]
      /\ \A i \in 1..(Len(rs) + 1) : i > Len(rs) => Append(rs, a)[i] = a
  BY Lengthened
<1>2. \A i \in 1..Len(rs) : FreePart(rs[i], ns \cup {n}) <= FreePart(rs[i], ns)
  BY IncreaseFrees DEF Frees
<1>3. FreePart(a, ns \cup {n}) = 0
  BY DEF FreePart
<1> QED
  BY <1>1, <1>2, <1>3 DEF Frees

(* What an application asks of the figures of the request. *)
LEMMA ChangeFigures ==
  ASSUME RowsTyped, NEW n \in Numbers
  PROVE  /\ adjustments[n].change \in Int /\ adjustments[n].change # 0
         /\ adjustments[n].change > 0 =>
              Increase(n) = adjustments[n].change /\ Reduction(n) = 0 /\ Needed(n) = 0
         /\ ~ adjustments[n].change > 0 =>
              /\ Increase(n) = 0 /\ Reduction(n) = -adjustments[n].change /\ adjustments[n].change < 0
         /\ Increase(n) \in Nat /\ Reduction(n) \in Nat /\ Needed(n) \in Nat
<1>1. /\ adjustments[n].change \in Int /\ adjustments[n].change # 0
      /\ Increase(n) \in Nat /\ Reduction(n) \in Nat
  BY TypedParts
<1>2. Unallocated \in Nat
  BY LineFigures
<1>3. /\ adjustments[n].change > 0 => Increase(n) = adjustments[n].change /\ Reduction(n) = 0
      /\ ~ adjustments[n].change > 0 =>
           Increase(n) = 0 /\ Reduction(n) = -adjustments[n].change /\ adjustments[n].change < 0
  BY <1>1 DEF Increase, Reduction, Max0
<1>4. Needed(n) \in Nat /\ (Reduction(n) = 0 => Needed(n) = 0)
  BY <1>1, <1>2 DEF Needed, Max0
<1> QED
  BY <1>1, <1>3, <1>4

(* The steps of an application, one by one. *)
LEMMA ApplySteps ==
  ASSUME RowsInv, NEW n \in Numbers, ApplyAdjustment(n)
  PROVE  /\ adjustments[n].status = "APPROVED" /\ order.status \in Adjustable
         /\ Increase(n) <= balance.available /\ Reduction(n) <= Fulfillable(line)
         /\ order' = Retotalled(order.adjusted - adjustments[n].change, "APPLIED")
         /\ balance' = IF adjustments[n].change > 0 THEN Reserve(balance, adjustments[n].change) ELSE balance
         /\ \E r : /\ Rewritten(adjustments, adjustments', n, r) /\ r.status = "APPLIED"
                   /\ r = RequestAs(adjustments[n], "APPLIED", adjustments[n].reviewer, order.version + 1)
                   /\ r.change = adjustments[n].change /\ r.at = order.version + 1
         /\ \E bs : /\ Settle([line EXCEPT !.increased = line.increased + Increase(n),
                                           !.cancelled = line.cancelled + Reduction(n)], bs)
                    /\ bs = IF adjustments[n].change > 0 /\ order.status \in {"APPROVED", "PROCESSING"}
                            THEN Append(allocs, NewRow(adjustments[n].change, adjustments[n].change, {n}))
                            ELSE ReleaseRows(Needed(n), n)
<1>1. MayApply(n) /\ adjustments' = [adjustments EXCEPT ![n].status = "APPLIED", ![n].at = order.version + 1]
  BY DEF ApplyAdjustment
<1>2. \E r : /\ Rewritten(adjustments, adjustments', n, r) /\ r.status = "APPLIED"
             /\ r = RequestAs(adjustments[n], "APPLIED", adjustments[n].reviewer, order.version + 1)
             /\ r.change = adjustments[n].change /\ r.at = order.version + 1
  <2> DEFINE r == RequestAs(adjustments[n], "APPLIED", adjustments[n].reviewer, order.version + 1)
  <2>1. adjustments \in Seq(Adjustments) /\ n \in DOMAIN adjustments /\ order.version + 1 \in Nat
    BY DEF RowsInv, RowsTyped, Numbers, Orders
  <2>2. Rewritten(adjustments, adjustments', n, r)
    BY <1>1, <2>1, Writes
  <2>3. r.status = "APPLIED" /\ r.change = adjustments[n].change /\ r.at = order.version + 1
    BY DEF RequestAs
  <2> HIDE DEF r
  <2>4. r = RequestAs(adjustments[n], "APPLIED", adjustments[n].reviewer, order.version + 1)
    BY DEF r
  <2> QED
    BY <2>2, <2>3, <2>4
<1> QED
  BY <1>1, <1>2 DEF ApplyAdjustment, MayApply

(* The rows after an application: those before it with the row the increase brought,
   or those that the reduction thinned. *)
LEMMA ApplyRows ==
  ASSUME RowsInv, NEW n \in Numbers, ApplyAdjustment(n)
  PROVE  /\ allocs' \in Seq(Rows) /\ Noted'
         /\ Unpicked => Unpicked'
         /\ order.status = "SUBMITTED" => allocs' = <<>>
         /\ Frees(allocs, allocs', Increases, Increases')
<1>0. RowsTyped /\ Noted /\ allocs \in Seq(Rows) /\ adjustments \in Seq(Adjustments)
      /\ Len(allocs) \in Nat /\ n \in 1..MaxAdjustments
  BY TypedParts DEF RowsInv, RowsTyped
<1> DEFINE c == adjustments[n].change
<1>1. PICK r, bs :
        /\ Rewritten(adjustments, adjustments', n, r) /\ r.status = "APPLIED"
        /\ r.change = c /\ r.at = order.version + 1
        /\ Settle([line EXCEPT !.increased = line.increased + Increase(n),
                               !.cancelled = line.cancelled + Reduction(n)], bs)
        /\ bs = IF c > 0 /\ order.status \in {"APPROVED", "PROCESSING"}
                THEN Append(allocs, NewRow(c, c, {n})) ELSE ReleaseRows(Needed(n), n)
  BY ApplySteps
<1>2. adjustments[n].status = "APPROVED" /\ order' = Retotalled(order.adjusted - c, "APPLIED")
  BY ApplySteps
<1>3. /\ KeepsBooked /\ adjustments'[n].status \in Booked /\ n \notin Increases
      /\ Increases' = IF c > 0 THEN Increases \cup {n} ELSE Increases
      /\ \A i \in 1..Len(allocs) : n \notin allocs[i].notes
  BY <1>1, <1>2, BooksGrow
<1>4. allocs' = bs
  BY <1>1 DEF Settle
<1>5. order'.status = order.status /\ order'.fulfillment = order.fulfillment
  BY <1>0, <1>2 DEF Retotalled, RowsTyped, Orders
<1>6. c \in Int /\ c # 0 /\ Needed(n) \in Nat /\ (c > 0 => Needed(n) = 0)
  BY <1>0, ChangeFigures
<1> HIDE DEF c
<1>7. CASE c > 0 /\ order.status \in {"APPROVED", "PROCESSING"}
  <2>1. PICK a : a = NewRow(c, c, {n})
    OBVIOUS
  <2>2. c \in Nat \ {0} /\ c \in 0..c /\ {n} \in SUBSET (1..MaxAdjustments)
    BY <1>0, <1>6, <1>7
  <2>3. a \in Rows /\ a.status = "ALLOCATED" /\ a.allocated = c /\ a.notes = {n}
    BY <2>1, <2>2, NewRowType
  <2>4. allocs' = Append(allocs, a)
    BY <1>1, <1>4, <1>7, <2>1
  <2>5. allocs' \in Seq(Rows) /\ Frees(allocs, allocs', Increases, Increases \cup {n})
    BY <1>0, <2>3, <2>4, RowBrought
  <2>6. a.allocated <= adjustments[n].change
    BY <2>2, <2>3 DEF c
  <2>7. Noted'
    BY <1>0, <1>3, <2>3, <2>4, <2>6, NotesBrought
  <2>8. ASSUME Unpicked PROVE Unpicked'
    <3> SUFFICES ASSUME order.status = "APPROVED" \/ order.fulfillment = "RESERVED",
                        NEW i \in 1..Len(allocs')
                 PROVE  allocs'[i].status \notin {"PICKED", "PACKED"}
      BY <1>5 DEF Unpicked
    <3>1. /\ Len(allocs') = Len(allocs) + 1
          /\ \A j \in 1..Len(allocs) : allocs'[j] = allocs[j]
          /\ \A j \in 1..(Len(allocs) + 1) : j > Len(allocs) => allocs'[j] = a
      BY <1>0, <2>3, <2>4, Lengthened
    <3>2. i \in 1..Len(allocs) \/ (i > Len(allocs) /\ i \in 1..(Len(allocs) + 1))
      BY <1>0, <3>1
    <3> QED
      BY <2>3, <2>8, <3>1, <3>2 DEF Unpicked
  <2> QED
    BY <1>3, <1>7, <2>5, <2>7, <2>8
<1>8. CASE ~ (c > 0 /\ order.status \in {"APPROVED", "PROCESSING"})
  <2>1. allocs' = ReleaseRows(Needed(n), n)
    BY <1>1, <1>4, <1>8
  <2>2. /\ Follows(allocs, allocs', n)
        /\ c > 0 \/ allocs = <<>> => allocs' = allocs
    BY <1>0, <1>6, <2>1, ReleasedRows
  <2>3. allocs' \in Seq(Rows)
    BY <2>2 DEF Follows
  <2>4. c < 0 \/ (Len(allocs') = Len(allocs) /\ \A i \in 1..Len(allocs) : allocs'[i].notes = allocs[i].notes)
    BY <1>6, <2>2
  <2>5. Noted'
    BY <1>0, <1>3, <2>2, <2>4, NotesFollow DEF c
  <2>6. ASSUME Unpicked PROVE Unpicked'
    <3>1. ASSUME order.status = "APPROVED" \/ order.fulfillment = "RESERVED"
          PROVE  \A i \in 1..Len(allocs') : allocs'[i].status \notin {"PICKED", "PACKED"}
      <4>1. \A i \in 1..Len(allocs) : allocs[i].status \notin {"PICKED", "PACKED"}
        BY <2>6, <3>1 DEF Unpicked
      <4> QED
        BY <1>0, <2>2, <2>3, <4>1, StatusesFollow
    <3> QED
      BY <1>5, <3>1 DEF Unpicked
  <2>7. Frees(allocs, allocs', Increases, Increases')
    <3>1. CASE c > 0
      BY <1>0, <1>3, <2>2, <3>1, IncreaseFrees
    <3>2. CASE ~ c > 0
      BY <1>0, <1>3, <2>2, <2>3, <3>2, ReductionFrees
    <3> QED
      BY <3>1, <3>2
  <2>8. order.status = "SUBMITTED" => allocs' = <<>>
    BY <2>2 DEF RowsInv
  <2> QED
    BY <2>3, <2>5, <2>6, <2>7, <2>8
<1> QED
  BY <1>7, <1>8

(* An approved request is carried out. *)
LEMMA ApplyKeeps ==
  ASSUME RowsInv, NEW n \in Numbers, ApplyAdjustment(n)
  PROVE  RowsInv'
<1>0. RowsTyped /\ order \in Orders /\ balance \in Balance /\ SatisfiesChecks(balance)
      /\ Len(adjustments) <= MaxAdjustments
  BY DEF RowsInv, RowsTyped
<1> DEFINE c == adjustments[n].change
<1>1. PICK r, bs :
        /\ Rewritten(adjustments, adjustments', n, r) /\ r.status = "APPLIED"
        /\ r.change = c /\ r.at = order.version + 1
        /\ Settle([line EXCEPT !.increased = line.increased + Increase(n),
                               !.cancelled = line.cancelled + Reduction(n)], bs)
  BY ApplySteps
<1>2. /\ adjustments[n].status = "APPROVED" /\ order.status \in Adjustable
      /\ Increase(n) <= balance.available /\ Reduction(n) <= Fulfillable(line)
      /\ order' = Retotalled(order.adjusted - c, "APPLIED")
      /\ balance' = IF c > 0 THEN Reserve(balance, c) ELSE balance
  BY ApplySteps
<1>3. /\ adjustments' \in Seq(Adjustments) /\ Len(adjustments') = Len(adjustments)
      /\ Added' = Added + Increase(n) /\ Taken' = Taken + Reduction(n)
      /\ (order'.version = order.version + 1 => InTime') /\ Unreviewed'
  BY <1>1, <1>2, BooksGrow
<1>4. /\ allocs' \in Seq(Rows) /\ Noted' /\ Unpicked'
      /\ order.status = "SUBMITTED" => allocs' = <<>>
      /\ Frees(allocs, allocs', Increases, Increases')
  BY ApplyRows DEF RowsInv
<1>5. /\ c \in Int /\ Increase(n) \in Nat /\ Reduction(n) \in Nat
      /\ c > 0 => Increase(n) = c /\ Reduction(n) = 0
      /\ ~ c > 0 => Increase(n) = 0 /\ Reduction(n) = -c
  BY <1>0, ChangeFigures
<1> HIDE DEF c
<1>6. /\ line.increased = Added /\ line.cancelled = Taken /\ Added \in Nat /\ Taken \in Nat
      /\ order.total = Ordered + Added - Taken /\ order.adjusted >= Taken - Added
      /\ order.total = Fulfillable(line) /\ order.total \in Nat /\ order.adjusted \in Int
      /\ Ordered \in Nat
  BY <1>0, TypedParts, TotalFulfillable, LineFigures DEF RowsInv, LinesMatchApplied, Orders
<1>7. PICK inc \in Nat, taken \in Nat : inc = line.increased + Increase(n) /\ taken = line.cancelled + Reduction(n)
  BY <1>5, <1>6
<1>8. inc = Added' /\ taken = Taken' /\ Ordered + inc - taken \in Nat
  <2>1. inc = Added + Increase(n) /\ taken = Taken + Reduction(n)
    BY <1>6, <1>7
  <2>2. Reduction(n) <= Ordered + Added - Taken
    BY <1>2, <1>6
  <2>3. Added \in Nat /\ Taken \in Nat /\ Ordered \in Nat
    BY <1>6
  <2>4. Ordered + (Added + Increase(n)) - (Taken + Reduction(n)) \in Nat
    BY <1>5, <2>2, <2>3
  <2> QED
    BY <1>3, <2>1, <2>4
<1>9. bs = allocs'
  BY <1>1 DEF Settle
<1>10. Settle([line EXCEPT !.increased = inc, !.cancelled = taken], bs)
  BY <1>1, <1>7
<1>11. /\ line' \in Lines /\ line'.increased = inc /\ line'.cancelled = taken
       /\ line'.reserved = ReservedIn(allocs')
       /\ Fulfillable(line') = Max0(Ordered + inc - taken)
       /\ AllocatedIn(allocs') <= Max0(Ordered + inc - taken)
  BY <1>0, <1>4, <1>9, <1>10, Settled
<1>12. Max0(Ordered + inc - taken) = Ordered + inc - taken
  BY <1>8 DEF Max0
<1>13. /\ order' \in Orders /\ order'.status = order.status
       /\ order'.version = order.version + 1
       /\ order'.total = Ordered + inc - taken /\ order'.adjusted = order.adjusted - c
  <2>1. Fulfillable(line') \in Nat /\ order.adjusted - c \in Int
    <3>1. Fulfillable(line') \in Nat
      BY <1>8, <1>11, <1>12
    <3>2. order.adjusted \in Int /\ c \in Int
      BY <1>5, <1>6
    <3> QED
      BY <3>1, <3>2
  <2> QED
    BY <1>0, <1>2, <1>11, <1>12, <2>1, RetotalledOrder
<1>14. balance' \in Balance /\ SatisfiesChecks(balance') /\ balance'.reserved = balance.reserved + Increase(n)
       /\ balance.reserved \in Nat
  <2>0. balance.reserved \in Nat
    BY <1>0 DEF Balance
  <2>1. CASE c > 0
    <3>1. c \in Nat /\ c <= balance.available /\ balance' = Reserve(balance, c) /\ Increase(n) = c
      BY <1>2, <1>5, <2>1
    <3>2. balance.available >= c
      BY <1>0, <3>1 DEF Balance
    <3> QED
      BY <1>0, <2>0, <3>1, <3>2, ReserveType, ReserveKeepsChecks, ReserveRow
  <2>2. CASE ~ c > 0
    BY <1>0, <1>2, <1>5, <2>0, <2>2
  <2> QED
    BY <2>1, <2>2
<1>15. RowsTyped'
  BY <1>0, <1>3, <1>4, <1>11, <1>13, <1>14 DEF RowsTyped
<1>16. LinesMatchApplied'
  <2>1. order'.adjusted >= Taken' - Added'
    <3>1. Added' = Added + Increase(n) /\ Taken' = Taken + Reduction(n)
      BY <1>3
    <3>2. Added \in Nat /\ Taken \in Nat /\ order.adjusted \in Int /\ order.adjusted >= Taken - Added
      BY <1>6
    <3>3. order.adjusted - c >= (Taken + Reduction(n)) - (Added + Increase(n))
      BY <1>5, <3>2
    <3> QED
      BY <1>13, <3>1, <3>3
  <2> QED
    BY <1>8, <1>11, <1>12, <1>13, <2>1 DEF LinesMatchApplied
<1>17. Held'
  <2>1. order.status # "CANCELLED" /\ order'.status # "CANCELLED"
    BY <1>2, <1>13 DEF Adjustable
  <2>2. Added + FreeIn(allocs, Increases) <= balance.reserved
    BY <2>1 DEF RowsInv, Held
  <2>3. allocs \in Seq(Rows)
    BY <1>0 DEF RowsTyped
  <2>4. FreeIn(allocs', Increases') <= FreeIn(allocs, Increases)
    BY <1>4, <2>3, FreeShrinks
  <2>5. FreeIn(allocs', Increases') \in Nat /\ FreeIn(allocs, Increases) \in Nat
    BY <1>4, <2>3, FreeParts
  <2>6. Added' + FreeIn(allocs', Increases') <= balance'.reserved
    <3>1. Added' = Added + Increase(n) /\ balance'.reserved = balance.reserved + Increase(n)
      BY <1>3, <1>14
    <3>2. Added \in Nat /\ Increase(n) \in Nat /\ balance.reserved \in Nat
      BY <1>5, <1>6, <1>14
    <3> QED
      BY <2>2, <2>4, <2>5, <3>1, <3>2
  <2> QED
    BY <2>1, <2>6 DEF Held
<1>18. (line.reserved = ReservedIn(allocs))' /\ (order.status = "SUBMITTED" => allocs = <<>>)' /\ InTime'
  BY <1>3, <1>4, <1>11, <1>13
<1> QED
  BY <1>3, <1>4, <1>15, <1>16, <1>17, <1>18 DEF RowsInv

(* The stock lets go of an increase. *)
LEMMA LetGo ==
  ASSUME NEW b \in Balance, SatisfiesChecks(b), NEW q \in Nat
  PROVE  /\ Recomputed([b EXCEPT !.reserved = Max0(@ - q)]) \in Balance
         /\ SatisfiesChecks(Recomputed([b EXCEPT !.reserved = Max0(@ - q)]))
         /\ Recomputed([b EXCEPT !.reserved = Max0(@ - q)]).reserved = Max0(b.reserved - q)
<1>1. PICK m : m = Max0(b.reserved - q)
  OBVIOUS
<1>2. b.reserved \in Nat /\ b.onHand \in Nat /\ b.damaged \in Nat /\ b.reserved + b.damaged <= b.onHand
  BY DEF Balance, SatisfiesChecks
<1>3. m \in Nat /\ m <= b.reserved
  BY <1>1, <1>2 DEF Max0
<1>4. PICK w : w = [b EXCEPT !.reserved = m]
  OBVIOUS
<1>5. w \in Balance /\ w.reserved = m /\ w.onHand = b.onHand /\ w.damaged = b.damaged
  BY <1>3, <1>4 DEF Balance
<1>6. w.reserved + w.damaged <= w.onHand
  BY <1>2, <1>3, <1>5
<1>7. Recomputed(w) \in Balance /\ SatisfiesChecks(Recomputed(w)) /\ Recomputed(w).reserved = m
  BY <1>5, <1>6, RecomputedType, RecomputedKeepsChecks, RecomputedRow
<1>8. w = [b EXCEPT !.reserved = Max0(@ - q)]
  BY <1>1, <1>4
<1> QED
  BY <1>1, <1>7, <1>8

(* The steps of a reversal, one by one. *)
LEMMA ReverseSteps ==
  ASSUME RowsInv, NEW n \in Numbers, NEW u, ReverseAdjustment(u, n)
  PROVE  /\ adjustments[n].status = "APPLIED" /\ Latest(n) /\ MayDecide(u, adjustments[n].by)
         /\ order.status \in {"APPROVED", "PROCESSING"}
         /\ adjustments[n].change > 0 => ReversibleIncrease(n)
         /\ ~ adjustments[n].change > 0 => ReversibleReduction(n)
         /\ \E s \in {"APPLIED", "REVERSED"} :
              order' = Retotalled(Max0(order.adjusted + adjustments[n].change), s)
         /\ balance' = IF adjustments[n].change > 0
                       THEN Recomputed([balance EXCEPT !.reserved = Max0(@ - adjustments[n].change)])
                       ELSE balance
         /\ \E r : /\ Rewritten(adjustments, adjustments', n, r) /\ r.status = "REVERSED"
                   /\ r = RequestAs(adjustments[n], "REVERSED", adjustments[n].reviewer, adjustments[n].at)
                   /\ r.change = adjustments[n].change /\ r.at = adjustments[n].at
         /\ \E bs : /\ Settle([line EXCEPT !.increased = line.increased - Increase(n),
                                           !.cancelled = line.cancelled - Reduction(n)], bs)
                    /\ bs = IF adjustments[n].change > 0 THEN TakenBack(n) ELSE GivenBack(n)
<1>1. adjustments' = [adjustments EXCEPT ![n].status = "REVERSED"]
  BY DEF ReverseAdjustment
<1>2. \E r : /\ Rewritten(adjustments, adjustments', n, r) /\ r.status = "REVERSED"
             /\ r = RequestAs(adjustments[n], "REVERSED", adjustments[n].reviewer, adjustments[n].at)
             /\ r.change = adjustments[n].change /\ r.at = adjustments[n].at
  <2> DEFINE r == RequestAs(adjustments[n], "REVERSED", adjustments[n].reviewer, adjustments[n].at)
  <2>1. adjustments \in Seq(Adjustments) /\ n \in DOMAIN adjustments
    BY DEF RowsInv, RowsTyped, Numbers
  <2>2. Rewritten(adjustments, adjustments', n, r)
    BY <1>1, <2>1, Writes
  <2>3. r.status = "REVERSED" /\ r.change = adjustments[n].change /\ r.at = adjustments[n].at
    BY DEF RequestAs
  <2> HIDE DEF r
  <2>4. r = RequestAs(adjustments[n], "REVERSED", adjustments[n].reviewer, adjustments[n].at)
    BY DEF r
  <2> QED
    BY <2>2, <2>3, <2>4
<1>3. \E s \in {"APPLIED", "REVERSED"} :
        order' = Retotalled(Max0(order.adjusted + adjustments[n].change), s)
  <2>1. (IF AnyApplied({n}) THEN "APPLIED" ELSE "REVERSED") \in {"APPLIED", "REVERSED"}
    OBVIOUS
  <2> QED
    BY <2>1 DEF ReverseAdjustment
<1> QED
  BY <1>2, <1>3 DEF ReverseAdjustment

(* The rows after a reversal: the increase's are released, the reduction's come back
   unreserved. *)
LEMMA ReverseRows ==
  ASSUME RowsInv, NEW n \in Numbers, NEW u, ReverseAdjustment(u, n)
  PROVE  /\ allocs' \in Seq(Rows) /\ Noted' /\ Unpicked'
         /\ Frees(allocs, allocs', Increases, Increases')
<1>0. /\ RowsTyped /\ Noted /\ Unpicked /\ allocs \in Seq(Rows) /\ adjustments \in Seq(Adjustments)
      /\ Len(allocs) \in Nat /\ n \in 1..MaxAdjustments
  BY TypedParts DEF RowsInv, RowsTyped
<1> DEFINE c == adjustments[n].change
<1>1. PICK r, bs :
        /\ Rewritten(adjustments, adjustments', n, r) /\ r.status = "REVERSED"
        /\ r.change = c /\ r.at = adjustments[n].at
        /\ Settle([line EXCEPT !.increased = line.increased - Increase(n),
                               !.cancelled = line.cancelled - Reduction(n)], bs)
        /\ bs = IF c > 0 THEN TakenBack(n) ELSE GivenBack(n)
  BY ReverseSteps
<1>2. PICK x, s : order' = Retotalled(x, s) /\ adjustments[n].status = "APPLIED"
  BY ReverseSteps
<1>3. /\ KeepsBooked /\ adjustments'[n].status \in Booked
      /\ Increases' = Increases \ {n} /\ (n \in Increases <=> c > 0)
  BY <1>1, <1>2, BooksShrink
<1>4. allocs' = bs
  BY <1>1 DEF Settle
<1>5. order'.status = order.status /\ order'.fulfillment = order.fulfillment
  BY <1>0, <1>2 DEF Retotalled, RowsTyped, Orders
<1>6. c \in Int /\ c # 0
  BY <1>0, ChangeFigures
<1> HIDE DEF c
<1>7. /\ Follows(allocs, allocs', n) /\ allocs' \in Seq(Rows)
      /\ c > 0 => /\ Len(allocs') = Len(allocs)
                  /\ \A i \in 1..Len(allocs) : /\ allocs'[i].notes = allocs[i].notes
                                               /\ n \in allocs[i].notes => CountedOn(allocs'[i]) = 0
  <2>1. CASE c > 0
    <3>1. allocs' = TakenBack(n)
      BY <1>1, <1>4, <2>1
    <3>2. /\ Follows(allocs, allocs', n) /\ Len(allocs') = Len(allocs)
          /\ \A i \in 1..Len(allocs) : /\ allocs'[i].notes = allocs[i].notes
                                       /\ n \in allocs[i].notes => CountedOn(allocs'[i]) = 0
      BY <1>0, <3>1, TakenBackRows
    <3> QED
      BY <3>2 DEF Follows
  <2>2. CASE ~ c > 0
    <3>1. allocs' = GivenBack(n)
      BY <1>1, <1>4, <2>2
    <3>2. Follows(allocs, allocs', n)
      BY <1>0, <3>1, GivenBackRows
    <3> QED
      BY <2>2, <3>2 DEF Follows
  <2> QED
    BY <2>1, <2>2
<1>8. Noted'
  <2>1. c < 0 \/ (Len(allocs') = Len(allocs) /\ \A i \in 1..Len(allocs) : allocs'[i].notes = allocs[i].notes)
    BY <1>6, <1>7
  <2> QED
    BY <1>0, <1>3, <1>7, <2>1, NotesFollow DEF c
<1>9. Unpicked'
  <2>1. ASSUME order.status = "APPROVED" \/ order.fulfillment = "RESERVED"
        PROVE  \A i \in 1..Len(allocs') : allocs'[i].status \notin {"PICKED", "PACKED"}
    <3>1. \A i \in 1..Len(allocs) : allocs[i].status \notin {"PICKED", "PACKED"}
      BY <1>0, <2>1 DEF Unpicked
    <3> QED
      BY <1>0, <1>7, <3>1, StatusesFollow
  <2> QED
    BY <1>5, <2>1 DEF Unpicked
<1>10. Frees(allocs, allocs', Increases, Increases')
  <2>1. CASE c > 0
    BY <1>0, <1>3, <1>7, <2>1, IncreaseFrees
  <2>2. CASE ~ c > 0
    <3>1. n \notin Increases /\ Increases' = Increases
      BY <1>3, <2>2
    <3> QED
      BY <1>0, <1>7, <3>1, ReductionFrees
  <2> QED
    BY <2>1, <2>2
<1> QED
  BY <1>7, <1>8, <1>9, <1>10

(* The latest adjustment in force is reversed. *)
LEMMA ReverseKeeps ==
  ASSUME RowsInv, NEW n \in Numbers, NEW u, ReverseAdjustment(u, n)
  PROVE  RowsInv'
<1>0. RowsTyped /\ order \in Orders /\ balance \in Balance /\ SatisfiesChecks(balance)
      /\ Len(adjustments) <= MaxAdjustments
  BY DEF RowsInv, RowsTyped
<1> DEFINE c == adjustments[n].change
<1>1. PICK r, bs :
        /\ Rewritten(adjustments, adjustments', n, r) /\ r.status = "REVERSED"
        /\ r.change = c /\ r.at = adjustments[n].at
        /\ Settle([line EXCEPT !.increased = line.increased - Increase(n),
                               !.cancelled = line.cancelled - Reduction(n)], bs)
  BY ReverseSteps
<1>2. /\ adjustments[n].status = "APPLIED" /\ order.status \in {"APPROVED", "PROCESSING"}
      /\ c > 0 => ReversibleIncrease(n)
      /\ \E s \in {"APPLIED", "REVERSED"} : order' = Retotalled(Max0(order.adjusted + c), s)
      /\ balance' = IF c > 0 THEN Recomputed([balance EXCEPT !.reserved = Max0(@ - c)]) ELSE balance
  BY ReverseSteps
<1>3. /\ adjustments' \in Seq(Adjustments) /\ Len(adjustments') = Len(adjustments)
      /\ Added' = Added - Increase(n) /\ Taken' = Taken - Reduction(n)
      /\ Added' \in Nat /\ Taken' \in Nat
      /\ (order'.version = order.version + 1 => InTime') /\ Unreviewed'
  BY <1>1, <1>2, BooksShrink
<1>4. /\ allocs' \in Seq(Rows) /\ Noted' /\ Unpicked'
      /\ Frees(allocs, allocs', Increases, Increases')
  BY ReverseRows
<1>5. /\ c \in Int /\ Increase(n) \in Nat /\ Reduction(n) \in Nat
      /\ c > 0 => Increase(n) = c /\ Reduction(n) = 0
      /\ ~ c > 0 => Increase(n) = 0 /\ Reduction(n) = -c
  BY <1>0, ChangeFigures
<1>a. c > 0 => Unallocated + UntouchedIn(allocs) >= Increase(n)
  BY <1>2 DEF ReversibleIncrease
<1> HIDE DEF c
<1>6. /\ line.increased = Added /\ line.cancelled = Taken /\ Added \in Nat /\ Taken \in Nat
      /\ order.total = Ordered + Added - Taken /\ order.adjusted >= Taken - Added
      /\ order.total = Fulfillable(line) /\ order.total \in Nat /\ order.adjusted \in Int
      /\ Ordered \in Nat /\ AllocatedIn(allocs) <= order.total
  BY <1>0, TypedParts, TotalFulfillable, LineFigures DEF RowsInv, LinesMatchApplied, Orders
<1>7. PICK inc \in Nat, taken \in Nat : inc = line.increased - Increase(n) /\ taken = line.cancelled - Reduction(n)
  BY <1>3, <1>6
<1>8. inc = Added' /\ taken = Taken' /\ Ordered + inc - taken \in Nat
  <2>1. inc = Added - Increase(n) /\ taken = Taken - Reduction(n)
    BY <1>6, <1>7
  <2>2. Increase(n) <= order.total
    <3>1. /\ AllocatedIn(allocs) \in Nat /\ UntouchedIn(allocs) \in Nat
          /\ UntouchedIn(allocs) <= AllocatedIn(allocs)
          /\ Unallocated = Max0(Fulfillable(line) - AllocatedIn(allocs))
      BY <1>0, LineFigures
    <3>2. Unallocated = order.total - AllocatedIn(allocs)
      BY <1>6, <3>1 DEF Max0
    <3>3. CASE c > 0
      BY <1>a, <1>5, <1>6, <3>1, <3>2, <3>3
    <3>4. CASE ~ c > 0
      BY <1>5, <1>6, <3>4
    <3> QED
      BY <3>3, <3>4
  <2>3. Added \in Nat /\ Taken \in Nat /\ Ordered \in Nat /\ order.total = Ordered + Added - Taken
        /\ order.total \in Nat
    BY <1>6
  <2>4. Ordered + (Added - Increase(n)) - (Taken - Reduction(n)) = order.total - Increase(n) + Reduction(n)
    BY <1>5, <2>3
  <2>5. order.total - Increase(n) + Reduction(n) \in Nat
    BY <1>5, <2>2, <2>3
  <2> QED
    BY <1>3, <2>1, <2>4, <2>5
<1>9. bs = allocs'
  BY <1>1 DEF Settle
<1>10. Settle([line EXCEPT !.increased = inc, !.cancelled = taken], bs)
  BY <1>1, <1>7
<1>11. /\ line' \in Lines /\ line'.increased = inc /\ line'.cancelled = taken
       /\ line'.reserved = ReservedIn(allocs')
       /\ Fulfillable(line') = Max0(Ordered + inc - taken)
       /\ AllocatedIn(allocs') <= Max0(Ordered + inc - taken)
  BY <1>0, <1>4, <1>9, <1>10, Settled
<1>12. Max0(Ordered + inc - taken) = Ordered + inc - taken
  BY <1>8 DEF Max0
<1>b. PICK x : x = Max0(order.adjusted + c)
  OBVIOUS
<1>c. x \in Int /\ x >= order.adjusted + c
  <2>1. order.adjusted + c \in Int
    BY <1>5, <1>6
  <2> QED
    BY <1>b, <2>1 DEF Max0
<1>13. /\ order' \in Orders /\ order'.status = order.status
       /\ order'.version = order.version + 1
       /\ order'.total = Ordered + inc - taken /\ order'.adjusted = x
  <2>1. Fulfillable(line') \in Nat
    BY <1>8, <1>11, <1>12
  <2>2. PICK s \in {"APPLIED", "REVERSED"} : order' = Retotalled(x, s)
    BY <1>2, <1>b
  <2>3. s \in {"NONE", "REQUESTED", "APPLIED", "REVERSED"}
    OBVIOUS
  <2> QED
    BY <1>0, <1>c, <1>11, <1>12, <2>1, <2>2, <2>3, RetotalledOrder
<1>14. /\ balance' \in Balance /\ SatisfiesChecks(balance')
       /\ balance.reserved \in Nat /\ balance'.reserved \in Nat
       /\ balance'.reserved >= balance.reserved - Increase(n)
  <2>0. balance.reserved \in Nat
    BY <1>0 DEF Balance
  <2>1. CASE c > 0
    <3>1. c \in Nat /\ balance' = Recomputed([balance EXCEPT !.reserved = Max0(@ - c)]) /\ Increase(n) = c
      BY <1>2, <1>5, <2>1
    <3>2. balance' \in Balance /\ SatisfiesChecks(balance') /\ balance'.reserved = Max0(balance.reserved - c)
      BY <1>0, <3>1, LetGo
    <3>3. Max0(balance.reserved - c) \in Nat /\ Max0(balance.reserved - c) >= balance.reserved - c
      BY <2>0, <3>1 DEF Max0
    <3> QED
      BY <2>0, <3>1, <3>2, <3>3
  <2>2. CASE ~ c > 0
    BY <1>0, <1>2, <1>5, <2>0, <2>2
  <2> QED
    BY <2>1, <2>2
<1>15. RowsTyped'
  BY <1>0, <1>3, <1>4, <1>11, <1>13, <1>14 DEF RowsTyped
<1>16. LinesMatchApplied'
  <2>1. order'.adjusted >= Taken' - Added'
    <3>1. Added' = Added - Increase(n) /\ Taken' = Taken - Reduction(n)
      BY <1>3
    <3>2. Added \in Nat /\ Taken \in Nat /\ order.adjusted \in Int /\ order.adjusted >= Taken - Added
      BY <1>6
    <3>3. order.adjusted + c >= (Taken - Reduction(n)) - (Added - Increase(n))
      BY <1>5, <3>2
    <3>4. (Taken - Reduction(n)) - (Added - Increase(n)) \in Int /\ order.adjusted + c \in Int
      BY <1>5, <3>2
    <3>5. x >= (Taken - Reduction(n)) - (Added - Increase(n))
      BY <1>c, <3>3, <3>4
    <3> QED
      BY <1>13, <3>1, <3>5
  <2> QED
    BY <1>8, <1>11, <1>12, <1>13, <2>1 DEF LinesMatchApplied
<1>17. Held'
  <2>1. order.status # "CANCELLED" /\ order'.status # "CANCELLED"
    BY <1>2, <1>13
  <2>2. Added + FreeIn(allocs, Increases) <= balance.reserved
    BY <2>1 DEF RowsInv, Held
  <2>3. allocs \in Seq(Rows)
    BY <1>0 DEF RowsTyped
  <2>4. FreeIn(allocs', Increases') <= FreeIn(allocs, Increases)
    BY <1>4, <2>3, FreeShrinks
  <2>5. FreeIn(allocs', Increases') \in Nat /\ FreeIn(allocs, Increases) \in Nat
    BY <1>4, <2>3, FreeParts
  <2>6. Added' + FreeIn(allocs', Increases') <= balance'.reserved
    <3>1. Added' = Added - Increase(n) /\ Added \in Nat
      BY <1>3, <1>6
    <3> QED
      BY <1>5, <1>14, <2>2, <2>4, <2>5, <3>1
  <2> QED
    BY <2>1, <2>6 DEF Held
<1>18. (line.reserved = ReservedIn(allocs))' /\ (order.status = "SUBMITTED" => allocs = <<>>)' /\ InTime'
  BY <1>2, <1>3, <1>11, <1>13
<1> QED
  BY <1>3, <1>4, <1>15, <1>16, <1>17, <1>18 DEF RowsInv

-----------------------------------------------------------------------------
(* The pages, and every step of the desk. *)

Pages ==
  [at : {"away", "order", "review"}, id : 0..MaxAdjustments,
   offers : SUBSET {"request", "withdraw", "approve", "reject", "apply", "reverse"},
   impact : BOOLEAN]

(* A page that offers to withdraw a request shows one that exists. *)
Sound(p) == p \in Pages /\ ("withdraw" \in p.offers => p.id \in Numbers)

PagesSound == DOMAIN page = Staff /\ \A u \in Staff : Sound(page[u])

(* What Page renders. *)
LEMMA PageType ==
  ASSUME NEW at \in {"order", "review"}, NEW id \in 0..MaxAdjustments,
         NEW offers \in SUBSET {"request", "withdraw", "approve", "reject", "apply", "reverse"},
         NEW impact \in BOOLEAN, "withdraw" \in offers => id \in Numbers
  PROVE  Sound(Page(at, id, offers, impact))
<1>0. 0 \in 0..MaxAdjustments
  BY AdjustmentsAssumption
<1>1. CASE offers = {}
  <2>1. Page(at, id, offers, impact) = Away
    BY <1>1 DEF Page
  <2> QED
    BY <1>0, <2>1 DEF Sound, Pages, Away
<1>2. CASE offers # {}
  <2>1. Page(at, id, offers, impact) = [at |-> at, id |-> id, offers |-> offers, impact |-> impact]
    BY <1>2 DEF Page
  <2> QED
    BY <2>1 DEF Sound, Pages
<1> QED
  BY <1>1, <1>2

(* The order's page. *)
LEMMA OrderPageSound == RowsTyped => Sound(OrderPage)
<1> SUFFICES ASSUME RowsTyped PROVE Sound(OrderPage)
  OBVIOUS
<1> DEFINE shows == order.adjustment = "REQUESTED" /\ Waiting # {}
           id == IF shows THEN Undecided ELSE 0
           offers == (IF order.status \in Adjustable /\ ~(order.adjustment = "REQUESTED") THEN {"request"} ELSE {})
                       \cup (IF shows THEN {"withdraw"} ELSE {})
<1>1. OrderPage = Page("order", id, offers, FALSE)
  BY DEF OrderPage
<1>2. shows => Undecided \in Numbers
  BY DEF Undecided, Waiting
<1>3. Numbers \subseteq 1..MaxAdjustments
  BY TypedParts
<1>4. "withdraw" \in offers => shows
  OBVIOUS
<1>5. offers \in SUBSET {"request", "withdraw", "approve", "reject", "apply", "reverse"}
  OBVIOUS
<1>6. id \in 0..MaxAdjustments /\ ("withdraw" \in offers => id \in Numbers)
  <2>1. CASE shows
    <3>1. id = Undecided
      BY <2>1
    <3>2. Undecided \in 1..MaxAdjustments /\ Undecided \in Numbers
      BY <1>2, <1>3, <2>1
    <3>3. \A w \in 1..MaxAdjustments : w \in 0..MaxAdjustments
      BY AdjustmentsAssumption
    <3> HIDE DEF id, shows, offers
    <3> QED
      BY <3>1, <3>2, <3>3
  <2>2. CASE ~ shows
    <3>1. id = 0
      BY <2>2
    <3> QED
      BY <1>4, <2>2, <3>1, AdjustmentsAssumption
  <2> QED
    BY <2>1, <2>2
<1> HIDE DEF id, offers
<1> QED
  BY <1>1, <1>5, <1>6, PageType

(* The review page. *)
LEMMA ReviewPageSound == RowsTyped => \A u \in Staff, n \in Numbers : Sound(ReviewPage(u, n))
<1> SUFFICES ASSUME RowsTyped, NEW u \in Staff, NEW n \in Numbers PROVE Sound(ReviewPage(u, n))
  OBVIOUS
<1> DEFINE offers == ReviewOffers(u, n)
           impact == "approve" \in offers /\ Affected(n) > 0
<1>1. ReviewPage(u, n) = Page("review", n, offers, impact)
  BY DEF ReviewPage
<1>2. offers \in SUBSET {"request", "withdraw", "approve", "reject", "apply", "reverse"}
  BY DEF ReviewOffers
<1>3. n \in 0..MaxAdjustments
  BY TypedParts
<1>4. impact \in BOOLEAN
  OBVIOUS
<1> HIDE DEF offers, impact
<1> QED
  BY <1>1, <1>2, <1>3, <1>4, PageType

(* No request is deleted. *)
Remember == Numbers \subseteq Numbers'

(* Every step of the desk keeps the rows. *)
LEMMA TransactionsKeep ==
  ASSUME RowsInv, NEW n \in Numbers, NEW u \in Staff, NEW ack,
         \/ ApproveAdjustment(u, n, ack) \/ RejectAdjustment(u, n) \/ WithdrawAdjustmentRequest(n)
         \/ ApplyAdjustment(n) \/ ReverseAdjustment(u, n)
  PROVE  RowsInv' /\ Numbers' = Numbers
<1>1. CASE ApproveAdjustment(u, n, ack)
  BY <1>1, ApproveKeeps DEF ApproveAdjustment, Numbers
<1>2. CASE RejectAdjustment(u, n)
  <2>1. Dismiss(n, "REJECTED", u) /\ "REJECTED" \in {"REJECTED", "CANCELLED"} /\ u \in Staff \cup {"nobody"}
    BY <1>2 DEF RejectAdjustment
  <2> QED
    BY <2>1, DismissKeeps DEF Dismiss, Numbers
<1>3. CASE WithdrawAdjustmentRequest(n)
  <2>1. /\ Dismiss(n, "CANCELLED", "nobody") /\ "CANCELLED" \in {"REJECTED", "CANCELLED"}
        /\ "nobody" \in Staff \cup {"nobody"}
    BY <1>3 DEF WithdrawAdjustmentRequest
  <2> QED
    BY <2>1, DismissKeeps DEF Dismiss, Numbers
<1>4. CASE ApplyAdjustment(n)
  BY <1>4, ApplyKeeps DEF ApplyAdjustment, Numbers
<1>5. CASE ReverseAdjustment(u, n)
  BY <1>5, ReverseKeeps DEF ReverseAdjustment, Numbers
<1> QED
  BY <1>1, <1>2, <1>3, <1>4, <1>5

(* So does everything else that happens to the order. *)
LEMMA OrderMovesKeep ==
  ASSUME RowsInv, OrderMoves
  PROVE  RowsInv' /\ Remember /\ page' = page
<1>0. page' = page
  BY DEF OrderMoves
<1>f. Fulfillable(line) \in Nat /\ RowsTyped
  BY LineFigures DEF RowsInv
<1>1. CASE ApproveOrder
  BY <1>0, <1>1, ApproveOrderKeeps DEF ApproveOrder, Remember, Numbers
<1>2. CASE CancelOrder
  BY <1>0, <1>2, CancelOrderKeeps DEF CancelOrder, Remember, Numbers
<1>3. CASE \E q \in 0..Fulfillable(line) : PickOrder(q)
  <2>1. PICK q \in 0..Fulfillable(line) : PickOrder(q)
    BY <1>3
  <2>2. /\ order.status # "CANCELLED" /\ Mark({"ALLOCATED", "RESERVED", "PICKED"}, "PICKED", q)
        /\ q \in Nat /\ adjustments' = adjustments
    <3>1. order.status # "CANCELLED" /\ Mark({"ALLOCATED", "RESERVED", "PICKED"}, "PICKED", q) /\ q \in Nat
      BY <1>f, <2>1 DEF PickOrder
    <3>2. adjustments' = adjustments
      BY <3>1 DEF Mark
    <3> QED
      BY <3>1, <3>2
  <2>3. {"ALLOCATED", "RESERVED", "PICKED"} \in SUBSET {"ALLOCATED", "RESERVED", "PICKED", "PACKED"}
    OBVIOUS
  <2>4. RowsInv'
    BY <2>2, <2>3, MarkKeeps
  <2> QED
    BY <1>0, <2>2, <2>4 DEF Remember, Numbers
<1>4. CASE PackOrder
  <2>1. PICK q : q = IF line.picked > 0 THEN line.picked ELSE Fulfillable(line)
    OBVIOUS
  <2>2. /\ order.status # "CANCELLED" /\ Mark({"ALLOCATED", "RESERVED", "PICKED", "PACKED"}, "PACKED", q)
        /\ adjustments' = adjustments
    BY <1>4, <2>1 DEF PackOrder, Mark
  <2>3. line.picked \in Nat
    BY <1>f DEF RowsTyped, Lines
  <2>4. q \in Nat
    BY <1>f, <2>1, <2>3
  <2>5. {"ALLOCATED", "RESERVED", "PICKED", "PACKED"} \in SUBSET {"ALLOCATED", "RESERVED", "PICKED", "PACKED"}
    OBVIOUS
  <2>6. RowsInv'
    BY <2>2, <2>4, <2>5, MarkKeeps
  <2> QED
    BY <1>0, <2>2, <2>6 DEF Remember, Numbers
<1> QED
  BY <1>1, <1>2, <1>3, <1>4 DEF OrderMoves

(* The state in which the adjustments start. *)
LEMMA RowsBegin == Init => RowsInv /\ PagesSound
<1> SUFFICES ASSUME Init PROVE RowsInv /\ PagesSound
  OBVIOUS
<1>1. /\ order = [status |-> "SUBMITTED", fulfillment |-> "UNALLOCATED", adjustment |-> "NONE",
                  version |-> 1, total |-> Ordered, adjusted |-> 0]
      /\ line = [increased |-> 0, cancelled |-> 0, reserved |-> 0, picked |-> 0]
      /\ allocs = <<>> /\ adjustments = <<>>
      /\ page = [u \in Staff |-> Away]
  BY DEF Init, AdjustmentsInit
<1>2. Ordered \in Nat \ {0} /\ OnHand \in Nat /\ MaxAdjustments \in Nat
  BY AdjustmentsAssumption
<1>3. order \in Orders /\ line \in Lines
  BY <1>1, <1>2 DEF Orders, Lines, Adjustable
<1>4. balance \in Balance /\ SatisfiesChecks(balance) /\ balance.reserved = 0
  <2>1. PICK b : b = [onHand |-> OnHand, reserved |-> 0, available |-> 0, damaged |-> 0]
    OBVIOUS
  <2>2. b \in Balance /\ b.reserved = 0 /\ b.reserved + b.damaged <= b.onHand
    BY <1>2, <2>1 DEF Balance
  <2>3. balance = Recomputed(b)
    BY <2>1 DEF Init, AdjustmentsInit
  <2> QED
    BY <2>2, <2>3, RecomputedType, RecomputedKeepsChecks, RecomputedRow
<1>5. allocs \in Seq(Rows) /\ adjustments \in Seq(Adjustments) /\ Len(allocs) = 0 /\ Len(adjustments) = 0
  BY <1>1
<1>6. RowsTyped
  BY <1>2, <1>3, <1>4, <1>5 DEF RowsTyped
<1>7. Numbers = {} /\ Applied = {} /\ Increases = {}
  BY <1>1 DEF Numbers, Applied, Increases
<1>8. Added = 0 /\ Taken = 0
  BY <1>7, SumEmpty DEF Added, Taken
<1>9. AllocatedIn(allocs) = 0 /\ ReservedIn(allocs) = 0 /\ FreeIn(allocs, Increases) = 0
  <2>1. DOMAIN allocs = {}
    BY <1>1
  <2> DEFINE f == [i \in DOMAIN allocs |-> LiveAllocated(allocs[i])]
             g == [i \in DOMAIN allocs |-> LiveReserved(allocs[i])]
             h == [i \in DOMAIN allocs |-> FreePart(allocs[i], Increases)]
  <2>2. DOMAIN f = {} /\ DOMAIN g = {} /\ DOMAIN h = {}
    BY <2>1
  <2>3. /\ AllocatedIn(allocs) = SumFunction(f) /\ ReservedIn(allocs) = SumFunction(g)
        /\ FreeIn(allocs, Increases) = SumFunction(h)
    BY DEF AllocatedIn, ReservedIn, FreeIn
  <2> HIDE DEF f, g, h
  <2>4. SumFunctionOnSet(f, {}) = 0 /\ SumFunctionOnSet(g, {}) = 0 /\ SumFunctionOnSet(h, {}) = 0
    BY SumEmpty
  <2> QED
    BY <2>2, <2>3, <2>4, SumIs
<1>10. LinesMatchApplied
  BY <1>1, <1>2, <1>8, <1>9 DEF LinesMatchApplied
<1>11. Held /\ line.reserved = ReservedIn(allocs)
  BY <1>1, <1>4, <1>8, <1>9 DEF Held
<1>12. Noted /\ Unpicked /\ InTime /\ Unreviewed
  BY <1>5, <1>7 DEF Noted, Unpicked, InTime, Unreviewed
<1>13. RowsInv
  BY <1>1, <1>6, <1>10, <1>11, <1>12 DEF RowsInv
<1>14. PagesSound
  <2>1. 0 \in 0..MaxAdjustments
    BY <1>2
  <2>2. Sound(Away)
    BY <2>1 DEF Sound, Pages, Away
  <2> QED
    BY <1>1, <2>2 DEF PagesSound
<1> QED
  BY <1>13, <1>14

(* Every step of the desk keeps the rows and the pages. *)
LEMMA DeskKeeps ==
  ASSUME RowsInv, PagesSound, Next
  PROVE  RowsInv' /\ PagesSound'
<1>o. RowsTyped' => Sound(OrderPage)'
  BY OrderPageSound, PTL
<1>r. RowsTyped' => (\A u \in Staff, n \in Numbers : Sound(ReviewPage(u, n)))'
  BY ReviewPageSound, PTL
<1>t. RowsTyped
  BY DEF RowsInv
<1>p. ASSUME Remember, NEW u \in Staff, NEW p, Sound(p)', page' = [page EXCEPT ![u] = p] \/ page' = page
      PROVE  PagesSound'
  <2>1. \A v \in Staff : page[v] \in Pages /\ ("withdraw" \in page[v].offers => page[v].id \in Numbers')
    BY <1>p DEF PagesSound, Sound, Remember
  <2>2. p \in Pages /\ ("withdraw" \in p.offers => p.id \in Numbers')
    BY <1>p DEF Sound
  <2>3. DOMAIN page' = Staff /\ \A v \in Staff : page'[v] = p \/ page'[v] = page[v]
    BY <1>p DEF PagesSound
  <2> QED
    BY <2>1, <2>2, <2>3 DEF PagesSound, Sound
<1>1. CASE OrderMoves
  <2>1. RowsInv' /\ Remember /\ page' = page
    BY <1>1, OrderMovesKeep
  <2> QED
    BY <2>1 DEF PagesSound, Sound, Remember
<1>2. ASSUME NEW u \in Staff, OpenOrder(u) PROVE RowsInv' /\ PagesSound'
  <2>1. page' = [page EXCEPT ![u] = OrderPage] /\ UNCHANGED rows
    BY <1>2 DEF OpenOrder, TurnTo
  <2>2. RowsInv'
    BY <2>1 DEF RowsInv, RowsTyped, LinesMatchApplied, Noted, Owned, Unpicked, Held, InTime, Unreviewed, rows,
                Increases, Applied, Added, Taken, Numbers, Increase, Reduction
  <2>3. OrderPage' = OrderPage /\ Numbers' = Numbers
    BY <2>1 DEF rows, OrderPage, Waiting, Undecided, Numbers
  <2>4. Sound(OrderPage)' /\ Remember
    BY <1>o, <2>2, <2>3 DEF RowsInv, Remember
  <2> QED
    BY <1>p, <2>1, <2>2, <2>3, <2>4 DEF Sound
<1>3. ASSUME NEW u \in Staff, OpenReview(u) PROVE RowsInv' /\ PagesSound'
  <2>1. PICK n \in Numbers : page' = [page EXCEPT ![u] = ReviewPage(u, n)] /\ UNCHANGED rows
    BY <1>3 DEF OpenReview, TurnTo
  <2>2. RowsInv'
    BY <2>1 DEF RowsInv, RowsTyped, LinesMatchApplied, Noted, Owned, Unpicked, Held, InTime, Unreviewed, rows,
                Increases, Applied, Added, Taken, Numbers, Increase, Reduction
  <2>3. Sound(ReviewPage(u, n)) /\ Numbers' = Numbers
    BY <1>t, <2>1, ReviewPageSound DEF rows, Numbers
  <2>4. PICK p : p = ReviewPage(u, n)
    OBVIOUS
  <2>5. Sound(p)' /\ Remember
    BY <2>3, <2>4 DEF Sound, Remember
  <2> QED
    BY <1>p, <2>1, <2>2, <2>4, <2>5
<1>4. ASSUME NEW u \in Staff, RequestAdjustment(u) PROVE RowsInv' /\ PagesSound'
  <2>1. PICK change \in Changes : CreateRequest(u, change)
    BY <1>4 DEF RequestAdjustment
  <2>2. RowsInv'
    BY <2>1, CreateKeeps
  <2>3. Remember
    <3>1. Numbers = 1..Len(adjustments) /\ Len(adjustments) \in Nat
      BY <1>t, TypedParts
    <3>2. \E r : adjustments' = Append(adjustments, r)
      BY <2>1 DEF CreateRequest
    <3>3. adjustments' \in Seq(Adjustments) /\ Len(adjustments') = Len(adjustments) + 1
      BY <1>t, <2>2, <3>2 DEF RowsInv, RowsTyped
    <3>4. Numbers' = 1..(Len(adjustments) + 1)
      BY <3>3, LenProperties DEF Numbers
    <3> QED
      BY <3>1, <3>4 DEF Remember
  <2>4. Sound(OrderPage)'
    BY <1>o, <2>2 DEF RowsInv
  <2>5. page' = [page EXCEPT ![u] = OrderPage'] \/ page' = page
    BY <1>4 DEF RequestAdjustment, BackTo
  <2>6. PICK p : p = OrderPage'
    OBVIOUS
  <2>7. Sound(p)'
    BY <2>4, <2>6 DEF Sound
  <2> QED
    BY <1>p, <2>2, <2>3, <2>5, <2>6, <2>7
<1>5. ASSUME NEW u \in Staff, Withdraw(u) PROVE RowsInv' /\ PagesSound'
  <2>1. PICK n : n = page[u].id
    OBVIOUS
  <2>2. n \in Numbers /\ WithdrawAdjustmentRequest(n)
    BY <1>5, <2>1 DEF Withdraw, Offered, PagesSound, Sound
  <2>3. RowsInv' /\ Numbers' = Numbers
    BY <2>2, TransactionsKeep
  <2>4. Sound(OrderPage)' /\ Remember
    BY <1>o, <2>3 DEF RowsInv, Remember
  <2>5. page' = [page EXCEPT ![u] = OrderPage'] \/ page' = page
    BY <1>5 DEF Withdraw, BackTo
  <2>6. PICK p : p = OrderPage'
    OBVIOUS
  <2>7. Sound(p)'
    BY <2>4, <2>6 DEF Sound
  <2> QED
    BY <1>p, <2>3, <2>4, <2>5, <2>6, <2>7
<1>6. ASSUME NEW u \in Staff, Decide(u) PROVE RowsInv' /\ PagesSound'
  <2>1. PICK n \in Numbers :
          /\ ApproveRequest(u, n) \/ RejectRequest(u, n) \/ ApplyRequest(u, n) \/ ReverseRequest(u, n)
          /\ BackTo(u, ReviewPage(u, n)')
    BY <1>6 DEF Decide
  <2>2. PICK ack : ack = page[u].impact
    OBVIOUS
  <2>3. \/ ApproveAdjustment(u, n, ack) \/ RejectAdjustment(u, n)
        \/ ApplyAdjustment(n) \/ ReverseAdjustment(u, n)
    BY <2>1, <2>2 DEF ApproveRequest, RejectRequest, ApplyRequest, ReverseRequest
  <2>4. RowsInv' /\ Numbers' = Numbers
    BY <2>3, TransactionsKeep
  <2>5. Sound(ReviewPage(u, n))' /\ Remember
    BY <1>r, <2>4 DEF RowsInv, Remember
  <2>6. page' = [page EXCEPT ![u] = ReviewPage(u, n)'] \/ page' = page
    BY <2>1 DEF BackTo
  <2>7. PICK p : p = ReviewPage(u, n)'
    OBVIOUS
  <2>8. Sound(p)'
    BY <2>5, <2>7 DEF Sound
  <2> QED
    BY <1>p, <2>4, <2>5, <2>6, <2>7, <2>8
<1> QED
  BY <1>1, <1>2, <1>3, <1>4, <1>5, <1>6 DEF Next

(* A stutter keeps them too. *)
LEMMA DeskStutters ==
  ASSUME RowsInv, PagesSound, UNCHANGED vars
  PROVE  RowsInv' /\ PagesSound'
<1>1. UNCHANGED <<rows, page>>
  BY DEF vars
<1>2. RowsInv'
  BY <1>1 DEF RowsInv, RowsTyped, LinesMatchApplied, Noted, Owned, Unpicked, Held, InTime, Unreviewed, rows,
              Increases, Applied, Added, Taken, Numbers, Increase, Reduction
<1>3. PagesSound'
  BY <1>1 DEF PagesSound, Sound, rows, Numbers
<1> QED
  BY <1>2, <1>3

(* The inductive invariant of the desk. *)
LEMMA DeskAlwaysSound == Spec => [](RowsInv /\ PagesSound)
<1>1. Init => RowsInv /\ PagesSound
  BY RowsBegin
<1>2. RowsInv /\ PagesSound /\ [Next]_vars => RowsInv' /\ PagesSound'
  BY DeskKeeps, DeskStutters
<1> QED
  BY <1>1, <1>2, PTL DEF Spec

(* Every row and every page keeps its type, and the rows keep the CHECKs of their
   tables, through every interleaving of requests, decisions, applications,
   reversals and moves of the order. *)
THEOREM AdjustmentsTyped == Spec => []AdjustmentsTypeOK
<1>1. RowsInv /\ PagesSound => AdjustmentsTypeOK
  <2> SUFFICES ASSUME RowsInv, PagesSound PROVE AdjustmentsTypeOK
    OBVIOUS
  <2>1. /\ RowsTyped /\ order \in Orders /\ line \in Lines /\ balance \in Balance /\ SatisfiesChecks(balance)
        /\ adjustments \in Seq(Adjustments) /\ allocs \in Seq(Rows)
    BY DEF RowsInv, RowsTyped
  <2>2. Len(allocs) \in Nat /\ DOMAIN allocs = 1..Len(allocs) /\ \A i \in 1..Len(allocs) : allocs[i] \in Rows
    BY <2>1, TypedParts
  <2>3. \A i \in DOMAIN allocs : /\ allocs[i] \in Allocations /\ allocs[i].reserved <= allocs[i].allocated
                                 /\ allocs[i].picked <= allocs[i].allocated
    BY <2>2 DEF Rows
  <2>4. allocs \in Seq(Allocations)
    BY <2>1 DEF Rows
  <2>5. DOMAIN page = Staff /\ \A u \in Staff : page[u] \in Pages
    BY DEF PagesSound, Sound
  <2> QED
    BY <2>1, <2>3, <2>4, <2>5 DEF AdjustmentsTypeOK, Pages
<1> QED
  BY <1>1, DeskAlwaysSound, PTL

(* The line, the order's totals and the allocations agree with the adjustments in
   force, whichever were applied and reversed, in whatever state the warehouse found
   the order. *)
THEOREM LinesAlwaysMatch == Spec => []LinesMatchApplied
<1>1. RowsInv => LinesMatchApplied
  BY DEF RowsInv
<1> QED
  BY <1>1, DeskAlwaysSound, PTL

(* The stock holds what the allocations that nobody has picked count on, and the
   line's own figure of it is that of its allocations. *)
THEOREM HoldingsStayReserved == Spec => []HoldingsAreReserved
<1>1. RowsInv => HoldingsAreReserved
  BY HoldingsHold
<1> QED
  BY <1>1, DeskAlwaysSound, PTL

-----------------------------------------------------------------------------
(* The stack of the adjustments in force. *)

(* The members of A in the order of their times t. *)
PlaceIn(A, t, n) == Cardinality({m \in A : t[m] <= t[n]})

PlacedAt(A, t, k) == {n \in A : PlaceIn(A, t, n) = k}

StackOf(A, t) == [k \in 1..Cardinality(A) |-> CHOOSE n \in PlacedAt(A, t, k) : TRUE]

(* A sequence of whatever it holds. *)
LEMMA StackIsSeq ==
  ASSUME NEW A, IsFiniteSet(A), NEW t
  PROVE  /\ Cardinality(A) \in Nat /\ Len(StackOf(A, t)) = Cardinality(A)
         /\ \E S : StackOf(A, t) \in Seq(S)
<1>1. PICK k \in Nat : k = Cardinality(A)
  BY FS_CardinalityType
<1> DEFINE S == {StackOf(A, t)[i] : i \in 1..k}
<1>2. StackOf(A, t) = [i \in 1..k |-> StackOf(A, t)[i]]
  BY <1>1 DEF StackOf
<1>3. StackOf(A, t) \in [1..k -> S]
  BY <1>2
<1> HIDE DEF S
<1>4. StackOf(A, t) \in Seq(S) /\ Len(StackOf(A, t)) = k
  BY <1>1, <1>2, <1>3
<1> QED
  BY <1>1, <1>4

(* What is later than all the others comes last. *)
LEMMA StackGrows ==
  ASSUME NEW A, IsFiniteSet(A), NEW t, NEW w, NEW n, n \notin A,
         \A m \in A : t[m] \in Nat /\ w[m] = t[m] /\ w[m] < w[n], w[n] \in Nat
  PROVE  StackOf(A \cup {n}, w) = Append(StackOf(A, t), n)
<1> DEFINE B == A \cup {n}
<1>1. PICK k \in Nat : k = Cardinality(A)
  BY FS_CardinalityType
<1>2. IsFiniteSet(B) /\ Cardinality(B) = k + 1
  BY <1>1, FS_AddElement
<1>3. \A m \in A : PlaceIn(B, w, m) = PlaceIn(A, t, m) /\ PlaceIn(A, t, m) <= k /\ PlaceIn(A, t, m) \in Nat
  <2> TAKE m \in A
  <2>1. {i \in B : w[i] <= w[m]} = {i \in A : t[i] <= t[m]}
    OBVIOUS
  <2>2. PICK T : T = {i \in A : t[i] <= t[m]}
    OBVIOUS
  <2>3. T \in SUBSET A
    BY <2>2
  <2>4. Cardinality(T) <= k /\ Cardinality(T) \in Nat
    BY <1>1, <2>3, FS_Subset, FS_CardinalityType
  <2> QED
    BY <2>1, <2>2, <2>4 DEF PlaceIn
<1>4. PlaceIn(B, w, n) = k + 1
  <2>1. {i \in B : w[i] <= w[n]} = B
    <3>1. \A i \in B : w[i] <= w[n]
      OBVIOUS
    <3> QED
      BY <3>1
  <2> QED
    BY <1>2, <2>1 DEF PlaceIn
<1> HIDE DEF B
<1>5. \A i \in 1..k : PlacedAt(B, w, i) = PlacedAt(A, t, i)
  <2> TAKE i \in 1..k
  <2>1. i # k + 1
    BY <1>1
  <2>2. \A m \in B : m \in A \/ m = n
    BY DEF B
  <2>3. \A m \in A : m \in B
    BY DEF B
  <2> QED
    BY <1>3, <1>4, <2>1, <2>2, <2>3 DEF PlacedAt
<1>6. PlacedAt(B, w, k + 1) = {n}
  <2>1. \A m \in A : PlaceIn(B, w, m) # k + 1
    BY <1>1, <1>3
  <2>2. n \in B /\ \A m \in B : m \in A \/ m = n
    BY DEF B
  <2> QED
    BY <1>4, <2>1, <2>2 DEF PlacedAt
<1>7. PICK S : StackOf(A, t) \in Seq(S)
  BY StackIsSeq
<1>8. PICK R : R = S \cup {n}
  OBVIOUS
<1>9. StackOf(A, t) \in Seq(R) /\ n \in R /\ Len(StackOf(A, t)) = k
  BY <1>1, <1>7, <1>8, StackIsSeq
<1>10. PICK s : s = StackOf(A, t)
  OBVIOUS
<1>11. /\ Append(s, n) \in Seq(R) /\ Len(Append(s, n)) = k + 1
       /\ \A i \in 1..k : Append(s, n)[i] = s[i]
       /\ \A i \in 1..(k + 1) : i > k => Append(s, n)[i] = n
  BY <1>9, <1>10, Lengthened
<1>12. \A i \in 1..k : StackOf(B, w)[i] = s[i]
  <2> TAKE i \in 1..k
  <2>1. i \in 1..(k + 1)
    BY <1>1
  <2>2. StackOf(B, w)[i] = CHOOSE m \in PlacedAt(B, w, i) : TRUE
    BY <1>2, <2>1 DEF StackOf
  <2>3. s[i] = CHOOSE m \in PlacedAt(A, t, i) : TRUE
    BY <1>1, <1>10 DEF StackOf
  <2> QED
    BY <1>5, <2>2, <2>3
<1>13. StackOf(B, w)[k + 1] = n
  <2>1. k + 1 \in 1..(k + 1)
    BY <1>1
  <2>2. StackOf(B, w)[k + 1] = CHOOSE m \in PlacedAt(B, w, k + 1) : TRUE
    BY <1>2, <2>1 DEF StackOf
  <2> QED
    BY <1>6, <2>2
<1>14. /\ \A i \in 1..(k + 1) : StackOf(B, w)[i] = Append(s, n)[i]
       /\ StackOf(B, w) = [i \in 1..(k + 1) |-> StackOf(B, w)[i]]
  <2>1. \A i \in 1..(k + 1) : i \in 1..k \/ (i = k + 1 /\ i > k)
    BY <1>1
  <2>2. StackOf(B, w) = [i \in 1..(k + 1) |-> StackOf(B, w)[i]]
    BY <1>2 DEF StackOf
  <2> QED
    BY <1>11, <1>12, <1>13, <2>1, <2>2
<1>15. Append(s, n) = [i \in 1..(k + 1) |-> Append(s, n)[i]]
  BY <1>11, LenProperties
<1>16. StackOf(B, w) = Append(s, n)
  BY <1>14, <1>15
<1> QED
  BY <1>10, <1>16 DEF B

(* The last that was pushed is on top, and popping it leaves the rest. *)
LEMMA StackPops ==
  ASSUME NEW S, NEW s \in Seq(S), NEW n
  PROVE  /\ Append(s, n) # <<>> /\ Append(s, n)[Len(Append(s, n))] = n
         /\ SubSeq(Append(s, n), 1, Len(Append(s, n)) - 1) = s
<1>1. PICK R : R = S \cup {n}
  OBVIOUS
<1>2. s \in Seq(R) /\ n \in R
  BY <1>1
<1>3. PICK k \in Nat : k = Len(s)
  BY LenProperties
<1>4. PICK b : b = Append(s, n)
  OBVIOUS
<1>5. /\ b \in Seq(R) /\ Len(b) = k + 1 /\ b # <<>> /\ b[k + 1] = n
      /\ \A i \in 1..k : b[i] = s[i]
  BY <1>2, <1>3, <1>4, AppendProperties
<1>6. SubSeq(b, 1, k) = s
  <2>1. \A i \in 1..k : b[i] \in R
    BY <1>2, <1>3, <1>5, LenProperties
  <2>2. /\ SubSeq(b, 1, k) \in Seq(R) /\ Len(SubSeq(b, 1, k)) = IF 1 <= k THEN k - 1 + 1 ELSE 0
        /\ \A i \in 1..(k - 1 + 1) : SubSeq(b, 1, k)[i] = b[1 + i - 1]
    BY <2>1, SubSeqProperties
  <2>3. Len(SubSeq(b, 1, k)) = k
    BY <2>2
  <2>4. \A i \in 1..k : SubSeq(b, 1, k)[i] = s[i]
    <3>1. ASSUME NEW i \in 1..k PROVE i \in 1..(k - 1 + 1) /\ 1 + i - 1 = i
      OBVIOUS
    <3> QED
      BY <1>5, <2>2, <3>1
  <2> QED
    BY <1>2, <1>3, <2>2, <2>3, <2>4, SeqEqual
<1>7. Len(b) - 1 = k
  BY <1>5
<1> QED
  BY <1>4, <1>5, <1>6, <1>7

(* When each request was applied. *)
Times == [n \in Numbers |-> adjustments[n].at]

(* What is in force is the stack of what was applied. *)
LEMMA InForceIs == InForce = StackOf(Applied, Times)
<1>1. \A n \in Applied : n \in Numbers /\ Times[n] = adjustments[n].at
  BY DEF Applied, Times
<1>2. \A n \in Applied : Rank(n) = PlaceIn(Applied, Times, n)
  <2> TAKE n \in Applied
  <2>1. {m \in Applied : adjustments[m].at <= adjustments[n].at} = {m \in Applied : Times[m] <= Times[n]}
    BY <1>1
  <2> QED
    BY <2>1 DEF Rank, PlaceIn
<1>3. \A k : Ranked(k) = PlacedAt(Applied, Times, k)
  BY <1>2 DEF Ranked, PlacedAt
<1> QED
  BY <1>3 DEF InForce, StackOf

(* It is finite. *)
LEMMA AppliedFinite ==
  ASSUME adjustments \in Seq(Adjustments)
  PROVE  IsFiniteSet(Applied)
<1>1. Applied \in SUBSET (1..Len(adjustments))
  BY RequestFigures DEF Applied, Numbers
<1>2. IsFiniteSet(1..Len(adjustments))
  BY RequestFigures, FS_Interval
<1> QED
  BY <1>1, <1>2, FS_Subset

(* One that is later than all of A, whose members keep their times. *)
LaterThan(A, t, w, n) ==
  /\ IsFiniteSet(A) /\ n \notin A /\ w[n] \in Nat
  /\ \A m \in A : t[m] \in Nat /\ w[m] = t[m] /\ w[m] < w[n]

(* It comes last. *)
LEMMA LaterOnTop ==
  ASSUME NEW A, NEW t, NEW w, NEW n, LaterThan(A, t, w, n)
  PROVE  StackOf(A \cup {n}, w) = Append(StackOf(A, t), n) /\ \E S : StackOf(A, t) \in Seq(S)
<1>1. /\ IsFiniteSet(A) /\ n \notin A /\ w[n] \in Nat
      /\ \A m \in A : t[m] \in Nat /\ w[m] = t[m] /\ w[m] < w[n]
  BY DEF LaterThan
<1>2. StackOf(A \cup {n}, w) = Append(StackOf(A, t), n)
  BY <1>1, StackGrows
<1>3. \E S : StackOf(A, t) \in Seq(S)
  BY <1>1, StackIsSeq
<1> QED
  BY <1>2, <1>3

(* What is in force later on. *)
LEMMA InForceNext == InForce' = StackOf(Applied', Times')
<1>1. (InForce = StackOf(Applied, Times))'
  BY InForceIs, PTL
<1>2. StackOf(Applied, Times)' = StackOf(Applied', Times')
  BY DEF StackOf, PlacedAt, PlaceIn
<1> QED
  BY <1>1, <1>2

(* What is carried out comes on top. *)
LEMMA InForceGrows ==
  ASSUME RowsInv, NEW n \in Numbers, adjustments[n].status = "APPROVED",
         NEW r, Rewritten(adjustments, adjustments', n, r),
         r.status = "APPLIED", r.change = adjustments[n].change, r.at = order.version + 1
  PROVE  InForce' = Append(InForce, n) /\ \E S : InForce \in Seq(S)
<1>0. RowsTyped /\ InTime /\ adjustments \in Seq(Adjustments) /\ order.version \in Nat
  BY DEF RowsInv, RowsTyped, Orders
<1>1. Applied' = Applied \cup {n} /\ n \notin Applied /\ Numbers' = Numbers
  BY BooksGrow
<1>2. adjustments'[n] = r /\ \A m \in Numbers : m # n => adjustments'[m] = adjustments[m]
  BY DEF Rewritten, Numbers
<1>3. \A m \in Applied : /\ m \in Numbers /\ m # n /\ adjustments[m].at \in Nat
                         /\ adjustments[m].at <= order.version
  <2>1. \A m \in Applied : m \in Numbers /\ m # n
    BY <1>1 DEF Applied
  <2> QED
    BY <1>0, <2>1, TypedParts DEF InTime
<1>4. PICK t, w : t = Times /\ w = Times'
  OBVIOUS
<1>5. \A m \in Applied : t[m] = adjustments[m].at /\ w[m] = adjustments[m].at
  BY <1>1, <1>2, <1>3, <1>4 DEF Times
<1>6. w[n] = order.version + 1
  BY <1>1, <1>2, <1>4 DEF Times
<1>7. w[n] \in Nat /\ \A m \in Applied : t[m] \in Nat /\ w[m] = t[m] /\ w[m] < w[n]
  BY <1>0, <1>3, <1>5, <1>6
<1>8. PICK A : A = Applied
  OBVIOUS
<1>9. IsFiniteSet(A) /\ n \notin A /\ \A m \in A : t[m] \in Nat /\ w[m] = t[m] /\ w[m] < w[n]
  BY <1>0, <1>1, <1>7, <1>8, AppliedFinite
<1>10. StackOf(A \cup {n}, w) = Append(StackOf(A, t), n) /\ \E S : StackOf(A, t) \in Seq(S)
  <2>1. LaterThan(A, t, w, n)
    BY <1>7, <1>9 DEF LaterThan
  <2> QED
    BY <2>1, LaterOnTop
<1>11. InForce' = StackOf(Applied', Times')
  BY InForceNext
<1> QED
  BY <1>1, <1>4, <1>8, <1>10, <1>11, InForceIs

(* What is reversed was on top. *)
LEMMA InForcePops ==
  ASSUME RowsInv, NEW n \in Numbers, adjustments[n].status = "APPLIED", Latest(n),
         NEW r, Rewritten(adjustments, adjustments', n, r),
         r.status = "REVERSED", r.change = adjustments[n].change, r.at = adjustments[n].at
  PROVE  InForce = Append(InForce', n) /\ \E S : InForce' \in Seq(S)
<1>0. RowsTyped /\ InTime /\ adjustments \in Seq(Adjustments)
  BY DEF RowsInv, RowsTyped
<1>1. Applied' = Applied \ {n} /\ n \in Applied /\ Numbers' = Numbers /\ adjustments' \in Seq(Adjustments)
  BY BooksShrink
<1>2. adjustments'[n] = r /\ \A m \in Numbers : m # n => adjustments'[m] = adjustments[m]
  BY DEF Rewritten, Numbers
<1>3. \A m \in Applied' : /\ m \in Numbers /\ m # n /\ adjustments[m].at \in Nat
                          /\ adjustments[m].at < adjustments[n].at
  <2>1. \A m \in Applied' : m \in Numbers /\ m # n /\ adjustments[m].status = "APPLIED"
    BY <1>1 DEF Applied
  <2> QED
    BY <1>0, <2>1, TypedParts DEF Latest
<1>4. PICK t, w : t = Times' /\ w = Times
  OBVIOUS
<1>5. \A m \in Applied' : t[m] = adjustments[m].at /\ w[m] = adjustments[m].at
  BY <1>1, <1>2, <1>3, <1>4 DEF Times
<1>6. w[n] = adjustments[n].at /\ adjustments[n].at \in Nat
  BY <1>0, <1>4, TypedParts DEF Times
<1>7. w[n] \in Nat /\ \A m \in Applied' : t[m] \in Nat /\ w[m] = t[m] /\ w[m] < w[n]
  BY <1>3, <1>5, <1>6
<1>8. PICK A : A = Applied'
  OBVIOUS
<1>a. IsFiniteSet(Applied')
  <2>1. IsFiniteSet(Applied)
    BY <1>0, AppliedFinite
  <2>2. PICK T, U : T = Applied /\ U = Applied'
    OBVIOUS
  <2>3. U \in SUBSET T
    BY <1>1, <2>2
  <2> QED
    BY <2>1, <2>2, <2>3, FS_Subset
<1>9. IsFiniteSet(A) /\ n \notin A /\ \A m \in A : t[m] \in Nat /\ w[m] = t[m] /\ w[m] < w[n]
  BY <1>1, <1>7, <1>8, <1>a
<1>10. StackOf(A \cup {n}, w) = Append(StackOf(A, t), n) /\ \E S : StackOf(A, t) \in Seq(S)
  <2>1. LaterThan(A, t, w, n)
    BY <1>7, <1>9 DEF LaterThan
  <2> QED
    BY <2>1, LaterOnTop
<1>11. InForce' = StackOf(Applied', Times')
  BY InForceNext
<1>12. Applied = A \cup {n}
  BY <1>1, <1>8
<1> QED
  BY <1>4, <1>8, <1>10, <1>11, <1>12, InForceIs

(* What is in force stays while nothing is applied or reversed. *)
LEMMA InForceStays ==
  ASSUME Applied' = Applied, \A n \in Applied : adjustments'[n].at = adjustments[n].at
  PROVE  InForce' = InForce
<1>1. \A n \in Applied : Rank(n)' = Rank(n)
  <2> TAKE n \in Applied
  <2>1. {m \in Applied' : adjustments'[m].at <= adjustments'[n].at} =
          {m \in Applied : adjustments[m].at <= adjustments[n].at}
    OBVIOUS
  <2> QED
    BY <2>1 DEF Rank
<1>2. \A k : Ranked(k)' = Ranked(k)
  BY <1>1 DEF Ranked
<1> QED
  BY <1>2 DEF InForce

-----------------------------------------------------------------------------
(* The requests as the stack sees them. *)

RequestsOf(qs) == [n \in DOMAIN qs |-> Request(qs[n])]

(* A request, its stage and who agreed to it. *)
Asked(by, change, stage, agreedBy) ==
  [by |-> by, change |-> change, stage |-> stage, agreedBy |-> agreedBy]

(* What its author sees of a request. *)
LEMMA RequestIs ==
  ASSUME NEW a, NEW s \in Statuses, NEW u, NEW t
  PROVE  Request(RequestAs(a, s, u, t)) =
           Asked(a.by, a.change, StageOf[s], IF s = "REJECTED" THEN "nobody" ELSE u)
BY DEF Request, RequestAs, Asked

(* A request is the record of its fields. *)
LEMMA RequestWhole ==
  ASSUME NEW a \in Adjustments
  PROVE  a = RequestAs(a, a.status, a.reviewer, a.at)
BY DEF Adjustments, RequestAs

(* The stages of the statuses. *)
LEMMA Stages ==
  /\ StageOf["SUBMITTED"] = "waiting" /\ StageOf["APPROVED"] = "agreed"
  /\ StageOf["REJECTED"] = "dropped" /\ StageOf["CANCELLED"] = "dropped"
  /\ StageOf["APPLIED"] = "done" /\ StageOf["REVERSED"] = "undone"
  /\ \A s \in Statuses : StageOf[s] = "waiting" => s = "SUBMITTED"
BY DEF StageOf, Statuses

(* A request moves to another stage. *)
LEMMA Restaged ==
  ASSUME NEW by, NEW c, NEW s, NEW g, NEW x, NEW y
  PROVE  /\ [Asked(by, c, s, g) EXCEPT !.stage = x] = Asked(by, c, x, g)
         /\ [Asked(by, c, s, g) EXCEPT !.agreedBy = y] = Asked(by, c, s, y)
         /\ Asked(by, c, s, g).by = by /\ Asked(by, c, s, g).change = c
         /\ Asked(by, c, s, g).stage = s /\ Asked(by, c, s, g).agreedBy = g
BY DEF Asked

(* Writing one request writes it for its author too. *)
LEMMA RequestsRewritten ==
  ASSUME NEW qs, NEW ts, NEW n, NEW r, n \in DOMAIN qs, Rewritten(qs, ts, n, r)
  PROVE  RequestsOf(ts) = [RequestsOf(qs) EXCEPT ![n] = Request(r)]
<1>1. DOMAIN ts = DOMAIN qs /\ ts[n] = r /\ \A m \in DOMAIN qs : m # n => ts[m] = qs[m]
  BY DEF Rewritten
<1> QED
  BY <1>1 DEF RequestsOf

-----------------------------------------------------------------------------
(* The desk implements the stack. *)

(* The requests and the quantity as the stack sees them. *)
Seen == RequestsOf(adjustments)

(* Nothing happens to the stack. *)
StackStays == UNCHANGED <<InForce, Fulfillable(line)>>

(* The quantity of the line is that of the changes in force. *)
LEMMA Quantity ==
  RowsInv => /\ Fulfillable(line) = Ordered + Added - Taken /\ Fulfillable(line) \in Nat
             /\ Added \in Nat /\ Taken \in Nat /\ Ordered \in Nat
<1> SUFFICES ASSUME RowsInv
             PROVE  /\ Fulfillable(line) = Ordered + Added - Taken /\ Fulfillable(line) \in Nat
                    /\ Added \in Nat /\ Taken \in Nat /\ Ordered \in Nat
  OBVIOUS
<1>1. RowsTyped /\ LinesMatchApplied
  BY DEF RowsInv
<1> QED
  BY <1>1, TotalFulfillable, LineFigures, TypedParts DEF LinesMatchApplied

(* The same once a step is taken. *)
LEMMA QuantityNext ==
  RowsInv' => /\ Fulfillable(line') = Ordered + Added' - Taken' /\ Fulfillable(line') \in Nat
              /\ Added' \in Nat /\ Taken' \in Nat
<1>1. RowsInv' => (/\ Fulfillable(line) = Ordered + Added - Taken /\ Fulfillable(line) \in Nat
                   /\ Added \in Nat /\ Taken \in Nat /\ Ordered \in Nat)'
  BY Quantity, PTL
<1> QED
  BY <1>1

(* What its author sees of request n. *)
LEMMA SeenRequest ==
  ASSUME RowsInv, NEW n \in Numbers
  PROVE  /\ DOMAIN Seen = Numbers
         /\ Seen[n] = Asked(adjustments[n].by, adjustments[n].change, StageOf[adjustments[n].status],
                            IF adjustments[n].status = "REJECTED" THEN "nobody" ELSE adjustments[n].reviewer)
         /\ Seen[n].stage = StageOf[adjustments[n].status] /\ adjustments[n].status \in Statuses
         /\ Seen[n].by = adjustments[n].by /\ Seen[n].change = adjustments[n].change
<1>1. adjustments[n] \in Adjustments
  BY TypedParts DEF RowsInv
<1>2. PICK a : a = adjustments[n]
  OBVIOUS
<1>3. a \in Adjustments
  BY <1>1, <1>2
<1>4. a = RequestAs(a, a.status, a.reviewer, a.at) /\ a.status \in Statuses
  BY <1>3, RequestWhole, RequestFields
<1>5. Request(RequestAs(a, a.status, a.reviewer, a.at)) =
        Asked(a.by, a.change, StageOf[a.status], IF a.status = "REJECTED" THEN "nobody" ELSE a.reviewer)
  BY <1>4, RequestIs
<1>6. DOMAIN Seen = Numbers /\ Seen[n] = Request(adjustments[n])
  BY DEF Seen, RequestsOf, Numbers
<1>7. PICK b : b = IF a.status = "REJECTED" THEN "nobody" ELSE a.reviewer
  OBVIOUS
<1>8. Seen[n] = Asked(a.by, a.change, StageOf[a.status], b)
  BY <1>2, <1>4, <1>5, <1>6, <1>7
<1>9. /\ Seen[n].stage = StageOf[a.status] /\ Seen[n].by = a.by /\ Seen[n].change = a.change
  BY <1>8, Restaged
<1> QED
  BY <1>2, <1>4, <1>6, <1>7, <1>8, <1>9

(* Request n of f shows as these fields; it is put in another stage, agreed to,
   replaced. *)
ShowsAs(f, n, by, c, s, g) == n \in DOMAIN f /\ f[n] = Asked(by, c, s, g)

Restage(f, n, x) == [f EXCEPT ![n].stage = x]

Agreement(f, n, x, u) == [f EXCEPT ![n].stage = x, ![n].agreedBy = u]

Replaced(f, n, a) == [f EXCEPT ![n] = a]

(* A step that rewrites request n rewrites what its author sees of it. *)
LEMMA SeenRewritten ==
  ASSUME RowsInv, NEW n \in Numbers, NEW s \in Statuses, NEW v, NEW t,
         Rewritten(adjustments, adjustments', n, RequestAs(adjustments[n], s, v, t))
  PROVE  Seen' = Replaced(Seen, n, Asked(adjustments[n].by, adjustments[n].change, StageOf[s],
                                         IF s = "REJECTED" THEN "nobody" ELSE v))
<1>1. PICK a, r : a = adjustments[n] /\ r = RequestAs(a, s, v, t)
  OBVIOUS
<1>2. Request(r) = Asked(a.by, a.change, StageOf[s], IF s = "REJECTED" THEN "nobody" ELSE v)
  BY <1>1, RequestIs
<1>3. /\ adjustments \in Seq(Adjustments) /\ n \in DOMAIN adjustments
      /\ Rewritten(adjustments, adjustments', n, r)
  BY <1>1 DEF RowsInv, RowsTyped, Numbers
<1>4. RequestsOf(adjustments') = [RequestsOf(adjustments) EXCEPT ![n] = Request(r)]
  <2>1. PICK qs, ts : qs = adjustments /\ ts = adjustments'
    OBVIOUS
  <2>2. qs \in Seq(Adjustments) /\ n \in DOMAIN qs /\ Rewritten(qs, ts, n, r)
    BY <1>3, <2>1
  <2>3. RequestsOf(ts) = [RequestsOf(qs) EXCEPT ![n] = Request(r)]
    BY <2>2, RequestsRewritten
  <2> QED
    BY <2>1, <2>3
<1> QED
  BY <1>1, <1>2, <1>4 DEF Seen, Replaced

(* A request that is put in another stage, or agreed to, is replaced by other fields. *)
LEMMA FieldsRewritten ==
  ASSUME NEW f, NEW n, NEW by, NEW c, NEW s, NEW g, NEW x, NEW u, ShowsAs(f, n, by, c, s, g)
  PROVE  /\ Restage(f, n, x) = Replaced(f, n, Asked(by, c, x, g))
         /\ Agreement(f, n, x, u) = Replaced(f, n, Asked(by, c, x, u))
<1>0. n \in DOMAIN f /\ f[n] = Asked(by, c, s, g)
  BY DEF ShowsAs
<1>1. [f[n] EXCEPT !.stage = x] = Asked(by, c, x, g)
  BY <1>0, Restaged
<1>2. Restage(f, n, x) = Replaced(f, n, Asked(by, c, x, g))
  BY <1>0, <1>1 DEF Restage, Replaced
<1>3. PICK h : h = Replaced(f, n, Asked(by, c, x, g))
  OBVIOUS
<1>4. h[n] = Asked(by, c, x, g) /\ n \in DOMAIN h
  BY <1>0, <1>3 DEF Replaced
<1>5. [h[n] EXCEPT !.agreedBy = u] = Asked(by, c, x, u)
  BY <1>4, Restaged
<1>6. [h EXCEPT ![n].agreedBy = u] = Replaced(f, n, Asked(by, c, x, u))
  BY <1>3, <1>4, <1>5 DEF Replaced
<1>7. Agreement(f, n, x, u) = [h EXCEPT ![n].agreedBy = u]
  BY <1>2, <1>3 DEF Agreement, Restage
<1> QED
  BY <1>2, <1>6, <1>7

(* A decision about a request that waits leaves the stack. *)
LEMMA DecisionLeaves ==
  ASSUME RowsInv, NEW n \in Numbers, adjustments[n].status = "SUBMITTED",
         NEW s \in {"APPROVED", "REJECTED", "CANCELLED"}, NEW v,
         Rewritten(adjustments, adjustments', n, RequestAs(adjustments[n], s, v, adjustments[n].at)),
         line' = line
  PROVE  StackStays
<1>1. PICK r : r = RequestAs(adjustments[n], s, v, adjustments[n].at)
  OBVIOUS
<1>2. r.status = s
  BY <1>1 DEF RequestAs
<1>3. /\ Numbers' = Numbers /\ adjustments'[n] = r
      /\ \A m \in Numbers : m # n => adjustments'[m] = adjustments[m]
  BY <1>1 DEF Rewritten, Numbers
<1>4. Applied' = Applied /\ n \notin Applied
  BY <1>2, <1>3 DEF Applied
<1>5. \A m \in Applied : adjustments'[m].at = adjustments[m].at
  BY <1>3, <1>4 DEF Applied
<1>6. InForce' = InForce
  BY <1>4, <1>5, InForceStays
<1> QED
  BY <1>6 DEF StackStays, Fulfillable

(* What the handlers of a decision write. *)
LEMMA DecisionWrites ==
  ASSUME RowsInv, NEW n \in Numbers, NEW s \in Statuses, NEW v \in Staff \cup {"nobody"},
         adjustments' = [adjustments EXCEPT ![n].status = s, ![n].reviewer = v]
  PROVE  Rewritten(adjustments, adjustments', n, RequestAs(adjustments[n], s, v, adjustments[n].at))
<1>1. adjustments \in Seq(Adjustments) /\ n \in DOMAIN adjustments
  BY DEF RowsInv, RowsTyped, Numbers
<1> QED
  BY <1>1, Writes

(* A request that is rejected or withdrawn is dropped. *)
LEMMA DismissDrops ==
  ASSUME RowsInv, NEW n \in Numbers, NEW s \in {"REJECTED", "CANCELLED"},
         NEW v \in Staff \cup {"nobody"}, s = "CANCELLED" => v = "nobody", Dismiss(n, s, v)
  PROVE  /\ DOMAIN Seen = Numbers /\ Seen[n].stage = "waiting"
         /\ Seen' = Restage(Seen, n, "dropped") /\ StackStays
<1>1. /\ adjustments[n].status = "SUBMITTED" /\ line' = line
      /\ adjustments' = [adjustments EXCEPT ![n].status = s, ![n].reviewer = v]
  BY DEF Dismiss
<1>2. s \in Statuses /\ s \in {"APPROVED", "REJECTED", "CANCELLED"}
  BY DEF Statuses
<1>3. Rewritten(adjustments, adjustments', n, RequestAs(adjustments[n], s, v, adjustments[n].at))
  BY <1>1, <1>2, DecisionWrites
<1>4. adjustments[n].reviewer = "nobody"
  BY <1>1 DEF RowsInv, Unreviewed
<1>5. PICK by, c : by = adjustments[n].by /\ c = adjustments[n].change
  OBVIOUS
<1>6. DOMAIN Seen = Numbers /\ Seen[n] = Asked(by, c, "waiting", "nobody") /\ Seen[n].stage = "waiting"
  BY <1>1, <1>4, <1>5, SeenRequest, Stages
<1>7. StageOf[s] = "dropped" /\ (IF s = "REJECTED" THEN "nobody" ELSE v) = "nobody"
  BY Stages
<1>8. Seen' = Replaced(Seen, n, Asked(by, c, "dropped", "nobody"))
  <2>1. Seen' = Replaced(Seen, n, Asked(adjustments[n].by, adjustments[n].change, StageOf[s],
                                     IF s = "REJECTED" THEN "nobody" ELSE v))
    BY <1>2, <1>3, SeenRewritten
  <2> QED
    BY <1>5, <1>7, <2>1
<1>9. Restage(Seen, n, "dropped") = Replaced(Seen, n, Asked(by, c, "dropped", "nobody"))
  <2>1. ShowsAs(Seen, n, by, c, "waiting", "nobody")
    BY <1>6 DEF ShowsAs
  <2> QED
    BY <2>1, FieldsRewritten
<1>10. StackStays
  BY <1>1, <1>2, <1>3, DecisionLeaves
<1> QED
  BY <1>6, <1>8, <1>9, <1>10

(* A request that is approved is agreed to. *)
LEMMA ApprovalAgrees ==
  ASSUME RowsInv, NEW n \in Numbers, NEW u \in Staff, NEW ack, ApproveAdjustment(u, n, ack)
  PROVE  /\ DOMAIN Seen = Numbers /\ Seen[n].stage = "waiting" /\ MayDecide(u, Seen[n].by)
         /\ Seen' = Agreement(Seen, n, "agreed", u) /\ StackStays
<1>1. /\ adjustments[n].status = "SUBMITTED" /\ line' = line /\ MayDecide(u, adjustments[n].by)
      /\ adjustments' = [adjustments EXCEPT ![n].status = "APPROVED", ![n].reviewer = u]
  BY DEF ApproveAdjustment
<1>2. /\ "APPROVED" \in Statuses /\ "APPROVED" \in {"APPROVED", "REJECTED", "CANCELLED"}
      /\ u \in Staff \cup {"nobody"}
  BY DEF Statuses
<1>3. Rewritten(adjustments, adjustments', n, RequestAs(adjustments[n], "APPROVED", u, adjustments[n].at))
  BY <1>1, <1>2, DecisionWrites
<1>4. adjustments[n].reviewer = "nobody"
  BY <1>1 DEF RowsInv, Unreviewed
<1>5. PICK by, c : by = adjustments[n].by /\ c = adjustments[n].change
  OBVIOUS
<1>6. /\ DOMAIN Seen = Numbers /\ Seen[n] = Asked(by, c, "waiting", "nobody")
      /\ Seen[n].stage = "waiting" /\ Seen[n].by = by
  BY <1>1, <1>4, <1>5, SeenRequest, Stages
<1>7. StageOf["APPROVED"] = "agreed" /\ (IF "APPROVED" = "REJECTED" THEN "nobody" ELSE u) = u
  BY Stages
<1>8. Seen' = Replaced(Seen, n, Asked(by, c, "agreed", u))
  <2>1. PICK s : s = "APPROVED"
    OBVIOUS
  <2>2. s \in Statuses /\ Rewritten(adjustments, adjustments', n, RequestAs(adjustments[n], s, u, adjustments[n].at))
    BY <1>2, <1>3, <2>1
  <2>3. Seen' = Replaced(Seen, n, Asked(adjustments[n].by, adjustments[n].change, StageOf[s],
                                     IF s = "REJECTED" THEN "nobody" ELSE u))
    BY <2>2, SeenRewritten
  <2> QED
    BY <1>5, <1>7, <2>1, <2>3
<1>9. Agreement(Seen, n, "agreed", u) = Replaced(Seen, n, Asked(by, c, "agreed", u))
  <2>1. ShowsAs(Seen, n, by, c, "waiting", "nobody")
    BY <1>6 DEF ShowsAs
  <2> QED
    BY <2>1, FieldsRewritten
<1>10. StackStays
  BY <1>1, <1>2, <1>3, DecisionLeaves
<1> QED
  BY <1>1, <1>5, <1>6, <1>8, <1>9, <1>10

(* A request that is applied is carried out. *)
LEMMA ApplicationCarriesOut ==
  ASSUME RowsInv, NEW n \in Numbers, ApplyAdjustment(n)
  PROVE  /\ DOMAIN Seen = Numbers /\ Seen[n].stage = "agreed"
         /\ Fulfillable(line) + Seen[n].change >= 0
         /\ Seen' = Restage(Seen, n, "done") /\ InForce' = Append(InForce, n)
         /\ Fulfillable(line') = Fulfillable(line) + Seen[n].change
<1>1. PICK r : /\ Rewritten(adjustments, adjustments', n, r) /\ r.status = "APPLIED"
               /\ r = RequestAs(adjustments[n], "APPLIED", adjustments[n].reviewer, order.version + 1)
               /\ r.change = adjustments[n].change /\ r.at = order.version + 1
  BY ApplySteps
<1>2. adjustments[n].status = "APPROVED"
  BY ApplySteps
<1>3. InForce' = Append(InForce, n)
  BY <1>1, <1>2, InForceGrows
<1>4. Added' = Added + Increase(n) /\ Taken' = Taken + Reduction(n)
  BY <1>1, <1>2, BooksGrow
<1>5. RowsInv'
  BY ApplyKeeps
<1>6. PICK by, c, g : by = adjustments[n].by /\ c = adjustments[n].change /\ g = adjustments[n].reviewer
  OBVIOUS
<1>7. /\ c \in Int
      /\ c > 0 => Increase(n) = c /\ Reduction(n) = 0
      /\ ~ c > 0 => Increase(n) = 0 /\ Reduction(n) = -c
  BY <1>6, ChangeFigures DEF RowsInv
<1>8. /\ Fulfillable(line) = Ordered + Added - Taken /\ Added \in Nat /\ Taken \in Nat /\ Ordered \in Nat
      /\ Fulfillable(line') = Ordered + Added' - Taken' /\ Fulfillable(line') \in Nat
  BY <1>5, Quantity, QuantityNext
<1>9. Fulfillable(line') = Fulfillable(line) + c
  BY <1>4, <1>7, <1>8
<1>10. Fulfillable(line) + c >= 0
  BY <1>8, <1>9
<1>11. /\ DOMAIN Seen = Numbers /\ Seen[n] = Asked(by, c, "agreed", g)
       /\ Seen[n].stage = "agreed" /\ Seen[n].change = c
  BY <1>2, <1>6, SeenRequest, Stages
<1>12. Seen' = Replaced(Seen, n, Asked(by, c, "done", g))
  <2>1. PICK s, t : s = "APPLIED" /\ t = order.version + 1
    OBVIOUS
  <2>2. s \in Statuses /\ Rewritten(adjustments, adjustments', n, RequestAs(adjustments[n], s, g, t))
    BY <1>1, <1>6, <2>1 DEF Statuses
  <2>3. Seen' = Replaced(Seen, n, Asked(adjustments[n].by, adjustments[n].change, StageOf[s],
                                        IF s = "REJECTED" THEN "nobody" ELSE g))
    BY <2>2, SeenRewritten
  <2>4. StageOf[s] = "done" /\ s # "REJECTED"
    BY <2>1, Stages
  <2> QED
    BY <1>6, <2>3, <2>4
<1>13. Restage(Seen, n, "done") = Replaced(Seen, n, Asked(by, c, "done", g))
  <2>1. ShowsAs(Seen, n, by, c, "agreed", g)
    BY <1>11 DEF ShowsAs
  <2> QED
    BY <2>1, FieldsRewritten
<1> QED
  BY <1>3, <1>9, <1>10, <1>11, <1>12, <1>13

(* An adjustment that is reversed is undone: it was on top of the stack. *)
LEMMA ReversalUndoes ==
  ASSUME RowsInv, NEW n \in Numbers, NEW u, ReverseAdjustment(u, n)
  PROVE  /\ InForce # <<>> /\ InForce[Len(InForce)] = n
         /\ InForce' = SubSeq(InForce, 1, Len(InForce) - 1)
         /\ MayDecide(u, Seen[n].by) /\ Seen' = Restage(Seen, n, "undone")
         /\ Fulfillable(line') = Fulfillable(line) - Seen[n].change
<1>1. PICK r : /\ Rewritten(adjustments, adjustments', n, r) /\ r.status = "REVERSED"
               /\ r = RequestAs(adjustments[n], "REVERSED", adjustments[n].reviewer, adjustments[n].at)
               /\ r.change = adjustments[n].change /\ r.at = adjustments[n].at
  BY ReverseSteps
<1>2. adjustments[n].status = "APPLIED" /\ Latest(n) /\ MayDecide(u, adjustments[n].by)
  BY ReverseSteps
<1>3. PICK s, S : s = InForce' /\ InForce = Append(s, n) /\ s \in Seq(S)
  BY <1>1, <1>2, InForcePops
<1>4. /\ InForce # <<>> /\ InForce[Len(InForce)] = n
      /\ InForce' = SubSeq(InForce, 1, Len(InForce) - 1)
  BY <1>3, StackPops
<1>5. Added' = Added - Increase(n) /\ Taken' = Taken - Reduction(n)
  BY <1>1, <1>2, BooksShrink
<1>6. RowsInv'
  BY ReverseKeeps
<1>7. PICK by, c, g : by = adjustments[n].by /\ c = adjustments[n].change /\ g = adjustments[n].reviewer
  OBVIOUS
<1>8. /\ c \in Int
      /\ c > 0 => Increase(n) = c /\ Reduction(n) = 0
      /\ ~ c > 0 => Increase(n) = 0 /\ Reduction(n) = -c
  BY <1>7, ChangeFigures DEF RowsInv
<1>9. /\ Fulfillable(line) = Ordered + Added - Taken /\ Added \in Nat /\ Taken \in Nat /\ Ordered \in Nat
      /\ Fulfillable(line') = Ordered + Added' - Taken'
  BY <1>6, Quantity, QuantityNext
<1>10. Fulfillable(line') = Fulfillable(line) - c
  BY <1>5, <1>8, <1>9
<1>11. /\ DOMAIN Seen = Numbers /\ Seen[n] = Asked(by, c, "done", g)
       /\ Seen[n].change = c /\ Seen[n].by = by
  BY <1>2, <1>7, SeenRequest, Stages
<1>12. Seen' = Replaced(Seen, n, Asked(by, c, "undone", g))
  <2>1. PICK x, t : x = "REVERSED" /\ t = adjustments[n].at
    OBVIOUS
  <2>2. x \in Statuses /\ Rewritten(adjustments, adjustments', n, RequestAs(adjustments[n], x, g, t))
    BY <1>1, <1>7, <2>1 DEF Statuses
  <2>3. Seen' = Replaced(Seen, n, Asked(adjustments[n].by, adjustments[n].change, StageOf[x],
                                        IF x = "REJECTED" THEN "nobody" ELSE g))
    BY <2>2, SeenRewritten
  <2>4. StageOf[x] = "undone" /\ x # "REJECTED"
    BY <2>1, Stages
  <2> QED
    BY <1>7, <2>3, <2>4
<1>13. Restage(Seen, n, "undone") = Replaced(Seen, n, Asked(by, c, "undone", g))
  <2>1. ShowsAs(Seen, n, by, c, "done", g)
    BY <1>11 DEF ShowsAs
  <2> QED
    BY <2>1, FieldsRewritten
<1> QED
  BY <1>2, <1>4, <1>7, <1>10, <1>11, <1>12, <1>13

(* A request that is made waits, and no other does. *)
LEMMA RequestAsks ==
  ASSUME RowsInv, NEW u \in Staff, NEW change \in Changes, CreateRequest(u, change)
  PROVE  /\ DOMAIN Seen = Numbers /\ \A n \in Numbers : Seen[n].stage # "waiting"
         /\ Seen' = Append(Seen, Asked(u, change, "waiting", "nobody")) /\ StackStays
<1>1. PICK r : r = [change |-> change, affected |-> Max0(-change - Unallocated), status |-> "SUBMITTED",
                    version |-> order.version, by |-> u, reviewer |-> "nobody", at |-> 0]
  OBVIOUS
<1>2. adjustments' = Append(adjustments, r) /\ Waiting = {} /\ line' = line
  BY <1>1 DEF CreateRequest
<1>3. Request(r) = Asked(u, change, "waiting", "nobody") /\ r.status = "SUBMITTED"
  BY <1>1, Stages DEF Request, Asked
<1>4. PICK R : R = Adjustments \cup {r}
  OBVIOUS
<1>5. adjustments \in Seq(R) /\ r \in R
  BY <1>4 DEF RowsInv, RowsTyped
<1>6. PICK qs, ts : qs = adjustments /\ ts = adjustments'
  OBVIOUS
<1>7. PICK k \in Nat : k = Len(qs)
  BY <1>5, <1>6, LenProperties
<1>8. /\ ts = Append(qs, r) /\ ts \in Seq(R) /\ qs \in Seq(R) /\ Len(ts) = k + 1
      /\ \A i \in 1..k : ts[i] = qs[i]
      /\ \A i \in 1..(k + 1) : i > k => ts[i] = r
  BY <1>2, <1>5, <1>6, <1>7, Lengthened
<1>9. DOMAIN qs = 1..k /\ DOMAIN ts = 1..(k + 1) /\ Numbers = 1..k /\ Numbers' = 1..(k + 1)
  BY <1>6, <1>7, <1>8, LenProperties DEF Numbers
<1>10. RequestsOf(ts) = Append(RequestsOf(qs), Request(r))
  <2>1. PICK f, g, a : f = RequestsOf(qs) /\ g = RequestsOf(ts) /\ a = Request(r)
    OBVIOUS
  <2>2. /\ f = [i \in 1..k |-> f[i]] /\ \A i \in 1..k : f[i] = Request(qs[i])
        /\ g = [i \in 1..(k + 1) |-> g[i]] /\ \A i \in 1..(k + 1) : g[i] = Request(ts[i])
    BY <1>9, <2>1 DEF RequestsOf
  <2>3. PICK T : T = {f[i] : i \in 1..k} \cup {a}
    OBVIOUS
  <2>4. a \in T /\ \A i \in 1..k : f[i] \in T
    BY <2>3
  <2>5. f \in [1..k -> T]
    BY <2>2, <2>4
  <2>6. f \in Seq(T) /\ Len(f) = k
    BY <1>7, <2>2, <2>5
  <2>7. /\ Append(f, a) \in Seq(T) /\ Len(Append(f, a)) = k + 1
        /\ \A i \in 1..k : Append(f, a)[i] = f[i]
        /\ \A i \in 1..(k + 1) : i > k => Append(f, a)[i] = a
    BY <2>4, <2>6, Lengthened
  <2>8. \A i \in 1..(k + 1) : g[i] = Append(f, a)[i]
    <3> TAKE i \in 1..(k + 1)
    <3>1. CASE i \in 1..k
      BY <1>8, <2>2, <2>7, <3>1
    <3>2. CASE i > k
      BY <1>8, <2>1, <2>2, <2>7, <3>2
    <3>3. i \in 1..k \/ i > k
      BY <1>7
    <3> QED
      BY <3>1, <3>2, <3>3
  <2>9. Append(f, a) = [i \in 1..(k + 1) |-> Append(f, a)[i]]
    BY <2>7, LenProperties
  <2>10. g = Append(f, a)
    BY <2>2, <2>8, <2>9
  <2> QED
    BY <2>1, <2>10
<1>11. Seen' = Append(Seen, Asked(u, change, "waiting", "nobody"))
  BY <1>3, <1>6, <1>10 DEF Seen
<1>12. \A n \in Numbers : Seen[n].stage # "waiting"
  <2> TAKE n \in Numbers
  <2>1. adjustments[n].status # "SUBMITTED"
    BY <1>2 DEF Waiting
  <2>2. Seen[n].stage = StageOf[adjustments[n].status] /\ adjustments[n].status \in Statuses
    BY SeenRequest
  <2> QED
    BY <2>1, <2>2, Stages
<1>13. Applied' = Applied /\ \A n \in Applied : adjustments'[n].at = adjustments[n].at
  <2>1. \A n \in Numbers : n \in Numbers' /\ adjustments'[n] = adjustments[n]
    BY <1>6, <1>7, <1>8, <1>9
  <2>2. \A n \in Numbers' : n \notin Numbers => adjustments'[n] = r
    BY <1>6, <1>7, <1>8, <1>9
  <2> QED
    BY <1>3, <2>1, <2>2 DEF Applied
<1>14. StackStays
  BY <1>2, <1>13, InForceStays DEF StackStays, Fulfillable
<1> QED
  BY <1>11, <1>12, <1>14 DEF Seen, RequestsOf, Numbers

(* What else happens to the order changes neither the requests nor the stack. *)
LEMMA MovesLeave ==
  ASSUME UNCHANGED adjustments, line'.increased = line.increased, line'.cancelled = line.cancelled
  PROVE  Seen' = Seen /\ StackStays
<1>1. Applied' = Applied /\ \A n \in Applied : adjustments'[n].at = adjustments[n].at
  BY DEF Applied, Numbers
<1> QED
  BY <1>1, InForceStays DEF Seen, StackStays, Fulfillable

(* The moves of the order are such. *)
LEMMA OrderMovesLeave ==
  ASSUME RowsInv, OrderMoves
  PROVE  Seen' = Seen /\ StackStays
<1>0. line \in Lines
  BY DEF RowsInv, RowsTyped
<1>1. UNCHANGED adjustments /\ (line' = line \/ \E q : line' = [line EXCEPT !.reserved = q] \/ line' = [line EXCEPT !.picked = q])
  BY DEF OrderMoves, ApproveOrder, CancelOrder, PickOrder, PackOrder, Mark
<1>2. line'.increased = line.increased /\ line'.cancelled = line.cancelled
  BY <1>0, <1>1 DEF Lines
<1> QED
  BY <1>1, <1>2, MovesLeave

(* What the stack sees of the requests. *)
LEMMA SeenIs == [n \in Numbers |-> Request(adjustments[n])] = Seen
BY DEF Seen, RequestsOf, Numbers

LEMMA SeenNext == [n \in Numbers |-> Request(adjustments[n])]' = Seen'
BY DEF Seen, RequestsOf, Numbers

(* Every press of a button on the desk is a step of the stack. *)
LEMMA StaffKeepPromise ==
  ASSUME RowsInv, PagesSound, NEW u \in Staff, RequestAdjustment(u) \/ Withdraw(u) \/ Decide(u)
  PROVE  Promise!Next
<1>1. CASE RequestAdjustment(u)
  <2>1. PICK change \in Changes : CreateRequest(u, change)
    BY <1>1 DEF RequestAdjustment
  <2>2. /\ DOMAIN Seen = Numbers /\ \A n \in Numbers : Seen[n].stage # "waiting"
        /\ Seen' = Append(Seen, Asked(u, change, "waiting", "nobody")) /\ StackStays
    BY <2>1, RequestAsks
  <2>3. Promise!Ask
    <3>1. \A n \in DOMAIN Seen : ~ (Seen[n].stage = "waiting")
      BY <2>2
    <3>2. Seen' = Append(Seen, [by |-> u, change |-> change, stage |-> "waiting", agreedBy |-> "nobody"])
      BY <2>2 DEF Asked
    <3>3. \E v \in Staff, c \in Changes :
            Seen' = Append(Seen, [by |-> v, change |-> c, stage |-> "waiting", agreedBy |-> "nobody"])
      BY <3>2
    <3>4. UNCHANGED <<InForce, Fulfillable(line)>>
      BY <2>2 DEF StackStays
    <3> QED
      BY <3>1, <3>3, <3>4, SeenIs, SeenNext DEF Promise!Ask, Promise!Waiting, Promise!Nobody
  <2> QED
    BY <2>3 DEF Promise!Next
<1>2. CASE Withdraw(u)
  <2>1. PICK n, s, v : n = page[u].id /\ s = "CANCELLED" /\ v = "nobody"
    OBVIOUS
  <2>2. n \in Numbers /\ Dismiss(n, s, v)
    BY <1>2, <2>1 DEF Withdraw, Offered, PagesSound, Sound, WithdrawAdjustmentRequest
  <2>3. /\ DOMAIN Seen = Numbers /\ Seen[n].stage = "waiting"
        /\ Seen' = Restage(Seen, n, "dropped") /\ StackStays
    BY <2>1, <2>2, DismissDrops
  <2>4. Promise!Drop(n)
    BY <2>3, SeenIs, SeenNext DEF Promise!Drop, Promise!Waiting, Restage, StackStays
  <2> QED
    BY <2>2, <2>3, <2>4, SeenIs DEF Promise!Next
<1>3. CASE Decide(u)
  <2>1. PICK n \in Numbers :
          ApproveRequest(u, n) \/ RejectRequest(u, n) \/ ApplyRequest(u, n) \/ ReverseRequest(u, n)
    BY <1>3 DEF Decide
  <2>2. CASE ApproveRequest(u, n)
    <3>1. PICK ack : ApproveAdjustment(u, n, ack)
      BY <2>2 DEF ApproveRequest
    <3>2. /\ DOMAIN Seen = Numbers /\ Seen[n].stage = "waiting" /\ MayDecide(u, Seen[n].by)
          /\ Seen' = Agreement(Seen, n, "agreed", u) /\ StackStays
      BY <3>1, ApprovalAgrees
    <3>3. Promise!Agree(n)
      BY <3>2, SeenIs, SeenNext DEF Promise!Agree, Promise!Waiting, Promise!MayCheck, MayDecide,
                                    Agreement, StackStays
    <3> QED
      BY <3>2, <3>3, SeenIs DEF Promise!Next
  <2>3. CASE RejectRequest(u, n)
    <3>1. PICK s : s = "REJECTED"
      OBVIOUS
    <3>2. Dismiss(n, s, u)
      BY <2>3, <3>1 DEF RejectRequest, RejectAdjustment
    <3>3. /\ DOMAIN Seen = Numbers /\ Seen[n].stage = "waiting"
          /\ Seen' = Restage(Seen, n, "dropped") /\ StackStays
      BY <3>1, <3>2, DismissDrops
    <3>4. Promise!Drop(n)
      BY <3>3, SeenIs, SeenNext DEF Promise!Drop, Promise!Waiting, Restage, StackStays
    <3> QED
      BY <3>3, <3>4, SeenIs DEF Promise!Next
  <2>4. CASE ApplyRequest(u, n)
    <3>1. ApplyAdjustment(n)
      BY <2>4 DEF ApplyRequest
    <3>2. /\ DOMAIN Seen = Numbers /\ Seen[n].stage = "agreed"
          /\ Fulfillable(line) + Seen[n].change >= 0
          /\ Seen' = Restage(Seen, n, "done") /\ InForce' = Append(InForce, n)
          /\ Fulfillable(line') = Fulfillable(line) + Seen[n].change
      BY <3>1, ApplicationCarriesOut
    <3>3. Promise!CarryOut(n)
      BY <3>2, SeenIs, SeenNext DEF Promise!CarryOut, Restage
    <3> QED
      BY <3>2, <3>3, SeenIs DEF Promise!Next
  <2>5. CASE ReverseRequest(u, n)
    <3>1. ReverseAdjustment(u, n)
      BY <2>5 DEF ReverseRequest
    <3>2. /\ InForce # <<>> /\ InForce[Len(InForce)] = n
          /\ InForce' = SubSeq(InForce, 1, Len(InForce) - 1)
          /\ MayDecide(u, Seen[n].by) /\ Seen' = Restage(Seen, n, "undone")
          /\ Fulfillable(line') = Fulfillable(line) - Seen[n].change
      BY <3>1, ReversalUndoes
    <3>3. Promise!Undo
      BY <3>2, SeenIs, SeenNext DEF Promise!Undo, Promise!MayCheck, MayDecide, Restage
    <3> QED
      BY <3>3 DEF Promise!Next
  <2> QED
    BY <2>1, <2>2, <2>3, <2>4, <2>5
<1> QED
  BY <1>1, <1>2, <1>3

(* Every step of the desk is a step of the stack, or none. *)
LEMMA DeskKeepsPromise ==
  ASSUME RowsInv, PagesSound, [Next]_vars
  PROVE  Promise!Next \/ (Seen' = Seen /\ StackStays)
<1>1. CASE UNCHANGED vars
  <2>1. UNCHANGED adjustments /\ line' = line
    BY <1>1 DEF vars, rows
  <2> QED
    BY <2>1, MovesLeave
<1>2. CASE OrderMoves
  BY <1>2, OrderMovesLeave
<1>3. ASSUME NEW u \in Staff, OpenOrder(u) \/ OpenReview(u) PROVE Seen' = Seen /\ StackStays
  <2>1. UNCHANGED adjustments /\ line' = line
    BY <1>3 DEF OpenOrder, OpenReview, TurnTo, rows
  <2> QED
    BY <2>1, MovesLeave
<1>4. ASSUME NEW u \in Staff, RequestAdjustment(u) \/ Withdraw(u) \/ Decide(u) PROVE Promise!Next
  BY <1>4, StaffKeepPromise
<1> QED
  BY <1>1, <1>2, <1>3, <1>4 DEF Next

(* At first nothing is asked for and the quantity is what was ordered. *)
LEMMA PromiseBegins == Init => Promise!Init
<1> SUFFICES ASSUME Init PROVE Promise!Init
  OBVIOUS
<1>1. adjustments = <<>> /\ line.increased = 0 /\ line.cancelled = 0
  BY DEF Init, AdjustmentsInit
<1>2. Numbers = {} /\ Applied = {}
  BY <1>1 DEF Numbers, Applied
<1>3. [n \in Numbers |-> Request(adjustments[n])] = <<>>
  BY <1>2
<1>4. InForce = <<>>
  <2>1. Cardinality(Applied) = 0
    BY <1>2, FS_EmptySet
  <2>2. 1..0 = {}
    OBVIOUS
  <2> QED
    BY <2>1, <2>2 DEF InForce
<1>5. Fulfillable(line) = Ordered
  BY <1>1, AdjustmentsAssumption DEF Fulfillable, Max0
<1> QED
  BY <1>3, <1>4, <1>5 DEF Promise!Init

(* The desk implements AdjustmentStack: one request at a time waits for a decision,
   nobody carries out what its author alone agreed to, and adjustments are reversed
   last in, first out, so that the quantity is the original one and the changes in
   force, whatever the pages show and the warehouse does. *)
THEOREM DeskKeepsTheStack == Spec => ImplementsStack
<1>1. Init => Promise!Init
  BY PromiseBegins
<1>2. RowsInv /\ PagesSound /\ [Next]_vars =>
        [Promise!Next]_<<[n \in Numbers |-> Request(adjustments[n])], InForce, Fulfillable(line)>>
  <2> SUFFICES ASSUME RowsInv, PagesSound, [Next]_vars
      PROVE [Promise!Next]_<<[n \in Numbers |-> Request(adjustments[n])], InForce, Fulfillable(line)>>
    OBVIOUS
  <2>1. Promise!Next \/ (Seen' = Seen /\ StackStays)
    BY DeskKeepsPromise
  <2> QED
    BY <2>1, SeenIs, SeenNext DEF StackStays
<1> QED
  BY <1>1, <1>2, DeskAlwaysSound, PTL DEF Spec, ImplementsStack, Promise!Spec
====
