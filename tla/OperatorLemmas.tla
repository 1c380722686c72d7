--------------------------- MODULE OperatorLemmas ---------------------------
(***************************************************************************)
(* Lemmas about the operators that several modules are built from.         *)
(*                                                                         *)
(* Sums: SumFunctionOnSet of the library Functions, a fold over a finite   *)
(* set that takes its elements in an order of its own.  Sums of amounts    *)
(* are what the payment status, the ledgers and the stock figures are      *)
(* compared with.  The induction theorems of the library cannot be         *)
(* instantiated by the provers; the facts below are proved from a smallest *)
(* counterexample instead, which the well-foundedness of strict inclusion  *)
(* between the subsets of a finite set provides.                           *)
(*                                                                         *)
(* StockBalance: what the operations on one inventory_balances row return, *)
(* a row of natural numbers, and one that satisfies the CHECK constraints  *)
(* when the row they started from did.                                     *)
(***************************************************************************)
EXTENDS StockBalance, Functions, FiniteSetTheorems, TLAPS

-----------------------------------------------------------------------------
(* Sums over finite sets. *)

(* The element the library's fold takes from a set. *)
Pick(s) == CHOOSE x \in s : TRUE

(* g sums every subset of T. *)
IsSumming(g, f, T) ==
  g = [s \in SUBSET T |-> IF s = {} THEN 0 ELSE f[Pick(s)] + g[s \ {Pick(s)}]]

(* A family of subsets of a finite set has a smallest member: what the facts
   below use in the place of induction. *)
LEMMA SmallestSet ==
  ASSUME NEW S, IsFiniteSet(S), NEW Family, Family \subseteq SUBSET S, Family # {}
  PROVE  \E T \in Family : \A U \in Family : U \subseteq T => U = T
<1>1. IsWellFoundedOn(StrictSubsetOrdering(S), SUBSET S)
  BY FS_StrictSubsetOrderingWellFounded, FS_FiniteSubsetsOfFinite
<1>2. PICK T \in Family : \A U \in Family : ~ (<<U, T>> \in StrictSubsetOrdering(S))
  BY <1>1, WFMin
<1> QED
  BY <1>2 DEF StrictSubsetOrdering

(* The library's sum is the value at S of a function that sums subsets. *)
LEMMA SumUnfolds ==
  ASSUME NEW f, NEW S
  PROVE  SumFunctionOnSet(f, S) = (CHOOSE g : IsSumming(g, f, S))[S]
BY DEF SumFunctionOnSet, FoldFunctionOnSet, MapThenFoldSet, IsSumming, Pick

(* The element a sum begins with. *)
LEMMA PickIn ==
  ASSUME NEW s, s # {} PROVE Pick(s) \in s
BY DEF Pick

(* Functions that sum the subsets of S and of a part of it agree on the part. *)
LEMMA SummingUnique ==
  ASSUME NEW f, NEW S, IsFiniteSet(S), NEW T \in SUBSET S,
         NEW g, IsSumming(g, f, S), NEW h, IsSumming(h, f, T)
  PROVE  \A s \in SUBSET T : g[s] = h[s]
<1> DEFINE Bad == {s \in SUBSET T : g[s] # h[s]}
<1>1. SUFFICES ASSUME Bad # {} PROVE FALSE
  OBVIOUS
<1>2. IsFiniteSet(T)
  BY FS_Subset
<1>3. PICK s \in Bad : \A u \in Bad : u \subseteq s => u = s
  <2>1. Bad \subseteq SUBSET T
    OBVIOUS
  <2> HIDE DEF Bad
  <2> QED
    BY <1>1, <1>2, <2>1, SmallestSet
<1>4. s # {}
  BY <1>3 DEF IsSumming
<1>5. Pick(s) \in s
  BY <1>4, PickIn
<1>6. g[s \ {Pick(s)}] = h[s \ {Pick(s)}]
  BY <1>3, <1>5
<1>7. g[s] = f[Pick(s)] + g[s \ {Pick(s)}]
  BY <1>3, <1>4 DEF IsSumming
<1>8. h[s] = f[Pick(s)] + h[s \ {Pick(s)}]
  BY <1>3, <1>4 DEF IsSumming
<1> QED
  BY <1>3, <1>6, <1>7, <1>8

(* There is a function that sums the subsets of a finite set. *)
LEMMA SummingExists ==
  ASSUME NEW f, NEW S, IsFiniteSet(S)
  PROVE  \E g : IsSumming(g, f, S)
<1> DEFINE Bad == {s \in SUBSET S : ~ \E g : IsSumming(g, f, s)}
<1>1. SUFFICES ASSUME Bad # {} PROVE FALSE
  OBVIOUS
<1>2. PICK s \in Bad : \A u \in Bad : u \subseteq s => u = s
  <2>1. Bad \subseteq SUBSET S
    OBVIOUS
  <2> HIDE DEF Bad
  <2> QED
    BY <1>1, <2>1, SmallestSet
<1>3. \A u \in SUBSET s : u # s => \E g : IsSumming(g, f, u)
  BY <1>2
<1> DEFINE G(u) == CHOOSE g : IsSumming(g, f, u)
           V(u) == IF u = {} THEN 0 ELSE f[Pick(u)] + G(u \ {Pick(u)})[u \ {Pick(u)}]
           h == [u \in SUBSET s |-> V(u)]
<1>4. \A u \in SUBSET s : u # s => IsSumming(G(u), f, u)
  BY <1>3
<1>5. ASSUME NEW w \in SUBSET s, w # s
      PROVE  V(w) = G(w)[w]
  <2>1. IsSumming(G(w), f, w)
    BY <1>4, <1>5
  <2>2. CASE w = {}
    BY <2>1, <2>2 DEF IsSumming
  <2>3. CASE w # {}
    <3> DEFINE r == w \ {Pick(w)}
    <3>1. Pick(w) \in w
      BY <2>3, PickIn
    <3>2. IsSumming(G(r), f, r)
      BY <1>4, <3>1
    <3>3. IsFiniteSet(w)
      BY FS_Subset
    <3>4. G(w)[r] = G(r)[r]
      <4> HIDE DEF G
      <4>1. r \in SUBSET w
        OBVIOUS
      <4> HIDE DEF r
      <4>2. \A t \in SUBSET r : G(w)[t] = G(r)[t]
        BY <2>1, <3>2, <3>3, <4>1, SummingUnique
      <4> QED
        BY <4>2
    <3>5. G(w)[w] = f[Pick(w)] + G(w)[r]
      <4> HIDE DEF G
      <4> QED BY <2>1, <2>3 DEF IsSumming
    <3> HIDE DEF G
    <3> QED
      BY <2>3, <3>4, <3>5
  <2> QED
    BY <2>2, <2>3
<1>6. ASSUME NEW u \in SUBSET s
      PROVE  V(u) = IF u = {} THEN 0 ELSE f[Pick(u)] + h[u \ {Pick(u)}]
  <2>1. CASE u = {}
    BY <2>1
  <2>2. CASE u # {}
    <3>1. Pick(u) \in u
      BY <2>2, PickIn
    <3> DEFINE w == u \ {Pick(u)}
    <3>2. w \in SUBSET s /\ w # s
      BY <3>1
    <3>3. h[w] = V(w)
      BY <3>2
    <3>4. V(w) = G(w)[w]
      BY <1>5, <3>2
    <3>5. V(u) = f[Pick(u)] + G(w)[w]
      BY <2>2
    <3> HIDE DEF G, V, h
    <3> QED
      BY <2>2, <3>3, <3>4, <3>5
  <2> QED
    BY <2>1, <2>2
<1>7. IsSumming(h, f, s)
  <2>1. h = [u \in SUBSET s |-> IF u = {} THEN 0 ELSE f[Pick(u)] + h[u \ {Pick(u)}]]
    <3> HIDE DEF V
    <3> QED BY <1>6
  <2> HIDE DEF h
  <2> QED
    BY <2>1 DEF IsSumming
<1> QED
  BY <1>2, <1>7

-----------------------------------------------------------------------------
(* The sum over nothing is zero. *)
LEMMA SumEmpty ==
  ASSUME NEW f
  PROVE  SumFunctionOnSet(f, {}) = 0
<1> DEFINE g == CHOOSE h : IsSumming(h, f, {})
<1>1. IsSumming(g, f, {})
  BY SummingExists, FS_EmptySet
<1> HIDE DEF g
<1>2. g[{}] = 0
  BY <1>1 DEF IsSumming
<1> QED
  BY <1>2, SumUnfolds DEF g

(* One element of a sum can be taken out. *)
LEMMA SumStep ==
  ASSUME NEW f, NEW S, IsFiniteSet(S), S # {}
  PROVE  \E p \in S : SumFunctionOnSet(f, S) = f[p] + SumFunctionOnSet(f, S \ {p})
<1> DEFINE p == Pick(S)
           T == S \ {p}
           g == CHOOSE h : IsSumming(h, f, S)
           k == CHOOSE h : IsSumming(h, f, T)
<1>1. p \in S
  BY PickIn
<1>2. IsFiniteSet(T)
  BY FS_Subset
<1>3. IsSumming(g, f, S)
  BY SummingExists
<1>4. IsSumming(k, f, T)
  BY <1>2, SummingExists
<1>5. SumFunctionOnSet(f, S) = g[S] /\ SumFunctionOnSet(f, T) = k[T]
  BY SumUnfolds
<1>6. T \in SUBSET S
  OBVIOUS
<1> HIDE DEF g, k
<1>7. g[S] = f[p] + g[T]
  BY <1>3 DEF IsSumming
<1>8. g[T] = k[T]
  <2> HIDE DEF T
  <2> QED BY <1>3, <1>4, <1>6, SummingUnique
<1> QED
  BY <1>1, <1>5, <1>7, <1>8

(* A sum of integers is an integer. *)
LEMMA SumType ==
  ASSUME NEW f, NEW S, IsFiniteSet(S), \A x \in S : f[x] \in Int
  PROVE  SumFunctionOnSet(f, S) \in Int
<1> DEFINE Bad == {s \in SUBSET S : SumFunctionOnSet(f, s) \notin Int}
<1>1. SUFFICES ASSUME Bad # {} PROVE FALSE
  OBVIOUS
<1>2. PICK s \in Bad : \A u \in Bad : u \subseteq s => u = s
  <2>1. Bad \subseteq SUBSET S
    OBVIOUS
  <2> HIDE DEF Bad
  <2> QED
    BY <1>1, <2>1, SmallestSet
<1>3. s # {}
  <2>1. SumFunctionOnSet(f, {}) \in Int
    BY SumEmpty
  <2> QED
    BY <1>2, <2>1
<1>4. IsFiniteSet(s)
  BY FS_Subset
<1>5. PICK p \in s : SumFunctionOnSet(f, s) = f[p] + SumFunctionOnSet(f, s \ {p})
  BY <1>3, <1>4, SumStep
<1>6. SumFunctionOnSet(f, s \ {p}) \in Int
  BY <1>2
<1>7. f[p] \in Int
  OBVIOUS
<1> QED
  BY <1>2, <1>5, <1>6, <1>7

(* Any element of a sum of integers can be taken out first. *)
LEMMA SumRemove ==
  ASSUME NEW f, NEW S, IsFiniteSet(S), \A x \in S : f[x] \in Int, NEW x \in S
  PROVE  SumFunctionOnSet(f, S) = f[x] + SumFunctionOnSet(f, S \ {x})
<1> DEFINE Bad == {s \in SUBSET S :
             \E y \in s : SumFunctionOnSet(f, s) # f[y] + SumFunctionOnSet(f, s \ {y})}
<1>1. SUFFICES ASSUME Bad # {} PROVE FALSE
  OBVIOUS
<1>2. PICK s \in Bad : \A u \in Bad : u \subseteq s => u = s
  <2>1. Bad \subseteq SUBSET S
    OBVIOUS
  <2> HIDE DEF Bad
  <2> QED
    BY <1>1, <2>1, SmallestSet
<1>3. PICK y \in s : SumFunctionOnSet(f, s) # f[y] + SumFunctionOnSet(f, s \ {y})
  BY <1>2
<1>4. IsFiniteSet(s)
  BY FS_Subset
<1>5. PICK p \in s : SumFunctionOnSet(f, s) = f[p] + SumFunctionOnSet(f, s \ {p})
  BY <1>3, <1>4, SumStep
<1>6. p # y
  BY <1>3, <1>5
<1> DEFINE r == s \ {p}  t == s \ {y}  q == (s \ {p}) \ {y}
<1>7. SumFunctionOnSet(f, r) = f[y] + SumFunctionOnSet(f, q)
  <2>1. r \in SUBSET S /\ r \subseteq s /\ r # s /\ y \in r
    BY <1>6
  <2> QED
    BY <1>2, <2>1
<1>8. SumFunctionOnSet(f, t) = f[p] + SumFunctionOnSet(f, q)
  <2>1. t \in SUBSET S /\ t \subseteq s /\ t # s /\ p \in t
    BY <1>6
  <2>2. t \ {p} = q
    OBVIOUS
  <2> HIDE DEF q
  <2> QED
    BY <1>2, <2>1, <2>2
<1>9. /\ f[p] \in Int /\ f[y] \in Int
      /\ SumFunctionOnSet(f, q) \in Int
  <2>1. q \in SUBSET S
    OBVIOUS
  <2>2. IsFiniteSet(q)
    BY <2>1, FS_Subset
  <2> HIDE DEF q
  <2> QED
    BY <2>1, <2>2, SumType
<1> HIDE DEF q
<1> QED
  BY <1>3, <1>5, <1>7, <1>8, <1>9

(* A sum depends only on what is summed. *)
LEMMA SumSame ==
  ASSUME NEW f, NEW g, NEW S, IsFiniteSet(S), \A x \in S : f[x] \in Int /\ f[x] = g[x]
  PROVE  SumFunctionOnSet(f, S) = SumFunctionOnSet(g, S)
<1> DEFINE Bad == {s \in SUBSET S : ~ (SumFunctionOnSet(f, s) = SumFunctionOnSet(g, s))}
<1>1. SUFFICES ASSUME Bad # {} PROVE FALSE
  OBVIOUS
<1>2. PICK s \in Bad : \A u \in Bad : u \subseteq s => u = s
  <2>1. Bad \subseteq SUBSET S
    OBVIOUS
  <2> HIDE DEF Bad
  <2> QED
    BY <1>1, <2>1, SmallestSet
<1>3. SumFunctionOnSet(f, {}) = SumFunctionOnSet(g, {})
  BY SumEmpty
<1>4. s # {}
  BY <1>2, <1>3
<1>5. PICK p \in s : TRUE
  BY <1>4
<1> DEFINE r == s \ {p}
<1>6. IsFiniteSet(s) /\ IsFiniteSet(r) /\ r \in SUBSET S /\ r # s
  BY <1>2, <1>5, FS_Subset
<1>7. SumFunctionOnSet(f, r) = SumFunctionOnSet(g, r)
  BY <1>2, <1>6
<1>8. SumFunctionOnSet(f, s) = f[p] + SumFunctionOnSet(f, r)
  BY <1>2, <1>6, SumRemove
<1>9. SumFunctionOnSet(g, s) = g[p] + SumFunctionOnSet(g, r)
  BY <1>2, <1>6, SumRemove
<1> QED
  BY <1>2, <1>7, <1>8, <1>9

(* Larger terms, larger sum. *)
LEMMA SumAtMost ==
  ASSUME NEW f, NEW g, NEW S, IsFiniteSet(S),
         \A x \in S : f[x] \in Int /\ g[x] \in Int /\ f[x] <= g[x]
  PROVE  SumFunctionOnSet(f, S) <= SumFunctionOnSet(g, S)
<1> DEFINE Bad == {s \in SUBSET S : ~ (SumFunctionOnSet(f, s) <= SumFunctionOnSet(g, s))}
<1>1. SUFFICES ASSUME Bad # {} PROVE FALSE
  OBVIOUS
<1>2. PICK s \in Bad : \A u \in Bad : u \subseteq s => u = s
  <2>1. Bad \subseteq SUBSET S
    OBVIOUS
  <2> HIDE DEF Bad
  <2> QED
    BY <1>1, <2>1, SmallestSet
<1>3. SumFunctionOnSet(f, {}) <= SumFunctionOnSet(g, {})
  BY SumEmpty
<1>4. s # {}
  BY <1>2, <1>3
<1>5. PICK p \in s : TRUE
  BY <1>4
<1> DEFINE r == s \ {p}
<1>6. IsFiniteSet(s) /\ IsFiniteSet(r) /\ r \in SUBSET S /\ r # s
  BY <1>2, <1>5, FS_Subset
<1>7. SumFunctionOnSet(f, r) <= SumFunctionOnSet(g, r)
  BY <1>2, <1>6
<1>8. SumFunctionOnSet(f, s) = f[p] + SumFunctionOnSet(f, r)
  BY <1>2, <1>6, SumRemove
<1>9. SumFunctionOnSet(g, s) = g[p] + SumFunctionOnSet(g, r)
  BY <1>2, <1>6, SumRemove
<1>10. SumFunctionOnSet(f, r) \in Int /\ SumFunctionOnSet(g, r) \in Int
  BY <1>2, <1>6, SumType
<1>11. f[p] \in Int /\ g[p] \in Int /\ f[p] <= g[p]
  BY <1>2
<1> HIDE DEF r
<1>12. SumFunctionOnSet(f, s) <= SumFunctionOnSet(g, s)
  BY <1>7, <1>8, <1>9, <1>10, <1>11
<1> QED
  BY <1>2, <1>12

(* A sum of natural numbers is one. *)
LEMMA SumNat ==
  ASSUME NEW f, NEW S, IsFiniteSet(S), \A x \in S : f[x] \in Nat
  PROVE  SumFunctionOnSet(f, S) \in Nat
<1> DEFINE Bad == {s \in SUBSET S : ~ (SumFunctionOnSet(f, s) \in Nat)}
<1>1. SUFFICES ASSUME Bad # {} PROVE FALSE
  OBVIOUS
<1>2. PICK s \in Bad : \A u \in Bad : u \subseteq s => u = s
  <2>1. Bad \subseteq SUBSET S
    OBVIOUS
  <2> HIDE DEF Bad
  <2> QED
    BY <1>1, <2>1, SmallestSet
<1>3. SumFunctionOnSet(f, {}) \in Nat
  BY SumEmpty
<1>4. s # {}
  BY <1>2, <1>3
<1>5. PICK p \in s : TRUE
  BY <1>4
<1> DEFINE r == s \ {p}
<1>6. IsFiniteSet(s) /\ IsFiniteSet(r) /\ r \in SUBSET S /\ r # s
  BY <1>2, <1>5, FS_Subset
<1>7. SumFunctionOnSet(f, r) \in Nat
  BY <1>2, <1>6
<1>8. SumFunctionOnSet(f, s) = f[p] + SumFunctionOnSet(f, r)
  BY <1>2, <1>6, SumRemove
<1>9. f[p] \in Nat
  BY <1>2
<1> HIDE DEF r
<1> QED
  BY <1>2, <1>7, <1>8, <1>9

(* A sum of zeros is zero. *)
LEMMA SumZero ==
  ASSUME NEW f, NEW S, IsFiniteSet(S), \A x \in S : f[x] = 0
  PROVE  SumFunctionOnSet(f, S) = 0
<1> DEFINE Bad == {s \in SUBSET S : ~ (SumFunctionOnSet(f, s) = 0)}
<1>1. SUFFICES ASSUME Bad # {} PROVE FALSE
  OBVIOUS
<1>2. PICK s \in Bad : \A u \in Bad : u \subseteq s => u = s
  <2>1. Bad \subseteq SUBSET S
    OBVIOUS
  <2> HIDE DEF Bad
  <2> QED
    BY <1>1, <2>1, SmallestSet
<1>3. SumFunctionOnSet(f, {}) = 0
  BY SumEmpty
<1>4. s # {}
  BY <1>2, <1>3
<1>5. PICK p \in s : TRUE
  BY <1>4
<1> DEFINE r == s \ {p}
<1>6. IsFiniteSet(s) /\ IsFiniteSet(r) /\ r \in SUBSET S /\ r # s
  BY <1>2, <1>5, FS_Subset
<1>7. SumFunctionOnSet(f, r) = 0
  BY <1>2, <1>6
<1>8. SumFunctionOnSet(f, s) = f[p] + SumFunctionOnSet(f, r)
  BY <1>2, <1>6, SumRemove
<1>9. f[p] = 0
  BY <1>2
<1> HIDE DEF r
<1> QED
  BY <1>2, <1>7, <1>8, <1>9

(* The sum of the sums of two functions is the sum of their pointwise sum. *)
LEMMA SumPlus ==
  ASSUME NEW f, NEW g, NEW h, NEW S, IsFiniteSet(S),
         \A x \in S : f[x] \in Int /\ g[x] \in Int /\ h[x] = f[x] + g[x]
  PROVE  SumFunctionOnSet(h, S) = SumFunctionOnSet(f, S) + SumFunctionOnSet(g, S)
<1> DEFINE Bad == {s \in SUBSET S :
             ~ (SumFunctionOnSet(h, s) = SumFunctionOnSet(f, s) + SumFunctionOnSet(g, s))}
<1>1. SUFFICES ASSUME Bad # {} PROVE FALSE
  OBVIOUS
<1>2. PICK s \in Bad : \A u \in Bad : u \subseteq s => u = s
  <2>1. Bad \subseteq SUBSET S
    OBVIOUS
  <2> HIDE DEF Bad
  <2> QED
    BY <1>1, <2>1, SmallestSet
<1>3. SumFunctionOnSet(h, {}) = SumFunctionOnSet(f, {}) + SumFunctionOnSet(g, {})
  BY SumEmpty
<1>4. s # {}
  BY <1>2, <1>3
<1>5. PICK p \in s : TRUE
  BY <1>4
<1> DEFINE r == s \ {p}
<1>6. IsFiniteSet(s) /\ IsFiniteSet(r) /\ r \in SUBSET S /\ r # s
  BY <1>2, <1>5, FS_Subset
<1>7. SumFunctionOnSet(h, r) = SumFunctionOnSet(f, r) + SumFunctionOnSet(g, r)
  BY <1>2, <1>6
<1>8. SumFunctionOnSet(f, s) = f[p] + SumFunctionOnSet(f, r)
  BY <1>2, <1>6, SumRemove
<1>9. SumFunctionOnSet(g, s) = g[p] + SumFunctionOnSet(g, r)
  BY <1>2, <1>6, SumRemove
<1>10. SumFunctionOnSet(h, s) = h[p] + SumFunctionOnSet(h, r)
  BY <1>2, <1>6, SumRemove
<1>11. SumFunctionOnSet(f, r) \in Int /\ SumFunctionOnSet(g, r) \in Int
  BY <1>2, <1>6, SumType
<1>12. f[p] \in Int /\ g[p] \in Int /\ h[p] = f[p] + g[p]
  BY <1>2
<1> HIDE DEF r
<1>13. SumFunctionOnSet(h, s) = SumFunctionOnSet(f, s) + SumFunctionOnSet(g, s)
  BY <1>7, <1>8, <1>9, <1>10, <1>11, <1>12
<1> QED
  BY <1>2, <1>13

(* When one term changes, the sum changes by as much. *)
LEMMA SumChanged ==
  ASSUME NEW f, NEW g, NEW S, IsFiniteSet(S), NEW x \in S,
         \A y \in S : f[y] \in Int /\ g[y] \in Int /\ (y # x => g[y] = f[y])
  PROVE  SumFunctionOnSet(g, S) = SumFunctionOnSet(f, S) + (g[x] - f[x])
<1> DEFINE r == S \ {x}
<1>1. IsFiniteSet(r)
  BY FS_Subset
<1>2. SumFunctionOnSet(f, r) = SumFunctionOnSet(g, r)
  BY <1>1, SumSame
<1>3. SumFunctionOnSet(f, r) \in Int
  BY <1>1, SumType
<1>4. SumFunctionOnSet(f, S) = f[x] + SumFunctionOnSet(f, r)
  BY SumRemove
<1>5. SumFunctionOnSet(g, S) = g[x] + SumFunctionOnSet(g, r)
  BY SumRemove
<1>6. f[x] \in Int /\ g[x] \in Int
  OBVIOUS
<1> HIDE DEF r
<1> QED
  BY <1>2, <1>3, <1>4, <1>5, <1>6

(* No term is above the sum it belongs to. *)
LEMMA SumMember ==
  ASSUME NEW f, NEW S, IsFiniteSet(S), \A x \in S : f[x] \in Nat, NEW x \in S
  PROVE  f[x] <= SumFunctionOnSet(f, S)
<1> DEFINE r == S \ {x}
<1>1. IsFiniteSet(r)
  BY FS_Subset
<1>2. SumFunctionOnSet(f, r) \in Nat
  BY <1>1, SumNat
<1>3. SumFunctionOnSet(f, S) = f[x] + SumFunctionOnSet(f, r)
  BY SumRemove
<1> HIDE DEF r
<1> QED
  BY <1>2, <1>3

(* Terms that are zero may be left out of a sum. *)
LEMMA SumSupport ==
  ASSUME NEW f, NEW S, IsFiniteSet(S), NEW T \in SUBSET S,
         \A x \in S : f[x] \in Int, \A x \in S : x \notin T => f[x] = 0
  PROVE  SumFunctionOnSet(f, S) = SumFunctionOnSet(f, T)
<1>0. S \cap T = T
  OBVIOUS
<1> DEFINE Bad == {s \in SUBSET S : ~ (SumFunctionOnSet(f, s) = SumFunctionOnSet(f, s \cap T))}
<1>1. SUFFICES ASSUME Bad # {} PROVE FALSE
  BY <1>0
<1>2. PICK s \in Bad : \A u \in Bad : u \subseteq s => u = s
  <2>1. Bad \subseteq SUBSET S
    OBVIOUS
  <2> HIDE DEF Bad
  <2> QED
    BY <1>1, <2>1, SmallestSet
<1>3. SumFunctionOnSet(f, {}) = SumFunctionOnSet(f, {} \cap T)
  BY SumEmpty
<1>4. s # {}
  BY <1>2, <1>3
<1>5. PICK p \in s : TRUE
  BY <1>4
<1> DEFINE r == s \ {p}
<1>6. IsFiniteSet(s) /\ IsFiniteSet(r) /\ r \in SUBSET S /\ r # s
  BY <1>2, <1>5, FS_Subset
<1>7. SumFunctionOnSet(f, r) = SumFunctionOnSet(f, r \cap T)
  BY <1>2, <1>6
<1>8. SumFunctionOnSet(f, s) = f[p] + SumFunctionOnSet(f, r)
  BY <1>2, <1>6, SumRemove
<1>9. CASE p \in T
  <2>1. IsFiniteSet(s \cap T) /\ (s \cap T) \ {p} = r \cap T
    BY <1>6, FS_Subset
  <2>2. SumFunctionOnSet(f, s \cap T) = f[p] + SumFunctionOnSet(f, (s \cap T) \ {p})
    BY <1>2, <1>5, <1>9, <2>1, SumRemove
  <2> QED
    BY <1>2, <1>7, <1>8, <2>1, <2>2
<1>10. CASE p \notin T
  <2>1. s \cap T = r \cap T
    BY <1>10
  <2>2. SumFunctionOnSet(f, r) \in Int /\ f[p] = 0
    BY <1>2, <1>6, <1>10, SumType
  <2> HIDE DEF r
  <2> QED
    BY <1>2, <1>7, <1>8, <2>1, <2>2
<1> QED
  BY <1>9, <1>10

(* A row joins the rows summed, leaves them, or changes while among them: the
   sum moves by what that one row contributes after less what it contributed before. *)
LEMMA SumMoved ==
  ASSUME NEW f, NEW g, NEW T, IsFiniteSet(T), NEW U, IsFiniteSet(U), NEW x,
         T \ {x} = U \ {x},
         \A y \in T : f[y] \in Int, \A y \in U : g[y] \in Int,
         \A y \in T \cap U : y # x => g[y] = f[y]
  PROVE  SumFunctionOnSet(g, U) =
           SumFunctionOnSet(f, T) + (IF x \in U THEN g[x] ELSE 0) - (IF x \in T THEN f[x] ELSE 0)
<1> DEFINE r == T \ {x}
<1>1. IsFiniteSet(r)
  BY FS_Subset
<1>2. SumFunctionOnSet(f, r) = SumFunctionOnSet(g, r)
  BY <1>1, SumSame
<1>3. SumFunctionOnSet(f, r) \in Int
  BY <1>1, SumType
<1>4. SumFunctionOnSet(f, T) = (IF x \in T THEN f[x] ELSE 0) + SumFunctionOnSet(f, r)
  <2>1. CASE x \in T
    BY <2>1, SumRemove
  <2>2. CASE x \notin T
    <3>1. SumFunctionOnSet(f, T) = SumFunctionOnSet(f, r)
      <4>1. r = T
        BY <2>2
      <4> HIDE DEF r
      <4> QED
        BY <4>1
    <3> HIDE DEF r
    <3> QED
      BY <1>3, <2>2, <3>1
  <2> QED
    BY <2>1, <2>2
<1>5. SumFunctionOnSet(g, U) = (IF x \in U THEN g[x] ELSE 0) + SumFunctionOnSet(g, r)
  <2>1. CASE x \in U
    <3>1. r = U \ {x}
      OBVIOUS
    <3> HIDE DEF r
    <3> QED
      BY <2>1, <3>1, SumRemove
  <2>2. CASE x \notin U
    <3>1. SumFunctionOnSet(g, U) = SumFunctionOnSet(g, r)
      <4>1. r = U
        BY <2>2
      <4> HIDE DEF r
      <4> QED
        BY <4>1
    <3> HIDE DEF r
    <3> QED
      BY <1>2, <1>3, <2>2, <3>1
  <2> QED
    BY <2>1, <2>2
<1>6. (IF x \in T THEN f[x] ELSE 0) \in Int /\ (IF x \in U THEN g[x] ELSE 0) \in Int
  OBVIOUS
<1> HIDE DEF r
<1> QED
  BY <1>2, <1>3, <1>4, <1>5, <1>6

(* Fewer natural numbers, no larger sum. *)
LEMMA SumSubset ==
  ASSUME NEW f, NEW S, IsFiniteSet(S), NEW T \in SUBSET S, \A x \in S : f[x] \in Nat
  PROVE  SumFunctionOnSet(f, T) <= SumFunctionOnSet(f, S)
<1> DEFINE h == [x \in S |-> IF x \in T THEN f[x] ELSE 0]
<1>1. SumFunctionOnSet(h, S) = SumFunctionOnSet(h, T)
  <2>1. \A x \in S : h[x] \in Int /\ (x \notin T => h[x] = 0)
    OBVIOUS
  <2> HIDE DEF h
  <2> QED
    BY <2>1, SumSupport
<1>2. SumFunctionOnSet(h, T) = SumFunctionOnSet(f, T)
  <2>1. \A x \in T : h[x] \in Int /\ h[x] = f[x]
    OBVIOUS
  <2>2. IsFiniteSet(T)
    BY FS_Subset
  <2> HIDE DEF h
  <2> QED
    BY <2>1, <2>2, SumSame
<1>3. SumFunctionOnSet(h, S) <= SumFunctionOnSet(f, S)
  <2>1. \A x \in S : h[x] \in Int /\ f[x] \in Int /\ h[x] <= f[x]
    OBVIOUS
  <2> HIDE DEF h
  <2> QED
    BY <2>1, SumAtMost
<1> QED
  BY <1>1, <1>2, <1>3

(* The images of the members of a set, such as rows as they are written back. *)
RowsAs(h, rs) == {h[r] : r \in rs}

(* The images of a finite set are a finite set. *)
LEMMA RowsAsFinite ==
  ASSUME NEW h, NEW rs, IsFiniteSet(rs)
  PROVE  IsFiniteSet(RowsAs(h, rs))
<1> DEFINE g == [r \in rs |-> h[r]]
<1>1. g \in Surjection(rs, RowsAs(h, rs))
  BY DEF RowsAs, Surjection
<1> QED
  BY <1>1, FS_Surjection

(* A sum over the images of the elements of a set, all different, is the sum over
   the set. *)
LEMMA SumMapped ==
  ASSUME NEW f, NEW g, NEW h, NEW S, IsFiniteSet(S),
         \A x \in S : f[x] \in Int /\ g[h[x]] = f[x],
         \A x, y \in S : h[x] = h[y] => x = y
  PROVE  SumFunctionOnSet(g, RowsAs(h, S)) = SumFunctionOnSet(f, S)
<1> DEFINE Bad == {s \in SUBSET S :
             ~ (SumFunctionOnSet(g, RowsAs(h, s)) = SumFunctionOnSet(f, s))}
<1>1. SUFFICES ASSUME Bad # {} PROVE FALSE
  OBVIOUS
<1>2. PICK s \in Bad : \A u \in Bad : u \subseteq s => u = s
  <2>1. Bad \subseteq SUBSET S
    OBVIOUS
  <2> HIDE DEF Bad
  <2> QED
    BY <1>1, <2>1, SmallestSet
<1>3. SumFunctionOnSet(g, RowsAs(h, {})) = SumFunctionOnSet(f, {})
  <2>1. RowsAs(h, {}) = {}
    BY DEF RowsAs
  <2> QED
    BY <2>1, SumEmpty
<1>4. s # {}
  BY <1>2, <1>3
<1>5. PICK p \in s : TRUE
  BY <1>4
<1> DEFINE r == s \ {p}
<1>6. IsFiniteSet(s) /\ IsFiniteSet(r) /\ r \in SUBSET S /\ r # s /\ s \in SUBSET S
  BY <1>2, <1>5, FS_Subset
<1>7. SumFunctionOnSet(g, RowsAs(h, r)) = SumFunctionOnSet(f, r)
  BY <1>2, <1>6
<1>8. SumFunctionOnSet(f, s) = f[p] + SumFunctionOnSet(f, r)
  BY <1>2, <1>6, SumRemove
<1>9. SumFunctionOnSet(g, RowsAs(h, s)) = g[h[p]] + SumFunctionOnSet(g, RowsAs(h, r))
  <2>1. RowsAs(h, s) \ {h[p]} = RowsAs(h, r) /\ h[p] \in RowsAs(h, s)
    BY <1>5, <1>6 DEF RowsAs
  <2>2. \A y \in RowsAs(h, s) : g[y] \in Int
    BY <1>6 DEF RowsAs
  <2>3. IsFiniteSet(RowsAs(h, s))
    BY <1>6, RowsAsFinite
  <2> HIDE DEF r
  <2> QED
    BY <2>1, <2>2, <2>3, SumRemove
<1>10. g[h[p]] = f[p]
  BY <1>5, <1>6
<1> QED
  BY <1>2, <1>7, <1>8, <1>9, <1>10

-----------------------------------------------------------------------------
(* Sums of the values of a function. *)

(* The sum of a function's values is the sum over its domain. *)
LEMMA SumIs ==
  ASSUME NEW f, NEW S, DOMAIN f = S
  PROVE  SumFunction(f) = SumFunctionOnSet(f, S)
BY DEF SumFunction

(* A sum of natural numbers is a natural number. *)
LEMMA SumOfNat ==
  ASSUME NEW n \in Nat, NEW f \in [1..n -> Nat]
  PROVE  SumFunction(f) \in Nat
BY SumIs, SumNat, FS_Interval

(* Smaller values have the smaller sum. *)
LEMMA SumOfSmaller ==
  ASSUME NEW n \in Nat, NEW f \in [1..n -> Nat], NEW g \in [1..n -> Nat],
         \A i \in 1..n : f[i] <= g[i]
  PROVE  SumFunction(f) <= SumFunction(g)
<1>1. SumFunction(f) = SumFunctionOnSet(f, 1..n) /\ SumFunction(g) = SumFunctionOnSet(g, 1..n)
  BY SumIs
<1>2. \A i \in 1..n : f[i] \in Int /\ g[i] \in Int /\ f[i] <= g[i]
  OBVIOUS
<1>3. IsFiniteSet(1..n)
  BY FS_Interval
<1> QED
  BY <1>1, <1>2, <1>3, SumAtMost

(* Zeros have the sum zero. *)
LEMMA SumOfZeros ==
  ASSUME NEW n \in Nat, NEW f \in [1..n -> Nat], \A i \in 1..n : f[i] = 0
  PROVE  SumFunction(f) = 0
BY SumIs, SumZero, FS_Interval

(* A sum without one element, under another name. *)
LEMMA SumWithout ==
  ASSUME NEW f, NEW g, NEW S, IsFiniteSet(S), NEW x \in S, NEW T, T = S \ {x},
         \A y \in S : g[y] \in Int, \A y \in T : f[y] = g[y]
  PROVE  SumFunctionOnSet(g, S) = SumFunctionOnSet(f, T) + g[x]
<1>1. SumFunctionOnSet(g, S) = g[x] + SumFunctionOnSet(g, S \ {x})
  BY SumRemove
<1>2. IsFiniteSet(T) /\ \A y \in T : g[y] \in Int /\ g[y] = f[y]
  BY FS_Subset
<1>3. SumFunctionOnSet(g, T) = SumFunctionOnSet(f, T) /\ SumFunctionOnSet(g, T) \in Int
  BY <1>2, SumSame, SumType
<1>4. g[x] \in Int
  OBVIOUS
<1> QED
  BY <1>1, <1>3, <1>4

(* A value at the end of a sequence is added to the sum. *)
LEMMA SumOfLonger ==
  ASSUME NEW n \in Nat, NEW f \in [1..n -> Nat], NEW g \in [1..(n + 1) -> Nat],
         \A i \in 1..n : g[i] = f[i]
  PROVE  SumFunction(g) = SumFunction(f) + g[n + 1]
<1> DEFINE S == 1..(n + 1)
           T == 1..n
           x == n + 1
<1>1. SumFunction(f) = SumFunctionOnSet(f, T) /\ SumFunction(g) = SumFunctionOnSet(g, S)
  BY SumIs
<1>2. IsFiniteSet(S)
  BY FS_Interval
<1>3. x \in S /\ T = S \ {x}
  OBVIOUS
<1>4. (\A y \in S : g[y] \in Int) /\ \A y \in T : f[y] = g[y]
  OBVIOUS
<1> HIDE DEF S, T, x
<1>5. SumFunctionOnSet(g, S) = SumFunctionOnSet(f, T) + g[x]
  BY <1>2, <1>3, <1>4, SumWithout
<1> QED
  BY <1>1, <1>5 DEF x

(* The sum of one value. *)
LEMMA SumOfOne ==
  ASSUME NEW f, DOMAIN f = {1}, f[1] \in Nat
  PROVE  SumFunction(f) = f[1]
<1> DEFINE S == {1}
           T == {}
<1>1. SumFunction(f) = SumFunctionOnSet(f, S)
  BY SumIs
<1>2. IsFiniteSet(S) /\ 1 \in S /\ T = S \ {1} /\ (\A y \in S : f[y] \in Int)
         /\ \A y \in T : f[y] = f[y]
  BY FS_Singleton
<1>3. SumFunctionOnSet(f, T) = 0
  BY SumEmpty
<1> HIDE DEF S, T
<1>4. SumFunctionOnSet(f, S) = SumFunctionOnSet(f, T) + f[1]
  BY <1>2, SumWithout
<1> QED
  BY <1>1, <1>3, <1>4

-----------------------------------------------------------------------------
(* Stock rows: types. *)

(* A clamped integer is a natural number. *)
LEMMA Max0Type == \A n \in Int : Max0(n) \in Nat
BY DEF Max0

(* A recomputed row is a row whatever its stored available figure was. *)
LEMMA RecomputedType ==
  ASSUME NEW b \in Balance
  PROVE  Recomputed(b) \in Balance
<1>1. CalculateAvailable(b) \in Nat
  BY Max0Type DEF CalculateAvailable, Balance
<1> QED
  BY <1>1 DEF Recomputed, Balance

(* Reserving stock leaves natural numbers. *)
LEMMA ReserveType ==
  ASSUME NEW b \in Balance, NEW q \in Nat
  PROVE  Reserve(b, q) \in Balance
<1>1. [b EXCEPT !.reserved = @ + q] \in Balance
  BY DEF Balance
<1> QED
  BY <1>1, RecomputedType DEF Reserve

(* Releasing stock leaves natural numbers, however much is asked for. *)
LEMMA ReleaseType ==
  ASSUME NEW b \in Balance, NEW q \in Nat
  PROVE  Release(b, q) \in Balance
<1> DEFINE actual == Lesser(b.reserved, q)
<1>1. actual \in Nat
  BY DEF Lesser, Balance
<1>2. [b EXCEPT !.reserved = Max0(@ - actual)] \in Balance
  BY <1>1, Max0Type DEF Balance
<1> QED
  BY <1>2, RecomputedType DEF Release

(* A delivery leaves natural numbers, however much it takes. *)
LEMMA RelieveType ==
  ASSUME NEW b \in Balance, NEW q \in Nat
  PROVE  Relieve(b, q) \in Balance
<1> DEFINE left == [b EXCEPT !.onHand = Max0(@ - q), !.reserved = Max0(@ - q)]
<1>1. left \in Balance
  <2>1. Max0(b.onHand - q) \in Nat /\ Max0(b.reserved - q) \in Nat
    BY Max0Type DEF Balance
  <2> QED
    BY <2>1 DEF Balance
<1>2. Max0(left.onHand - left.reserved) \in Nat
  BY <1>1, Max0Type DEF Balance
<1> HIDE DEF left
<1>3. [left EXCEPT !.available = Max0(left.onHand - left.reserved)] \in Balance
  BY <1>1, <1>2 DEF Balance
<1> QED
  BY <1>3 DEF Relieve, left

-----------------------------------------------------------------------------
(* Stock rows: the CHECK constraints. *)

(* A recomputed row satisfies them when the reserved and the quarantined part
   fit into what is on hand. *)
LEMMA RecomputedKeepsChecks ==
  ASSUME NEW b \in Balance, b.reserved + b.damaged <= b.onHand
  PROVE  SatisfiesChecks(Recomputed(b))
<1>1. CalculateAvailable(b) = b.onHand - b.reserved - b.damaged
  BY DEF CalculateAvailable, Max0, Balance
<1>2. /\ Recomputed(b).available = CalculateAvailable(b)
      /\ Recomputed(b).onHand = b.onHand
      /\ Recomputed(b).reserved = b.reserved
      /\ Recomputed(b).damaged = b.damaged
  BY DEF Recomputed, Balance
<1> QED
  BY <1>1, <1>2 DEF SatisfiesChecks, Balance

(* A reservation of no more than is available cannot break a CHECK. *)
LEMMA ReserveKeepsChecks ==
  ASSUME NEW b \in Balance, NEW q \in Nat, SatisfiesChecks(b), b.available >= q
  PROVE  SatisfiesChecks(Reserve(b, q))
<1> DEFINE r == [b EXCEPT !.reserved = @ + q]
<1>1. r \in Balance
  BY DEF Balance
<1>2. r.reserved + r.damaged <= r.onHand
  BY DEF Balance, SatisfiesChecks
<1> QED
  BY <1>1, <1>2, RecomputedKeepsChecks DEF Reserve

(* A release, clamped to what is reserved, cannot break a CHECK. *)
LEMMA ReleaseKeepsChecks ==
  ASSUME NEW b \in Balance, NEW q \in Nat, SatisfiesChecks(b)
  PROVE  SatisfiesChecks(Release(b, q))
<1> DEFINE actual == Lesser(b.reserved, q)
           r == [b EXCEPT !.reserved = Max0(@ - actual)]
<1>1. actual \in Nat /\ actual <= b.reserved
  BY DEF Lesser, Balance
<1>2. r \in Balance
  BY <1>1, Max0Type DEF Balance
<1>3. r.reserved + r.damaged <= r.onHand
  BY <1>1 DEF Balance, SatisfiesChecks, Max0
<1> QED
  BY <1>2, <1>3, RecomputedKeepsChecks DEF Release

-----------------------------------------------------------------------------
(* Stock rows: the columns written. *)

(* Recomputing touches the stored available figure only. *)
LEMMA RecomputedRow ==
  ASSUME NEW b \in Balance
  PROVE  /\ Recomputed(b).onHand = b.onHand
         /\ Recomputed(b).reserved = b.reserved
         /\ Recomputed(b).damaged = b.damaged
BY DEF Recomputed, Balance

(* A reservation adds to what is reserved. *)
LEMMA ReserveRow ==
  ASSUME NEW b \in Balance, NEW q \in Nat
  PROVE  /\ Reserve(b, q).onHand = b.onHand
         /\ Reserve(b, q).reserved = b.reserved + q
         /\ Reserve(b, q).damaged = b.damaged
<1> DEFINE r == [b EXCEPT !.reserved = @ + q]
<1>1. r \in Balance /\ r.onHand = b.onHand /\ r.reserved = b.reserved + q /\ r.damaged = b.damaged
  BY DEF Balance
<1>2. Reserve(b, q) = Recomputed(r)
  BY DEF Reserve
<1> HIDE DEF r
<1> QED
  BY <1>1, <1>2, RecomputedRow

(* A release takes what it is asked for from what is reserved, or all of it. *)
LEMMA ReleaseRow ==
  ASSUME NEW b \in Balance, NEW q \in Nat
  PROVE  /\ Release(b, q).onHand = b.onHand
         /\ Release(b, q).reserved = b.reserved - Lesser(b.reserved, q)
         /\ Release(b, q).damaged = b.damaged
<1> DEFINE actual == Lesser(b.reserved, q)
           r == [b EXCEPT !.reserved = Max0(@ - actual)]
<1>1. actual \in Nat /\ actual <= b.reserved
  BY DEF Lesser, Balance
<1> HIDE DEF actual
<1>2. Max0(b.reserved - actual) = b.reserved - actual /\ b.reserved - actual \in Nat
  BY <1>1 DEF Max0, Balance
<1>3. r = [b EXCEPT !.reserved = b.reserved - actual]
  BY <1>2
<1>4. /\ r \in Balance /\ r.onHand = b.onHand
      /\ r.reserved = b.reserved - actual /\ r.damaged = b.damaged
  BY <1>2, <1>3 DEF Balance
<1>5. Release(b, q) = IF actual <= 0 THEN b ELSE Recomputed(r)
  BY DEF Release, actual
<1> HIDE DEF r
<1>6. CASE actual <= 0
  <2>1. actual = 0 /\ b.reserved \in Nat
    BY <1>1, <1>6 DEF Balance
  <2> QED
    BY <1>5, <1>6, <2>1 DEF actual
<1>7. CASE ~(actual <= 0)
  BY <1>4, <1>5, <1>7, RecomputedRow DEF actual
<1> QED
  BY <1>6, <1>7

(* A delivery takes what it delivers from what is on hand and from what is
   reserved, of either as much as there is. *)
LEMMA RelieveRow ==
  ASSUME NEW b \in Balance, NEW q \in Nat
  PROVE  /\ Relieve(b, q).onHand = Max0(b.onHand - q)
         /\ Relieve(b, q).reserved = Max0(b.reserved - q)
         /\ Relieve(b, q).damaged = b.damaged
BY DEF Relieve, Balance
=============================================================================
