-------------------------- MODULE SupplierBooks_proofs --------------------------
(***************************************************************************)
(* What SupplierBooks promises for every set of clerks, bills and payments *)
(* and every bound.                                                        *)
(***************************************************************************)
EXTENDS SupplierBooks, OperatorLemmas

-----------------------------------------------------------------------------
(* The inductive invariant. *)

(* The rows of the sub-ledger whose ids were drawn so far. *)
RowsUpTo(n) ==
  [id : 1..n, type : RowTypes, source : Bills \cup Payments, bill : Bills \cup {OnAccount},
   amount : Amounts, day : Days, running : Int]

Transactions(n) ==
  [open : {TRUE}, row : RowsUpTo(n), method : Methods, known : SUBSET (1..n)]

BillRows ==
  [status : {"NONE", "DRAFT", "POSTED", "PARTIALLY_PAID", "PAID"},
   total : 0..MaxAmount, paid : 0..MaxAmount, due : 0..MaxAmount, day : Days]

PaymentRows ==
  [status : {"NONE", "COMPLETED", "REVERSED"}, bill : Bills \cup {OnAccount},
   amount : 0..MaxAmount, method : Methods, day : Days]

(* The bills that are owed or were, the payments that were made, and those taken
   back, in given tables. *)
PostedIn(bills) == {b \in Bills : bills[b].status \in {"POSTED", "PARTIALLY_PAID", "PAID"}}
MadeIn(pays) == {p \in Payments : pays[p].status \in {"COMPLETED", "REVERSED"}}
TakenBackIn(pays) == {p \in Payments : pays[p].status = "REVERSED"}

(* A bill that was written down is of some amount, and one nobody posted is not
   paid; a payment that was made is of some amount, on account or on a bill that
   was posted. *)
DocumentsFit(bills, pays) ==
  /\ bills \in [Bills -> BillRows]
  /\ pays \in [Payments -> PaymentRows]
  /\ \A b \in Bills :
       /\ bills[b].status # "NONE" => bills[b].total \in Amounts
       /\ b \notin PostedIn(bills) => bills[b].paid = 0 /\ bills[b].due = bills[b].total
  /\ \A p \in MadeIn(pays) :
       /\ pays[p].amount \in Amounts
       /\ pays[p].bill \in Bills => pays[p].bill \in PostedIn(bills)

(* A row was committed for something that has happened. *)
RowFits(bills, pays, r) ==
  /\ r.type = "SUPPLIER_BILL" => r.source \in PostedIn(bills)
  /\ r.type = "SUPPLIER_PAYMENT" => r.source \in MadeIn(pays)
  /\ r.type = "PAYMENT_REVERSAL" => r.source \in TakenBackIn(pays)

(* The rows of a set have ids of their own and are about something of their own. *)
Distinct(rs) ==
  \A r, s \in rs : r.id = s.id \/ (r.source = s.source /\ r.type = s.type) => r = s

(* Every committed row fits, and a bill that was posted has its row. *)
RowsFit(bills, pays, rs) ==
  /\ Distinct(rs)
  /\ \A r \in rs : RowFits(bills, pays, r)
  /\ \A b \in PostedIn(bills) : \E r \in rs : r.type = "SUPPLIER_BILL" /\ r.source = b

(* What a transaction under way checked when it began still holds. *)
RowStillFits(bills, pays, r) ==
  /\ r.type = "SUPPLIER_BILL" =>
       /\ r.source \in Bills /\ r.bill = r.source
       /\ bills[r.source].status = "DRAFT" /\ r.amount = bills[r.source].total
  /\ r.type = "SUPPLIER_PAYMENT" =>
       /\ r.source \in Payments /\ pays[r.source].status = "NONE"
       /\ r.bill \in Bills => /\ bills[r.bill].status \in {"POSTED", "PARTIALLY_PAID"}
                              /\ r.amount <= bills[r.bill].due
  /\ r.type = "PAYMENT_REVERSAL" =>
       /\ r.source \in Payments /\ pays[r.source].status = "COMPLETED"
       /\ r.bill = pays[r.source].bill /\ r.amount = pays[r.source].amount

(* Two transactions are about different bills and payments. *)
Apart(r, s) ==
  /\ r.id # s.id
  /\ r.source \notin {s.source, s.bill}
  /\ r.bill # OnAccount => r.bill \notin {s.source, s.bill}

(* Every transaction under way still fits, its row is not there yet, and no two
   are about the same bill or payment. *)
WorkFits(bills, pays, rs, wk) ==
  /\ \A c \in Clerks : wk[c].open =>
       /\ RowStillFits(bills, pays, wk[c].row)
       /\ wk[c].row.id \in wk[c].known
       /\ \A r \in rs : r.id # wk[c].row.id
  /\ \A c, d \in Clerks : wk[c].open /\ wk[d].open /\ c # d => Apart(wk[c].row, wk[d].row)

(* The entry of a bill of some total, and the entries of everything that has
   happened, journalled or not. *)
BillEntry(b, total) == Entry("SYSTEM", "BILL_POSTED", b, "EXPENSE", "PAYABLE", total)

Happened(bills, pays) ==
  {BillEntry(b, bills[b].total) : b \in PostedIn(bills)} \cup
  {PaymentCompleted(p, pays[p]) : p \in MadeIn(pays)} \cup
  {PaymentReversed(p, pays[p]) : p \in TakenBackIn(pays)}

(* The entries of a set that a ledger has no entry for, and all that the ledger
   will hold of the system's entries once it has them. *)
MissingFrom(ledger, entries) ==
  {e \in entries : \A j \in ledger : SourceEvent(j) # SourceEvent(e)}
SystemOf(ledger, entries) ==
  {j \in ledger : j.type = "SYSTEM"} \cup MissingFrom(ledger, entries)

(* An event has one entry, and a system entry is about an event that happened. *)
LedgerFits(ledger, entries) ==
  /\ \A j, k \in ledger : SourceEvent(j) = SourceEvent(k) => j = k
  /\ \A j \in ledger :
       /\ j.type = "SYSTEM" => \E e \in entries : SourceEvent(e) = SourceEvent(j)
       /\ j.type = "MANUAL" => j.event = "MANUAL"

(* A finite set of entries. *)
Ledger(es) == es \in SUBSET Entries(Sources, Amounts) /\ IsFiniteSet(es)

(* What some payments amount to, and what is due on the bills that are owed. *)
AmountOf(pays, ps) == SumFunctionOnSet([p \in Payments |-> pays[p].amount], ps)
DueOf(bills, bs) == SumFunctionOnSet([b \in Bills |-> bills[b].due], bs)
StandingIn(pays, b) == {p \in Payments : pays[p].status = "COMPLETED" /\ pays[p].bill = b}
ThroughIn(pays, method) ==
  {p \in Payments : pays[p].status = "COMPLETED" /\ pays[p].method = method}

(* The bills and the payments, what the supplier is owed and the system's entries
   tell one story. *)
Agree(bills, pays, owed, system) ==
  /\ \A b \in Bills :
       /\ bills[b].paid = AmountOf(pays, StandingIn(pays, b))
       /\ bills[b].paid + bills[b].due = bills[b].total
       /\ b \in PostedIn(bills) => (bills[b].status = "PAID") = (bills[b].due = 0)
  /\ owed = DueOf(bills, PostedIn(bills)) - AmountOf(pays, StandingIn(pays, OnAccount))
  /\ Moved(system, "PAYABLE") = -owed
  /\ \A method \in Methods :
       Moved(system, method) = -AmountOf(pays, ThroughIn(pays, method))

BooksInv ==
  /\ lastId \in Nat
  /\ work \in [Clerks -> {Idle} \cup Transactions(lastId)]
  /\ rows \in SUBSET RowsUpTo(lastId) /\ IsFiniteSet(rows)
  /\ Ledger(journals)
  /\ DocumentsFit(bill, payment)
  /\ RowsFit(bill, payment, rows)
  /\ WorkFits(bill, payment, rows, work)
  /\ LedgerFits(journals, Happened(bill, payment))
  /\ Agree(bill, payment, GetSupplierOutstandingBalance(rows),
           SystemOf(journals, Happened(bill, payment)))

-----------------------------------------------------------------------------
(* Rows of the sub-ledger. *)

(* Two rows that differ at most in their running balance. *)
SameRow(r, s) ==
  /\ s.id = r.id /\ s.type = r.type /\ s.source = r.source /\ s.bill = r.bill
  /\ s.amount = r.amount /\ s.day = r.day

(* h keeps the rows of a set but for their running balances, and the set is one
   of rows whose ids differ. *)
Rewritten(rs, h) ==
  /\ \A r \in rs : Signed(r) \in Int /\ SameRow(r, h[r])
  /\ \A r, s \in rs : r.id = s.id => r = s

(* The balance of rows does not depend on their running balances. *)
LEMMA BalanceOfRewritten ==
  ASSUME NEW rs, IsFiniteSet(rs), NEW h, Rewritten(rs, h)
  PROVE  GetSupplierOutstandingBalance(RowsAs(h, rs)) = GetSupplierOutstandingBalance(rs)
<1> DEFINE f == [r \in rs |-> Signed(r)]
           g == [r \in RowsAs(h, rs) |-> Signed(r)]
<1>1. \A r \in rs : f[r] \in Int /\ g[h[r]] = f[r]
  <2> SUFFICES ASSUME NEW r \in rs PROVE f[r] \in Int /\ g[h[r]] = f[r]
    OBVIOUS
  <2>1. h[r] \in RowsAs(h, rs)
    BY DEF RowsAs
  <2>2. Signed(h[r]) = Signed(r) /\ Signed(r) \in Int
    BY DEF Rewritten, SameRow, Signed
  <2> QED
    BY <2>1, <2>2
<1>2. \A r, s \in rs : h[r] = h[s] => r = s
  BY DEF Rewritten, SameRow
<1>3. /\ GetSupplierOutstandingBalance(RowsAs(h, rs)) = SumFunctionOnSet(g, RowsAs(h, rs))
      /\ GetSupplierOutstandingBalance(rs) = SumFunctionOnSet(f, rs)
  BY DEF GetSupplierOutstandingBalance
<1> HIDE DEF f, g
<1> QED
  BY <1>1, <1>2, <1>3, SumMapped

(* The rows printed up to one of them are the same rows after a rewriting. *)
LEMMA UpToRewritten ==
  ASSUME NEW rs, NEW h, Rewritten(rs, h), NEW r \in rs
  PROVE  UpTo(h[r], RowsAs(h, rs)) = RowsAs(h, UpTo(r, rs))
<1>1. \A s \in rs : h[s].day = s.day /\ h[s].id = s.id
  BY DEF Rewritten, SameRow
<1> QED
  BY <1>1 DEF UpTo, RowsAs

(* The running balance due to a row is the same after a rewriting. *)
LEMMA RunningAtRewritten ==
  ASSUME NEW rs, IsFiniteSet(rs), NEW h, Rewritten(rs, h), NEW r \in rs
  PROVE  RunningAt(h[r], RowsAs(h, rs)) = RunningAt(r, rs)
<1>1. UpTo(r, rs) \subseteq rs
  BY DEF UpTo
<1>2. IsFiniteSet(UpTo(r, rs)) /\ Rewritten(UpTo(r, rs), h)
  BY <1>1, FS_Subset DEF Rewritten
<1> QED
  BY <1>2, BalanceOfRewritten, UpToRewritten DEF RunningAt

(* Rows are of amounts with a sign. *)
LEMMA SignedType ==
  ASSUME NEW n, NEW r \in RowsUpTo(n)
  PROVE  Signed(r) \in Int
BY AmountAssumption DEF Signed, RowsUpTo, Amounts

(* Balances are integers. *)
LEMMA BalanceType ==
  ASSUME NEW n, NEW rs \in SUBSET RowsUpTo(n), IsFiniteSet(rs)
  PROVE  GetSupplierOutstandingBalance(rs) \in Int
<1> DEFINE f == [r \in rs |-> Signed(r)]
<1>1. \A r \in rs : f[r] \in Int
  BY SignedType
<1> HIDE DEF f
<1> QED
  BY <1>1, SumType DEF GetSupplierOutstandingBalance, f

(* Running balances are integers. *)
LEMMA RunningAtType ==
  ASSUME NEW n, NEW rs \in SUBSET RowsUpTo(n), IsFiniteSet(rs), NEW r
  PROVE  RunningAt(r, rs) \in Int
<1>1. UpTo(r, rs) \in SUBSET RowsUpTo(n) /\ IsFiniteSet(UpTo(r, rs))
  BY FS_Subset DEF UpTo
<1> QED
  BY <1>1, BalanceType DEF RunningAt

(* A row that joins others adds its amount to their balance. *)
LEMMA BalanceWith ==
  ASSUME NEW n, NEW rs \in SUBSET RowsUpTo(n), IsFiniteSet(rs),
         NEW r \in RowsUpTo(n), r \notin rs
  PROVE  GetSupplierOutstandingBalance(rs \cup {r}) =
           GetSupplierOutstandingBalance(rs) + Signed(r)
<1> DEFINE f == [s \in rs |-> Signed(s)]
           g == [s \in rs \cup {r} |-> Signed(s)]
<1>1. /\ \A s \in rs : f[s] \in Int
      /\ \A s \in rs \cup {r} : g[s] \in Int
      /\ \A s \in rs \cap (rs \cup {r}) : s # r => g[s] = f[s]
  BY SignedType
<1>2. IsFiniteSet(rs \cup {r}) /\ rs \ {r} = (rs \cup {r}) \ {r} /\ r \in rs \cup {r}
  BY FS_AddElement
<1>3. g[r] = Signed(r) /\ SumFunctionOnSet(f, rs) \in Int
  BY <1>1, SumType
<1>4. /\ GetSupplierOutstandingBalance(rs) = SumFunctionOnSet(f, rs)
      /\ GetSupplierOutstandingBalance(rs \cup {r}) = SumFunctionOnSet(g, rs \cup {r})
  BY DEF GetSupplierOutstandingBalance
<1> HIDE DEF f, g
<1>5. SumFunctionOnSet(g, rs \cup {r}) =
        SumFunctionOnSet(f, rs) + (IF r \in rs \cup {r} THEN g[r] ELSE 0)
                                - (IF r \in rs THEN f[r] ELSE 0)
  BY <1>1, <1>2, SumMoved
<1>6. g[r] \in Int
  BY <1>1
<1> QED
  BY <1>2, <1>3, <1>4, <1>5, <1>6

-----------------------------------------------------------------------------
(* Rewriting the running balances. *)

(* What RecalculateRunningBalances makes of each row. *)
Recalculated(rs, known) ==
  LET seen == {r \in rs : r.id \in known}
  IN [r \in rs |-> IF r \in seen THEN [r EXCEPT !.running = RunningAt(r, seen)] ELSE r]

(* RecalculateRunningBalances writes back each row. *)
LEMMA RecalculateIsRewriting ==
  ASSUME NEW rs, NEW known
  PROVE  RecalculateRunningBalances(rs, known) = RowsAs(Recalculated(rs, known), rs)
BY DEF RecalculateRunningBalances, RowsAs, Recalculated

(* A row written back is a row, the same but for its running balance. *)
LEMMA RecalculatedRow ==
  ASSUME NEW n, NEW rs \in SUBSET RowsUpTo(n), IsFiniteSet(rs), NEW known, NEW r \in rs
  PROVE  /\ Recalculated(rs, known)[r] \in RowsUpTo(n)
         /\ SameRow(r, Recalculated(rs, known)[r])
<1> DEFINE seen == {s \in rs : s.id \in known}
<1>1. RunningAt(r, seen) \in Int
  BY RunningAtType, FS_Subset
<1>2. Recalculated(rs, known)[r] =
        IF r \in seen THEN [r EXCEPT !.running = RunningAt(r, seen)] ELSE r
  BY DEF Recalculated
<1> HIDE DEF seen
<1>3. r \in RowsUpTo(n)
  OBVIOUS
<1>4. PICK x : x = RunningAt(r, seen)
  OBVIOUS
<1>5. [r EXCEPT !.running = x] \in RowsUpTo(n) /\ SameRow(r, [r EXCEPT !.running = x])
  BY <1>1, <1>3, <1>4 DEF RowsUpTo, SameRow
<1>6. SameRow(r, r)
  BY DEF SameRow
<1> QED
  BY <1>2, <1>3, <1>4, <1>5, <1>6

(* The rewriting keeps the rows but for their running balances. *)
LEMMA RecalculateRewrites ==
  ASSUME NEW n, NEW rs \in SUBSET RowsUpTo(n), IsFiniteSet(rs), NEW known, Distinct(rs)
  PROVE  Rewritten(rs, Recalculated(rs, known))
<1>1. \A r \in rs : Signed(r) \in Int
  BY SignedType
<1>2. \A r \in rs : SameRow(r, Recalculated(rs, known)[r])
  BY RecalculatedRow
<1>3. \A r, s \in rs : r.id = s.id => r = s
  BY DEF Distinct
<1> QED
  BY <1>1, <1>2, <1>3 DEF Rewritten

(* new holds the rows of rs with other running balances. *)
SameRows(rs, new) ==
  /\ \A s \in new : \E r \in rs : SameRow(r, s)
  /\ \A r \in rs : \E s \in new : SameRow(r, s)

(* After the balances were rewritten the same rows are there, distinct as before,
   and add up to the same balance. *)
LEMMA RecalculateKeeps ==
  ASSUME NEW n, NEW rs \in SUBSET RowsUpTo(n), IsFiniteSet(rs), NEW known, Distinct(rs),
         NEW new, new = RecalculateRunningBalances(rs, known)
  PROVE  /\ new \in SUBSET RowsUpTo(n)
         /\ IsFiniteSet(new)
         /\ Distinct(new)
         /\ SameRows(rs, new)
         /\ GetSupplierOutstandingBalance(new) = GetSupplierOutstandingBalance(rs)
<1> DEFINE h == Recalculated(rs, known)
<1>1. new = RowsAs(h, rs)
  BY RecalculateIsRewriting
<1>2. \A r \in rs : h[r] \in RowsUpTo(n) /\ SameRow(r, h[r])
  BY RecalculatedRow
<1>3. Rewritten(rs, h)
  BY RecalculateRewrites
<1> HIDE DEF h
<1>4. new \in SUBSET RowsUpTo(n)
  BY <1>1, <1>2 DEF RowsAs
<1>5. SameRows(rs, new)
  BY <1>1, <1>2 DEF RowsAs, SameRows
<1>6. Distinct(new)
  <2> SUFFICES ASSUME NEW r \in rs, NEW s \in rs,
                      h[r].id = h[s].id \/ (h[r].source = h[s].source /\ h[r].type = h[s].type)
               PROVE  h[r] = h[s]
    BY <1>1 DEF RowsAs, Distinct
  <2>1. r.id = s.id \/ (r.source = s.source /\ r.type = s.type)
    BY <1>2 DEF SameRow
  <2> QED
    BY <2>1 DEF Distinct
<1> QED
  BY <1>1, <1>3, <1>4, <1>5, <1>6, RowsAsFinite, BalanceOfRewritten

(* A rewriting that knows every row leaves running balances that add up. *)
LEMMA KnowingAllAddsUp ==
  ASSUME NEW n, NEW rs \in SUBSET RowsUpTo(n), IsFiniteSet(rs), NEW known, Distinct(rs),
         \A r \in rs : r.id \in known
  PROVE  AddsUp(RecalculateRunningBalances(rs, known))
<1> DEFINE h == Recalculated(rs, known)
<1>1. {s \in rs : s.id \in known} = rs
  OBVIOUS
<1>2. \A r \in rs : h[r] = [r EXCEPT !.running = RunningAt(r, rs)]
  BY <1>1 DEF Recalculated
<1>3. Rewritten(rs, h)
  BY RecalculateRewrites
<1> HIDE DEF h
<1>4. SUFFICES ASSUME NEW r \in rs PROVE h[r].running = RunningAt(h[r], RowsAs(h, rs))
  BY RecalculateIsRewriting DEF AddsUp, RowsAs, h
<1>5. RunningAt(h[r], RowsAs(h, rs)) = RunningAt(r, rs)
  BY <1>3, RunningAtRewritten
<1>6. PICK x : x = RunningAt(r, rs)
  OBVIOUS
<1>7. [r EXCEPT !.running = x].running = x
  BY DEF RowsUpTo
<1> QED
  BY <1>2, <1>5, <1>6, <1>7

-----------------------------------------------------------------------------
(* Entries of the journal. *)

(* What an entry moves on an account. *)
Side(e, account) ==
  (IF e.debit = account THEN e.amount ELSE 0) - (IF e.credit = account THEN e.amount ELSE 0)

(* Accounts move by integers. *)
LEMMA MovedType ==
  ASSUME NEW es \in SUBSET Entries(Sources, Amounts), IsFiniteSet(es), NEW a
  PROVE  Moved(es, a) \in Int
<1> DEFINE f == [j \in es |-> j.amount]
           D == {j \in es : j.debit = a}
           C == {j \in es : j.credit = a}
<1>1. /\ \A j \in D : f[j] \in Int
      /\ \A j \in C : f[j] \in Int
  BY AmountAssumption DEF Entries, Amounts
<1>2. IsFiniteSet(D) /\ IsFiniteSet(C)
  BY FS_Subset
<1>3. Moved(es, a) = SumFunctionOnSet(f, D) - SumFunctionOnSet(f, C)
  BY DEF Moved
<1> HIDE DEF f, D, C
<1>4. SumFunctionOnSet(f, D) \in Int /\ SumFunctionOnSet(f, C) \in Int
  BY <1>1, <1>2, SumType
<1> QED
  BY <1>3, <1>4

(* An entry that joins others moves each account by its own amount. *)
LEMMA MovedWith ==
  ASSUME NEW es \in SUBSET Entries(Sources, Amounts), IsFiniteSet(es),
         NEW e \in Entries(Sources, Amounts), e \notin es, NEW a
  PROVE  Moved(es \cup {e}, a) = Moved(es, a) + Side(e, a)
<1> DEFINE f == [j \in es |-> j.amount]
           g == [j \in es \cup {e} |-> j.amount]
           D == {j \in es : j.debit = a}
           C == {j \in es : j.credit = a}
           DD == {j \in es \cup {e} : j.debit = a}
           CC == {j \in es \cup {e} : j.credit = a}
<1>1. /\ \A j \in D : f[j] \in Int
      /\ \A j \in C : f[j] \in Int
      /\ \A j \in DD : g[j] \in Int
      /\ \A j \in CC : g[j] \in Int
  BY AmountAssumption DEF Entries, Amounts
<1>2. /\ \A j \in D \cap DD : j # e => g[j] = f[j]
      /\ \A j \in C \cap CC : j # e => g[j] = f[j]
  OBVIOUS
<1>3. IsFiniteSet(D) /\ IsFiniteSet(C)
  BY FS_Subset
<1>4. IsFiniteSet(es \cup {e})
  BY FS_AddElement
<1>5. IsFiniteSet(DD) /\ IsFiniteSet(CC)
  BY <1>4, FS_Subset
<1>6. D \ {e} = DD \ {e} /\ C \ {e} = CC \ {e}
  OBVIOUS
<1>7. e \notin D /\ e \notin C /\ (e \in DD <=> e.debit = a) /\ (e \in CC <=> e.credit = a)
  OBVIOUS
<1>8. g[e] = e.amount /\ e.amount \in Int
  BY AmountAssumption DEF Entries, Amounts
<1>9. /\ Moved(es, a) = SumFunctionOnSet(f, D) - SumFunctionOnSet(f, C)
      /\ Moved(es \cup {e}, a) = SumFunctionOnSet(g, DD) - SumFunctionOnSet(g, CC)
  BY DEF Moved
<1> HIDE DEF f, g, D, C, DD, CC
<1>10. SumFunctionOnSet(f, D) \in Int /\ SumFunctionOnSet(f, C) \in Int
  BY <1>1, <1>3, SumType
<1>11. SumFunctionOnSet(g, DD) =
         SumFunctionOnSet(f, D) + (IF e \in DD THEN g[e] ELSE 0) - (IF e \in D THEN f[e] ELSE 0)
  BY <1>1, <1>2, <1>3, <1>5, <1>6, SumMoved
<1>12. SumFunctionOnSet(g, CC) =
         SumFunctionOnSet(f, C) + (IF e \in CC THEN g[e] ELSE 0) - (IF e \in C THEN f[e] ELSE 0)
  BY <1>1, <1>2, <1>3, <1>5, <1>6, SumMoved
<1> QED
  BY <1>7, <1>8, <1>9, <1>10, <1>11, <1>12 DEF Side

(* An entry that takes the place of another of the same accounts and amount moves
   nothing. *)
LEMMA MovedReplacing ==
  ASSUME NEW es \in SUBSET Entries(Sources, Amounts), IsFiniteSet(es), NEW j \in es,
         NEW k \in Entries(Sources, Amounts), k \notin es \ {j}, NEW a, Side(k, a) = Side(j, a)
  PROVE  Moved((es \ {j}) \cup {k}, a) = Moved(es, a)
<1> DEFINE rest == es \ {j}
<1>1. rest \in SUBSET Entries(Sources, Amounts) /\ IsFiniteSet(rest) /\ j \notin rest /\ k \notin rest
  BY FS_Subset
<1>2. rest \cup {j} = es /\ j \in Entries(Sources, Amounts)
  OBVIOUS
<1> HIDE DEF rest
<1>3. Moved(rest \cup {k}, a) = Moved(rest, a) + Side(k, a)
  BY <1>1, MovedWith
<1>4. Moved(rest \cup {j}, a) = Moved(rest, a) + Side(j, a)
  BY <1>1, <1>2, MovedWith
<1> QED
  BY <1>2, <1>3, <1>4 DEF rest

(* Entries of events of the system, one for each. *)
EventsApart(entries) ==
  /\ \A e \in entries :
       e \in Entries(Sources, Amounts) /\ e.type = "SYSTEM" /\ e.event # "MANUAL"
  /\ \A e, f \in entries : SourceEvent(e) = SourceEvent(f) => e = f

(* The system's entries and what is missing of them are entries. *)
LEMMA SystemOfType ==
  ASSUME NEW ledger, Ledger(ledger), NEW entries, Ledger(entries)
  PROVE  Ledger(SystemOf(ledger, entries))
<1> DEFINE S == {j \in ledger : j.type = "SYSTEM"}
           M == MissingFrom(ledger, entries)
<1>1. S \in SUBSET ledger /\ M \in SUBSET entries
  BY DEF MissingFrom
<1>2. IsFiniteSet(S) /\ IsFiniteSet(M)
  BY <1>1, FS_Subset DEF Ledger
<1>3. IsFiniteSet(S \cup M)
  BY <1>2, FS_Union
<1> QED
  BY <1>1, <1>3 DEF Ledger, SystemOf

(* Two entries are about the same event. *)
LEMMA SourceEventFields ==
  ASSUME NEW j, NEW k, SourceEvent(j) = SourceEvent(k)
  PROVE  j.event = k.event /\ j.source = k.source /\ (j.type = "REVERSAL" <=> k.type = "REVERSAL")
BY DEF SourceEvent

(* Nothing in the ledger is about an event that has not happened. *)
LEMMA NewEventIsNew ==
  ASSUME NEW ledger, NEW entries, LedgerFits(ledger, entries), Ledger(ledger),
         NEW e, EventsApart(entries \cup {e}), e \notin entries
  PROVE  /\ \A j \in ledger : SourceEvent(j) # SourceEvent(e)
         /\ \A f \in entries : SourceEvent(f) # SourceEvent(e)
<1>1. \A f \in entries : SourceEvent(f) # SourceEvent(e)
  BY DEF EventsApart
<1>2. SUFFICES ASSUME NEW j \in ledger, SourceEvent(j) = SourceEvent(e) PROVE FALSE
  BY <1>1
<1>3. j.type \in {"SYSTEM", "MANUAL", "REVERSAL"}
  BY DEF Ledger, Entries
<1>4. e.type = "SYSTEM" /\ e.event # "MANUAL"
  BY DEF EventsApart
<1>5. j.type # "REVERSAL" /\ j.event = e.event
  BY <1>2, <1>4, SourceEventFields
<1>6. CASE j.type = "SYSTEM"
  <2>1. PICK f \in entries : SourceEvent(f) = SourceEvent(j)
    BY <1>6 DEF LedgerFits
  <2> QED
    BY <1>1, <1>2, <2>1
<1>7. CASE j.type = "MANUAL"
  BY <1>4, <1>5, <1>7 DEF LedgerFits
<1> QED
  BY <1>3, <1>5, <1>6, <1>7

(* How an event is journalled as it happens: its entry joins the ledger, and the
   system's entries grow by it alone. *)
LEMMA JournalledEvent ==
  ASSUME NEW ledger, NEW entries, LedgerFits(ledger, entries), Ledger(ledger), Ledger(entries),
         NEW e, EventsApart(entries \cup {e}), e \notin entries,
         NEW after, after = CreateAndPostJournal(ledger, e)
  PROVE  /\ after = ledger \cup {e}
         /\ Ledger(after)
         /\ LedgerFits(after, entries \cup {e})
         /\ SystemOf(after, entries \cup {e}) = SystemOf(ledger, entries) \cup {e}
         /\ e \notin SystemOf(ledger, entries)
<1>1. /\ \A j \in ledger : SourceEvent(j) # SourceEvent(e)
      /\ \A f \in entries : SourceEvent(f) # SourceEvent(e)
  BY NewEventIsNew
<1>2. after = ledger \cup {e}
  BY <1>1 DEF CreateAndPostJournal
<1>3. e \in Entries(Sources, Amounts) /\ e.type = "SYSTEM" /\ e.event # "MANUAL"
  BY DEF EventsApart
<1>4. Ledger(after)
  BY <1>2, <1>3, FS_AddElement DEF Ledger
<1>5. LedgerFits(after, entries \cup {e})
  <2>1. \A j, k \in after : SourceEvent(j) = SourceEvent(k) => j = k
    BY <1>1, <1>2 DEF LedgerFits
  <2>2. ASSUME NEW j \in after
        PROVE  /\ j.type = "SYSTEM" => \E f \in entries \cup {e} : SourceEvent(f) = SourceEvent(j)
               /\ j.type = "MANUAL" => j.event = "MANUAL"
    BY <1>2, <1>3, <2>2 DEF LedgerFits
  <2> QED
    BY <2>1, <2>2 DEF LedgerFits
<1>6. MissingFrom(after, entries \cup {e}) = MissingFrom(ledger, entries)
  BY <1>1, <1>2 DEF MissingFrom
<1>7. {j \in after : j.type = "SYSTEM"} = {j \in ledger : j.type = "SYSTEM"} \cup {e}
  BY <1>2, <1>3
<1>8. SystemOf(after, entries \cup {e}) = SystemOf(ledger, entries) \cup {e}
  BY <1>6, <1>7 DEF SystemOf
<1>9. e \notin SystemOf(ledger, entries)
  BY <1>1 DEF SystemOf, MissingFrom
<1> QED
  BY <1>2, <1>4, <1>5, <1>8, <1>9

(* Catching up with what happened before there was a ledger posts what the ledger
   has no entry for, and the system's entries are then what they were to be. *)
LEMMA CatchingUp ==
  ASSUME NEW ledger, NEW entries, LedgerFits(ledger, entries), Ledger(ledger), Ledger(entries),
         EventsApart(entries),
         NEW after, after = ledger \cup MissingFrom(ledger, entries)
  PROVE  /\ Ledger(after)
         /\ LedgerFits(after, entries)
         /\ SystemOf(after, entries) = SystemOf(ledger, entries)
<1> DEFINE M == MissingFrom(ledger, entries)
<1>1. /\ M \in SUBSET entries
      /\ \A e \in M : e.type = "SYSTEM" /\ \A j \in ledger : SourceEvent(j) # SourceEvent(e)
  BY DEF MissingFrom, EventsApart
<1>2. \A e \in entries \ M : \E j \in ledger : SourceEvent(j) = SourceEvent(e)
  BY DEF MissingFrom
<1>3. Ledger(after)
  BY <1>1, FS_Subset, FS_Union DEF Ledger
<1>4. after = ledger \cup M
  OBVIOUS
<1> HIDE DEF M
<1>5. MissingFrom(after, entries) = {}
  BY <1>2, <1>4 DEF MissingFrom
<1>6. {j \in after : j.type = "SYSTEM"} = {j \in ledger : j.type = "SYSTEM"} \cup M
  BY <1>1, <1>4
<1>7. SystemOf(after, entries) = SystemOf(ledger, entries)
  BY <1>5, <1>6 DEF SystemOf, M
<1>8. LedgerFits(after, entries)
  <2>1. \A j, k \in after : SourceEvent(j) = SourceEvent(k) => j = k
    <3> SUFFICES ASSUME NEW j \in after, NEW k \in after, SourceEvent(j) = SourceEvent(k)
                 PROVE  j = k
      OBVIOUS
    <3>1. CASE j \in ledger /\ k \in ledger
      BY <3>1 DEF LedgerFits
    <3>2. CASE j \in M /\ k \in M
      BY <1>1, <3>2 DEF EventsApart
    <3> QED
      BY <1>1, <1>4, <3>1, <3>2
  <2>2. \A j \in after :
          /\ j.type = "SYSTEM" => \E f \in entries : SourceEvent(f) = SourceEvent(j)
          /\ j.type = "MANUAL" => j.event = "MANUAL"
    BY <1>1, <1>4 DEF LedgerFits
  <2> QED
    BY <2>1, <2>2 DEF LedgerFits
<1> QED
  BY <1>3, <1>7, <1>8

(* An entry written by hand is none of the system's. *)
LEMMA WrittenByHand ==
  ASSUME NEW ledger, NEW entries, LedgerFits(ledger, entries), Ledger(ledger),
         EventsApart(entries),
         NEW m \in Entries(Sources, Amounts), m.type = "MANUAL", m.event = "MANUAL",
         NEW after, after = CreateAndPostJournal(ledger, m)
  PROVE  /\ Ledger(after)
         /\ LedgerFits(after, entries)
         /\ SystemOf(after, entries) = SystemOf(ledger, entries)
<1>1. CASE after = ledger
  BY <1>1
<1>2. CASE after # ledger
  <2>1. after = ledger \cup {m} /\ \A j \in ledger : SourceEvent(j) # SourceEvent(m)
    BY <1>2 DEF CreateAndPostJournal
  <2>2. Ledger(after)
    BY <2>1, FS_AddElement DEF Ledger
  <2>3. LedgerFits(after, entries)
    <3>1. \A j, k \in after : SourceEvent(j) = SourceEvent(k) => j = k
      BY <2>1 DEF LedgerFits
    <3>2. \A j \in after :
            /\ j.type = "SYSTEM" => \E f \in entries : SourceEvent(f) = SourceEvent(j)
            /\ j.type = "MANUAL" => j.event = "MANUAL"
      BY <2>1 DEF LedgerFits
    <3> QED
      BY <3>1, <3>2 DEF LedgerFits
  <2>4. \A e \in entries : SourceEvent(m) # SourceEvent(e)
    BY SourceEventFields DEF EventsApart
  <2>5. MissingFrom(after, entries) = MissingFrom(ledger, entries)
    BY <2>1, <2>4 DEF MissingFrom
  <2>6. {j \in after : j.type = "SYSTEM"} = {j \in ledger : j.type = "SYSTEM"}
    BY <2>1
  <2> QED
    BY <2>2, <2>3, <2>5, <2>6 DEF SystemOf
<1> QED
  BY <1>1, <1>2

(* An entry and what it becomes when it is taken back. *)
LEMMA TakenBackEntry ==
  ASSUME NEW j \in Entries(Sources, Amounts), NEW k, k = [j EXCEPT !.status = "REVERSED"], NEW a
  PROVE  /\ k \in Entries(Sources, Amounts)
         /\ k.type = j.type /\ k.event = j.event /\ SourceEvent(k) = SourceEvent(j)
         /\ Side(k, a) = Side(j, a)
<1>1. /\ k \in Entries(Sources, Amounts)
      /\ k.type = j.type /\ k.event = j.event /\ k.source = j.source
      /\ k.debit = j.debit /\ k.credit = j.credit /\ k.amount = j.amount
  BY DEF Entries
<1>2. SourceEvent(k) = SourceEvent(j)
  BY <1>1 DEF SourceEvent
<1>3. Side(k, a) = Side(j, a)
  BY <1>1 DEF Side
<1> QED
  BY <1>1, <1>2, <1>3

(* The entry that takes another back is one of its own kind. *)
LEMMA OppositeEntry ==
  ASSUME NEW j \in Entries(Sources, Amounts)
  PROVE  Opposite(j) \in Entries(Sources, Amounts) /\ Opposite(j).type = "REVERSAL"
BY DEF Opposite, Entry, Entries

(* An entry taken back by hand is still about its event, and the accounts the
   system's entries move do not see it. *)
LEMMA ReversedByHand ==
  ASSUME NEW ledger, NEW entries, LedgerFits(ledger, entries), Ledger(ledger), Ledger(entries),
         EventsApart(entries),
         NEW j \in ledger, Reversible(j),
         NEW after, after = ReverseJournal(ledger, j), NEW a
  PROVE  /\ Ledger(after)
         /\ LedgerFits(after, entries)
         /\ Moved(SystemOf(after, entries), a) = Moved(SystemOf(ledger, entries), a)
<1>1. j \in Entries(Sources, Amounts) /\ j.type # "REVERSAL"
  BY DEF Ledger, Reversible
<1>2. PICK k : k = [j EXCEPT !.status = "REVERSED"]
  OBVIOUS
<1>3. PICK o : o = Opposite(j)
  OBVIOUS
<1>4. /\ k \in Entries(Sources, Amounts)
      /\ k.type = j.type /\ k.event = j.event /\ SourceEvent(k) = SourceEvent(j)
      /\ Side(k, a) = Side(j, a)
  BY <1>1, <1>2, TakenBackEntry
<1>5. o \in Entries(Sources, Amounts) /\ o.type = "REVERSAL"
  BY <1>1, <1>3, OppositeEntry
<1> DEFINE rest == ledger \ {j}
<1>6. after = CreateAndPostJournal(rest, o) \cup {k}
  BY <1>2, <1>3 DEF ReverseJournal
<1>7. \/ after = rest \cup {k}
      \/ /\ after = rest \cup {o, k}
         /\ \A x \in rest : SourceEvent(x) # SourceEvent(o)
  BY <1>6 DEF CreateAndPostJournal
<1>8. Ledger(after)
  <2>1. IsFiniteSet(rest) /\ rest \in SUBSET Entries(Sources, Amounts)
    BY FS_RemoveElement DEF Ledger
  <2>2. IsFiniteSet(rest \cup {k}) /\ IsFiniteSet((rest \cup {k}) \cup {o})
    BY <2>1, FS_AddElement
  <2>3. (rest \cup {k}) \cup {o} = rest \cup {o, k}
    OBVIOUS
  <2> QED
    BY <1>4, <1>5, <1>7, <2>1, <2>2, <2>3 DEF Ledger
<1>9. \A x \in rest : SourceEvent(x) # SourceEvent(j)
  BY DEF LedgerFits
<1>10. /\ \A e \in entries : e.type = "SYSTEM"
       /\ \A x : SourceEvent(x) = SourceEvent(o) => x.type = "REVERSAL"
  BY <1>5, SourceEventFields DEF EventsApart
<1> HIDE DEF rest
<1>11. \A x \in after : x \in rest \/ x = k \/ (x = o /\ \A y \in rest : SourceEvent(y) # SourceEvent(o))
  BY <1>7
<1>12. rest \subseteq ledger /\ ledger = rest \cup {j} /\ j \notin rest /\ rest \subseteq after /\ k \in after
  BY <1>7 DEF rest
<1>13. LedgerFits(after, entries)
  <2>1. ASSUME NEW x \in after, NEW y \in after, SourceEvent(x) = SourceEvent(y)
        PROVE  x = y
    <3>1. CASE x \in rest /\ y \in rest
      BY <2>1, <3>1, <1>12 DEF LedgerFits
    <3>2. CASE after = rest \cup {k}
      BY <1>4, <1>9, <2>1, <3>1, <3>2
    <3>3. CASE after = rest \cup {o, k} /\ \A z \in rest : SourceEvent(z) # SourceEvent(o)
      <4>1. SourceEvent(k) # SourceEvent(o)
        BY <1>1, <1>4, <1>10
      <4>2. \A z \in rest : SourceEvent(z) # SourceEvent(k) /\ SourceEvent(z) # SourceEvent(o)
        BY <1>4, <1>9, <3>3
      <4> QED
        BY <2>1, <3>1, <3>3, <4>1, <4>2
    <3> QED
      BY <1>7, <3>2, <3>3
  <2>2. ASSUME NEW x \in after
        PROVE  /\ x.type = "SYSTEM" => \E f \in entries : SourceEvent(f) = SourceEvent(x)
               /\ x.type = "MANUAL" => x.event = "MANUAL"
    BY <1>4, <1>5, <1>11, <1>12, <2>2 DEF LedgerFits
  <2> QED
    BY <2>1, <2>2 DEF LedgerFits
<1>14. MissingFrom(after, entries) = MissingFrom(ledger, entries)
  <2> SUFFICES ASSUME NEW e \in entries
               PROVE  (\E x \in after : SourceEvent(x) = SourceEvent(e))
                        <=> (\E x \in ledger : SourceEvent(x) = SourceEvent(e))
    BY DEF MissingFrom
  <2>1. SourceEvent(o) # SourceEvent(e)
    BY <1>10
  <2> QED
    BY <1>4, <1>11, <1>12, <2>1
<1> DEFINE es == SystemOf(ledger, entries)
<1>15. es \in SUBSET Entries(Sources, Amounts) /\ IsFiniteSet(es)
  BY SystemOfType DEF Ledger
<1>16. Moved(SystemOf(after, entries), a) = Moved(es, a)
  <2>1. CASE j.type = "SYSTEM"
    <3>1. j \in es /\ \A x \in es \ {j} : SourceEvent(x) # SourceEvent(j)
      BY <1>9, <1>12, <2>1 DEF SystemOf, MissingFrom
    <3>2. k \notin es \ {j}
      BY <1>4, <3>1
    <3>3. SystemOf(after, entries) = (es \ {j}) \cup {k}
      <4>1. j \notin MissingFrom(ledger, entries)
        BY <1>12 DEF MissingFrom
      <4> QED
        BY <1>4, <1>5, <1>11, <1>12, <1>14, <2>1, <4>1 DEF SystemOf
    <3> HIDE DEF es
    <3> QED
      BY <1>4, <1>15, <3>1, <3>2, <3>3, MovedReplacing
  <2>2. CASE j.type # "SYSTEM"
    <3>1. SystemOf(after, entries) = es
      BY <1>4, <1>5, <1>11, <1>12, <1>14, <2>2 DEF SystemOf
    <3> QED
      BY <3>1
  <2> QED
    BY <2>1, <2>2
<1> QED
  BY <1>8, <1>13, <1>16

-----------------------------------------------------------------------------
(* Sums over the bills and the payments. *)

(* Two tables of the same kind of rows that differ at most in one of them. *)
DifferAt(before, after, names, kind, x) ==
  /\ before \in [names -> kind]
  /\ after \in [names -> kind]
  /\ \A y \in names \ {x} : after[y] = before[y]

(* Payments amount to an integer, and to no less than one of them. *)
LEMMA AmountType ==
  ASSUME NEW pays \in [Payments -> PaymentRows], NEW ps \in SUBSET Payments
  PROVE  /\ AmountOf(pays, ps) \in Nat
         /\ \A p \in ps : pays[p].amount <= AmountOf(pays, ps)
<1> DEFINE f == [p \in Payments |-> pays[p].amount]
<1>1. \A p \in ps : f[p] \in Nat /\ f[p] = pays[p].amount
  BY AmountAssumption DEF PaymentRows
<1>2. IsFiniteSet(ps)
  BY NamesAssumption, FS_Subset
<1>3. AmountOf(pays, ps) = SumFunctionOnSet(f, ps)
  BY DEF AmountOf
<1> HIDE DEF f
<1>4. SumFunctionOnSet(f, ps) \in Nat
  BY <1>1, <1>2, SumNat
<1>5. ASSUME NEW p \in ps PROVE f[p] <= SumFunctionOnSet(f, ps)
  BY <1>1, <1>2, SumMember
<1> QED
  BY <1>1, <1>3, <1>4, <1>5

(* When one payment changes, the amount moves by what it contributes after less
   what it contributed before. *)
LEMMA AmountMoved ==
  ASSUME NEW pays, NEW after, NEW p \in Payments,
         DifferAt(pays, after, Payments, PaymentRows, p),
         NEW ps \in SUBSET Payments, NEW qs \in SUBSET Payments, ps \ {p} = qs \ {p}
  PROVE  AmountOf(after, qs) =
           AmountOf(pays, ps) + (IF p \in qs THEN after[p].amount ELSE 0)
                              - (IF p \in ps THEN pays[p].amount ELSE 0)
<1> DEFINE f == [q \in Payments |-> pays[q].amount]
           g == [q \in Payments |-> after[q].amount]
<1>1. /\ \A q \in ps : f[q] \in Int
      /\ \A q \in qs : g[q] \in Int
      /\ \A q \in ps \cap qs : q # p => g[q] = f[q]
  BY AmountAssumption DEF DifferAt, PaymentRows
<1>2. IsFiniteSet(ps) /\ IsFiniteSet(qs)
  BY NamesAssumption, FS_Subset
<1>3. f[p] = pays[p].amount /\ g[p] = after[p].amount
  OBVIOUS
<1>4. AmountOf(pays, ps) = SumFunctionOnSet(f, ps) /\ AmountOf(after, qs) = SumFunctionOnSet(g, qs)
  BY DEF AmountOf
<1> HIDE DEF f, g
<1>5. SumFunctionOnSet(g, qs) =
        SumFunctionOnSet(f, ps) + (IF p \in qs THEN g[p] ELSE 0) - (IF p \in ps THEN f[p] ELSE 0)
  BY <1>1, <1>2, SumMoved
<1> QED
  BY <1>3, <1>4, <1>5

(* What is due on some bills is an integer. *)
LEMMA DueType ==
  ASSUME NEW bills \in [Bills -> BillRows], NEW bs \in SUBSET Bills
  PROVE  DueOf(bills, bs) \in Int
<1> DEFINE f == [b \in Bills |-> bills[b].due]
<1>1. \A b \in bs : f[b] \in Int
  BY AmountAssumption DEF BillRows
<1>2. IsFiniteSet(bs)
  BY NamesAssumption, FS_Subset
<1> HIDE DEF f
<1> QED
  BY <1>1, <1>2, SumType DEF DueOf, f

(* When one bill changes, what is due moves by what it contributes. *)
LEMMA DueMoved ==
  ASSUME NEW bills, NEW after, NEW b \in Bills,
         DifferAt(bills, after, Bills, BillRows, b),
         NEW bs \in SUBSET Bills, NEW cs \in SUBSET Bills, bs \ {b} = cs \ {b}
  PROVE  DueOf(after, cs) =
           DueOf(bills, bs) + (IF b \in cs THEN after[b].due ELSE 0)
                            - (IF b \in bs THEN bills[b].due ELSE 0)
<1> DEFINE f == [x \in Bills |-> bills[x].due]
           g == [x \in Bills |-> after[x].due]
<1>1. /\ \A x \in bs : f[x] \in Int
      /\ \A x \in cs : g[x] \in Int
      /\ \A x \in bs \cap cs : x # b => g[x] = f[x]
  BY AmountAssumption DEF DifferAt, BillRows
<1>2. IsFiniteSet(bs) /\ IsFiniteSet(cs)
  BY NamesAssumption, FS_Subset
<1>3. f[b] = bills[b].due /\ g[b] = after[b].due
  OBVIOUS
<1>4. DueOf(bills, bs) = SumFunctionOnSet(f, bs) /\ DueOf(after, cs) = SumFunctionOnSet(g, cs)
  BY DEF DueOf
<1> HIDE DEF f, g
<1>5. SumFunctionOnSet(g, cs) =
        SumFunctionOnSet(f, bs) + (IF b \in cs THEN g[b] ELSE 0) - (IF b \in bs THEN f[b] ELSE 0)
  BY <1>1, <1>2, SumMoved
<1> QED
  BY <1>3, <1>4, <1>5

(* What is due on the posted bills, when one bill changes. *)
LEMMA PostedDueMoved ==
  ASSUME NEW bills, NEW after, NEW b \in Bills, DifferAt(bills, after, Bills, BillRows, b)
  PROVE  /\ DueOf(bills, PostedIn(bills)) \in Int
         /\ DueOf(after, PostedIn(after)) =
              DueOf(bills, PostedIn(bills))
                + (IF b \in PostedIn(after) THEN after[b].due ELSE 0)
                - (IF b \in PostedIn(bills) THEN bills[b].due ELSE 0)
<1> DEFINE bs == PostedIn(bills)
           cs == PostedIn(after)
<1>1. bs \in SUBSET Bills /\ cs \in SUBSET Bills /\ bs \ {b} = cs \ {b}
  BY DEF PostedIn, DifferAt
<1>2. DueOf(bills, bs) \in Int
  BY <1>1, DueType DEF DifferAt
<1> HIDE DEF bs, cs
<1>3. DueOf(after, cs) =
        DueOf(bills, bs) + (IF b \in cs THEN after[b].due ELSE 0)
                         - (IF b \in bs THEN bills[b].due ELSE 0)
  BY <1>1, DueMoved
<1> QED
  BY <1>2, <1>3 DEF bs, cs

(* A payment counts for b, on which it is, and through m, how it was made. *)
CountsFor(row, b) == row.status = "COMPLETED" /\ row.bill = b
CountsThrough(row, m) == row.status = "COMPLETED" /\ row.method = m

(* What stands on a bill, or on account, when one payment changes. *)
LEMMA StandingMoved ==
  ASSUME NEW pays, NEW after, NEW p \in Payments,
         DifferAt(pays, after, Payments, PaymentRows, p), NEW b
  PROVE  /\ AmountOf(pays, StandingIn(pays, b)) \in Int
         /\ AmountOf(after, StandingIn(after, b)) =
              AmountOf(pays, StandingIn(pays, b))
                + (IF CountsFor(after[p], b) THEN after[p].amount ELSE 0)
                - (IF CountsFor(pays[p], b) THEN pays[p].amount ELSE 0)
<1> DEFINE ps == StandingIn(pays, b)
           qs == StandingIn(after, b)
<1>1. /\ ps \in SUBSET Payments /\ qs \in SUBSET Payments /\ ps \ {p} = qs \ {p}
      /\ p \in ps <=> CountsFor(pays[p], b)
      /\ p \in qs <=> CountsFor(after[p], b)
  BY DEF StandingIn, DifferAt, CountsFor
<1>2. AmountOf(pays, ps) \in Int
  BY <1>1, AmountType DEF DifferAt
<1> HIDE DEF ps, qs
<1>3. AmountOf(after, qs) =
        AmountOf(pays, ps) + (IF p \in qs THEN after[p].amount ELSE 0)
                           - (IF p \in ps THEN pays[p].amount ELSE 0)
  BY <1>1, AmountMoved
<1> QED
  BY <1>1, <1>2, <1>3 DEF ps, qs

(* What was paid through a method, when one payment changes. *)
LEMMA ThroughMoved ==
  ASSUME NEW pays, NEW after, NEW p \in Payments,
         DifferAt(pays, after, Payments, PaymentRows, p), NEW m
  PROVE  /\ AmountOf(pays, ThroughIn(pays, m)) \in Int
         /\ AmountOf(after, ThroughIn(after, m)) =
              AmountOf(pays, ThroughIn(pays, m))
                + (IF CountsThrough(after[p], m) THEN after[p].amount ELSE 0)
                - (IF CountsThrough(pays[p], m) THEN pays[p].amount ELSE 0)
<1> DEFINE ps == ThroughIn(pays, m)
           qs == ThroughIn(after, m)
<1>1. /\ ps \in SUBSET Payments /\ qs \in SUBSET Payments /\ ps \ {p} = qs \ {p}
      /\ p \in ps <=> CountsThrough(pays[p], m)
      /\ p \in qs <=> CountsThrough(after[p], m)
  BY DEF ThroughIn, DifferAt, CountsThrough
<1>2. AmountOf(pays, ps) \in Int
  BY <1>1, AmountType DEF DifferAt
<1> HIDE DEF ps, qs
<1>3. AmountOf(after, qs) =
        AmountOf(pays, ps) + (IF p \in qs THEN after[p].amount ELSE 0)
                           - (IF p \in ps THEN pays[p].amount ELSE 0)
  BY <1>1, AmountMoved
<1> QED
  BY <1>1, <1>2, <1>3 DEF ps, qs

-----------------------------------------------------------------------------
(* The entries of what has happened. *)

(* Events that have happened are of different entries of the system. *)
LEMMA HappenedApart ==
  ASSUME NEW bills, NEW pays, DocumentsFit(bills, pays)
  PROVE  Ledger(Happened(bills, pays)) /\ EventsApart(Happened(bills, pays))
<1> DEFINE f == [b \in PostedIn(bills) |-> BillEntry(b, bills[b].total)]
           g == [p \in MadeIn(pays) |-> PaymentCompleted(p, pays[p])]
           h == [p \in TakenBackIn(pays) |-> PaymentReversed(p, pays[p])]
<1>1. /\ PostedIn(bills) \in SUBSET Bills
      /\ MadeIn(pays) \in SUBSET Payments
      /\ TakenBackIn(pays) \in SUBSET MadeIn(pays)
  BY DEF PostedIn, MadeIn, TakenBackIn
<1>2. IsFiniteSet(PostedIn(bills)) /\ IsFiniteSet(MadeIn(pays)) /\ IsFiniteSet(TakenBackIn(pays))
  BY <1>1, NamesAssumption, FS_Subset
<1>3. Happened(bills, pays) =
        (RowsAs(f, PostedIn(bills)) \cup RowsAs(g, MadeIn(pays))) \cup RowsAs(h, TakenBackIn(pays))
  BY DEF Happened, RowsAs
<1>4. IsFiniteSet(Happened(bills, pays))
  <2> HIDE DEF f, g, h
  <2> QED
    BY <1>2, <1>3, RowsAsFinite, FS_Union
<1>5. ASSUME NEW b \in PostedIn(bills)
      PROVE  /\ BillEntry(b, bills[b].total) \in Entries(Sources, Amounts)
             /\ BillEntry(b, bills[b].total).type = "SYSTEM"
             /\ BillEntry(b, bills[b].total).source = b
             /\ BillEntry(b, bills[b].total).event = "BILL_POSTED"
  <2>1. bills[b].total \in Amounts /\ b \in Sources
    BY <1>5 DEF PostedIn, DocumentsFit, Sources
  <2>2. PICK t : t = bills[b].total
    OBVIOUS
  <2> QED
    BY <2>1, <2>2 DEF BillEntry, Entry, Entries, Events, Accounts
<1>6. ASSUME NEW p \in MadeIn(pays)
      PROVE  /\ PaymentCompleted(p, pays[p]) \in Entries(Sources, Amounts)
             /\ PaymentCompleted(p, pays[p]).type = "SYSTEM"
             /\ PaymentCompleted(p, pays[p]).source = p
             /\ PaymentCompleted(p, pays[p]).event = "BILL_PAYMENT"
             /\ PaymentReversed(p, pays[p]) \in Entries(Sources, Amounts)
             /\ PaymentReversed(p, pays[p]).type = "SYSTEM"
             /\ PaymentReversed(p, pays[p]).source = p
             /\ PaymentReversed(p, pays[p]).event = "BILL_PAYMENT_REVERSED"
  <2>1. pays[p].amount \in Amounts /\ p \in Sources /\ pays[p].method \in Accounts
    BY <1>6 DEF MadeIn, DocumentsFit, Sources, PaymentRows, Methods, Accounts
  <2>2. PICK y : y = pays[p]
    OBVIOUS
  <2>3. y.amount \in Amounts /\ y.method \in Accounts
    BY <2>1, <2>2
  <2>4. /\ PaymentCompleted(p, y) \in Entries(Sources, Amounts)
        /\ PaymentCompleted(p, y).type = "SYSTEM"
        /\ PaymentCompleted(p, y).source = p
        /\ PaymentCompleted(p, y).event = "BILL_PAYMENT"
    BY <2>1, <2>3 DEF PaymentCompleted, Entry, Entries, Events, Accounts
  <2>5. /\ PaymentReversed(p, y) \in Entries(Sources, Amounts)
        /\ PaymentReversed(p, y).type = "SYSTEM"
        /\ PaymentReversed(p, y).source = p
        /\ PaymentReversed(p, y).event = "BILL_PAYMENT_REVERSED"
    BY <2>1, <2>3 DEF PaymentReversed, Entry, Entries, Events, Accounts
  <2> QED
    BY <2>2, <2>4, <2>5
<1>7. Ledger(Happened(bills, pays))
  BY <1>1, <1>4, <1>5, <1>6 DEF Ledger, Happened
<1>8. ASSUME NEW e \in Happened(bills, pays)
      PROVE  \/ \E b \in PostedIn(bills) : e = BillEntry(b, bills[b].total)
             \/ \E p \in MadeIn(pays) : e = PaymentCompleted(p, pays[p])
             \/ \E p \in TakenBackIn(pays) : e = PaymentReversed(p, pays[p])
  BY <1>8 DEF Happened
<1>9. \A e \in Happened(bills, pays) :
        e \in Entries(Sources, Amounts) /\ e.type = "SYSTEM" /\ e.event # "MANUAL"
  BY <1>1, <1>5, <1>6, <1>8
<1>10. ASSUME NEW e \in Happened(bills, pays), NEW k \in Happened(bills, pays),
              SourceEvent(e) = SourceEvent(k)
       PROVE  e = k
  <2>1. e.event = k.event /\ e.source = k.source
    BY <1>10, SourceEventFields
  <2>2. CASE \E b \in PostedIn(bills) : e = BillEntry(b, bills[b].total)
    <3>1. PICK b \in PostedIn(bills) : e = BillEntry(b, bills[b].total)
      BY <2>2
    <3>2. k.event = "BILL_POSTED" /\ k.source = b
      BY <1>1, <1>5, <1>6, <2>1, <3>1
    <3>3. PICK c \in PostedIn(bills) : k = BillEntry(c, bills[c].total)
      BY <1>1, <1>5, <1>6, <1>8, <3>2
    <3> QED
      BY <1>5, <3>1, <3>2, <3>3
  <2>3. CASE \E p \in MadeIn(pays) : e = PaymentCompleted(p, pays[p])
    <3>1. PICK p \in MadeIn(pays) : e = PaymentCompleted(p, pays[p])
      BY <2>3
    <3>2. k.event = "BILL_PAYMENT" /\ k.source = p
      BY <1>1, <1>5, <1>6, <2>1, <3>1
    <3>3. PICK q \in MadeIn(pays) : k = PaymentCompleted(q, pays[q])
      BY <1>1, <1>5, <1>6, <1>8, <3>2
    <3> QED
      BY <1>6, <3>1, <3>2, <3>3
  <2>4. CASE \E p \in TakenBackIn(pays) : e = PaymentReversed(p, pays[p])
    <3>1. PICK p \in TakenBackIn(pays) : e = PaymentReversed(p, pays[p])
      BY <2>4
    <3>2. k.event = "BILL_PAYMENT_REVERSED" /\ k.source = p
      BY <1>1, <1>5, <1>6, <2>1, <3>1
    <3>3. PICK q \in TakenBackIn(pays) : k = PaymentReversed(q, pays[q])
      BY <1>1, <1>5, <1>6, <1>8, <3>2
    <3> QED
      BY <1>1, <1>6, <3>1, <3>2, <3>3
  <2> QED
    BY <1>8, <2>2, <2>3, <2>4
<1> QED
  BY <1>7, <1>9, <1>10 DEF EventsApart

-----------------------------------------------------------------------------
(* What the services do to the bills and the payments. *)

(* A bill is written down as a draft. *)
Drafted(bills, after, b) ==
  /\ b \in Bills
  /\ DifferAt(bills, after, Bills, BillRows, b)
  /\ bills[b].status = "NONE"
  /\ after[b].status = "DRAFT" /\ after[b].total \in Amounts
  /\ after[b].paid = 0 /\ after[b].due = after[b].total

(* A draft is posted. *)
PostedNow(bills, after, b) ==
  /\ b \in Bills
  /\ DifferAt(bills, after, Bills, BillRows, b)
  /\ bills[b].status = "DRAFT" /\ after[b].status = "POSTED"
  /\ after[b].total = bills[b].total
  /\ after[b].paid = bills[b].paid /\ after[b].due = bills[b].due

(* A payment is made, on the bill b or on account. *)
PaidNow(bills, bills2, pays, pays2, p, b, amount, method) ==
  /\ p \in Payments /\ b \in Bills \cup {OnAccount} /\ amount \in Amounts /\ method \in Methods
  /\ DifferAt(pays, pays2, Payments, PaymentRows, p)
  /\ pays[p].status = "NONE"
  /\ pays2[p].status = "COMPLETED" /\ pays2[p].bill = b
  /\ pays2[p].amount = amount /\ pays2[p].method = method
  /\ b \notin Bills => bills2 = bills
  /\ b \in Bills =>
       /\ DifferAt(bills, bills2, Bills, BillRows, b)
       /\ b \in PostedIn(bills) /\ amount <= bills[b].due
       /\ bills2[b].paid = bills[b].paid + amount
       /\ bills2[b].due = bills[b].due - amount
       /\ bills2[b].total = bills[b].total
       /\ bills2[b].status = IF bills[b].due = amount THEN "PAID" ELSE "PARTIALLY_PAID"

(* A payment is taken back, from the bill b or from the account. *)
PaidBack(bills, bills2, pays, pays2, p, b, amount, method) ==
  /\ p \in Payments /\ b \in Bills \cup {OnAccount} /\ amount \in Amounts /\ method \in Methods
  /\ DifferAt(pays, pays2, Payments, PaymentRows, p)
  /\ pays[p].status = "COMPLETED" /\ pays[p].bill = b
  /\ pays[p].amount = amount /\ pays[p].method = method
  /\ pays2[p].status = "REVERSED" /\ pays2[p].bill = b
  /\ pays2[p].amount = amount /\ pays2[p].method = method
  /\ b \notin Bills => bills2 = bills
  /\ b \in Bills =>
       /\ DifferAt(bills, bills2, Bills, BillRows, b)
       /\ b \in PostedIn(bills) /\ amount <= bills[b].paid
       /\ bills2[b].paid = bills[b].paid - amount
       /\ bills2[b].due = bills[b].due + amount
       /\ bills2[b].total = bills[b].total
       /\ bills2[b].status = IF bills2[b].paid = 0 THEN "POSTED" ELSE "PARTIALLY_PAID"

(* What the form and the tables say of a bill makes a draft of it. *)
LEMMA CreateBillDrafts ==
  ASSUME NEW bills, NEW pays, DocumentsFit(bills, pays), NEW b \in Bills,
         bills[b].status = "NONE", NEW f \in BillForm,
         NEW after,
         after = [bills EXCEPT ![b] =
           [status |-> "DRAFT", total |-> f.total, paid |-> 0, due |-> f.total, day |-> f.day]]
  PROVE  Drafted(bills, after, b)
<1>1. f.total \in Amounts /\ f.day \in Days
  BY DEF BillForm
<1>2. PICK x : x = [status |-> "DRAFT", total |-> f.total, paid |-> 0,
                    due |-> f.total, day |-> f.day]
  OBVIOUS
<1>3. /\ x \in BillRows
      /\ x.status = "DRAFT" /\ x.total \in Amounts /\ x.paid = 0 /\ x.due = x.total
  BY <1>1, <1>2, AmountAssumption DEF BillRows, Amounts
<1>4. bills \in [Bills -> BillRows]
  BY DEF DocumentsFit
<1>5. /\ after \in [Bills -> BillRows] /\ after[b] = x
      /\ \A y \in Bills \ {b} : after[y] = bills[y]
  BY <1>2, <1>3, <1>4
<1> QED
  BY <1>3, <1>4, <1>5 DEF Drafted, DifferAt

(* Posting changes the status of the bill alone. *)
LEMMA RecordBillPosts ==
  ASSUME NEW bills, NEW pays, DocumentsFit(bills, pays), NEW b \in Bills,
         bills[b].status = "DRAFT",
         NEW after, after = [bills EXCEPT ![b].status = "POSTED"]
  PROVE  PostedNow(bills, after, b)
<1>1. bills \in [Bills -> BillRows]
  BY DEF DocumentsFit
<1>2. PICK x : x = [bills[b] EXCEPT !.status = "POSTED"]
  OBVIOUS
<1>3. /\ x \in BillRows
      /\ x.status = "POSTED" /\ x.total = bills[b].total
      /\ x.paid = bills[b].paid /\ x.due = bills[b].due
  BY <1>1, <1>2 DEF BillRows
<1>4. after = [bills EXCEPT ![b] = x]
  BY <1>2
<1>5. /\ after \in [Bills -> BillRows] /\ after[b] = x
      /\ \A y \in Bills \ {b} : after[y] = bills[y]
  BY <1>1, <1>3, <1>4
<1> QED
  BY <1>1, <1>3, <1>5 DEF PostedNow, DifferAt

(* What Paid and Restored make of the row of a bill. *)
PaidRow(x, amount) ==
  [x EXCEPT !.paid = @ + amount, !.due = @ - amount,
            !.status = IF x.due = amount THEN "PAID" ELSE "PARTIALLY_PAID"]
RestoredRow(x, amount) ==
  LET paid == NonNegative(x.paid - amount)
  IN [x EXCEPT !.paid = paid, !.due = @ + amount,
               !.status = IF paid = 0 THEN "POSTED" ELSE "PARTIALLY_PAID"]

(* The fields of the row of a bill after a payment. *)
LEMMA PaidRowFields ==
  ASSUME NEW x \in BillRows, NEW amount, NEW st, NEW pd, NEW du,
         st = IF x.due = amount THEN "PAID" ELSE "PARTIALLY_PAID",
         pd = x.paid + amount, du = x.due - amount,
         NEW y, y = PaidRow(x, amount)
  PROVE  y = [status |-> st, total |-> x.total, paid |-> pd, due |-> du, day |-> x.day]
BY DEF PaidRow, BillRows

(* A bill paid within what is due is a bill. *)
LEMMA PaidRowIs ==
  ASSUME NEW x \in BillRows, NEW amount \in Amounts, amount <= x.due, x.paid + x.due = x.total,
         NEW y, y = PaidRow(x, amount)
  PROVE  /\ y \in BillRows
         /\ y.paid = x.paid + amount /\ y.due = x.due - amount /\ y.total = x.total
         /\ y.status = IF x.due = amount THEN "PAID" ELSE "PARTIALLY_PAID"
<1>1. PICK st, pd, du :
        /\ st = IF x.due = amount THEN "PAID" ELSE "PARTIALLY_PAID"
        /\ pd = x.paid + amount /\ du = x.due - amount
  OBVIOUS
<1>2. /\ x.total \in 0..MaxAmount /\ x.due \in 0..MaxAmount /\ x.paid \in 0..MaxAmount
      /\ x.day \in Days
      /\ amount \in 1..MaxAmount /\ MaxAmount \in Nat
  BY AmountAssumption DEF BillRows, Amounts
<1>3. pd \in 0..MaxAmount /\ du \in 0..MaxAmount
  BY <1>1, <1>2
<1>4. st \in {"NONE", "DRAFT", "POSTED", "PARTIALLY_PAID", "PAID"}
  BY <1>1
<1>5. y = [status |-> st, total |-> x.total, paid |-> pd, due |-> du, day |-> x.day]
  BY <1>1, PaidRowFields
<1> QED
  BY <1>1, <1>2, <1>3, <1>4, <1>5 DEF BillRows

(* A bill of which no more is restored than was paid is a bill. *)
LEMMA RestoredRowIs ==
  ASSUME NEW x \in BillRows, NEW amount \in Amounts, amount <= x.paid, x.paid + x.due = x.total,
         NEW y, y = RestoredRow(x, amount)
  PROVE  /\ y \in BillRows
         /\ y.paid = x.paid - amount /\ y.due = x.due + amount /\ y.total = x.total
         /\ y.status = IF y.paid = 0 THEN "POSTED" ELSE "PARTIALLY_PAID"
<1>1. PICK st, pd, du :
        /\ pd = x.paid - amount /\ du = x.due + amount
        /\ st = IF pd = 0 THEN "POSTED" ELSE "PARTIALLY_PAID"
  OBVIOUS
<1>2. /\ x.total \in 0..MaxAmount /\ x.due \in 0..MaxAmount /\ x.paid \in 0..MaxAmount
      /\ x.day \in Days
      /\ amount \in 1..MaxAmount /\ MaxAmount \in Nat
  BY AmountAssumption DEF BillRows, Amounts
<1>3. pd \in 0..MaxAmount /\ du \in 0..MaxAmount
  BY <1>1, <1>2
<1>4. st \in {"NONE", "DRAFT", "POSTED", "PARTIALLY_PAID", "PAID"}
  BY <1>1
<1>5. NonNegative(x.paid - amount) = pd
  BY <1>1, <1>2 DEF NonNegative
<1>6. y = [status |-> st, total |-> x.total, paid |-> pd, due |-> du, day |-> x.day]
  BY <1>1, <1>5 DEF RestoredRow, BillRows
<1> QED
  BY <1>1, <1>2, <1>3, <1>4, <1>6 DEF BillRows

(* The payment service makes a payment. *)
LEMMA RecordPaymentPays ==
  ASSUME NEW bills, NEW pays, DocumentsFit(bills, pays), NEW owed, NEW system,
         Agree(bills, pays, owed, system),
         NEW p \in Payments, pays[p].status = "NONE", NEW b \in Bills \cup {OnAccount},
         NEW amount \in Amounts, NEW method \in Methods, NEW day \in Days,
         b \in Bills =>
           bills[b].status \in {"POSTED", "PARTIALLY_PAID"} /\ amount <= bills[b].due,
         NEW pays2, pays2 = [pays EXCEPT ![p] =
           [status |-> "COMPLETED", bill |-> b, amount |-> amount, method |-> method, day |-> day]],
         NEW bills2, bills2 = [x \in Bills |-> IF x = b THEN PaidRow(bills[x], amount) ELSE bills[x]]
  PROVE  PaidNow(bills, bills2, pays, pays2, p, b, amount, method)
<1>1. bills \in [Bills -> BillRows] /\ pays \in [Payments -> PaymentRows]
  BY DEF DocumentsFit
<1>2. PICK x : x = [status |-> "COMPLETED", bill |-> b, amount |-> amount,
                    method |-> method, day |-> day]
  OBVIOUS
<1>3. /\ x \in PaymentRows
      /\ x.status = "COMPLETED" /\ x.bill = b /\ x.amount = amount /\ x.method = method
  BY <1>2, AmountAssumption DEF PaymentRows, Amounts
<1>4. /\ pays2 \in [Payments -> PaymentRows] /\ pays2[p] = x
      /\ \A q \in Payments \ {p} : pays2[q] = pays[q]
  BY <1>1, <1>2, <1>3
<1>5. b \notin Bills => bills2 = bills
  BY <1>1
<1>6. ASSUME b \in Bills
      PROVE  /\ DifferAt(bills, bills2, Bills, BillRows, b)
             /\ b \in PostedIn(bills) /\ amount <= bills[b].due
             /\ bills2[b].paid = bills[b].paid + amount
             /\ bills2[b].due = bills[b].due - amount
             /\ bills2[b].total = bills[b].total
             /\ bills2[b].status = IF bills[b].due = amount THEN "PAID" ELSE "PARTIALLY_PAID"
  <2>1. bills[b] \in BillRows /\ bills[b].paid + bills[b].due = bills[b].total
    BY <1>1, <1>6 DEF Agree
  <2>2. bills2[b] = PaidRow(bills[b], amount)
    BY <1>6
  <2>3. \A y \in Bills \ {b} : bills2[y] = bills[y]
    OBVIOUS
  <2>4. /\ bills2[b] \in BillRows
        /\ bills2[b].paid = bills[b].paid + amount
        /\ bills2[b].due = bills[b].due - amount
        /\ bills2[b].total = bills[b].total
        /\ bills2[b].status = IF bills[b].due = amount THEN "PAID" ELSE "PARTIALLY_PAID"
    BY <1>6, <2>1, <2>2, PaidRowIs
  <2>5. \A y \in Bills : bills2[y] \in BillRows
    BY <1>1, <2>3, <2>4
  <2>6. bills2 \in [Bills -> BillRows]
    BY <2>5
  <2>7. b \in PostedIn(bills) /\ amount <= bills[b].due
    BY <1>6 DEF PostedIn
  <2> QED
    BY <1>1, <2>3, <2>4, <2>6, <2>7 DEF DifferAt
<1> QED
  BY <1>1, <1>3, <1>4, <1>5, <1>6 DEF PaidNow, DifferAt

(* The payment service takes a payment back. *)
LEMMA RecordReversalPaysBack ==
  ASSUME NEW bills, NEW pays, DocumentsFit(bills, pays), NEW owed, NEW system,
         Agree(bills, pays, owed, system),
         NEW p \in Payments, pays[p].status = "COMPLETED",
         NEW b, b = pays[p].bill, NEW amount, amount = pays[p].amount,
         NEW pays2, pays2 = [pays EXCEPT ![p].status = "REVERSED"],
         NEW bills2,
         bills2 = [x \in Bills |-> IF x = b THEN RestoredRow(bills[x], amount) ELSE bills[x]]
  PROVE  PaidBack(bills, bills2, pays, pays2, p, b, amount, pays[p].method)
<1>1. bills \in [Bills -> BillRows] /\ pays \in [Payments -> PaymentRows]
  BY DEF DocumentsFit
<1>2. PICK x : x = [pays[p] EXCEPT !.status = "REVERSED"]
  OBVIOUS
<1>3. /\ x \in PaymentRows
      /\ x.status = "REVERSED" /\ x.bill = b /\ x.amount = amount /\ x.method = pays[p].method
  BY <1>1, <1>2 DEF PaymentRows
<1>4. pays2 = [pays EXCEPT ![p] = x]
  BY <1>2
<1>5. /\ pays2 \in [Payments -> PaymentRows] /\ pays2[p] = x
      /\ \A q \in Payments \ {p} : pays2[q] = pays[q]
  BY <1>1, <1>3, <1>4
<1>6. /\ b \in Bills \cup {OnAccount} /\ pays[p].method \in Methods /\ amount \in Amounts
      /\ b \in Bills => b \in PostedIn(bills)
  BY <1>1 DEF PaymentRows, DocumentsFit, MadeIn
<1>7. b \notin Bills => bills2 = bills
  BY <1>1
<1>8. ASSUME b \in Bills
      PROVE  /\ DifferAt(bills, bills2, Bills, BillRows, b)
             /\ amount <= bills[b].paid
             /\ bills2[b].paid = bills[b].paid - amount
             /\ bills2[b].due = bills[b].due + amount
             /\ bills2[b].total = bills[b].total
             /\ bills2[b].status = IF bills2[b].paid = 0 THEN "POSTED" ELSE "PARTIALLY_PAID"
  <2>1. /\ bills[b] \in BillRows /\ bills[b].paid + bills[b].due = bills[b].total
        /\ bills[b].paid = AmountOf(pays, StandingIn(pays, b))
    BY <1>1, <1>8 DEF Agree
  <2>2. bills2[b] = RestoredRow(bills[b], amount)
    BY <1>8
  <2>3. \A y \in Bills \ {b} : bills2[y] = bills[y]
    OBVIOUS
  <2>4. amount <= bills[b].paid
    <3>1. p \in StandingIn(pays, b) /\ StandingIn(pays, b) \in SUBSET Payments
      BY DEF StandingIn
    <3> QED
      BY <1>1, <2>1, <3>1, AmountType
  <2>5. /\ bills2[b] \in BillRows
        /\ bills2[b].paid = bills[b].paid - amount
        /\ bills2[b].due = bills[b].due + amount
        /\ bills2[b].total = bills[b].total
        /\ bills2[b].status = IF bills2[b].paid = 0 THEN "POSTED" ELSE "PARTIALLY_PAID"
    BY <1>6, <2>1, <2>2, <2>4, RestoredRowIs
  <2>6. \A y \in Bills : bills2[y] \in BillRows
    BY <1>1, <2>3, <2>5
  <2>7. bills2 \in [Bills -> BillRows]
    BY <2>6
  <2> QED
    BY <1>1, <2>3, <2>4, <2>5, <2>7 DEF DifferAt
<1> QED
  BY <1>1, <1>3, <1>5, <1>6, <1>7, <1>8 DEF PaidBack, DifferAt

-----------------------------------------------------------------------------
(* The documents still fit, what has happened grows by one event, and the story
   still agrees. *)

(* The two sides of the same set of facts before and after an event of the system
   whose entry is e: what is owed and what the accounts have moved. *)
MovesBy(system, system2, e) ==
  \A a \in Accounts : Moved(system, a) \in Int /\ Moved(system2, a) = Moved(system, a) + Side(e, a)

(* A draft disturbs nothing. *)
LEMMA DraftKeeps ==
  ASSUME NEW bills, NEW pays, DocumentsFit(bills, pays), NEW after, NEW b, Drafted(bills, after, b),
         NEW owed, NEW system, Agree(bills, pays, owed, system)
  PROVE  /\ DocumentsFit(after, pays)
         /\ PostedIn(after) = PostedIn(bills)
         /\ Happened(after, pays) = Happened(bills, pays)
         /\ Agree(after, pays, owed, system)
<1>1. /\ b \in Bills /\ after \in [Bills -> BillRows]
      /\ \A x \in Bills \ {b} : after[x] = bills[x]
      /\ b \notin PostedIn(bills) /\ b \notin PostedIn(after)
      /\ after[b].paid = 0 /\ after[b].due = after[b].total /\ after[b].total \in Amounts
      /\ bills[b].paid = 0
  BY DEF Drafted, DifferAt, PostedIn, DocumentsFit
<1>2. PostedIn(after) = PostedIn(bills)
  BY <1>1 DEF PostedIn
<1>3. DocumentsFit(after, pays)
  BY <1>1, <1>2 DEF DocumentsFit
<1>4. Happened(after, pays) = Happened(bills, pays)
  <2>1. {BillEntry(x, after[x].total) : x \in PostedIn(after)} =
          {BillEntry(x, bills[x].total) : x \in PostedIn(bills)}
    <3>1. \A x \in PostedIn(bills) : after[x] = bills[x]
      BY <1>1 DEF PostedIn
    <3> QED
      BY <1>2, <3>1
  <2> QED
    BY <2>1 DEF Happened
<1>5. DueOf(after, PostedIn(after)) = DueOf(bills, PostedIn(bills))
  BY <1>1, PostedDueMoved DEF Drafted
<1>6. ASSUME NEW x \in Bills
      PROVE  /\ after[x].paid = AmountOf(pays, StandingIn(pays, x))
             /\ after[x].paid + after[x].due = after[x].total
             /\ x \in PostedIn(after) => (after[x].status = "PAID") = (after[x].due = 0)
  <2>1. CASE x = b
    <3>1. after[b].paid = AmountOf(pays, StandingIn(pays, b))
      BY <1>1 DEF Agree
    <3>2. after[b].paid + after[b].due = after[b].total
      BY <1>1, AmountAssumption DEF Amounts
    <3> QED
      BY <1>1, <2>1, <3>1, <3>2
  <2>2. CASE x # b
    BY <1>1, <1>2, <2>2 DEF Agree
  <2> QED
    BY <2>1, <2>2
<1> QED
  BY <1>2, <1>3, <1>4, <1>5, <1>6 DEF Agree

(* Posting a bill is an event: the supplier is owed its total. *)
LEMMA PostingDocuments ==
  ASSUME NEW bills, NEW pays, DocumentsFit(bills, pays), NEW after, NEW b, PostedNow(bills, after, b)
  PROVE  /\ DocumentsFit(after, pays)
         /\ PostedIn(after) = PostedIn(bills) \cup {b} /\ b \notin PostedIn(bills)
         /\ Happened(after, pays) = Happened(bills, pays) \cup {BillEntry(b, bills[b].total)}
         /\ BillEntry(b, bills[b].total) \notin Happened(bills, pays)
<1>1. /\ b \in Bills /\ after \in [Bills -> BillRows]
      /\ \A x \in Bills \ {b} : after[x] = bills[x]
      /\ b \notin PostedIn(bills) /\ b \in PostedIn(after)
      /\ after[b].total = bills[b].total /\ after[b].status = "POSTED"
      /\ bills[b].total \in Amounts
  BY DEF PostedNow, DifferAt, PostedIn, DocumentsFit
<1>2. PostedIn(after) = PostedIn(bills) \cup {b}
  BY <1>1 DEF PostedIn
<1>3. DocumentsFit(after, pays)
  BY <1>1, <1>2 DEF DocumentsFit
<1>4. Happened(after, pays) = Happened(bills, pays) \cup {BillEntry(b, bills[b].total)}
  <2>1. {BillEntry(x, after[x].total) : x \in PostedIn(after)} =
          {BillEntry(x, bills[x].total) : x \in PostedIn(bills)} \cup {BillEntry(b, bills[b].total)}
    <3>1. \A x \in PostedIn(bills) : after[x] = bills[x]
      BY <1>1 DEF PostedIn
    <3> QED
      BY <1>1, <1>2, <3>1
  <2> QED
    BY <2>1 DEF Happened
<1>5. ASSUME BillEntry(b, bills[b].total) \in Happened(bills, pays) PROVE FALSE
  <2>1. PICK e : e = BillEntry(b, bills[b].total)
    OBVIOUS
  <2>2. e.event = "BILL_POSTED" /\ e.source = b
    BY <2>1 DEF BillEntry, Entry
  <2>3. \A x \in PostedIn(bills) : BillEntry(x, bills[x].total).source = x
    BY DEF BillEntry, Entry
  <2>4. \A p, y : /\ PaymentCompleted(p, y).event # "BILL_POSTED"
                  /\ PaymentReversed(p, y).event # "BILL_POSTED"
    BY DEF PaymentCompleted, PaymentReversed, Entry
  <2> QED
    BY <1>1, <1>5, <2>1, <2>2, <2>3, <2>4 DEF Happened
<1> QED
  BY <1>1, <1>2, <1>3, <1>4, <1>5

(* The accounts still agree after a bill was posted. *)
LEMMA PostingAgrees ==
  ASSUME NEW bills, NEW pays, DocumentsFit(bills, pays), NEW after, NEW b, PostedNow(bills, after, b),
         NEW owed \in Int, NEW system, Agree(bills, pays, owed, system),
         NEW system2, MovesBy(system, system2, BillEntry(b, bills[b].total))
  PROVE  Agree(after, pays, owed + bills[b].total, system2)
<1>1. /\ b \in Bills /\ bills[b].total \in Amounts
      /\ \A x \in Bills \ {b} : after[x] = bills[x]
      /\ b \notin PostedIn(bills) /\ b \in PostedIn(after)
      /\ after[b].total = bills[b].total /\ after[b].status = "POSTED"
      /\ after[b].paid = bills[b].paid /\ after[b].due = bills[b].due
      /\ bills[b].due = bills[b].total
  BY DEF PostedNow, DifferAt, PostedIn, DocumentsFit
<1>2. PICK t : t = bills[b].total
  OBVIOUS
<1>3. t \in Int /\ t > 0
  BY <1>1, <1>2, AmountAssumption DEF Amounts
<1>4. /\ DueOf(bills, PostedIn(bills)) \in Int
      /\ DueOf(after, PostedIn(after)) = DueOf(bills, PostedIn(bills)) + t
  BY <1>1, <1>2, <1>3, PostedDueMoved DEF PostedNow
<1>5. AmountOf(pays, StandingIn(pays, OnAccount)) \in Int
  BY AmountType DEF DocumentsFit, StandingIn
<1>6. /\ Side(BillEntry(b, t), "PAYABLE") = -t
      /\ \A m \in Methods : Side(BillEntry(b, t), m) = 0
  BY <1>3 DEF Side, BillEntry, Entry, Methods
<1>7. /\ Moved(system, "PAYABLE") \in Int
      /\ Moved(system2, "PAYABLE") = Moved(system, "PAYABLE") + (-t)
      /\ \A m \in Methods : Moved(system, m) \in Int /\ Moved(system2, m) = Moved(system, m) + 0
  BY <1>2, <1>6 DEF MovesBy, Accounts, Methods
<1>8. owed + t = DueOf(after, PostedIn(after)) - AmountOf(pays, StandingIn(pays, OnAccount))
  BY <1>3, <1>4, <1>5 DEF Agree
<1>9. Moved(system2, "PAYABLE") = -(owed + t)
  BY <1>3, <1>7 DEF Agree
<1>10. \A m \in Methods : Moved(system2, m) = -AmountOf(pays, ThroughIn(pays, m))
  BY <1>7 DEF Agree
<1>11. ASSUME NEW x \in Bills
       PROVE  /\ after[x].paid = AmountOf(pays, StandingIn(pays, x))
              /\ after[x].paid + after[x].due = after[x].total
              /\ x \in PostedIn(after) => (after[x].status = "PAID") = (after[x].due = 0)
  <2>1. CASE x = b
    <3>1. after[b].paid = AmountOf(pays, StandingIn(pays, b))
      BY <1>1 DEF Agree
    <3>2. after[b].paid + after[b].due = after[b].total
      BY <1>1 DEF Agree
    <3>3. after[b].status # "PAID" /\ after[b].due # 0
      BY <1>1, <1>2, <1>3
    <3> QED
      BY <2>1, <3>1, <3>2, <3>3
  <2>2. CASE x # b
    <3>1. x \in PostedIn(after) => x \in PostedIn(bills)
      BY <1>1, <2>2 DEF PostedIn
    <3> QED
      BY <1>1, <2>2, <3>1 DEF Agree
  <2> QED
    BY <2>1, <2>2
<1> QED
  BY <1>2, <1>8, <1>9, <1>10, <1>11 DEF Agree

(* A payment is an event. *)
LEMMA PayingDocuments ==
  ASSUME NEW bills, NEW pays, DocumentsFit(bills, pays), NEW bills2, NEW pays2,
         NEW p, NEW b, NEW amount, NEW method,
         PaidNow(bills, bills2, pays, pays2, p, b, amount, method)
  PROVE  /\ DocumentsFit(bills2, pays2)
         /\ PostedIn(bills2) = PostedIn(bills)
         /\ MadeIn(pays2) = MadeIn(pays) \cup {p} /\ p \notin MadeIn(pays)
         /\ TakenBackIn(pays2) = TakenBackIn(pays)
         /\ Happened(bills2, pays2) = Happened(bills, pays) \cup {PaymentCompleted(p, pays2[p])}
         /\ PaymentCompleted(p, pays2[p]) \notin Happened(bills, pays)
<1>1. /\ p \in Payments /\ pays2 \in [Payments -> PaymentRows]
      /\ \A q \in Payments \ {p} : pays2[q] = pays[q]
      /\ pays[p].status = "NONE" /\ pays2[p].status = "COMPLETED"
      /\ pays2[p].bill = b /\ pays2[p].amount \in Amounts
  BY DEF PaidNow, DifferAt
<1>2. /\ bills2 \in [Bills -> BillRows]
      /\ \A x \in Bills \ {b} : bills2[x] = bills[x]
      /\ \A x \in Bills : bills2[x].total = bills[x].total
      /\ b \in Bills =>
           b \in PostedIn(bills) /\ bills2[b].status \in {"PAID", "PARTIALLY_PAID"}
  BY DEF PaidNow, DifferAt, DocumentsFit
<1>3. PostedIn(bills2) = PostedIn(bills)
  BY <1>2 DEF PostedIn
<1>4. /\ MadeIn(pays2) = MadeIn(pays) \cup {p} /\ p \notin MadeIn(pays)
      /\ TakenBackIn(pays2) = TakenBackIn(pays)
  BY <1>1 DEF MadeIn, TakenBackIn
<1>5. DocumentsFit(bills2, pays2)
  <2>1. \A x \in Bills :
          /\ bills2[x].status # "NONE" => bills2[x].total \in Amounts
          /\ x \notin PostedIn(bills2) => bills2[x].paid = 0 /\ bills2[x].due = bills2[x].total
    <3> SUFFICES ASSUME NEW x \in Bills
                 PROVE  /\ bills2[x].status # "NONE" => bills2[x].total \in Amounts
                        /\ x \notin PostedIn(bills2) =>
                             bills2[x].paid = 0 /\ bills2[x].due = bills2[x].total
      OBVIOUS
    <3>1. CASE x = b
      BY <1>2, <1>3, <3>1 DEF DocumentsFit, PostedIn
    <3>2. CASE x # b
      BY <1>2, <1>3, <3>2 DEF DocumentsFit
    <3> QED
      BY <3>1, <3>2
  <2>2. ASSUME NEW q \in MadeIn(pays2)
        PROVE  /\ pays2[q].amount \in Amounts
               /\ pays2[q].bill \in Bills => pays2[q].bill \in PostedIn(bills2)
    <3>1. CASE q = p
      BY <1>1, <1>2, <1>3, <3>1
    <3>2. CASE q # p
      BY <1>1, <1>3, <1>4, <2>2, <3>2 DEF DocumentsFit, MadeIn
    <3> QED
      BY <3>1, <3>2
  <2> QED
    BY <1>1, <1>2, <2>1, <2>2 DEF DocumentsFit
<1>6. Happened(bills2, pays2) = Happened(bills, pays) \cup {PaymentCompleted(p, pays2[p])}
  <2>1. {BillEntry(x, bills2[x].total) : x \in PostedIn(bills2)} =
          {BillEntry(x, bills[x].total) : x \in PostedIn(bills)}
    <3>1. \A x \in PostedIn(bills) : bills2[x].total = bills[x].total
      BY <1>2 DEF PostedIn
    <3> QED
      BY <1>3, <3>1
  <2>2. {PaymentCompleted(q, pays2[q]) : q \in MadeIn(pays2)} =
          {PaymentCompleted(q, pays[q]) : q \in MadeIn(pays)} \cup {PaymentCompleted(p, pays2[p])}
    <3>1. \A q \in MadeIn(pays) : pays2[q] = pays[q]
      BY <1>1, <1>4 DEF MadeIn
    <3> QED
      BY <1>4, <3>1
  <2>3. {PaymentReversed(q, pays2[q]) : q \in TakenBackIn(pays2)} =
          {PaymentReversed(q, pays[q]) : q \in TakenBackIn(pays)}
    <3>1. \A q \in TakenBackIn(pays) : pays2[q] = pays[q]
      BY <1>1 DEF TakenBackIn
    <3> QED
      BY <1>4, <3>1
  <2> QED
    BY <2>1, <2>2, <2>3 DEF Happened
<1>7. ASSUME PaymentCompleted(p, pays2[p]) \in Happened(bills, pays) PROVE FALSE
  <2>1. PICK e : e = PaymentCompleted(p, pays2[p])
    OBVIOUS
  <2>2. e.event = "BILL_PAYMENT" /\ e.source = p
    BY <2>1 DEF PaymentCompleted, Entry
  <2>3. \A q, y : PaymentCompleted(q, y).source = q
    BY DEF PaymentCompleted, Entry
  <2>4. \A q, y : /\ BillEntry(q, y).event # "BILL_PAYMENT"
                  /\ PaymentReversed(q, y).event # "BILL_PAYMENT"
    BY DEF BillEntry, PaymentReversed, Entry
  <2> QED
    BY <1>4, <1>7, <2>1, <2>2, <2>3, <2>4 DEF Happened
<1> QED
  BY <1>3, <1>4, <1>5, <1>6, <1>7

(* The accounts still agree after a payment: the supplier is owed less. *)
LEMMA PayingAgrees ==
  ASSUME NEW bills, NEW pays, DocumentsFit(bills, pays), NEW bills2, NEW pays2,
         NEW p, NEW b, NEW amount, NEW method,
         PaidNow(bills, bills2, pays, pays2, p, b, amount, method),
         NEW owed \in Int, NEW system, Agree(bills, pays, owed, system),
         NEW system2, MovesBy(system, system2, PaymentCompleted(p, pays2[p]))
  PROVE  Agree(bills2, pays2, owed - amount, system2)
<1>1. /\ p \in Payments /\ b \in Bills \cup {OnAccount} /\ method \in Methods
      /\ amount \in Int /\ amount > 0
      /\ DifferAt(pays, pays2, Payments, PaymentRows, p)
      /\ \A x : /\ CountsFor(pays2[p], x) <=> x = b
                /\ ~CountsFor(pays[p], x)
                /\ CountsThrough(pays2[p], x) <=> x = method
                /\ ~CountsThrough(pays[p], x)
      /\ pays2[p].amount = amount /\ pays2[p].method = method
  BY AmountAssumption DEF PaidNow, CountsFor, CountsThrough, Amounts
<1>2. PostedIn(bills2) = PostedIn(bills)
  BY PayingDocuments
<1>3. \A x : /\ AmountOf(pays, StandingIn(pays, x)) \in Int
             /\ AmountOf(pays2, StandingIn(pays2, x)) =
                  AmountOf(pays, StandingIn(pays, x)) + (IF x = b THEN amount ELSE 0)
  <2> TAKE x
  <2>1. /\ AmountOf(pays, StandingIn(pays, x)) \in Int
        /\ AmountOf(pays2, StandingIn(pays2, x)) =
             AmountOf(pays, StandingIn(pays, x))
               + (IF CountsFor(pays2[p], x) THEN pays2[p].amount ELSE 0)
               - (IF CountsFor(pays[p], x) THEN pays[p].amount ELSE 0)
    BY <1>1, StandingMoved
  <2> QED
    BY <1>1, <2>1
<1>4. \A m : /\ AmountOf(pays, ThroughIn(pays, m)) \in Int
             /\ AmountOf(pays2, ThroughIn(pays2, m)) =
                  AmountOf(pays, ThroughIn(pays, m)) + (IF m = method THEN amount ELSE 0)
  <2> TAKE m
  <2>1. /\ AmountOf(pays, ThroughIn(pays, m)) \in Int
        /\ AmountOf(pays2, ThroughIn(pays2, m)) =
             AmountOf(pays, ThroughIn(pays, m))
               + (IF CountsThrough(pays2[p], m) THEN pays2[p].amount ELSE 0)
               - (IF CountsThrough(pays[p], m) THEN pays[p].amount ELSE 0)
    BY <1>1, ThroughMoved
  <2> QED
    BY <1>1, <2>1
<1>5. /\ DueOf(bills, PostedIn(bills)) \in Int
      /\ DueOf(bills2, PostedIn(bills2)) =
           DueOf(bills, PostedIn(bills)) - (IF b \in Bills THEN amount ELSE 0)
  <2>1. CASE b \in Bills
    <3>1. /\ DifferAt(bills, bills2, Bills, BillRows, b) /\ b \in PostedIn(bills)
          /\ bills2[b].due = bills[b].due - amount /\ bills[b].due \in Int
      BY <2>1, AmountAssumption DEF PaidNow, DifferAt, BillRows
    <3>2. /\ DueOf(bills, PostedIn(bills)) \in Int
          /\ DueOf(bills2, PostedIn(bills2)) =
               DueOf(bills, PostedIn(bills)) + bills2[b].due - bills[b].due
      BY <1>2, <2>1, <3>1, PostedDueMoved
    <3> QED
      BY <1>1, <2>1, <3>1, <3>2
  <2>2. CASE b \notin Bills
    <3>1. bills2 = bills /\ PostedIn(bills) \in SUBSET Bills /\ bills \in [Bills -> BillRows]
      BY <2>2 DEF PaidNow, PostedIn, DocumentsFit
    <3> QED
      BY <2>2, <3>1, DueType
  <2> QED
    BY <2>1, <2>2
<1>6. owed - amount =
        DueOf(bills2, PostedIn(bills2)) - AmountOf(pays2, StandingIn(pays2, OnAccount))
  <2>1. OnAccount = b <=> b \notin Bills
    BY <1>1, NamesAssumption
  <2>2. owed = DueOf(bills, PostedIn(bills)) - AmountOf(pays, StandingIn(pays, OnAccount))
    BY DEF Agree
  <2> QED
    BY <1>1, <1>3, <1>5, <2>1, <2>2
<1>7. PICK e : e = PaymentCompleted(p, pays2[p])
  OBVIOUS
<1>8. /\ Side(e, "PAYABLE") = amount
      /\ \A m \in Methods : Side(e, m) = IF m = method THEN -amount ELSE 0
  <2>1. e.debit = "PAYABLE" /\ e.credit = method /\ e.amount = amount
    BY <1>1, <1>7 DEF PaymentCompleted, Entry
  <2>2. "PAYABLE" \notin Methods
    BY DEF Methods
  <2> QED
    BY <1>1, <2>1, <2>2 DEF Side
<1>9. /\ Moved(system, "PAYABLE") \in Int
      /\ Moved(system2, "PAYABLE") = Moved(system, "PAYABLE") + amount
      /\ \A m \in Methods :
           /\ Moved(system, m) \in Int
           /\ Moved(system2, m) = Moved(system, m) + (IF m = method THEN -amount ELSE 0)
  BY <1>7, <1>8 DEF MovesBy, Accounts, Methods
<1>10. Moved(system2, "PAYABLE") = -(owed - amount)
  <2>1. Moved(system, "PAYABLE") = -owed
    BY DEF Agree
  <2> QED
    BY <1>1, <1>9, <2>1
<1>11. ASSUME NEW m \in Methods
       PROVE  Moved(system2, m) = -AmountOf(pays2, ThroughIn(pays2, m))
  <2>1. Moved(system, m) = -AmountOf(pays, ThroughIn(pays, m))
    BY DEF Agree
  <2> QED
    BY <1>1, <1>4, <1>9, <2>1
<1>12. ASSUME NEW x \in Bills
       PROVE  /\ bills2[x].paid = AmountOf(pays2, StandingIn(pays2, x))
              /\ bills2[x].paid + bills2[x].due = bills2[x].total
              /\ x \in PostedIn(bills2) => (bills2[x].status = "PAID") = (bills2[x].due = 0)
  <2>1. /\ bills[x].paid = AmountOf(pays, StandingIn(pays, x))
        /\ bills[x].paid + bills[x].due = bills[x].total
        /\ x \in PostedIn(bills) => (bills[x].status = "PAID") = (bills[x].due = 0)
    BY DEF Agree
  <2>2. CASE x = b
    <3>1. /\ bills2[x].paid = bills[x].paid + amount
          /\ bills2[x].due = bills[x].due - amount
          /\ bills2[x].total = bills[x].total
          /\ bills2[x].status = IF bills[x].due = amount THEN "PAID" ELSE "PARTIALLY_PAID"
          /\ bills[x].paid \in Int /\ bills[x].due \in Int
      BY <2>2, AmountAssumption DEF PaidNow, DifferAt, BillRows
    <3>2. bills2[x].paid = AmountOf(pays2, StandingIn(pays2, x))
      BY <1>3, <2>1, <2>2, <3>1
    <3>3. bills2[x].paid + bills2[x].due = bills2[x].total
      BY <1>1, <2>1, <3>1
    <3>4. bills2[x].due = 0 <=> bills[x].due = amount
      BY <1>1, <3>1
    <3>5. bills2[x].status = "PAID" <=> bills[x].due = amount
      BY <3>1
    <3> QED
      BY <3>2, <3>3, <3>4, <3>5
  <2>3. CASE x # b
    <3>1. bills2[x] = bills[x]
      BY <2>3 DEF PaidNow, DifferAt
    <3> QED
      BY <1>2, <1>3, <2>1, <2>3, <3>1
  <2> QED
    BY <2>2, <2>3
<1> QED
  BY <1>6, <1>10, <1>11, <1>12 DEF Agree

(* Taking a payment back is an event. *)
LEMMA PayingBackDocuments ==
  ASSUME NEW bills, NEW pays, DocumentsFit(bills, pays), NEW bills2, NEW pays2,
         NEW p, NEW b, NEW amount, NEW method,
         PaidBack(bills, bills2, pays, pays2, p, b, amount, method)
  PROVE  /\ DocumentsFit(bills2, pays2)
         /\ PostedIn(bills2) = PostedIn(bills)
         /\ MadeIn(pays2) = MadeIn(pays)
         /\ TakenBackIn(pays2) = TakenBackIn(pays) \cup {p} /\ p \notin TakenBackIn(pays)
         /\ Happened(bills2, pays2) = Happened(bills, pays) \cup {PaymentReversed(p, pays[p])}
         /\ PaymentReversed(p, pays[p]) \notin Happened(bills, pays)
<1>1. /\ p \in Payments /\ pays2 \in [Payments -> PaymentRows]
      /\ \A q \in Payments \ {p} : pays2[q] = pays[q]
      /\ pays[p].status = "COMPLETED" /\ pays2[p].status = "REVERSED"
      /\ pays2[p].bill = pays[p].bill /\ pays2[p].amount = pays[p].amount
      /\ pays2[p].method = pays[p].method
  BY DEF PaidBack, DifferAt
<1>2. /\ bills2 \in [Bills -> BillRows]
      /\ \A x \in Bills \ {b} : bills2[x] = bills[x]
      /\ \A x \in Bills : bills2[x].total = bills[x].total
      /\ b \in Bills =>
           b \in PostedIn(bills) /\ bills2[b].status \in {"POSTED", "PARTIALLY_PAID"}
  BY DEF PaidBack, DifferAt, DocumentsFit
<1>3. PostedIn(bills2) = PostedIn(bills)
  BY <1>2 DEF PostedIn
<1>4. /\ MadeIn(pays2) = MadeIn(pays)
      /\ TakenBackIn(pays2) = TakenBackIn(pays) \cup {p} /\ p \notin TakenBackIn(pays)
  BY <1>1 DEF MadeIn, TakenBackIn
<1>5. DocumentsFit(bills2, pays2)
  <2>1. \A x \in Bills :
          /\ bills2[x].status # "NONE" => bills2[x].total \in Amounts
          /\ x \notin PostedIn(bills2) => bills2[x].paid = 0 /\ bills2[x].due = bills2[x].total
    <3> SUFFICES ASSUME NEW x \in Bills
                 PROVE  /\ bills2[x].status # "NONE" => bills2[x].total \in Amounts
                        /\ x \notin PostedIn(bills2) =>
                             bills2[x].paid = 0 /\ bills2[x].due = bills2[x].total
      OBVIOUS
    <3>1. CASE x = b
      BY <1>2, <1>3, <3>1 DEF DocumentsFit, PostedIn
    <3>2. CASE x # b
      BY <1>2, <1>3, <3>2 DEF DocumentsFit
    <3> QED
      BY <3>1, <3>2
  <2>2. ASSUME NEW q \in MadeIn(pays2)
        PROVE  /\ pays2[q].amount \in Amounts
               /\ pays2[q].bill \in Bills => pays2[q].bill \in PostedIn(bills2)
    <3>1. q \in MadeIn(pays) /\ pays2[q].amount = pays[q].amount /\ pays2[q].bill = pays[q].bill
      BY <1>1, <1>4, <2>2 DEF MadeIn
    <3> QED
      BY <1>3, <3>1 DEF DocumentsFit
  <2> QED
    BY <1>1, <1>2, <2>1, <2>2 DEF DocumentsFit
<1>6. Happened(bills2, pays2) = Happened(bills, pays) \cup {PaymentReversed(p, pays[p])}
  <2>1. {BillEntry(x, bills2[x].total) : x \in PostedIn(bills2)} =
          {BillEntry(x, bills[x].total) : x \in PostedIn(bills)}
    <3>1. \A x \in PostedIn(bills) : bills2[x].total = bills[x].total
      BY <1>2 DEF PostedIn
    <3> QED
      BY <1>3, <3>1
  <2>2. /\ PaymentCompleted(p, pays2[p]) = PaymentCompleted(p, pays[p])
        /\ PaymentReversed(p, pays2[p]) = PaymentReversed(p, pays[p])
    BY <1>1 DEF PaymentCompleted, PaymentReversed
  <2>3. {PaymentCompleted(q, pays2[q]) : q \in MadeIn(pays2)} =
          {PaymentCompleted(q, pays[q]) : q \in MadeIn(pays)}
    <3>1. \A q \in MadeIn(pays) : PaymentCompleted(q, pays2[q]) = PaymentCompleted(q, pays[q])
      BY <1>1, <2>2 DEF MadeIn
    <3> QED
      BY <1>4, <3>1
  <2>4. {PaymentReversed(q, pays2[q]) : q \in TakenBackIn(pays2)} =
          {PaymentReversed(q, pays[q]) : q \in TakenBackIn(pays)} \cup {PaymentReversed(p, pays[p])}
    <3>1. \A q \in TakenBackIn(pays) : pays2[q] = pays[q]
      BY <1>1 DEF TakenBackIn
    <3> QED
      BY <1>4, <2>2, <3>1
  <2> QED
    BY <2>1, <2>3, <2>4 DEF Happened
<1>7. ASSUME PaymentReversed(p, pays[p]) \in Happened(bills, pays) PROVE FALSE
  <2>1. PICK e : e = PaymentReversed(p, pays[p])
    OBVIOUS
  <2>2. e.event = "BILL_PAYMENT_REVERSED" /\ e.source = p
    BY <2>1 DEF PaymentReversed, Entry
  <2>3. \A q, y : PaymentReversed(q, y).source = q
    BY DEF PaymentReversed, Entry
  <2>4. \A q, y : /\ BillEntry(q, y).event # "BILL_PAYMENT_REVERSED"
                  /\ PaymentCompleted(q, y).event # "BILL_PAYMENT_REVERSED"
    BY DEF BillEntry, PaymentCompleted, Entry
  <2> QED
    BY <1>4, <1>7, <2>1, <2>2, <2>3, <2>4 DEF Happened
<1> QED
  BY <1>3, <1>4, <1>5, <1>6, <1>7

(* The accounts still agree after a reversal: what was paid is owed again. *)
LEMMA PayingBackAgrees ==
  ASSUME NEW bills, NEW pays, DocumentsFit(bills, pays), NEW bills2, NEW pays2,
         NEW p, NEW b, NEW amount, NEW method,
         PaidBack(bills, bills2, pays, pays2, p, b, amount, method),
         NEW owed \in Int, NEW system, Agree(bills, pays, owed, system),
         NEW system2, MovesBy(system, system2, PaymentReversed(p, pays[p]))
  PROVE  Agree(bills2, pays2, owed + amount, system2)
<1>1. /\ p \in Payments /\ b \in Bills \cup {OnAccount} /\ method \in Methods
      /\ amount \in Int /\ amount > 0
      /\ DifferAt(pays, pays2, Payments, PaymentRows, p)
      /\ \A x : /\ CountsFor(pays[p], x) <=> x = b
                /\ ~CountsFor(pays2[p], x)
                /\ CountsThrough(pays[p], x) <=> x = method
                /\ ~CountsThrough(pays2[p], x)
      /\ pays[p].amount = amount /\ pays[p].method = method
  BY AmountAssumption DEF PaidBack, CountsFor, CountsThrough, Amounts
<1>2. PostedIn(bills2) = PostedIn(bills)
  BY PayingBackDocuments
<1>3. \A x : /\ AmountOf(pays, StandingIn(pays, x)) \in Int
             /\ AmountOf(pays2, StandingIn(pays2, x)) =
                  AmountOf(pays, StandingIn(pays, x)) - (IF x = b THEN amount ELSE 0)
  <2> TAKE x
  <2>1. /\ AmountOf(pays, StandingIn(pays, x)) \in Int
        /\ AmountOf(pays2, StandingIn(pays2, x)) =
             AmountOf(pays, StandingIn(pays, x))
               + (IF CountsFor(pays2[p], x) THEN pays2[p].amount ELSE 0)
               - (IF CountsFor(pays[p], x) THEN pays[p].amount ELSE 0)
    BY <1>1, StandingMoved
  <2> QED
    BY <1>1, <2>1
<1>4. \A m : /\ AmountOf(pays, ThroughIn(pays, m)) \in Int
             /\ AmountOf(pays2, ThroughIn(pays2, m)) =
                  AmountOf(pays, ThroughIn(pays, m)) - (IF m = method THEN amount ELSE 0)
  <2> TAKE m
  <2>1. /\ AmountOf(pays, ThroughIn(pays, m)) \in Int
        /\ AmountOf(pays2, ThroughIn(pays2, m)) =
             AmountOf(pays, ThroughIn(pays, m))
               + (IF CountsThrough(pays2[p], m) THEN pays2[p].amount ELSE 0)
               - (IF CountsThrough(pays[p], m) THEN pays[p].amount ELSE 0)
    BY <1>1, ThroughMoved
  <2> QED
    BY <1>1, <2>1
<1>5. /\ DueOf(bills, PostedIn(bills)) \in Int
      /\ DueOf(bills2, PostedIn(bills2)) =
           DueOf(bills, PostedIn(bills)) + (IF b \in Bills THEN amount ELSE 0)
  <2>1. CASE b \in Bills
    <3>1. /\ DifferAt(bills, bills2, Bills, BillRows, b) /\ b \in PostedIn(bills)
          /\ bills2[b].due = bills[b].due + amount /\ bills[b].due \in Int
      BY <2>1, AmountAssumption DEF PaidBack, DifferAt, BillRows
    <3>2. /\ DueOf(bills, PostedIn(bills)) \in Int
          /\ DueOf(bills2, PostedIn(bills2)) =
               DueOf(bills, PostedIn(bills)) + bills2[b].due - bills[b].due
      BY <1>2, <2>1, <3>1, PostedDueMoved
    <3> QED
      BY <1>1, <2>1, <3>1, <3>2
  <2>2. CASE b \notin Bills
    <3>1. bills2 = bills /\ PostedIn(bills) \in SUBSET Bills /\ bills \in [Bills -> BillRows]
      BY <2>2 DEF PaidBack, PostedIn, DocumentsFit
    <3> QED
      BY <2>2, <3>1, DueType
  <2> QED
    BY <2>1, <2>2
<1>6. owed + amount =
        DueOf(bills2, PostedIn(bills2)) - AmountOf(pays2, StandingIn(pays2, OnAccount))
  <2>1. OnAccount = b <=> b \notin Bills
    BY <1>1, NamesAssumption
  <2>2. owed = DueOf(bills, PostedIn(bills)) - AmountOf(pays, StandingIn(pays, OnAccount))
    BY DEF Agree
  <2> QED
    BY <1>1, <1>3, <1>5, <2>1, <2>2
<1>7. PICK e : e = PaymentReversed(p, pays[p])
  OBVIOUS
<1>8. /\ Side(e, "PAYABLE") = -amount
      /\ \A m \in Methods : Side(e, m) = IF m = method THEN amount ELSE 0
  <2>1. e.debit = method /\ e.credit = "PAYABLE" /\ e.amount = amount
    BY <1>1, <1>7 DEF PaymentReversed, Entry
  <2>2. "PAYABLE" \notin Methods
    BY DEF Methods
  <2> QED
    BY <1>1, <2>1, <2>2 DEF Side
<1>9. /\ Moved(system, "PAYABLE") \in Int
      /\ Moved(system2, "PAYABLE") = Moved(system, "PAYABLE") + (-amount)
      /\ \A m \in Methods :
           /\ Moved(system, m) \in Int
           /\ Moved(system2, m) = Moved(system, m) + (IF m = method THEN amount ELSE 0)
  BY <1>7, <1>8 DEF MovesBy, Accounts, Methods
<1>10. Moved(system2, "PAYABLE") = -(owed + amount)
  <2>1. Moved(system, "PAYABLE") = -owed
    BY DEF Agree
  <2> QED
    BY <1>1, <1>9, <2>1
<1>11. ASSUME NEW m \in Methods
       PROVE  Moved(system2, m) = -AmountOf(pays2, ThroughIn(pays2, m))
  <2>1. Moved(system, m) = -AmountOf(pays, ThroughIn(pays, m))
    BY DEF Agree
  <2> QED
    BY <1>1, <1>4, <1>9, <2>1
<1>12. ASSUME NEW x \in Bills
       PROVE  /\ bills2[x].paid = AmountOf(pays2, StandingIn(pays2, x))
              /\ bills2[x].paid + bills2[x].due = bills2[x].total
              /\ x \in PostedIn(bills2) => (bills2[x].status = "PAID") = (bills2[x].due = 0)
  <2>1. /\ bills[x].paid = AmountOf(pays, StandingIn(pays, x))
        /\ bills[x].paid + bills[x].due = bills[x].total
        /\ x \in PostedIn(bills) => (bills[x].status = "PAID") = (bills[x].due = 0)
    BY DEF Agree
  <2>2. CASE x = b
    <3>1. /\ bills2[x].paid = bills[x].paid - amount
          /\ bills2[x].due = bills[x].due + amount
          /\ bills2[x].total = bills[x].total
          /\ bills2[x].status # "PAID"
          /\ bills[x].paid \in Int /\ bills[x].due \in Nat
      BY <2>2, AmountAssumption DEF PaidBack, DifferAt, BillRows
    <3>2. bills2[x].paid = AmountOf(pays2, StandingIn(pays2, x))
      BY <1>3, <2>1, <2>2, <3>1
    <3>3. bills2[x].paid + bills2[x].due = bills2[x].total
      BY <1>1, <2>1, <3>1
    <3>4. bills2[x].due # 0
      BY <1>1, <3>1
    <3> QED
      BY <3>1, <3>2, <3>3, <3>4
  <2>3. CASE x # b
    <3>1. bills2[x] = bills[x]
      BY <2>3 DEF PaidBack, DifferAt
    <3> QED
      BY <1>2, <1>3, <2>1, <2>3, <3>1
  <2> QED
    BY <2>2, <2>3
<1> QED
  BY <1>6, <1>10, <1>11, <1>12 DEF Agree

-----------------------------------------------------------------------------
(* Committing a transaction. *)

(* An event that is journalled moves the accounts by its entry. *)
LEMMA JournalledMoves ==
  ASSUME NEW bills, NEW pays, DocumentsFit(bills, pays),
         NEW bills2, NEW pays2, DocumentsFit(bills2, pays2),
         NEW ledger, Ledger(ledger), LedgerFits(ledger, Happened(bills, pays)),
         NEW e, Happened(bills2, pays2) = Happened(bills, pays) \cup {e},
         e \notin Happened(bills, pays),
         NEW after, after = CreateAndPostJournal(ledger, e)
  PROVE  /\ Ledger(after)
         /\ LedgerFits(after, Happened(bills2, pays2))
         /\ MovesBy(SystemOf(ledger, Happened(bills, pays)),
                    SystemOf(after, Happened(bills2, pays2)), e)
<1> DEFINE H == Happened(bills, pays)
           S == SystemOf(ledger, H)
<1>1. Ledger(H) /\ EventsApart(H \cup {e})
  BY HappenedApart
<1>2. Happened(bills2, pays2) = H \cup {e} /\ e \notin H /\ LedgerFits(ledger, H)
  OBVIOUS
<1> HIDE DEF H
<1>3. /\ Ledger(after)
      /\ LedgerFits(after, H \cup {e})
      /\ SystemOf(after, H \cup {e}) = S \cup {e}
      /\ e \notin S
  <2>1. /\ Ledger(after) /\ LedgerFits(after, H \cup {e})
        /\ SystemOf(after, H \cup {e}) = SystemOf(ledger, H) \cup {e}
        /\ e \notin SystemOf(ledger, H)
    <3>1. Ledger(ledger) /\ after = CreateAndPostJournal(ledger, e)
      OBVIOUS
    <3> HIDE DEF S
    <3> QED
      BY ONLY <1>1, <1>2, <3>1, JournalledEvent
  <2> QED
    BY <2>1
<1>4. S \in SUBSET Entries(Sources, Amounts) /\ IsFiniteSet(S)
  BY <1>1, SystemOfType DEF Ledger
<1>5. e \in Entries(Sources, Amounts)
  BY <1>1 DEF EventsApart
<1> HIDE DEF S
<1>6. \A a : Moved(S, a) \in Int /\ Moved(S \cup {e}, a) = Moved(S, a) + Side(e, a)
  BY <1>3, <1>4, <1>5, MovedType, MovedWith
<1>7. MovesBy(S, S \cup {e}, e)
  BY <1>6 DEF MovesBy
<1> QED
  BY <1>2, <1>3, <1>7 DEF S, H

(* A row that is committed is not about what another row is about. *)
LEMMA NewRowDistinct ==
  ASSUME NEW bills, NEW pays, NEW n, NEW rs \in SUBSET RowsUpTo(n), RowsFit(bills, pays, rs),
         NEW r \in RowsUpTo(n), RowStillFits(bills, pays, r), \A s \in rs : s.id # r.id
  PROVE  Distinct(rs \cup {r}) /\ r \notin rs
<1>1. ASSUME NEW s \in rs, s.source = r.source, s.type = r.type PROVE FALSE
  <2>1. RowFits(bills, pays, s)
    BY DEF RowsFit
  <2>2. r.type \in RowTypes
    BY DEF RowsUpTo
  <2>3. CASE r.type = "SUPPLIER_BILL"
    BY <1>1, <2>1, <2>3 DEF RowFits, RowStillFits, PostedIn
  <2>4. CASE r.type = "SUPPLIER_PAYMENT"
    BY <1>1, <2>1, <2>4 DEF RowFits, RowStillFits, MadeIn
  <2>5. CASE r.type = "PAYMENT_REVERSAL"
    BY <1>1, <2>1, <2>5 DEF RowFits, RowStillFits, TakenBackIn
  <2> QED
    BY <2>2, <2>3, <2>4, <2>5 DEF RowTypes
<1> QED
  BY <1>1 DEF RowsFit, Distinct

(* The rows after a commit. *)
LEMMA RowsAfterCommit ==
  ASSUME NEW bills, NEW pays, NEW n, NEW rs \in SUBSET RowsUpTo(n), IsFiniteSet(rs),
         RowsFit(bills, pays, rs),
         NEW r \in RowsUpTo(n), RowStillFits(bills, pays, r), \A s \in rs : s.id # r.id,
         NEW known, NEW new, new = RecalculateRunningBalances(rs \cup {r}, known)
  PROVE  /\ new \in SUBSET RowsUpTo(n) /\ IsFiniteSet(new) /\ Distinct(new)
         /\ SameRows(rs \cup {r}, new)
         /\ GetSupplierOutstandingBalance(new) = GetSupplierOutstandingBalance(rs) + Signed(r)
<1>1. Distinct(rs \cup {r}) /\ r \notin rs
  BY NewRowDistinct
<1>2. rs \cup {r} \in SUBSET RowsUpTo(n) /\ IsFiniteSet(rs \cup {r})
  BY FS_AddElement
<1>3. GetSupplierOutstandingBalance(rs \cup {r}) = GetSupplierOutstandingBalance(rs) + Signed(r)
  BY <1>1, BalanceWith
<1> QED
  BY <1>1, <1>2, <1>3, RecalculateKeeps

(* A row fits as well as the one it was rewritten from. *)
LEMMA SameRowFits ==
  ASSUME NEW bills, NEW pays, NEW r, NEW s, SameRow(r, s), RowFits(bills, pays, r)
  PROVE  RowFits(bills, pays, s)
BY DEF SameRow, RowFits

(* The rows after a commit fit the documents after it. *)
LEMMA RowsFitAfterCommit ==
  ASSUME NEW bills, NEW pays, NEW rs, RowsFit(bills, pays, rs),
         NEW bills2, NEW pays2, PostedIn(bills) \subseteq PostedIn(bills2),
         MadeIn(pays) \subseteq MadeIn(pays2), TakenBackIn(pays) \subseteq TakenBackIn(pays2),
         NEW r, RowFits(bills2, pays2, r),
         \A b \in PostedIn(bills2) \ PostedIn(bills) : r.type = "SUPPLIER_BILL" /\ r.source = b,
         NEW new, Distinct(new), SameRows(rs \cup {r}, new)
  PROVE  RowsFit(bills2, pays2, new)
<1>1. ASSUME NEW s \in new PROVE RowFits(bills2, pays2, s)
  <2>1. PICK q \in rs \cup {r} : SameRow(q, s)
    BY DEF SameRows
  <2>2. RowFits(bills2, pays2, q)
    BY <2>1 DEF RowsFit, RowFits
  <2> QED
    BY <2>1, <2>2, SameRowFits
<1>2. ASSUME NEW b \in PostedIn(bills2)
      PROVE  \E s \in new : s.type = "SUPPLIER_BILL" /\ s.source = b
  <2>1. PICK q \in rs \cup {r} : q.type = "SUPPLIER_BILL" /\ q.source = b
    BY DEF RowsFit
  <2>2. PICK s \in new : SameRow(q, s)
    BY DEF SameRows
  <2> QED
    BY <2>1, <2>2 DEF SameRow
<1> QED
  BY <1>1, <1>2 DEF RowsFit

(* Only what the row r is about has changed. *)
TouchesOnly(bills, bills2, pays, pays2, r) ==
  /\ \A x \in Bills : x \notin {r.source, r.bill} => bills2[x] = bills[x]
  /\ \A q \in Payments : q # r.source => pays2[q] = pays[q]

(* What a transaction is about is not touched by one it is apart from. *)
LEMMA OthersStillFit ==
  ASSUME NEW bills, NEW pays, NEW bills2, NEW pays2, NEW n,
         NEW s \in RowsUpTo(n), RowStillFits(bills, pays, s), NEW r, Apart(s, r),
         TouchesOnly(bills, bills2, pays, pays2, r)
  PROVE  RowStillFits(bills2, pays2, s)
<1>1. /\ s.type \in RowTypes /\ s.source \notin {r.source, r.bill}
      /\ s.bill \in Bills => s.bill \notin {r.source, r.bill}
  BY NamesAssumption DEF RowsUpTo, Apart
<1>2. CASE s.type = "SUPPLIER_BILL"
  BY <1>1, <1>2 DEF RowStillFits, TouchesOnly
<1>3. CASE s.type = "SUPPLIER_PAYMENT"
  BY <1>1, <1>3 DEF RowStillFits, TouchesOnly
<1>4. CASE s.type = "PAYMENT_REVERSAL"
  BY <1>1, <1>4 DEF RowStillFits, TouchesOnly
<1> QED
  BY <1>1, <1>2, <1>3, <1>4 DEF RowTypes

(* An open transaction is one. *)
LEMMA OpenTransaction ==
  ASSUME NEW n, NEW w \in {Idle} \cup Transactions(n), w.open
  PROVE  /\ w.row \in RowsUpTo(n) /\ w.method \in Methods /\ w.known \in SUBSET (1..n)
<1>1. w # Idle
  <2>1. Idle.open = FALSE
    BY DEF Idle
  <2> QED
    BY <2>1
<1>2. w \in Transactions(n)
  BY <1>1
<1> QED
  BY <1>2 DEF Transactions

(* The other transactions fit after a commit. *)
LEMMA WorkAfterCommit ==
  ASSUME NEW bills, NEW pays, NEW bills2, NEW pays2, NEW n, NEW rs,
         NEW wk \in [Clerks -> {Idle} \cup Transactions(n)], WorkFits(bills, pays, rs, wk),
         NEW c \in Clerks, wk[c].open, NEW r, r = wk[c].row,
         TouchesOnly(bills, bills2, pays, pays2, r),
         NEW new, SameRows(rs \cup {r}, new),
         NEW wk2, wk2 = [wk EXCEPT ![c] = Idle]
  PROVE  /\ wk2 \in [Clerks -> {Idle} \cup Transactions(n)]
         /\ WorkFits(bills2, pays2, new, wk2)
<1>1. wk2 \in [Clerks -> {Idle} \cup Transactions(n)]
  OBVIOUS
<1>2. \A d \in Clerks : wk2[d].open => d # c /\ wk2[d] = wk[d] /\ wk[d].open
  BY DEF Idle
<1>3. ASSUME NEW d \in Clerks, wk2[d].open
      PROVE  /\ RowStillFits(bills2, pays2, wk2[d].row)
             /\ wk2[d].row.id \in wk2[d].known
             /\ \A x \in new : x.id # wk2[d].row.id
  <2>1. d # c /\ wk2[d] = wk[d] /\ wk[d].open
    BY <1>2, <1>3
  <2>2. PICK s : s = wk[d].row
    OBVIOUS
  <2>3. s \in RowsUpTo(n)
    BY <2>1, <2>2, OpenTransaction
  <2>4. /\ RowStillFits(bills, pays, s) /\ Apart(s, r)
        /\ s.id \in wk[d].known /\ \A x \in rs : x.id # s.id
    BY <2>1, <2>2 DEF WorkFits
  <2>5. RowStillFits(bills2, pays2, s)
    BY <2>3, <2>4, OthersStillFit
  <2>6. ASSUME NEW x \in new PROVE x.id # s.id
    <3>1. PICK q \in rs \cup {r} : SameRow(q, x)
      BY DEF SameRows
    <3> QED
      BY <2>4, <3>1 DEF SameRow, Apart
  <2> QED
    BY <2>1, <2>2, <2>4, <2>5, <2>6
<1>4. \A d, e \in Clerks : wk2[d].open /\ wk2[e].open /\ d # e => Apart(wk2[d].row, wk2[e].row)
  BY <1>2 DEF WorkFits
<1> QED
  BY <1>1, <1>3, <1>4 DEF WorkFits

-----------------------------------------------------------------------------
(* Beginning a transaction. *)

(* Rows and transactions stay what they are when an id is drawn. *)
LEMMA MoreIds ==
  ASSUME NEW n \in Nat
  PROVE  /\ RowsUpTo(n) \subseteq RowsUpTo(n + 1)
         /\ Transactions(n) \subseteq Transactions(n + 1)
<1>1. 1..n \subseteq 1..(n + 1)
  OBVIOUS
<1>2. RowsUpTo(n) \subseteq RowsUpTo(n + 1)
  BY <1>1 DEF RowsUpTo
<1>3. SUBSET (1..n) \subseteq SUBSET (1..(n + 1))
  BY <1>1
<1>4. Transactions(n) \subseteq Transactions(n + 1)
  BY <1>2, <1>3 DEF Transactions
<1> QED
  BY <1>2, <1>4

(* The row of a transaction that begins is about a bill or payment that no
   transaction under way is about. *)
Unheld(wk, r) ==
  \A d \in Clerks : wk[d].open =>
    /\ r.source \notin {wk[d].row.source, wk[d].row.bill}
    /\ r.bill # OnAccount => r.bill \notin {wk[d].row.source, wk[d].row.bill}

(* The transactions under way when one more begins. *)
LEMMA WorkAfterBegin ==
  ASSUME NEW bills, NEW pays, NEW n \in Nat, NEW rs \in SUBSET RowsUpTo(n),
         NEW wk \in [Clerks -> {Idle} \cup Transactions(n)], WorkFits(bills, pays, rs, wk),
         NEW c \in Clerks, ~wk[c].open,
         NEW t \in Transactions(n + 1), t.row.id = n + 1, t.row.id \in t.known,
         RowStillFits(bills, pays, t.row), Unheld(wk, t.row),
         NEW wk2, wk2 = [wk EXCEPT ![c] = t]
  PROVE  /\ wk2 \in [Clerks -> {Idle} \cup Transactions(n + 1)]
         /\ WorkFits(bills, pays, rs, wk2)
<1>1. wk2 \in [Clerks -> {Idle} \cup Transactions(n + 1)]
  BY MoreIds
<1>2. PICK r : r = t.row
  OBVIOUS
<1>3. /\ r \in RowsUpTo(n + 1) /\ r.id = n + 1 /\ r.id \in t.known
      /\ RowStillFits(bills, pays, r) /\ Unheld(wk, r)
  BY <1>2 DEF Transactions
<1>4. r.source # OnAccount
  BY <1>3, NamesAssumption DEF RowsUpTo
<1>5. \A d \in Clerks : d # c => wk2[d] = wk[d]
  OBVIOUS
<1>6. wk2[c] = t
  OBVIOUS
<1>7. ASSUME NEW d \in Clerks, d # c, wk[d].open
      PROVE  Apart(wk[d].row, r) /\ Apart(r, wk[d].row)
  <2>1. PICK s : s = wk[d].row
    OBVIOUS
  <2>2. s \in RowsUpTo(n)
    BY <1>7, <2>1, OpenTransaction
  <2>3. s.id \in 1..n /\ s.source # OnAccount
    BY <2>2, NamesAssumption DEF RowsUpTo
  <2>4. s.id # r.id
    BY <1>3, <2>3
  <2>5. /\ r.source \notin {s.source, s.bill}
        /\ r.bill # OnAccount => r.bill \notin {s.source, s.bill}
    BY <1>3, <1>7, <2>1 DEF Unheld
  <2> QED
    BY <1>4, <2>1, <2>3, <2>4, <2>5 DEF Apart
<1>8. ASSUME NEW d \in Clerks, wk2[d].open
      PROVE  /\ RowStillFits(bills, pays, wk2[d].row)
             /\ wk2[d].row.id \in wk2[d].known
             /\ \A x \in rs : x.id # wk2[d].row.id
  <2>1. CASE d = c
    <3>1. \A x \in rs : x.id \in 1..n
      BY DEF RowsUpTo
    <3>2. \A x \in rs : x.id # n + 1
      BY <3>1
    <3> QED
      BY <1>2, <1>3, <1>6, <2>1, <3>2
  <2>2. CASE d # c
    BY <1>5, <1>8, <2>2 DEF WorkFits
  <2> QED
    BY <2>1, <2>2
<1>9. ASSUME NEW d \in Clerks, NEW e \in Clerks, wk2[d].open, wk2[e].open, d # e
      PROVE  Apart(wk2[d].row, wk2[e].row)
  <2>1. CASE d = c
    BY <1>2, <1>5, <1>6, <1>7, <1>9, <2>1
  <2>2. CASE e = c
    BY <1>2, <1>5, <1>6, <1>7, <1>9, <2>2
  <2>3. CASE d # c /\ e # c
    BY <1>5, <1>9, <2>3 DEF WorkFits
  <2> QED
    BY <2>1, <2>2, <2>3
<1> QED
  BY <1>1, <1>8, <1>9 DEF WorkFits

(* What the invariant says of the tables as they are and as a step leaves them. *)
TablesFit(bills, pays, rs, ledger) ==
  /\ IsFiniteSet(rs)
  /\ Ledger(ledger)
  /\ DocumentsFit(bills, pays)
  /\ RowsFit(bills, pays, rs)
  /\ LedgerFits(ledger, Happened(bills, pays))
  /\ Agree(bills, pays, GetSupplierOutstandingBalance(rs), SystemOf(ledger, Happened(bills, pays)))

(* The invariant in its two parts. *)
LEMMA InvIs ==
  BooksInv <=>
    /\ lastId \in Nat
    /\ work \in [Clerks -> {Idle} \cup Transactions(lastId)]
    /\ rows \in SUBSET RowsUpTo(lastId)
    /\ WorkFits(bill, payment, rows, work)
    /\ TablesFit(bill, payment, rows, journals)
BY DEF BooksInv, TablesFit

(* A transaction may begin when what it is to record is right and nobody holds
   what it is about. *)
LEMMA BeginKeepsInv ==
  ASSUME BooksInv, NEW c \in Clerks, NEW type \in RowTypes, NEW source \in Bills \cup Payments,
         NEW b \in Bills \cup {OnAccount}, NEW amount \in Amounts, NEW day \in Days,
         NEW method \in Methods,
         Begin(c, type, source, b, amount, day, method),
         \A id : RowStillFits(bill, payment, Row(id, type, source, b, amount, day)),
         ~Held(source), Free(b)
  PROVE  BooksInv'
<1>1. PICK n \in Nat : n = lastId
  BY DEF BooksInv
<1>2. PICK r : r = Row(n + 1, type, source, b, amount, day)
  OBVIOUS
<1>3. PICK t : t = [open |-> TRUE, row |-> r, method |-> method,
                    known |-> {x.id : x \in rows} \cup {n + 1}]
  OBVIOUS
<1>4. /\ rows \in SUBSET RowsUpTo(n)
      /\ work \in [Clerks -> {Idle} \cup Transactions(n)]
      /\ WorkFits(bill, payment, rows, work)
  BY <1>1 DEF BooksInv
<1>5. r \in RowsUpTo(n + 1) /\ r.id = n + 1 /\ r.source = source /\ r.bill = b
  BY <1>2 DEF Row, RowsUpTo
<1>6. t.known \subseteq 1..(n + 1)
  <2>1. \A x \in rows : x.id \in 1..(n + 1)
    <3>1. \A x \in rows : x \in RowsUpTo(n)
      BY <1>4
    <3>2. \A x \in RowsUpTo(n) : x.id \in 1..n
      BY DEF RowsUpTo
    <3> QED
      BY <3>1, <3>2
  <2> QED
    BY <1>3, <2>1
<1>7. t \in Transactions(n + 1) /\ t.row = r /\ r.id \in t.known
  BY <1>3, <1>5, <1>6 DEF Transactions
<1>8. RowStillFits(bill, payment, r)
  BY <1>2
<1>9. Unheld(work, r)
  BY <1>5 DEF Unheld, Held, Free, Busy
<1>10. /\ ~work[c].open /\ lastId' = n + 1 /\ work' = [work EXCEPT ![c] = t]
       /\ bill' = bill /\ payment' = payment /\ rows' = rows /\ journals' = journals
  BY <1>1, <1>2, <1>3 DEF Begin, Busy
<1>11. /\ work' \in [Clerks -> {Idle} \cup Transactions(n + 1)]
       /\ WorkFits(bill, payment, rows, work')
  BY <1>4, <1>5, <1>7, <1>8, <1>9, <1>10, WorkAfterBegin
<1>12. rows \in SUBSET RowsUpTo(n + 1)
  BY <1>4, MoreIds
<1>13. TablesFit(bill, payment, rows, journals)
  BY InvIs
<1>14. TablesFit(bill', payment', rows', journals')
  BY <1>10, <1>13
<1> QED
  BY <1>10, <1>11, <1>12, <1>14 DEF BooksInv, TablesFit

-----------------------------------------------------------------------------
(* The steps of the services. *)

(* A transaction may commit what keeps the documents right and journals one event,
   of which its row is the sub-ledger's record. *)
LEMMA CommitKeepsInv ==
  ASSUME BooksInv, NEW c \in Clerks, Recorded(c), NEW r, r = work[c].row,
         DocumentsFit(bill', payment'),
         PostedIn(bill) \subseteq PostedIn(bill'),
         MadeIn(payment) \subseteq MadeIn(payment'),
         TakenBackIn(payment) \subseteq TakenBackIn(payment'),
         RowFits(bill', payment', r),
         \A b \in PostedIn(bill') \ PostedIn(bill) : r.type = "SUPPLIER_BILL" /\ r.source = b,
         TouchesOnly(bill, bill', payment, payment', r),
         NEW e, Happened(bill', payment') = Happened(bill, payment) \cup {e},
         e \notin Happened(bill, payment),
         journals' = CreateAndPostJournal(journals, e),
         \A system, system2 : \A owed \in Int :
           Agree(bill, payment, owed, system) /\ MovesBy(system, system2, e)
             => Agree(bill', payment', owed + Signed(r), system2)
  PROVE  BooksInv'
<1> USE DEF Busy
<1>1. PICK n \in Nat : n = lastId
  BY DEF BooksInv
<1>2. PICK known : known = work[c].known
  OBVIOUS
<1>3. /\ rows \in SUBSET RowsUpTo(n) /\ IsFiniteSet(rows)
      /\ work \in [Clerks -> {Idle} \cup Transactions(n)]
      /\ WorkFits(bill, payment, rows, work)
      /\ RowsFit(bill, payment, rows)
      /\ DocumentsFit(bill, payment) /\ Ledger(journals)
      /\ LedgerFits(journals, Happened(bill, payment))
      /\ Agree(bill, payment, GetSupplierOutstandingBalance(rows),
               SystemOf(journals, Happened(bill, payment)))
  BY <1>1 DEF BooksInv
<1>4. /\ work[c].open /\ work' = [work EXCEPT ![c] = Idle] /\ lastId' = n
      /\ rows' = RecalculateRunningBalances(rows \cup {r}, known)
  BY <1>1, <1>2 DEF Recorded
<1>5. r \in RowsUpTo(n)
  BY <1>3, <1>4, OpenTransaction
<1>6. RowStillFits(bill, payment, r) /\ \A x \in rows : x.id # r.id
  BY <1>3, <1>4 DEF WorkFits
<1>7. /\ rows' \in SUBSET RowsUpTo(n) /\ IsFiniteSet(rows') /\ Distinct(rows')
      /\ SameRows(rows \cup {r}, rows')
      /\ GetSupplierOutstandingBalance(rows') = GetSupplierOutstandingBalance(rows) + Signed(r)
  BY <1>3, <1>4, <1>5, <1>6, RowsAfterCommit
<1>8. RowsFit(bill', payment', rows')
  BY <1>3, <1>7, RowsFitAfterCommit
<1>9. /\ work' \in [Clerks -> {Idle} \cup Transactions(n)]
      /\ WorkFits(bill', payment', rows', work')
  <2>1. PICK rs, wk, new, wk2 : rs = rows /\ wk = work /\ new = rows' /\ wk2 = work'
    OBVIOUS
  <2>2. PICK bills, pays, bills2, pays2 :
          bills = bill /\ pays = payment /\ bills2 = bill' /\ pays2 = payment'
    OBVIOUS
  <2>3. /\ wk \in [Clerks -> {Idle} \cup Transactions(n)] /\ WorkFits(bills, pays, rs, wk)
        /\ wk[c].open /\ r = wk[c].row /\ TouchesOnly(bills, bills2, pays, pays2, r)
        /\ SameRows(rs \cup {r}, new) /\ wk2 = [wk EXCEPT ![c] = Idle]
    BY <1>3, <1>4, <1>7, <2>1, <2>2
  <2>4. /\ wk2 \in [Clerks -> {Idle} \cup Transactions(n)]
        /\ WorkFits(bills2, pays2, new, wk2)
    BY <2>3, WorkAfterCommit
  <2> QED
    BY <2>1, <2>2, <2>4
<1>10. /\ Ledger(journals')
       /\ LedgerFits(journals', Happened(bill', payment'))
       /\ MovesBy(SystemOf(journals, Happened(bill, payment)),
                  SystemOf(journals', Happened(bill', payment')), e)
  BY <1>3, JournalledMoves
<1>11. GetSupplierOutstandingBalance(rows) \in Int
  BY <1>3, BalanceType
<1>12. Agree(bill', payment', GetSupplierOutstandingBalance(rows) + Signed(r),
             SystemOf(journals', Happened(bill', payment')))
  BY <1>3, <1>10, <1>11
<1>13. Agree(bill', payment', GetSupplierOutstandingBalance(rows'),
             SystemOf(journals', Happened(bill', payment')))
  BY <1>7, <1>12
<1> QED
  BY <1>4, <1>7, <1>8, <1>9, <1>10, <1>13 DEF BooksInv

(* What is known of a transaction that commits. *)
LEMMA CommittedRow ==
  ASSUME BooksInv, NEW c \in Clerks, Busy(c)
  PROVE  /\ RowStillFits(bill, payment, work[c].row)
         /\ work[c].row \in RowsUpTo(lastId)
         /\ work[c].method \in Methods
<1>1. work \in [Clerks -> {Idle} \cup Transactions(lastId)] /\ work[c].open
  BY DEF BooksInv, Busy
<1>2. RowStillFits(bill, payment, work[c].row)
  BY DEF BooksInv, Busy, WorkFits
<1> QED
  BY <1>1, <1>2, OpenTransaction

(* A bill is posted. *)
LEMMA RecordBillKeepsInv ==
  ASSUME BooksInv, NEW c \in Clerks, RecordSupplierBill(c)
  PROVE  BooksInv'
<1>1. PICK r : r = work[c].row
  OBVIOUS
<1>2. PICK b : b = r.source
  OBVIOUS
<1>3. Recorded(c) /\ r.type = "SUPPLIER_BILL"
  BY <1>1 DEF RecordSupplierBill
<1>4. RowStillFits(bill, payment, r)
  BY <1>1, <1>3, CommittedRow DEF Recorded
<1>5. b \in Bills /\ r.bill = b /\ bill[b].status = "DRAFT" /\ r.amount = bill[b].total
  BY <1>2, <1>3, <1>4 DEF RowStillFits
<1>6. PICK e : e = BillEntry(b, bill[b].total)
  OBVIOUS
<1>7. /\ bill' = [bill EXCEPT ![b].status = "POSTED"] /\ payment' = payment
      /\ journals' = CreateAndPostJournal(journals, e)
  BY <1>1, <1>2, <1>6 DEF RecordSupplierBill, BillPosted, BillEntry
<1>8. DocumentsFit(bill, payment)
  BY DEF BooksInv
<1>9. PostedNow(bill, bill', b)
  BY <1>5, <1>7, <1>8, RecordBillPosts
<1>10. /\ DocumentsFit(bill', payment)
       /\ PostedIn(bill') = PostedIn(bill) \cup {b}
       /\ Happened(bill', payment) = Happened(bill, payment) \cup {e}
       /\ e \notin Happened(bill, payment)
  BY <1>6, <1>8, <1>9, PostingDocuments
<1>11. Signed(r) = bill[b].total
  BY <1>3, <1>5 DEF Signed
<1>12. ASSUME NEW system, NEW system2, NEW owed \in Int,
              Agree(bill, payment, owed, system), MovesBy(system, system2, e)
       PROVE  Agree(bill', payment, owed + Signed(r), system2)
  BY <1>6, <1>8, <1>9, <1>11, <1>12, PostingAgrees
<1>13. RowFits(bill', payment, r)
  BY <1>2, <1>3, <1>10 DEF RowFits
<1>14. /\ PostedIn(bill) \subseteq PostedIn(bill')
       /\ \A x \in PostedIn(bill') \ PostedIn(bill) : r.type = "SUPPLIER_BILL" /\ r.source = x
  BY <1>2, <1>3, <1>10
<1>15. TouchesOnly(bill, bill', payment, payment', r)
  BY <1>2, <1>7, <1>9 DEF PostedNow, DifferAt, TouchesOnly
<1> QED
  BY <1>1, <1>3, <1>7, <1>10, <1>12, <1>13, <1>14, <1>15, CommitKeepsInv

(* A payment is made. *)
LEMMA RecordPaymentKeepsInv ==
  ASSUME BooksInv, NEW c \in Clerks, RecordSupplierPayment(c)
  PROVE  BooksInv'
<1>1. PICK r, method : r = work[c].row /\ method = work[c].method
  OBVIOUS
<1>2. PICK p, b, amount : p = r.source /\ b = r.bill /\ amount = r.amount
  OBVIOUS
<1>3. Recorded(c) /\ r.type = "SUPPLIER_PAYMENT"
  BY <1>1 DEF RecordSupplierPayment
<1>4. RowStillFits(bill, payment, r) /\ r \in RowsUpTo(lastId) /\ method \in Methods
  BY <1>1, <1>3, CommittedRow DEF Recorded
<1>5. /\ p \in Payments /\ payment[p].status = "NONE"
      /\ b \in Bills \cup {OnAccount} /\ amount \in Amounts /\ r.day \in Days
      /\ b \in Bills =>
           bill[b].status \in {"POSTED", "PARTIALLY_PAID"} /\ amount <= bill[b].due
  BY <1>2, <1>3, <1>4 DEF RowStillFits, RowsUpTo
<1>6. PICK pay : pay = [status |-> "COMPLETED", bill |-> b, amount |-> amount,
                        method |-> method, day |-> r.day]
  OBVIOUS
<1>7. PICK e : e = PaymentCompleted(p, pay)
  OBVIOUS
<1>8. /\ payment' = [payment EXCEPT ![p] = pay]
      /\ bill' = [x \in Bills |-> IF x = b THEN PaidRow(bill[x], amount) ELSE bill[x]]
      /\ journals' = CreateAndPostJournal(journals, e)
  BY <1>1, <1>2, <1>6, <1>7 DEF RecordSupplierPayment, Paid, PaidRow
<1>9. DocumentsFit(bill, payment) /\ Agree(bill, payment, GetSupplierOutstandingBalance(rows),
                                           SystemOf(journals, Happened(bill, payment)))
  BY DEF BooksInv
<1>10. PaidNow(bill, bill', payment, payment', p, b, amount, method)
  BY <1>4, <1>5, <1>6, <1>8, <1>9, RecordPaymentPays
<1>11. payment'[p] = pay
  BY <1>5, <1>8, <1>9 DEF DocumentsFit
<1>12. /\ DocumentsFit(bill', payment')
       /\ PostedIn(bill') = PostedIn(bill)
       /\ MadeIn(payment') = MadeIn(payment) \cup {p}
       /\ TakenBackIn(payment') = TakenBackIn(payment)
       /\ Happened(bill', payment') = Happened(bill, payment) \cup {e}
       /\ e \notin Happened(bill, payment)
  BY <1>7, <1>9, <1>10, <1>11, PayingDocuments
<1>13. Signed(r) = -amount /\ amount \in Int
  BY <1>2, <1>3, <1>5, AmountAssumption DEF Signed, Amounts
<1>14. ASSUME NEW system, NEW system2, NEW owed \in Int,
              Agree(bill, payment, owed, system), MovesBy(system, system2, e)
       PROVE  Agree(bill', payment', owed + Signed(r), system2)
  <2>1. Agree(bill', payment', owed - amount, system2)
    BY <1>7, <1>9, <1>10, <1>11, <1>14, PayingAgrees
  <2>2. owed - amount = owed + Signed(r)
    BY <1>13, <1>14
  <2> QED
    BY <2>1, <2>2
<1>15. RowFits(bill', payment', r)
  BY <1>2, <1>3, <1>12 DEF RowFits
<1>16. TouchesOnly(bill, bill', payment, payment', r)
  BY <1>2, <1>8, <1>10 DEF PaidNow, DifferAt, TouchesOnly
<1>17. /\ PostedIn(bill) \subseteq PostedIn(bill')
       /\ MadeIn(payment) \subseteq MadeIn(payment')
       /\ TakenBackIn(payment) \subseteq TakenBackIn(payment')
       /\ \A x \in PostedIn(bill') \ PostedIn(bill) : r.type = "SUPPLIER_BILL" /\ r.source = x
  BY <1>12
<1> QED
  BY <1>1, <1>3, <1>8, <1>12, <1>14, <1>15, <1>16, <1>17, CommitKeepsInv

(* A payment is taken back. *)
LEMMA RecordReversalKeepsInv ==
  ASSUME BooksInv, NEW c \in Clerks, RecordPaymentReversal(c)
  PROVE  BooksInv'
<1>1. PICK r : r = work[c].row
  OBVIOUS
<1>2. PICK p, b, amount : p = r.source /\ b = r.bill /\ amount = r.amount
  OBVIOUS
<1>3. Recorded(c) /\ r.type = "PAYMENT_REVERSAL"
  BY <1>1 DEF RecordPaymentReversal
<1>4. RowStillFits(bill, payment, r) /\ r \in RowsUpTo(lastId)
  BY <1>1, <1>3, CommittedRow DEF Recorded
<1>5. /\ p \in Payments /\ payment[p].status = "COMPLETED"
      /\ b = payment[p].bill /\ amount = payment[p].amount /\ amount \in Amounts
  BY <1>2, <1>3, <1>4 DEF RowStillFits, RowsUpTo
<1>6. PICK method : method = payment[p].method
  OBVIOUS
<1>7. PICK e : e = PaymentReversed(p, payment[p])
  OBVIOUS
<1>8. /\ payment' = [payment EXCEPT ![p].status = "REVERSED"]
      /\ bill' = [x \in Bills |-> IF x = b THEN RestoredRow(bill[x], amount) ELSE bill[x]]
      /\ journals' = CreateAndPostJournal(journals, e)
  BY <1>1, <1>2, <1>7 DEF RecordPaymentReversal, Restored, RestoredRow
<1>9. DocumentsFit(bill, payment) /\ Agree(bill, payment, GetSupplierOutstandingBalance(rows),
                                           SystemOf(journals, Happened(bill, payment)))
  BY DEF BooksInv
<1>10. PaidBack(bill, bill', payment, payment', p, b, amount, method)
  BY <1>5, <1>6, <1>8, <1>9, RecordReversalPaysBack
<1>11. /\ DocumentsFit(bill', payment')
       /\ PostedIn(bill') = PostedIn(bill)
       /\ MadeIn(payment') = MadeIn(payment)
       /\ TakenBackIn(payment') = TakenBackIn(payment) \cup {p}
       /\ Happened(bill', payment') = Happened(bill, payment) \cup {e}
       /\ e \notin Happened(bill, payment)
  BY <1>7, <1>9, <1>10, PayingBackDocuments
<1>12. Signed(r) = amount
  BY <1>2, <1>3 DEF Signed
<1>13. ASSUME NEW system, NEW system2, NEW owed \in Int,
              Agree(bill, payment, owed, system), MovesBy(system, system2, e)
       PROVE  Agree(bill', payment', owed + Signed(r), system2)
  BY <1>7, <1>9, <1>10, <1>12, <1>13, PayingBackAgrees
<1>14. RowFits(bill', payment', r)
  BY <1>2, <1>3, <1>11 DEF RowFits
<1>15. TouchesOnly(bill, bill', payment, payment', r)
  BY <1>2, <1>8, <1>10 DEF PaidBack, DifferAt, TouchesOnly
<1>16. /\ PostedIn(bill) \subseteq PostedIn(bill')
       /\ MadeIn(payment) \subseteq MadeIn(payment')
       /\ TakenBackIn(payment) \subseteq TakenBackIn(payment')
       /\ \A x \in PostedIn(bill') \ PostedIn(bill) : r.type = "SUPPLIER_BILL" /\ r.source = x
  BY <1>11
<1> QED
  BY <1>1, <1>3, <1>8, <1>11, <1>13, <1>14, <1>15, <1>16, CommitKeepsInv

-----------------------------------------------------------------------------
(* The other steps. *)

(* A step that leaves the sub-ledger and the transactions alone. *)
Undisturbed == rows' = rows /\ lastId' = lastId /\ work' = work

(* A bill is written down. *)
LEMMA CreateBillKeepsInv ==
  ASSUME BooksInv, NEW b \in Bills, NEW f \in BillForm, CreateBill(b, f)
  PROVE  BooksInv'
<1>1. /\ bill[b].status = "NONE" /\ payment' = payment /\ journals' = journals
      /\ bill' = [bill EXCEPT ![b] =
           [status |-> "DRAFT", total |-> f.total, paid |-> 0, due |-> f.total, day |-> f.day]]
      /\ Undisturbed
  BY DEF CreateBill, Undisturbed
<1>2. /\ DocumentsFit(bill, payment)
      /\ Agree(bill, payment, GetSupplierOutstandingBalance(rows),
               SystemOf(journals, Happened(bill, payment)))
      /\ RowsFit(bill, payment, rows)
      /\ WorkFits(bill, payment, rows, work)
      /\ work \in [Clerks -> {Idle} \cup Transactions(lastId)]
  BY DEF BooksInv
<1>3. Drafted(bill, bill', b)
  BY <1>1, <1>2, CreateBillDrafts
<1>4. /\ DocumentsFit(bill', payment)
      /\ PostedIn(bill') = PostedIn(bill)
      /\ Happened(bill', payment) = Happened(bill, payment)
      /\ Agree(bill', payment, GetSupplierOutstandingBalance(rows),
               SystemOf(journals, Happened(bill, payment)))
  BY <1>2, <1>3, DraftKeeps
<1>5. RowsFit(bill', payment, rows)
  BY <1>2, <1>4 DEF RowsFit, RowFits
<1>6. WorkFits(bill', payment, rows, work)
  <2>1. ASSUME NEW c \in Clerks, work[c].open
        PROVE  RowStillFits(bill', payment, work[c].row)
    <3>1. PICK r : r = work[c].row
      OBVIOUS
    <3>2. RowStillFits(bill, payment, r)
      BY <1>2, <2>1, <3>1 DEF WorkFits
    <3>3. \A x \in Bills : x # b => bill'[x] = bill[x]
      BY <1>3 DEF Drafted, DifferAt
    <3>4. RowStillFits(bill', payment, r)
      BY <1>1, <3>2, <3>3 DEF RowStillFits
    <3> QED
      BY <3>1, <3>4
  <2> QED
    BY <1>2, <2>1 DEF WorkFits
<1> QED
  BY <1>1, <1>4, <1>5, <1>6 DEF BooksInv, Undisturbed

(* The posting of a bill begins: a bill that has no row yet is a draft. *)
LEMMA BeginBillKeepsInv ==
  ASSUME BooksInv, NEW c \in Clerks, NEW b \in Bills, BeginSupplierBill(c, b)
  PROVE  BooksInv'
<1>1. DocumentsFit(bill, payment) /\ RowsFit(bill, payment, rows)
  BY DEF BooksInv
<1>2. PICK day, amount : day = bill[b].day /\ amount = bill[b].total
  OBVIOUS
<1>3. /\ bill[b].status # "NONE" /\ Free(b)
      /\ bill[b].status = "DRAFT" \/ RowOf(b, "SUPPLIER_BILL") = {}
      /\ Begin(c, "SUPPLIER_BILL", b, b, amount, day, "BANK")
  BY <1>2 DEF BeginSupplierBill
<1>4. bill[b].status = "DRAFT"
  <2>1. b \in PostedIn(bill) => \E r \in rows : r.type = "SUPPLIER_BILL" /\ r.source = b
    BY <1>1 DEF RowsFit
  <2>2. b \notin PostedIn(bill)
    BY <1>3, <2>1 DEF RowOf, PostedIn
  <2> QED
    BY <1>1, <1>3, <2>2 DEF DocumentsFit, BillRows, PostedIn
<1>5. day \in Days /\ amount \in Amounts
  BY <1>1, <1>2, <1>3 DEF DocumentsFit, BillRows
<1>6. \A id : RowStillFits(bill, payment, Row(id, "SUPPLIER_BILL", b, b, amount, day))
  BY <1>2, <1>4 DEF RowStillFits, Row
<1>7. ~Held(b)
  BY <1>3, NamesAssumption DEF Free
<1>8. "SUPPLIER_BILL" \in RowTypes /\ "BANK" \in Methods
  BY DEF RowTypes, Methods
<1> QED
  BY <1>3, <1>5, <1>6, <1>7, <1>8, BeginKeepsInv

(* A payment begins. *)
LEMMA BeginPaymentKeepsInv ==
  ASSUME BooksInv, NEW c \in Clerks, NEW p \in Payments, NEW f \in PaymentForm,
         BeginSupplierPayment(c, p, f)
  PROVE  BooksInv'
<1>1. PICK b, amount, day, method :
        b = f.bill /\ amount = f.amount /\ day = f.day /\ method = f.method
  OBVIOUS
<1>2. /\ b \in Bills \cup {OnAccount} /\ amount \in Amounts /\ day \in Days /\ method \in Methods
  BY <1>1, FormsAssumption DEF PaymentForm
<1>3. /\ payment[p].status = "NONE" /\ ~Held(p) /\ Free(b)
      /\ b # OnAccount => /\ bill[b].status \in {"POSTED", "PARTIALLY_PAID"}
                          /\ amount <= bill[b].due
      /\ Begin(c, "SUPPLIER_PAYMENT", p, b, amount, day, method)
  BY <1>1 DEF BeginSupplierPayment, Payable
<1>4. \A id : RowStillFits(bill, payment, Row(id, "SUPPLIER_PAYMENT", p, b, amount, day))
  BY <1>3, NamesAssumption DEF RowStillFits, Row
<1>5. "SUPPLIER_PAYMENT" \in RowTypes
  BY DEF RowTypes
<1> QED
  BY <1>2, <1>3, <1>4, <1>5, BeginKeepsInv

(* A reversal begins. *)
LEMMA BeginReversalKeepsInv ==
  ASSUME BooksInv, NEW c \in Clerks, NEW p \in Payments, BeginPaymentReversal(c, p)
  PROVE  BooksInv'
<1>1. PICK b, amount, method :
        b = payment[p].bill /\ amount = payment[p].amount /\ method = payment[p].method
  OBVIOUS
<1>2. /\ payment[p].status = "COMPLETED" /\ ~Held(p) /\ Free(b)
      /\ Begin(c, "PAYMENT_REVERSAL", p, b, amount, Today, method)
  BY <1>1 DEF BeginPaymentReversal
<1>3. b \in Bills \cup {OnAccount} /\ amount \in Amounts /\ method \in Methods /\ Today \in Days
  BY <1>1, <1>2, DaysAssumption DEF BooksInv, DocumentsFit, PaymentRows, MadeIn
<1>4. \A id : RowStillFits(bill, payment, Row(id, "PAYMENT_REVERSAL", p, b, amount, Today))
  BY <1>1, <1>2 DEF RowStillFits, Row
<1>5. "PAYMENT_REVERSAL" \in RowTypes
  BY DEF RowTypes
<1> QED
  BY <1>2, <1>3, <1>4, <1>5, BeginKeepsInv

(* What the sync would post is what the ledger lacks. *)
LEMMA UnpostedIsMissing ==
  Unposted = MissingFrom(journals, Happened(bill, payment))
<1>1. /\ Posted = PostedIn(bill) /\ Made = MadeIn(payment) /\ TakenBack = TakenBackIn(payment)
  BY DEF Posted, PostedIn, Made, MadeIn, TakenBack, TakenBackIn
<1>2. \A b : /\ BillPosted(b) = BillEntry(b, bill[b].total)
             /\ HasEntry(journals, "BILL_POSTED", b) <=>
                  \E j \in journals : SourceEvent(j) = SourceEvent(BillEntry(b, bill[b].total))
  BY DEF BillPosted, BillEntry, HasEntry, SourceEvent, Entry
<1>3. \A p : HasEntry(journals, "BILL_PAYMENT", p) <=>
               \E j \in journals : SourceEvent(j) = SourceEvent(PaymentCompleted(p, payment[p]))
  BY DEF PaymentCompleted, HasEntry, SourceEvent, Entry
<1>4. \A p : HasEntry(journals, "BILL_PAYMENT_REVERSED", p) <=>
               \E j \in journals : SourceEvent(j) = SourceEvent(PaymentReversed(p, payment[p]))
  BY DEF PaymentReversed, HasEntry, SourceEvent, Entry
<1>5. Unposted =
        {BillEntry(b, bill[b].total) : b \in {x \in PostedIn(bill) :
           ~ \E j \in journals : SourceEvent(j) = SourceEvent(BillEntry(x, bill[x].total))}} \cup
        {PaymentCompleted(p, payment[p]) : p \in {x \in MadeIn(payment) :
           ~ \E j \in journals : SourceEvent(j) = SourceEvent(PaymentCompleted(x, payment[x]))}} \cup
        {PaymentReversed(p, payment[p]) : p \in {x \in TakenBackIn(payment) :
           ~ \E j \in journals : SourceEvent(j) = SourceEvent(PaymentReversed(x, payment[x]))}}
  BY <1>1, <1>2, <1>3, <1>4 DEF Unposted
<1> QED
  BY <1>5 DEF MissingFrom, Happened

(* A step on the journal alone keeps the invariant when it keeps what the ledger
   must satisfy and does not move the system's entries. *)
LEMMA JournalStepKeepsInv ==
  ASSUME BooksInv, bill' = bill, payment' = payment, Undisturbed,
         Ledger(journals'), LedgerFits(journals', Happened(bill, payment)),
         \A a \in Accounts : Moved(SystemOf(journals', Happened(bill, payment)), a) =
                               Moved(SystemOf(journals, Happened(bill, payment)), a)
  PROVE  BooksInv'
<1>1. Agree(bill, payment, GetSupplierOutstandingBalance(rows),
            SystemOf(journals, Happened(bill, payment)))
  BY DEF BooksInv
<1>2. Agree(bill, payment, GetSupplierOutstandingBalance(rows),
            SystemOf(journals', Happened(bill, payment)))
  BY <1>1 DEF Agree, Accounts, Methods
<1> QED
  BY <1>2 DEF BooksInv, Undisturbed

(* The historical sync. *)
LEMMA SyncKeepsInv ==
  ASSUME BooksInv, SyncUnpostedHistoricalEvents
  PROVE  BooksInv'
<1> DEFINE H == Happened(bill, payment)
<1>1. /\ journals' = journals \cup MissingFrom(journals, H)
      /\ bill' = bill /\ payment' = payment /\ Undisturbed
  BY UnpostedIsMissing DEF SyncUnpostedHistoricalEvents, Undisturbed
<1>2. /\ DocumentsFit(bill, payment) /\ LedgerFits(journals, H) /\ Ledger(journals)
  BY DEF BooksInv
<1>3. Ledger(H) /\ EventsApart(H)
  BY <1>2, HappenedApart
<1> HIDE DEF H
<1>4. /\ Ledger(journals')
      /\ LedgerFits(journals', H)
      /\ SystemOf(journals', H) = SystemOf(journals, H)
  BY <1>1, <1>2, <1>3, CatchingUp
<1> QED
  BY <1>1, <1>4, JournalStepKeepsInv DEF H

(* An entry is written by hand. *)
LEMMA ManualKeepsInv ==
  ASSUME BooksInv, NEW f \in ManualForms, StoreManualJournal(f)
  PROVE  BooksInv'
<1> DEFINE H == Happened(bill, payment)
<1>1. PICK m : m = Entry("MANUAL", "MANUAL", f, f.debit, f.credit, f.amount)
  OBVIOUS
<1>2. /\ journals' = CreateAndPostJournal(journals, m)
      /\ bill' = bill /\ payment' = payment /\ Undisturbed
  BY <1>1 DEF StoreManualJournal, Undisturbed
<1>3. /\ DocumentsFit(bill, payment) /\ LedgerFits(journals, H) /\ Ledger(journals)
  BY DEF BooksInv
<1>4. EventsApart(H)
  BY <1>3, HappenedApart
<1> HIDE DEF H
<1>5. m \in Entries(Sources, Amounts) /\ m.type = "MANUAL" /\ m.event = "MANUAL"
  <2>1. f.debit \in Accounts /\ f.credit \in Accounts /\ f.amount \in Amounts /\ f \in Sources
    BY PapersAssumption DEF Sources, Amounts
  <2> QED
    BY <1>1, <2>1 DEF Entry, Entries, Events
<1>6. /\ Ledger(journals')
      /\ LedgerFits(journals', H)
      /\ SystemOf(journals', H) = SystemOf(journals, H)
  BY <1>2, <1>3, <1>4, <1>5, WrittenByHand
<1> QED
  BY <1>2, <1>6, JournalStepKeepsInv DEF H

(* An entry is taken back by hand. *)
LEMMA ReverseKeepsInv ==
  ASSUME BooksInv, NEW j \in journals, ReverseByHand(j)
  PROVE  BooksInv'
<1> DEFINE H == Happened(bill, payment)
<1>1. /\ journals' = ReverseJournal(journals, j) /\ Reversible(j)
      /\ bill' = bill /\ payment' = payment /\ Undisturbed
  BY DEF ReverseByHand, Undisturbed
<1>2. /\ DocumentsFit(bill, payment) /\ LedgerFits(journals, H) /\ Ledger(journals)
  BY DEF BooksInv
<1>3. Ledger(H) /\ EventsApart(H)
  BY <1>2, HappenedApart
<1> HIDE DEF H
<1>4. \A a \in Accounts :
        /\ Ledger(journals')
        /\ LedgerFits(journals', H)
        /\ Moved(SystemOf(journals', H), a) = Moved(SystemOf(journals, H), a)
  BY <1>1, <1>2, <1>3, ReversedByHand
<1>5. "CASH" \in Accounts
  BY DEF Accounts
<1> QED
  BY <1>1, <1>4, <1>5, JournalStepKeepsInv DEF H

-----------------------------------------------------------------------------
(* What is on the books when the model starts. *)

(* Nothing moves no account, and nobody is owed anything. *)
LEMMA NothingMoves ==
  /\ \A a : Moved({}, a) = 0
  /\ \A pays : AmountOf(pays, {}) = 0
  /\ \A bills : DueOf(bills, {}) = 0
  /\ GetSupplierOutstandingBalance({}) = 0
<1>1. ASSUME NEW a PROVE Moved({}, a) = 0
  <2> DEFINE f == [j \in {} |-> j.amount]
  <2>1. {j \in {} : j.debit = a} = {} /\ {j \in {} : j.credit = a} = {}
    OBVIOUS
  <2>2. Moved({}, a) = SumFunctionOnSet(f, {}) - SumFunctionOnSet(f, {})
    BY <2>1 DEF Moved
  <2> HIDE DEF f
  <2> QED
    BY <2>2, SumEmpty
<1>2. ASSUME NEW pays PROVE AmountOf(pays, {}) = 0
  BY SumEmpty DEF AmountOf
<1>3. ASSUME NEW bills PROVE DueOf(bills, {}) = 0
  BY SumEmpty DEF DueOf
<1>4. GetSupplierOutstandingBalance({}) = 0
  BY SumEmpty DEF GetSupplierOutstandingBalance
<1> QED
  BY <1>1, <1>2, <1>3, <1>4

(* Tables with nothing in them. *)
NoBills == [b \in Bills |-> NoBill]
NoPayments == [p \in Payments |-> NoPayment]

(* Empty tables fit, and agree that nothing is owed. *)
LEMMA EmptyTables ==
  /\ DocumentsFit(NoBills, NoPayments)
  /\ PostedIn(NoBills) = {} /\ MadeIn(NoPayments) = {} /\ TakenBackIn(NoPayments) = {}
  /\ Happened(NoBills, NoPayments) = {}
  /\ Agree(NoBills, NoPayments, 0, {})
<1>1. /\ NoBill \in BillRows /\ NoBill.status = "NONE" /\ NoBill.paid = 0
      /\ NoBill.due = 0 /\ NoBill.total = 0
  BY AmountAssumption, DaysAssumption DEF NoBill, BillRows
<1>2. NoPayment \in PaymentRows /\ NoPayment.status = "NONE"
  BY AmountAssumption, DaysAssumption DEF NoPayment, PaymentRows, Methods
<1>3. /\ NoBills \in [Bills -> BillRows] /\ NoPayments \in [Payments -> PaymentRows]
      /\ \A b \in Bills : NoBills[b] = NoBill
      /\ \A p \in Payments : NoPayments[p] = NoPayment
  BY <1>1, <1>2 DEF NoBills, NoPayments
<1>4. PostedIn(NoBills) = {} /\ MadeIn(NoPayments) = {} /\ TakenBackIn(NoPayments) = {}
  BY <1>1, <1>2, <1>3 DEF PostedIn, MadeIn, TakenBackIn
<1>5. DocumentsFit(NoBills, NoPayments)
  BY <1>1, <1>3, <1>4 DEF DocumentsFit
<1>6. Happened(NoBills, NoPayments) = {}
  BY <1>4 DEF Happened
<1>7. \A b : StandingIn(NoPayments, b) = {} /\ ThroughIn(NoPayments, b) = {}
  BY <1>2, <1>3 DEF StandingIn, ThroughIn
<1>8. \A b : /\ AmountOf(NoPayments, StandingIn(NoPayments, b)) = 0
             /\ AmountOf(NoPayments, ThroughIn(NoPayments, b)) = 0
  BY <1>7, NothingMoves
<1>9. DueOf(NoBills, PostedIn(NoBills)) = 0
  BY <1>4, NothingMoves
<1>10. \A b \in Bills :
         /\ NoBills[b].paid = 0 /\ NoBills[b].due = 0 /\ NoBills[b].total = 0
         /\ b \notin PostedIn(NoBills)
  BY <1>1, <1>3, <1>4
<1>11. Agree(NoBills, NoPayments, 0, {})
  <2>1. Moved({}, "PAYABLE") = -0 /\ \A method \in Methods : Moved({}, method) = -0
    BY NothingMoves
  <2>2. 0 = 0 - 0 /\ 0 + 0 = 0
    OBVIOUS
  <2> QED
    BY <1>8, <1>9, <1>10, <2>1, <2>2 DEF Agree
<1> QED
  BY <1>4, <1>5, <1>6, <1>11

(* What a ledger with nothing in it makes of what has happened. *)
LEMMA EmptyLedger ==
  ASSUME NEW entries
  PROVE  Ledger({}) /\ LedgerFits({}, entries) /\ SystemOf({}, entries) = entries
BY FS_EmptySet DEF Ledger, LedgerFits, SystemOf, MissingFrom

(* An event more among those that have happened moves the accounts by its entry. *)
LEMMA HappenedMoves ==
  ASSUME NEW bills, NEW pays, DocumentsFit(bills, pays),
         NEW bills2, NEW pays2, DocumentsFit(bills2, pays2),
         NEW e, Happened(bills2, pays2) = Happened(bills, pays) \cup {e},
         e \notin Happened(bills, pays)
  PROVE  MovesBy(Happened(bills, pays), Happened(bills2, pays2), e)
<1> DEFINE H == Happened(bills, pays)
<1>1. H \in SUBSET Entries(Sources, Amounts) /\ IsFiniteSet(H)
  BY HappenedApart DEF Ledger
<1>2. e \in Entries(Sources, Amounts)
  BY HappenedApart DEF Ledger
<1>3. Happened(bills2, pays2) = H \cup {e} /\ e \notin H
  OBVIOUS
<1> HIDE DEF H
<1>4. \A a : Moved(H, a) \in Int /\ Moved(H \cup {e}, a) = Moved(H, a) + Side(e, a)
  BY <1>1, <1>2, <1>3, MovedType, MovedWith
<1> QED
  BY <1>3, <1>4 DEF MovesBy, H

(* A bill from before there was a ledger: written down and posted, with its row in
   the sub-ledger. *)
LEMMA OldBillFits ==
  ASSUME NEW b \in Bills, NEW total \in Amounts,
         NEW bills, bills = [x \in Bills |-> IF x # b THEN NoBill ELSE
           [status |-> "POSTED", total |-> total, paid |-> 0, due |-> total, day |-> Today]],
         NEW r, r = Row(1, "SUPPLIER_BILL", b, b, total, Today)
  PROVE  /\ DocumentsFit(bills, NoPayments)
         /\ RowsFit(bills, NoPayments, {r})
         /\ r \in RowsUpTo(1) /\ IsFiniteSet({r})
         /\ GetSupplierOutstandingBalance({r}) = total
         /\ Agree(bills, NoPayments, total, Happened(bills, NoPayments))
<1>1. PICK f : f = [total |-> total, day |-> Today]
  OBVIOUS
<1>2. f \in BillForm /\ f.total = total /\ f.day = Today
  BY <1>1, DaysAssumption DEF BillForm
<1>3. PICK draft : draft = [NoBills EXCEPT ![b] =
        [status |-> "DRAFT", total |-> f.total, paid |-> 0, due |-> f.total, day |-> f.day]]
  OBVIOUS
<1>4. NoBills[b].status = "NONE" /\ NoBills \in [Bills -> BillRows]
  BY EmptyTables DEF NoBills, NoBill, DocumentsFit
<1>5. Drafted(NoBills, draft, b)
  BY <1>2, <1>3, <1>4, EmptyTables, CreateBillDrafts
<1>6. /\ DocumentsFit(draft, NoPayments)
      /\ PostedIn(draft) = {}
      /\ Happened(draft, NoPayments) = {}
      /\ Agree(draft, NoPayments, 0, {})
  BY <1>5, EmptyTables, DraftKeeps
<1>7. /\ draft[b] = [status |-> "DRAFT", total |-> total, paid |-> 0, due |-> total, day |-> Today]
      /\ \A x \in Bills \ {b} : draft[x] = NoBill
      /\ draft \in [Bills -> BillRows]
  <2>1. \A x \in Bills \ {b} : draft[x] = NoBills[x]
    BY <1>3
  <2>2. draft \in [Bills -> BillRows]
    BY <1>5 DEF Drafted, DifferAt
  <2> QED
    BY <1>2, <1>3, <1>4, <2>1, <2>2 DEF NoBills
<1>8. bills = [draft EXCEPT ![b].status = "POSTED"]
  <2>1. [draft[b] EXCEPT !.status = "POSTED"] =
          [status |-> "POSTED", total |-> total, paid |-> 0, due |-> total, day |-> Today]
    BY <1>7
  <2> QED
    BY <1>7, <2>1
<1>9. PostedNow(draft, bills, b) /\ draft[b].total = total
  BY <1>6, <1>7, <1>8, RecordBillPosts
<1>10. PICK e : e = BillEntry(b, total)
  OBVIOUS
<1>11. /\ DocumentsFit(bills, NoPayments)
       /\ PostedIn(bills) = {b}
       /\ Happened(bills, NoPayments) = {} \cup {e}
       /\ e \notin Happened(draft, NoPayments)
  BY <1>6, <1>9, <1>10, PostingDocuments
<1>12. MovesBy({}, Happened(bills, NoPayments), e)
  BY <1>6, <1>11, HappenedMoves
<1>13. Agree(bills, NoPayments, total, Happened(bills, NoPayments))
  <2>1. Agree(bills, NoPayments, 0 + total, Happened(bills, NoPayments))
    BY <1>6, <1>9, <1>10, <1>12, PostingAgrees
  <2>2. 0 + total = total
    BY AmountAssumption DEF Amounts
  <2> QED
    BY <2>1, <2>2
<1>14. r \in RowsUpTo(1) /\ r.type = "SUPPLIER_BILL" /\ r.source = b /\ r.amount = total
  BY DaysAssumption DEF Row, RowsUpTo, RowTypes
<1>15. RowsFit(bills, NoPayments, {r})
  BY <1>11, <1>14 DEF RowsFit, RowFits, Distinct
<1>16. GetSupplierOutstandingBalance({r}) = total
  <2>1. GetSupplierOutstandingBalance({} \cup {r}) = GetSupplierOutstandingBalance({}) + Signed(r)
    BY <1>14, FS_EmptySet, BalanceWith
  <2>2. Signed(r) = total /\ total \in Int
    BY <1>14, AmountAssumption DEF Signed, Amounts
  <2> QED
    BY <2>1, <2>2, NothingMoves
<1> QED
  BY <1>11, <1>13, <1>14, <1>15, <1>16, FS_Singleton

(* The invariant holds of tables whose rows were just given their balances, when
   nobody is at work and nothing is in the ledger. *)
LEMMA StartsRight ==
  ASSUME NEW n \in Nat, lastId = n, work = [c \in Clerks |-> Idle], journals = {},
         DocumentsFit(bill, payment), RowsFit(bill, payment, rows),
         rows \in SUBSET RowsUpTo(n), IsFiniteSet(rows),
         Agree(bill, payment, GetSupplierOutstandingBalance(rows), Happened(bill, payment))
  PROVE  BooksInv
<1>1. work \in [Clerks -> {Idle} \cup Transactions(lastId)]
  OBVIOUS
<1>2. WorkFits(bill, payment, rows, work)
  BY DEF WorkFits, Idle
<1>3. /\ Ledger(journals) /\ LedgerFits(journals, Happened(bill, payment))
      /\ SystemOf(journals, Happened(bill, payment)) = Happened(bill, payment)
  BY EmptyLedger
<1> QED
  BY <1>1, <1>2, <1>3 DEF BooksInv

(* The invariant holds initially. *)
LEMMA InitInv == Init => BooksInv
<1> SUFFICES ASSUME Init PROVE BooksInv
  OBVIOUS
<1>1. journals = {} /\ work = [c \in Clerks |-> Idle]
  BY DEF Init
<1>2. CASE Fresh
  <2>1. bill = NoBills /\ payment = NoPayments /\ rows = {} /\ lastId = 0
    BY <1>2 DEF Fresh, NoBills, NoPayments
  <2>2. RowsFit(bill, payment, rows)
    BY <2>1, EmptyTables DEF RowsFit, Distinct
  <2>3. /\ DocumentsFit(bill, payment)
        /\ Agree(bill, payment, GetSupplierOutstandingBalance(rows), Happened(bill, payment))
    BY <2>1, EmptyTables, NothingMoves
  <2>4. rows \in SUBSET RowsUpTo(0) /\ IsFiniteSet(rows)
    BY <2>1, FS_EmptySet
  <2> QED
    BY <1>1, <2>1, <2>2, <2>3, <2>4, StartsRight
<1>3. ASSUME NEW b \in Bills, NEW total \in Amounts, UnpaidOldBill(b, total)
      PROVE  BooksInv
  <2>1. total \in Nat /\ total # 0
    BY AmountAssumption DEF Amounts
  <2>2. PICK r : r = Row(1, "SUPPLIER_BILL", b, b, total, Today)
    OBVIOUS
  <2>3. bill = [x \in Bills |-> IF x # b THEN NoBill ELSE
          [status |-> "POSTED", total |-> total, paid |-> 0, due |-> total, day |-> Today]]
    <3>1. (IF 0 = total THEN "PAID" ELSE "POSTED") = "POSTED" /\ total - 0 = total
      BY <2>1
    <3> QED
      BY <1>3, <3>1 DEF UnpaidOldBill, OldBill
  <2>4. /\ payment = NoPayments /\ lastId = 1
        /\ rows = RecalculateRunningBalances({r}, {1})
    BY <1>3, <2>2 DEF UnpaidOldBill, NoPayments
  <2>5. /\ DocumentsFit(bill, payment)
        /\ RowsFit(bill, payment, {r})
        /\ r \in RowsUpTo(1) /\ IsFiniteSet({r})
        /\ GetSupplierOutstandingBalance({r}) = total
        /\ Agree(bill, payment, total, Happened(bill, payment))
    BY <2>2, <2>3, <2>4, OldBillFits
  <2>6. {r} \in SUBSET RowsUpTo(1) /\ Distinct({r})
    BY <2>5 DEF RowsFit
  <2>7. /\ rows \in SUBSET RowsUpTo(1) /\ IsFiniteSet(rows) /\ Distinct(rows)
        /\ SameRows({r}, rows)
        /\ GetSupplierOutstandingBalance(rows) = total
    BY <2>4, <2>5, <2>6, RecalculateKeeps
  <2>8. RowsFit(bill, payment, rows)
    <3>1. SameRows({r} \cup {r}, rows) /\ RowFits(bill, payment, r)
      BY <2>5, <2>7 DEF RowsFit
    <3> QED
      BY <2>5, <2>7, <3>1, RowsFitAfterCommit
  <2> QED
    BY <1>1, <2>4, <2>5, <2>7, <2>8, StartsRight
<1>4. ASSUME NEW b \in Bills, NEW total \in Amounts, NEW p \in Payments, PaidOldBill(b, total, p)
      PROVE  BooksInv
  <2>1. total \in Int /\ total - total = 0 /\ 0 + total = total
    BY AmountAssumption DEF Amounts
  <2>2. PICK r, s : /\ r = Row(1, "SUPPLIER_BILL", b, b, total, Today)
                    /\ s = Row(2, "SUPPLIER_PAYMENT", p, b, total, Today)
    OBVIOUS
  <2>3. PICK bills : bills = [x \in Bills |-> IF x # b THEN NoBill ELSE
          [status |-> "POSTED", total |-> total, paid |-> 0, due |-> total, day |-> Today]]
    OBVIOUS
  <2>4. /\ DocumentsFit(bills, NoPayments)
        /\ RowsFit(bills, NoPayments, {r})
        /\ r \in RowsUpTo(1) /\ IsFiniteSet({r})
        /\ GetSupplierOutstandingBalance({r}) = total
        /\ Agree(bills, NoPayments, total, Happened(bills, NoPayments))
    BY <2>2, <2>3, OldBillFits
  <2>5. /\ payment = [NoPayments EXCEPT ![p] = [status |-> "COMPLETED", bill |-> b,
              amount |-> total, method |-> "CASH", day |-> Today]]
        /\ bill = [x \in Bills |-> IF x = b THEN PaidRow(bills[x], total) ELSE bills[x]]
    <3>1. PaidRow(bills[b], total) =
            [status |-> "PAID", total |-> total, paid |-> total, due |-> total - total, day |-> Today]
      <4>1. PICK y : y = bills[b]
        OBVIOUS
      <4>2. y \in BillRows
        BY <2>4, <4>1 DEF DocumentsFit
      <4>3. y.total = total /\ y.paid = 0 /\ y.due = total /\ y.day = Today
        BY <2>3, <4>1
      <4>4. PICK st, pd, du : /\ st = IF y.due = total THEN "PAID" ELSE "PARTIALLY_PAID"
                              /\ pd = y.paid + total /\ du = y.due - total
        OBVIOUS
      <4>5. PaidRow(y, total) = [status |-> st, total |-> y.total, paid |-> pd, due |-> du,
                                 day |-> y.day]
        BY <4>2, <4>4, PaidRowFields
      <4>6. st = "PAID" /\ pd = total /\ du = total - total
        BY <2>1, <4>3, <4>4
      <4> QED
        BY <4>1, <4>3, <4>5, <4>6
    <3>2. payment = [x \in Payments |-> IF x # p THEN NoPayment ELSE
            [status |-> "COMPLETED", bill |-> b, amount |-> total, method |-> "CASH", day |-> Today]]
      BY <1>4 DEF PaidOldBill
    <3>3. bill = [x \in Bills |-> IF x # b THEN NoBill ELSE
            [status |-> "PAID", total |-> total, paid |-> total, due |-> total - total, day |-> Today]]
      BY <1>4 DEF PaidOldBill, OldBill
    <3>4. payment = [NoPayments EXCEPT ![p] = [status |-> "COMPLETED", bill |-> b,
            amount |-> total, method |-> "CASH", day |-> Today]]
      BY <3>2 DEF NoPayments
    <3>5. bill = [x \in Bills |-> IF x = b THEN PaidRow(bills[x], total) ELSE bills[x]]
      BY <2>3, <3>1, <3>3
    <3> QED
      BY <3>4, <3>5
  <2>6. /\ NoPayments[p].status = "NONE" /\ "CASH" \in Methods /\ Today \in Days
        /\ bills[b].status = "POSTED" /\ total <= bills[b].due
    BY <2>1, <2>3, DaysAssumption DEF NoPayments, NoPayment, Methods
  <2>7. PaidNow(bills, bill, NoPayments, payment, p, b, total, "CASH")
    BY <2>4, <2>5, <2>6, RecordPaymentPays
  <2>8. PICK e : e = PaymentCompleted(p, payment[p])
    OBVIOUS
  <2>9. /\ DocumentsFit(bill, payment)
        /\ PostedIn(bill) = PostedIn(bills)
        /\ MadeIn(payment) = MadeIn(NoPayments) \cup {p}
        /\ TakenBackIn(payment) = TakenBackIn(NoPayments)
        /\ Happened(bill, payment) = Happened(bills, NoPayments) \cup {e}
        /\ e \notin Happened(bills, NoPayments)
    BY <2>4, <2>7, <2>8, PayingDocuments
  <2>10. MovesBy(Happened(bills, NoPayments), Happened(bill, payment), e)
    BY <2>4, <2>9, HappenedMoves
  <2>11. Agree(bill, payment, total - total, Happened(bill, payment))
    BY <2>1, <2>4, <2>7, <2>8, <2>10, PayingAgrees
  <2>12. /\ rows = RecalculateRunningBalances({r} \cup {s}, {1, 2}) /\ lastId = 2
    <3>1. {r, s} = {r} \cup {s}
      OBVIOUS
    <3> QED
      BY <1>4, <2>2, <3>1 DEF PaidOldBill
  <2>13. /\ s \in RowsUpTo(2) /\ s.id = 2 /\ s.type = "SUPPLIER_PAYMENT" /\ s.source = p
         /\ s.bill = b /\ s.amount = total
    BY <2>2, DaysAssumption DEF Row, RowsUpTo, RowTypes
  <2>14. {r} \in SUBSET RowsUpTo(2) /\ r.id = 1
    <3>1. RowsUpTo(1) \subseteq RowsUpTo(1 + 1) /\ 1 + 1 = 2
      BY MoreIds
    <3> QED
      BY <2>2, <2>4, <3>1 DEF Row
  <2>15. RowStillFits(bills, NoPayments, s)
    BY <2>6, <2>13 DEF RowStillFits
  <2>16. /\ rows \in SUBSET RowsUpTo(2) /\ IsFiniteSet(rows) /\ Distinct(rows)
         /\ SameRows({r} \cup {s}, rows)
         /\ GetSupplierOutstandingBalance(rows) = total + Signed(s)
    <3>1. RowsFit(bills, NoPayments, {r}) /\ IsFiniteSet({r}) /\ s \in RowsUpTo(2)
      BY <2>4, <2>13
    <3>2. \A x \in {r} : x.id # s.id
      BY <2>13, <2>14
    <3>3. rows = RecalculateRunningBalances({r} \cup {s}, {1, 2})
      BY <2>12
    <3>4. /\ rows \in SUBSET RowsUpTo(2) /\ IsFiniteSet(rows) /\ Distinct(rows)
          /\ SameRows({r} \cup {s}, rows)
          /\ GetSupplierOutstandingBalance(rows) = GetSupplierOutstandingBalance({r}) + Signed(s)
      <4>1. PICK rs : rs = {r}
        OBVIOUS
      <4>2. rs \in SUBSET RowsUpTo(2) /\ IsFiniteSet(rs) /\ RowsFit(bills, NoPayments, rs)
        BY <2>14, <3>1, <4>1
      <4>3. \A x \in rs : x.id # s.id
        BY <3>2, <4>1
      <4>4. rows = RecalculateRunningBalances(rs \cup {s}, {1, 2})
        BY <3>3, <4>1
      <4>5. /\ rows \in SUBSET RowsUpTo(2) /\ IsFiniteSet(rows) /\ Distinct(rows)
            /\ SameRows(rs \cup {s}, rows)
            /\ GetSupplierOutstandingBalance(rows) = GetSupplierOutstandingBalance(rs) + Signed(s)
        BY <2>15, <3>1, <4>2, <4>3, <4>4, RowsAfterCommit
      <4> QED
        BY <4>1, <4>5
    <3> QED
      BY <2>4, <3>4
  <2>17. RowsFit(bill, payment, rows)
    <3>1. RowFits(bill, payment, s)
      BY <2>9, <2>13 DEF RowFits
    <3>2. /\ PostedIn(bills) \subseteq PostedIn(bill)
          /\ MadeIn(NoPayments) \subseteq MadeIn(payment)
          /\ TakenBackIn(NoPayments) \subseteq TakenBackIn(payment)
          /\ \A x \in PostedIn(bill) \ PostedIn(bills) : s.type = "SUPPLIER_BILL" /\ s.source = x
      BY <2>9
    <3> QED
      BY <2>4, <2>16, <3>1, <3>2, RowsFitAfterCommit
  <2>18. total + Signed(s) = total - total
    BY <2>1, <2>13 DEF Signed
  <2> QED
    BY <1>1, <2>9, <2>11, <2>12, <2>16, <2>17, <2>18, StartsRight
<1> QED
  BY <1>2, <1>3, <1>4 DEF Init

-----------------------------------------------------------------------------
(* The theorems. *)

(* Every step keeps the invariant. *)
LEMMA NextInv ==
  ASSUME BooksInv, [Next]_vars
  PROVE  BooksInv'
<1>1. ASSUME NEW b \in Bills, NEW f \in BillForm, CreateBill(b, f) PROVE BooksInv'
  BY <1>1, CreateBillKeepsInv
<1>2. ASSUME NEW c \in Clerks, NEW b \in Bills, BeginSupplierBill(c, b) PROVE BooksInv'
  BY <1>2, BeginBillKeepsInv
<1>3. ASSUME NEW c \in Clerks, NEW p \in Payments, NEW f \in PaymentForm,
             BeginSupplierPayment(c, p, f)
      PROVE  BooksInv'
  BY <1>3, BeginPaymentKeepsInv
<1>4. ASSUME NEW c \in Clerks, NEW p \in Payments, BeginPaymentReversal(c, p) PROVE BooksInv'
  BY <1>4, BeginReversalKeepsInv
<1>5. ASSUME NEW c \in Clerks, RecordSupplierBill(c) PROVE BooksInv'
  BY <1>5, RecordBillKeepsInv
<1>6. ASSUME NEW c \in Clerks, RecordSupplierPayment(c) PROVE BooksInv'
  BY <1>6, RecordPaymentKeepsInv
<1>7. ASSUME NEW c \in Clerks, RecordPaymentReversal(c) PROVE BooksInv'
  BY <1>7, RecordReversalKeepsInv
<1>8. CASE SyncUnpostedHistoricalEvents
  BY <1>8, SyncKeepsInv
<1>9. ASSUME NEW f \in ManualForms, StoreManualJournal(f) PROVE BooksInv'
  BY <1>9, ManualKeepsInv
<1>10. ASSUME NEW j \in journals, ReverseByHand(j) PROVE BooksInv'
  BY <1>10, ReverseKeepsInv
<1>11. CASE UNCHANGED vars
  BY <1>11 DEF vars, BooksInv
<1> QED
  BY <1>1, <1>2, <1>3, <1>4, <1>5, <1>6, <1>7, <1>8, <1>9, <1>10, <1>11 DEF Next

(* The invariant holds always. *)
LEMMA AlwaysInv == Spec => []BooksInv
BY InitInv, NextInv, PTL DEF Spec

(* The invariant says what BooksTypeOK says. *)
LEMMA InvTypes == BooksInv => BooksTypeOK
<1> SUFFICES ASSUME BooksInv PROVE BooksTypeOK
  OBVIOUS
<1>1. /\ bill \in [Bills -> BillRows] /\ payment \in [Payments -> PaymentRows]
      /\ rows \subseteq RowsUpTo(lastId) /\ journals \subseteq Entries(Sources, Amounts)
      /\ work \in [Clerks -> {Idle} \cup Transactions(lastId)]
      /\ RowsFit(bill, payment, rows) /\ WorkFits(bill, payment, rows, work)
      /\ LedgerFits(journals, Happened(bill, payment))
  BY DEF BooksInv, DocumentsFit, Ledger
<1>2. \A c \in Clerks : Busy(c) => work[c].known \subseteq 1..lastId
  BY <1>1, OpenTransaction DEF Busy
<1>3. ASSUME NEW r \in rows \cup {work[c].row : c \in {x \in Clerks : Busy(x)}},
             NEW s \in rows \cup {work[c].row : c \in {x \in Clerks : Busy(x)}},
             r.source = s.source, r.type = s.type
      PROVE  r.id = s.id
  <2>1. ASSUME NEW q \in rows, NEW c \in Clerks, Busy(c),
               q.source = work[c].row.source, q.type = work[c].row.type
        PROVE  FALSE
    <3>1. PICK w : w = work[c].row
      OBVIOUS
    <3>2. RowStillFits(bill, payment, w) /\ RowFits(bill, payment, q)
      BY <1>1, <2>1, <3>1 DEF WorkFits, RowsFit, Busy
    <3>3. q.type \in RowTypes
      BY <1>1 DEF RowsUpTo
    <3>4. CASE q.type = "SUPPLIER_BILL"
      BY <2>1, <3>1, <3>2, <3>4 DEF RowFits, RowStillFits, PostedIn
    <3>5. CASE q.type = "SUPPLIER_PAYMENT"
      BY <2>1, <3>1, <3>2, <3>5 DEF RowFits, RowStillFits, MadeIn
    <3>6. CASE q.type = "PAYMENT_REVERSAL"
      BY <2>1, <3>1, <3>2, <3>6 DEF RowFits, RowStillFits, TakenBackIn
    <3> QED
      BY <3>3, <3>4, <3>5, <3>6 DEF RowTypes
  <2>2. CASE r \in rows /\ s \in rows
    BY <1>1, <1>3, <2>2 DEF RowsFit, Distinct
  <2>3. CASE r \in rows /\ s \notin rows
    BY <1>3, <2>1, <2>3
  <2>4. CASE r \notin rows /\ s \in rows
    BY <1>3, <2>1, <2>4
  <2>5. CASE r \notin rows /\ s \notin rows
    <3>1. PICK c \in Clerks, d \in Clerks :
            Busy(c) /\ Busy(d) /\ r = work[c].row /\ s = work[d].row
      BY <2>5
    <3>2. c = d
      BY <1>1, <1>3, <3>1 DEF WorkFits, Busy, Apart
    <3> QED
      BY <3>1, <3>2
  <2> QED
    BY <2>2, <2>3, <2>4, <2>5
<1>4. \A j, k \in journals : SourceEvent(j) = SourceEvent(k) => j = k
  BY <1>1 DEF LedgerFits
<1> QED
  BY <1>1, <1>2, <1>3, <1>4 DEF BooksTypeOK, BillRows, PaymentRows, RowsUpTo

(* The invariant says what BooksAgree says. *)
LEMMA InvAgrees == BooksInv => BooksAgree
<1> SUFFICES ASSUME BooksInv PROVE BooksAgree
  OBVIOUS
<1>1. Agree(bill, payment, GetSupplierOutstandingBalance(rows),
            SystemOf(journals, Happened(bill, payment)))
  BY DEF BooksInv
<1>2. /\ Posted = PostedIn(bill)
      /\ \A b : Standing(b) = StandingIn(payment, b)
      /\ \A m : PaidFrom(m) = ThroughIn(payment, m)
      /\ \A ps : PaidBy(ps) = AmountOf(payment, ps)
      /\ \A bs : DueOn(bs) = DueOf(bill, bs)
  BY DEF Posted, PostedIn, Standing, StandingIn, PaidFrom, ThroughIn, PaidBy, AmountOf, DueOn, DueOf
<1>3. {j \in journals : j.type = "SYSTEM"} \cup Unposted =
        SystemOf(journals, Happened(bill, payment))
  BY UnpostedIsMissing DEF SystemOf
<1> QED
  BY <1>1, <1>2, <1>3 DEF Agree, BooksAgree

(* Bills, payments, rows of the sub-ledger and journal entries are of their kind;
   an event has one row, finished or not, and one entry, however many clerks post,
   pay and take back at once and however often the history is synchronised. *)
THEOREM BooksTyped == Spec => []BooksTypeOK
BY AlwaysInv, InvTypes, PTL

(* The bills, the payable sub-ledger and the general ledger tell one story after
   every step: what a bill counts as paid is what its standing payments add up to,
   the supplier is owed what the bills have due less what was paid on account, and
   the accounts move by as much once the history is synchronised. *)
THEOREM BooksAlwaysAgree == Spec => []BooksAgree
BY AlwaysInv, InvAgrees, PTL

(* A transaction that knew every row leaves running balances that add up. *)
LEMMA QuietStep ==
  ASSUME BooksInv, [Next]_vars, NEW c \in Clerks, Busy(c), ~Busy(c)',
         {r.id : r \in rows} \subseteq work[c].known
  PROVE  AddsUp(rows')
<1>1. work \in [Clerks -> {Idle} \cup Transactions(lastId)]
  BY DEF BooksInv
<1>2. ASSUME NEW d \in Clerks, Recorded(d) PROVE AddsUp(rows')
  <2>1. d = c
    <3>1. work' = [work EXCEPT ![d] = Idle]
      BY <1>2 DEF Recorded
    <3>2. d # c => work'[c] = work[c]
      BY <1>1, <3>1
    <3> QED
      BY <3>2 DEF Busy
  <2>2. PICK r, known, n : r = work[c].row /\ known = work[c].known /\ n = lastId
    OBVIOUS
  <2>3. rows' = RecalculateRunningBalances(rows \cup {r}, known)
    BY <1>2, <2>1, <2>2 DEF Recorded
  <2>4. /\ rows \in SUBSET RowsUpTo(n) /\ IsFiniteSet(rows) /\ RowsFit(bill, payment, rows)
        /\ r \in RowsUpTo(n) /\ RowStillFits(bill, payment, r)
        /\ \A s \in rows : s.id # r.id
        /\ r.id \in known
    BY <2>2, CommittedRow DEF BooksInv, WorkFits, Busy
  <2>5. rows \cup {r} \in SUBSET RowsUpTo(n) /\ IsFiniteSet(rows \cup {r})
    BY <2>4, FS_AddElement
  <2>6. Distinct(rows \cup {r})
    BY <2>4, NewRowDistinct
  <2>7. \A s \in rows \cup {r} : s.id \in known
    BY <2>2, <2>4
  <2> QED
    BY <2>3, <2>5, <2>6, <2>7, KnowingAllAddsUp
<1>3. ASSUME NEW d \in Clerks, NEW type, NEW source, NEW b, NEW amount, NEW day, NEW method,
             Begin(d, type, source, b, amount, day, method)
      PROVE  FALSE
  <2>1. ~work[d].open /\ \A x \in Clerks : x # d => work'[x] = work[x]
    BY <1>1, <1>3 DEF Begin, Busy
  <2> QED
    BY <2>1 DEF Busy
<1>4. CASE UNCHANGED work
  BY <1>4 DEF Busy
<1>5. ASSUME NEW b \in Bills, NEW f \in BillForm, CreateBill(b, f) PROVE UNCHANGED work
  BY <1>5 DEF CreateBill
<1>6. ASSUME NEW d \in Clerks, NEW b \in Bills, BeginSupplierBill(d, b) PROVE FALSE
  BY <1>3, <1>6 DEF BeginSupplierBill
<1>7. ASSUME NEW d \in Clerks, NEW p \in Payments, NEW f \in PaymentForm,
             BeginSupplierPayment(d, p, f)
      PROVE  FALSE
  BY <1>3, <1>7 DEF BeginSupplierPayment
<1>8. ASSUME NEW d \in Clerks, NEW p \in Payments, BeginPaymentReversal(d, p) PROVE FALSE
  BY <1>3, <1>8 DEF BeginPaymentReversal
<1>9. ASSUME NEW d \in Clerks, RecordSupplierBill(d) PROVE AddsUp(rows')
  BY <1>2, <1>9 DEF RecordSupplierBill
<1>10. ASSUME NEW d \in Clerks, RecordSupplierPayment(d) PROVE AddsUp(rows')
  BY <1>2, <1>10 DEF RecordSupplierPayment
<1>11. ASSUME NEW d \in Clerks, RecordPaymentReversal(d) PROVE AddsUp(rows')
  BY <1>2, <1>11 DEF RecordPaymentReversal
<1>12. CASE SyncUnpostedHistoricalEvents
  BY <1>4, <1>12 DEF SyncUnpostedHistoricalEvents
<1>13. ASSUME NEW f \in ManualForms, StoreManualJournal(f) PROVE UNCHANGED work
  BY <1>13 DEF StoreManualJournal
<1>14. ASSUME NEW j \in journals, ReverseByHand(j) PROVE UNCHANGED work
  BY <1>14 DEF ReverseByHand
<1>15. CASE UNCHANGED vars
  BY <1>4, <1>15 DEF vars
<1> QED
  BY <1>4, <1>5, <1>6, <1>7, <1>8, <1>9, <1>10, <1>11, <1>12, <1>13, <1>14, <1>15 DEF Next

(* A posting that nothing overlapped mends the running balances of the whole
   statement, whatever overlapping postings had left in it. *)
THEOREM QuietBalances == Spec => QuietBalancesAddUp
<1>1. ASSUME BooksInv, [Next]_vars
      PROVE  \A c \in Clerks :
               (Busy(c) /\ ~Busy(c)' /\ {r.id : r \in rows} \subseteq work[c].known)
                 => AddsUp(rows')
  BY <1>1, QuietStep
<1> QED
  BY <1>1, AlwaysInv, PTL DEF Spec, QuietBalancesAddUp

=============================================================================
