---------------------------- MODULE GeneralLedger ----------------------------
(***************************************************************************)
(* Journal entries of the general ledger.  A set of entries is the ledger; *)
(* an entry of two lines debits one account and credits another.  System   *)
(* entries carry the business event they were posted for, so that posting  *)
(* the event twice finds the first entry; an entry is taken back by an     *)
(* opposite one, never deleted.                                            *)
(***************************************************************************)
EXTENDS Integers, Functions

Events == {"BILL_POSTED", "BILL_PAYMENT", "BILL_PAYMENT_REVERSED", "MANUAL"}
Accounts == {"CASH", "BANK", "PAYABLE", "EXPENSE"}   \* 1010, 1030, 2010, 5030

(* The entries about any of some sources, of any of some amounts.          *)
Entries(sources, amounts) ==
  [type : {"SYSTEM", "MANUAL", "REVERSAL"}, event : Events, source : sources,
   debit : Accounts, credit : Accounts, amount : amounts,
   status : {"POSTED", "REVERSED"}]

Entry(type, event, source, debit, credit, amount) ==
  [type |-> type, event |-> event, source |-> source, debit |-> debit,
   credit |-> credit, amount |-> amount, status |-> "POSTED"]

(* What the unique index on the source event compares; the event of a      *)
(* reversal is named after the one it takes back.                          *)
SourceEvent(j) == <<j.event, j.source, j.type = "REVERSAL">>

HasEntry(ledger, event, source) ==
  \E j \in ledger : SourceEvent(j) = <<event, source, FALSE>>

CreateAndPostJournal(ledger, j) ==
  IF \E k \in ledger : SourceEvent(k) = SourceEvent(j) THEN ledger ELSE ledger \cup {j}

Reversible(j) == j.status = "POSTED" /\ j.type # "REVERSAL"

Opposite(j) == Entry("REVERSAL", j.event, j.source, j.credit, j.debit, j.amount)

ReverseJournal(ledger, j) ==
  CreateAndPostJournal(ledger \ {j}, Opposite(j)) \cup {[j EXCEPT !.status = "REVERSED"]}

(* Debits less credits of an account.  Every report of the ledger counts   *)
(* the entries that are POSTED, which is what Reported says.               *)
Moved(entries, account) ==
  LET amount == [j \in entries |-> j.amount]
  IN SumFunctionOnSet(amount, {j \in entries : j.debit = account})
       - SumFunctionOnSet(amount, {j \in entries : j.credit = account})

Reported(ledger, account) == Moved({j \in ledger : j.status = "POSTED"}, account)
=============================================================================
