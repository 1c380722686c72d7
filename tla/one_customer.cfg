SPECIFICATION Spec
CONSTANTS
  o1 = o1
  o2 = o2
  p1 = p1
  p2 = p2
  p3 = p3
  c1 = c1
  c2 = c2
  Cash = Cash
  Unlinked = Unlinked
  Orders = {o1}
  Payments = {p1, p2, p3}
  Cheques = {c1}
  GrandTotal <- TwoUnits
  MaxAmount = 2
  MaxVersion = 4
SYMMETRY PaymentsAlike
INVARIANTS TypeOK SettlementFollowsPayments RecordedWithinTotal LedgerBalances InvoiceCountsVerified
PROPERTIES CompletionIsSettled PaymentsKeepLife
CHECK_DEADLOCK FALSE
