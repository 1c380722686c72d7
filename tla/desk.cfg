SPECIFICATION DeskSpec
CONSTANTS
  o1 = o1
  p1 = p1
  e1 = e1
  e2 = e2
  Orders = {o1}
  Products = {p1}
  Exceptions = {e1, e2}
  Ordered <- OneOrder
  InitialBalance <- OneHeldByOthers
  MaxMissions = 2
  MaxPieces = 1
SYMMETRY ReportsAlike
CONSTRAINT Unpaid
CONSTRAINT NoDetour
CONSTRAINT SecondFollows
CONSTRAINT FewAdjusted
INVARIANTS BalancesKeepChecks QuarantineRevertedOnce MovementsExplainStock HeldIsReservedOrQuarantined
