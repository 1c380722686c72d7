SPECIFICATION Spec
CONSTANTS
  Clerks = {cai, dee}
  Bills = {b1}
  Payments = {p1, p2}
  OnAccount = OnAccount
  ManualForms <- Correction
  MaxAmount = 2
  Days = {1, 2}
  Today = 2
  FormMethods = {"BANK"}
  MaxByHand = 1
INVARIANTS
  ReversalCancels
CHECK_DEADLOCK FALSE
