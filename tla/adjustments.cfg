SPECIFICATION Spec
CONSTANTS
  Ordered = 2
  OnHand = 3
  MaxChange = 2
  MaxAdjustments = 2
  Staff = {ann, bob}
  SuperAdmins = {}
SYMMETRY StaffAlike
INVARIANTS
  AdjustmentsTypeOK
  LinesMatchApplied
  HoldingsAreReserved
PROPERTY
  ImplementsStack
CHECK_DEADLOCK FALSE
