SPECIFICATION Spec
CONSTANTS
  line = line
  Lines = {line}
  Deliveries <- TheDeliveries
  Price <- ThePrice
  Staff = {ann, bob}
  SuperAdmins = {}
  MaxReturns = 2
  MaxRefunds = 2
  MaxDocuments = 3
SYMMETRY StaffAlike
INVARIANTS
  AfterSaleTypeOK
  ReturnsWithinDelivery
  GoodsComeBackOnce
  NotesMatchLedger
PROPERTIES
  ImplementsMoneyBack
CHECK_DEADLOCK FALSE
