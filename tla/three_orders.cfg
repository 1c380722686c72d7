SPECIFICATION Spec
CONSTANTS
  o1 = o1
  o2 = o2
  o3 = o3
  p1 = p1
  p2 = p2
  Orders = {o1, o2, o3}
  Products = {p1}
  Ordered <- ThreeOrders
  InitialBalance <- TwoOnHand
  MaxMissions = 1
SYMMETRY OrdersAlike
CONSTRAINT PaidOnDelivery
CONSTRAINT ThirdStaysInOffice
INVARIANTS BalancesKeepChecks StockConserved
