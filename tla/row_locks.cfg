SPECIFICATION FairSpec
CONSTANTS
  o1 = o1
  o2 = o2
  cust = cust
  Requests = {1, 2, 3}
  Orders = {o1, o2}
  Customers = {cust}
  LastProduct = 2
  CustomerOf <- TheCustomer
  ItemsOf <- TheItems
  Mixes <- AllMixes
  MaxAttempts = 2
INVARIANTS
  OnlyInversionsDeadlock
PROPERTIES
  TransactionsEnd
CHECK_DEADLOCK FALSE
