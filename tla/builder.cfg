SPECIFICATION Spec
CONSTANTS
  Tabs = {t1, t2}
  Customers = {shop}
  NoCustomer = NoCustomer
  Products = {tea}
  MaxQuantity = 1
  MaxVisits = 1
  MaxRefreshes = 1
  MaxRequests = 2
INVARIANT BuilderTypeOK
PROPERTIES NoLostEdit ImplementsBook
SYMMETRY TabsAlike
CHECK_DEADLOCK FALSE
