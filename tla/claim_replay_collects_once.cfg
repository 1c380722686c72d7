SPECIFICATION Spec
CONSTANTS
  Tabs = {t1}
  Customers = {shop}
  NoCustomer = NoCustomer
  Products = {tea}
  MaxQuantity = 2
  MaxVisits = 1
  MaxRefreshes = 2
  MaxRequests = 2
PROPERTY ReplayCollectsOnce
CHECK_DEADLOCK FALSE
