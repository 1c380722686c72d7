SPECIFICATION FairSpec
CONSTANTS
  Tabs = {t1}
  Customers = {shop}
  NoCustomer = NoCustomer
  Products = {tea}
  MaxQuantity = 1
  MaxVisits = 1
  MaxRefreshes = 2
  MaxRequests = 3
INVARIANT OneOrderPerKey
PROPERTY SpinnersEnd
CHECK_DEADLOCK FALSE
