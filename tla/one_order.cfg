SPECIFICATION Spec
CONSTANTS
  o1 = o1
  o2 = o2
  o3 = o3
  p1 = p1
  p2 = p2
  Orders = {o1}
  Products = {p1, p2}
  Ordered <- TwoLines
  InitialBalance <- JustEnough
  MaxMissions = 2
INVARIANTS TypeOK AllocationLadder UnapprovedHoldsNothing MissionsAreBacked CompletedWasShipped
PROPERTIES ClosedStaysClosed LastConditionCompletes ImplementsLife
