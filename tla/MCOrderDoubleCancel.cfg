CONSTANTS
  p1 = p1
  p2 = p2
  n1 = n1
  n2 = n2
  w1 = w1
  w2 = w2
  NoRow = NoRow
  Null = Null
  ProductId = {p1, p2}
  ProductName = {n1, n2}
  LabelId = {}
  Worker = {w1}
  OrderId = {o1, o2}
  User = {u1}
  Quantity = {1, 2}
  Cart <- MCCart
  InitialTables <- MCInitialTables
  OtherSaves = {}
  MaxAmount = 4
  CancelField = "orderId"
  Assigned <- OneWorker
  MaxRequests = 5
  MaxCrashes = 0
  MaxDbErrors = 0
SPECIFICATION OrderSpec
CHECK_DEADLOCK FALSE
INVARIANTS
  ReturnedOnce
