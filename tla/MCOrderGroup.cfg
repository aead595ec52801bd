CONSTANTS
  p1 = p1
  p2 = p2
  n1 = n1
  n2 = n2
  w1 = w1
  w2 = w2
  NoRow = NoRow
  Null = Null
  ProductId = {p1, p2}
  ProductName = {n1, n2}
  LabelId = {}
  Worker = {w1, w2}
  OrderId = {o1, o2}
  User = {u1}
  Quantity = {1, 2}
  Cart <- GroupCart
  InitialTables <- MCInitialTables
  OtherSaves <- MCOtherSaves
  MaxAmount = 5
  CancelField = "id"
  Assigned <- TwoWorkers
  MaxRequests = 3
  MaxCrashes = 0
  MaxDbErrors = 1
SPECIFICATION FairOpenOrderSpec
CHECK_DEADLOCK FALSE
INVARIANTS
  HandlersOK
  TotalMatchesItems
PROPERTIES
  EveryRequestAnswered
