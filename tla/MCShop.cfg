CONSTANTS
  p1 = p1
  p2 = p2
  n1 = n1
  n2 = n2
  w1 = w1
  c1 = c1
  NoRow = NoRow
  Null = Null
  Absent = Absent
  ProductId = {p1, p2}
  ProductName = {n1, n2}
  LabelId = {c1}
  LabelName = {n1}
  Price = {1, 2}
  StartStock = {1}
  Worker = {w1}
  OrderId = {o1}
  User = {u1}
  Quantity = {1, 3}
  Cart <- MCCart
  InitialTables <- MCTable
  OtherSaves = {}
  ClientCalls <- ShopCalls
  MaxAmount = 9
  CancelField = "id"
  Assigned <- OneWorker
  MaxRequests = 2
  MaxCrashes = 0
  MaxDbErrors = 0
  MaxCalls = 3
  MaxRestarts = 0
SPECIFICATION FairShopSpec
CHECK_DEADLOCK FALSE
INVARIANTS
  StockNonNegative
  TotalMatchesItems
  LabelReferencesResolve
PROPERTIES
  EveryRequestAnswered
