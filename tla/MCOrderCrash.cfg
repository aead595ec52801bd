CONSTANTS
  p1 = p1
  p2 = p2
  n1 = n1
  n2 = n2
  w1 = w1
  w2 = w2
  NoRow = NoRow
  Null = Null
  ProductId = {p1, p2}
  ProductName = {n1, n2}
  LabelId = {}
  Worker = {w1}
  OrderId = {o1, o2, o3}
  User = {u1}
  Quantity = {1, 2}
  Cart <- MCCart
  InitialTables <- MCInitialTables
  OtherSaves = {}
  MaxAmount = 4
  CancelField = "id"
  Assigned <- OneWorker
  MaxRequests = 3
  MaxCrashes = 1
  MaxDbErrors = 1
SPECIFICATION FairOrderSpec
CHECK_DEADLOCK FALSE
INVARIANTS
  LiveOrdersSettled
  SnapshotsFresh
  CreateFailsBeforeSaving
  UnitsConserved
PROPERTIES
  OrderLifecycle
  EveryRequestAnswered
