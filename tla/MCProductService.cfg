CONSTANTS
  p1 = p1
  p2 = p2
  n1 = n1
  n2 = n2
  c1 = c1
  c2 = c2
  NoRow = NoRow
  Absent = Absent
  ProductId = {p1, p2}
  ProductName = {n1, n2}
  LabelId = {c1, c2}
  LabelName = {n1, n2}
  Price = {2}
  StartStock = {0}
  InitialTables <- MCTable
  OtherSaves <- MCOtherSaves
  ClientCalls <- AllCalls
  MaxCalls = 3
  MaxRestarts = 1
SPECIFICATION FairOpenProductSpec
CHECK_DEADLOCK FALSE
INVARIANTS
  ProductTypeOK
  LabelReferencesResolve
PROPERTIES
  EveryCallAnswered
