CONSTANTS
  u1 = u1
  k1 = k1
  k2 = k2
  w1 = w1
  NoRow = NoRow
  Null = Null
  Worker = {w1}
  UserName = {u1}
  Password = {k1, k2}
  Address = {a1, a2}
  SessionId = {s1, s2}
  Accounts <- MCAccounts
  TokenLife = 1
  LockLife = 1
  RefreshLife = 2
  MaxFailed = 2
  Assigned <- OneWorker
  MaxNow = 3
  MaxRequests = 4
  MaxCrashes = 1
  MaxRejections = 1
SPECIFICATION FairAuthSpec
CHECK_DEADLOCK FALSE
INVARIANTS
  AuthTypeOK
  AccountsFresh
  LockoutHolds
PROPERTIES
  ResetTokenWorksOnce
  VerifiedAccountsKeep
  ImplementsSessions
  EveryAuthRequestAnswered
