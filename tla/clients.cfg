SPECIFICATION ClientsSpec
CONSTANTS
  e1 = e1
  e2 = e2
  e3 = e3
  s1 = s1
  s2 = s2
  u1 = u1
  u2 = u2
  f1 = f1
  l1 = l1
  None = None
  NoHash = NoHash
  NoStatement = NoStatement
  google = google
  github = github
  Orders <- AllOrders
  EventIds = {e1, e2, e3}
  Fingerprints = {f1}
  Subscriptions = {s1, s2}
  Customers = {u1, u2}
  Licenses = {l1}
  Calls = {k1, k2}
  Providers = {google, github}
  Accounts <- Owners
  Tabs = {k1, k2}
  Sessions = {1, 2}
  MaxAttempts = 2
  Procs = {k1, k2}
  MaxOps = 2
  MaxRevision = 1
  MaxClock = 1
  MaxDevices = 1
  MaxCrashes = 1
INVARIANTS
  StoredResultTrue
  NewerNotDiscarded
  CodeSpentOnce
  StaysWithItsOwner
  RevisionsStand
PROPERTIES
  ImplementsOrderBook
  OrdersRespectGrant
CHECK_DEADLOCK FALSE
SYMMETRY Interchangeable
