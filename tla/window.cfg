SPECIFICATION WindowSpec
CONSTANTS
  e1 = e1
  e2 = e2
  e3 = e3
  s1 = s1
  s2 = s2
  u1 = u1
  u2 = u2
  f1 = f1
  l1 = l1
  None = None
  Orders <- AllOrders
  EventIds = {e1, e2, e3}
  Fingerprints = {f1}
  Subscriptions = {s1, s2}
  Customers = {u1, u2}
  Licenses = {l1}
  Calls = {k1, k2}
  MaxDevices = 0
  MaxCrashes = 0
PROPERTIES
  WindowNeverRegresses
CHECK_DEADLOCK FALSE
