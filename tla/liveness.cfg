SPECIFICATION LivenessSpec
CONSTANTS
  evt = evt
  p1 = p1
  url = url
  Workers = {t1, t2}
  Content = x
  e1 = e1
  e2 = e2
  e3 = e3
  s1 = s1
  s2 = s2
  u1 = u1
  u2 = u2
  f1 = f1
  l1 = l1
  k0 = k0
  b1 = b1
  o1 = o1
  t0 = t0
  a1 = a1
  a2 = a2
  c1 = c1
  c2 = c2
  c3 = c3
  r1 = r1
  r2 = r2
  r3 = r3
  None = None
  Orders <- PairOrders
  EventIds = {e1, e2}
  Fingerprints = {f1}
  Subscriptions = {s1}
  Customers = {u1, u2}
  Licenses = {l1}
  Calls = {k1, k2}
  MaxDevices = 0
  MaxCrashes = 1
PROPERTIES
  AcceptedEventsEnd
  EventsSettle
  AllSealed
  RetiredSlotComesBack
  CleanupCatchesUp
CHECK_DEADLOCK FALSE
