SPECIFICATION PartsSpec
CONSTANTS
  Seats = {s1, s2, s3}
  Licenses = {l1}
  Holders = {h1, h2}
  NoOne = NoOne
  Times = {0, 1, 2}
  Sizes = {1, 2}
  e1 = e1
  e2 = e2
  e3 = e3
  e4 = e4
  f1 = f1
  f2 = f2
  Orders <- BookOrders
  Fingerprints = {f1, f2}
  q1 = q1
  q2 = q2
  d1 = d1
  Signed = {q1, q2}
  Deliveries = {d1, d2, d3}
  MaxSkew = 1
  MaxTime = 4
  Contents = {x1, x2}
  MaxEvents = 3
  Batch = 2
  Sealers = {tick}
  NoRecord = NoRecord
  None = None
  k1 = k1
  k2 = k2
  old = old
  new = new
  ann = ann
  bob = bob
  p1 = p1
  Other = Other
  Calls = {c1, c2, c3}
  Grants = {f1, f2}
  Requests <- Asked
  Terms = {old}
  Catalogs <- Plans
  Previews = {p1}
  Trials = {f1}
  MaxSeq = 3
  MaxTouches = 1
  Flows = {w1, w2}
  Bookmarks = {m1}
  Retention = 1
  MaxTries = 2
  LastInstant = 2
  Absent = Absent
  Sources = {i1, i2}
  DeviceKeys = {dk1}
  Owners = {u1}
  Routes = {"session"}
  RegistrationBudget = 0
  SessionBudget = 2
  Fuse = 3
  CountCap = 3
  MaxMinute = 2
  MaxVerified = 1
INVARIANTS
  LiveHoldersWithinCap
  OnceAndInOrder
  VerdictTrue
  AuditUnbroken
  KeySpentOnce
  BackupsWhole
  AdmittedWithinFuse
  NoSourceTripsAlone
PROPERTIES
  AdmittedOnce
  AppliedAsPreviewed
SYMMETRY Symmetric
CHECK_DEADLOCK FALSE
