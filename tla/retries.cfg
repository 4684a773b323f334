SPECIFICATION OutboxSpec
CONSTANTS
  g1 = g1
  g2 = g2
  None = None
  Endpoints = {p1}
  Urls = {a}
  Groups = {g1, g2}
  Unsafe = {}
  Ticks = {t1, t2}
  GroupOf <- TwoEvents
  EnqueueBatch = 1
  MaxAttempts = 2
  ClaimTtl = 2
  Backoff <- Waits
  MaxCrashes = 0
INVARIANTS
  RetriesEnd
CHECK_DEADLOCK FALSE
