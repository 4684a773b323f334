SPECIFICATION OutboxSpec
CONSTANTS
  g1 = g1
  g2 = g2
  None = None
  Endpoints = {p1}
  Urls = {a, b, x}
  Groups = {g1, g2}
  Unsafe = {x}
  Ticks = {t1, t2}
  GroupOf <- TwoEvents
  EnqueueBatch = 1
  MaxAttempts = 2
  ClaimTtl = 2
  Backoff <- Waits
  MaxCrashes = 1
SYMMETRY Interchangeable
INVARIANTS
  NoSteadyEventSkipped
  OneSenderPerLease
  DestinationKept
PROPERTIES
  DeliveredIsFinal
CHECK_DEADLOCK FALSE
