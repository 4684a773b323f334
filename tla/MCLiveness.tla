----------------------------- MODULE MCLiveness -----------------------------
(***************************************************************************)
(* What the backend must get done in the end: orders, webhook deliveries,  *)
(* the audit digest, the slots of retired devices and the cleanup of       *)
(* attempts, each with its own fairness. A behaviour is about one of them; *)
(* the others stand still.                                                 *)
(***************************************************************************)
EXTENDS MCOrders

CONSTANTS evt, p1, url, Workers, Content, k0, b1, o1, t0, a1, a2, c1, c2, c3, r1, r2, r3

VARIABLES part,
          endpoints, sent, cursor, rows, ticks, halts, since, sends, acked, failures,
          log, logged, digests, seals, sealed,
          now, owners, entitlements, machines, bindings, attempts, challenges, operations, leases,
          denials, denyCache, requests, consents, retires, replies, slice

outbox == <<endpoints, sent, cursor, rows, ticks, halts, since, sends, acked, failures>>
chain == <<log, logged, digests, seals, sealed>>
licensing ==
  <<now, owners, entitlements, machines, bindings, attempts, challenges, operations, leases,
    denials, denyCache, requests, consents, retires, replies, slice>>

Outbox == INSTANCE WebhookOutbox WITH
  Endpoints <- {p1}, Urls <- {url}, Groups <- {evt}, Ticks <- Workers, Unsafe <- {}, GroupOf <- <<evt>>,
  EnqueueBatch <- 1, MaxAttempts <- 2, ClaimTtl <- 2, Backoff <- <<1, 1>>, MaxCrashes <- 1,
  logged <- sent, crashes <- halts

Chain == INSTANCE AuditChain WITH
  Contents <- {Content}, MaxEvents <- 2, Batch <- 1, Sealers <- Workers, events <- log, NoRecord <- None

Device == INSTANCE MCDevice WITH
  Customers <- {u1}, Licenses <- {l1}, Keys <- {k0}, Bindings <- {b1}, Attempts <- {a1, a2},
  Challenges <- {c1, c2, c3}, OpIds <- {o1}, Requests <- {r1, r2, r3}, Consents <- {s1, s2}, Retires <- {t0},
  Trials <- {}, IssueTrials <- {}, OnePerDevice <- {}, Starts <- {}, LeaseTerms <- {}, TrialSeconds <- 2,
  AttemptTTL <- 2, ChallengeTTL <- 9, CodeTTL <- 1, LeaseMax <- 2, Allowance <- 1, RecoveryTTL <- 2,
  DenialWindow <- 9, Limits <- {1}, Ends <- {20}, Generations <- {1}, MaxRevision <- 3, MaxTime <- 3,
  CleanupRows <- 1, customers <- owners, devices <- machines

\* No endpoint, no event, no tick under way: nothing that is fair can happen.
OutboxRests ==
  /\ Outbox!Init /\ \A p \in {p1} : endpoints[p] = [state |-> "none", to |-> [url |-> url, scope |-> Outbox!Global]]
ChainRests ==
  /\ log = [n \in Chain!Ids |-> None] /\ logged = 0 /\ digests = <<>> /\ sealed = log
  /\ seals = [t \in Workers |-> [Chain!AtRest EXCEPT !.pc = "off"]]

\* Nothing is enrolled and every invocation is over.
DevicesRest ==
  /\ slice = "rest" /\ Device!Quiet /\ Device!NothingEnrolled /\ Device!Granted({}) /\ Device!Waiting(0, 0, 0, 0)
  /\ attempts = [a \in {a1, a2} |-> [Device!NoAttempt EXCEPT !.status = "purged"]]

OrdersRest == grants = [f \in Fingerprints |-> NoGrant]

LivenessInit ==
  /\ Init /\ feed = PairOrders
  /\ \/ part = "orders" /\ OutboxRests /\ ChainRests /\ DevicesRest
     \/ part = "outbox" /\ Outbox!Init /\ ChainRests /\ OrdersRest /\ DevicesRest
     \/ part = "chain" /\ OutboxRests /\ Chain!ChainInit /\ OrdersRest /\ DevicesRest
     \/ part = "devices" /\ OutboxRests /\ ChainRests /\ OrdersRest /\ Device!SettleInit

LivenessNext ==
  /\ UNCHANGED part
  /\ \/ part = "orders" /\ EndsNext /\ UNCHANGED <<outbox, chain, licensing>>
     \/ part = "outbox" /\ Outbox!FairNext /\ UNCHANGED <<vars, feed, chain, licensing>>
     \/ part = "chain" /\ Chain!FairChain /\ UNCHANGED <<vars, feed, outbox, licensing>>
     \/ part = "devices" /\ Device!SettleNext /\ UNCHANGED <<vars, feed, outbox, chain>>

\* Outbox!Fairness, in the behaviours that are about the outbox.
OutboxFairness ==
  /\ WF_outbox(part = "outbox" /\ Outbox!PromptTime)
  /\ \A t \in Workers : WF_outbox(part = "outbox" /\ Outbox!Start(t)) /\ WF_outbox(part = "outbox" /\ Outbox!Step(t))

LivenessSpec ==
  /\ LivenessInit /\ [][LivenessNext]_<<part, vars, feed, outbox, chain, licensing>>
  /\ Fairness /\ OutboxFairness /\ Chain!ChainFairness /\ Device!SettleFairness

\* Every event that an active endpoint wants is queued, and its delivery comes
\* to an end, whatever overlaps, stops and fails (deliverWebhooks).
EventsSettle == Outbox!EventsSettle

\* Every logged event is sealed in the end, although ticks fail and overlap
\* (appendAuditDigest).
AllSealed == Chain!AllSealed

\* A retired slot comes back, whatever renewals and replays are under way
\* (boundOccupiedSql).
RetiredSlotComesBack == Device!RetiredSlotComesBack

\* Cleanup in batches of one row catches up with the expired attempts and codes
\* (drainBoundCleanup).
CleanupCatchesUp == Device!CleanupCatchesUp
=============================================================================
