------------------------------ MODULE AuditChain ------------------------------
(***************************************************************************)
(* The audit digest: a cron tick seals the entitlement events behind the   *)
(* last segment into one more segment of a hash chain, and a verifier      *)
(* replays the events against the chain. A digest is modelled as what it   *)
(* commits to: the sequence of the segments' canonical rows.               *)
(***************************************************************************)
EXTENDS Integers, Sequences, FiniteSets

CONSTANTS Contents,       \* what canonicalEntitlementEvent keeps of a row
          MaxEvents,      \* bound: events logged
          Batch,          \* AUDIT_DIGEST_BATCH
          Sealers,        \* runs of the cron handler that may overlap
          NoRecord        \* no row

ASSUME ChainAssumption == MaxEvents \in Nat /\ Batch \in Nat \ {0} /\ NoRecord \notin Contents

Ids == 1..MaxEvents

VARIABLES events,         \* entitlement_events
          logged,         \* the newest id given out
          digests,        \* audit_digests
          seals,          \* the ticks that seal
          sealed          \* history: an event's content when a segment first covered it

chain == <<events, logged, digests, seals, sealed>>

NoDigest == <<>>
AtRest == [pc |-> "idle", upTo |-> 0, prev |-> NoDigest, rows |-> <<>>]

ChainInit ==
  /\ events = [n \in Ids |-> NoRecord] /\ logged = 0
  /\ digests = <<>>
  /\ seals = [t \in Sealers |-> AtRest]
  /\ sealed = [n \in Ids |-> NoRecord]

\* Some rows, which say what row says, in the order of their ids.
Rank(n, ids) == Cardinality({m \in ids : m <= n})
InIdOrder(ids, row) ==
  [k \in 1..Cardinality(ids) |-> LET n == CHOOSE x \in ids : Rank(x, ids) = k IN <<n, row[n]>>]

\* The rows with from < id <= to, at most limit of them.
RowsIn(from, to, limit) ==
  LET kept == {n \in Ids : from < n /\ n <= to /\ events[n] # NoRecord}
  IN InIdOrder({n \in kept : Rank(n, kept) <= limit}, events)

\* Slip: only the ids are hashed.
SlipIds(prev, rows) == Append(prev, [k \in DOMAIN rows |-> <<rows[k][1], CHOOSE c \in Contents : TRUE>>])

\* computeSegmentDigest of the canonical rows, without collisions.
Digest(prev, rows) == Append(prev, rows)

\* Slip: the cursor is one ahead.
SlipSkip == IF digests = <<>> THEN [upTo |-> 0, digest |-> NoDigest]
            ELSE [digests[Len(digests)] EXCEPT !.upTo = @ + 1]

\* lastDigest
LastDigest == IF digests = <<>> THEN [upTo |-> 0, digest |-> NoDigest] ELSE digests[Len(digests)]

ReadLast(t) ==
  /\ seals[t].pc = "idle"
  /\ seals' = [seals EXCEPT ![t] = [AtRest EXCEPT !.pc = "read", !.upTo = LastDigest.upTo, !.prev = LastDigest.digest]]
  /\ UNCHANGED <<events, logged, digests, sealed>>

ReadEvents(t) ==
  LET rows == RowsIn(seals[t].upTo, logged, Batch)
  IN /\ seals[t].pc = "read"
     /\ seals' = [seals EXCEPT ![t] = IF rows = <<>> THEN AtRest ELSE [@ EXCEPT !.pc = "append", !.rows = rows]]
     /\ UNCHANGED <<events, logged, digests, sealed>>

\* The insert; nothing keeps two segments from having the same predecessor.
AppendSegment(t) ==
  LET rows == seals[t].rows
      prev == seals[t].prev
  IN /\ seals[t].pc = "append"
     /\ digests' = Append(digests, [upTo |-> rows[Len(rows)][1], count |-> Len(rows), prev |-> prev,
                                    digest |-> Digest(prev, rows)])
     /\ sealed' = [n \in Ids |-> IF sealed[n] = NoRecord /\ \E k \in DOMAIN rows : rows[k][1] = n
                                 THEN rows[CHOOSE k \in DOMAIN rows : rows[k][1] = n][2] ELSE sealed[n]]
     /\ seals' = [seals EXCEPT ![t] = AtRest]
     /\ UNCHANGED <<events, logged>>

\* Any of the three statements fails, or the Worker stops.
SealFails(t) ==
  /\ seals[t].pc # "idle"
  /\ seals' = [seals EXCEPT ![t] = AtRest]
  /\ UNCHANGED <<events, logged, digests, sealed>>

\* A mutation logs an event.
LogEvent ==
  /\ logged < MaxEvents /\ logged' = logged + 1
  /\ \E c \in Contents : events' = [events EXCEPT ![logged'] = c]
  /\ UNCHANGED <<digests, seals, sealed>>

\* Somebody with access to the database alters or deletes an event.
Tamper(n) ==
  /\ events[n] # NoRecord
  /\ \E c \in (Contents \cup {NoRecord}) \ {events[n]} : events' = [events EXCEPT ![n] = c]
  /\ UNCHANGED <<logged, digests, seals, sealed>>

Seal(t) == ReadLast(t) \/ ReadEvents(t) \/ AppendSegment(t)

ChainNext == LogEvent \/ (\E n \in Ids : Tamper(n)) \/ (\E t \in Sealers : Seal(t) \/ SealFails(t))

ChainSpec == ChainInit /\ [][ChainNext]_chain

\* The cron fires again and again and, now and then, a tick gets through.
ChainFairness == \A t \in Sealers : WF_chain(ReadLast(t)) /\ SF_chain(ReadEvents(t)) /\ SF_chain(AppendSegment(t))

FairChain == LogEvent \/ \E t \in Sealers : Seal(t) \/ SealFails(t)
FairChainSpec == ChainInit /\ [][FairChain]_chain /\ ChainFairness

-----------------------------------------------------------------------------
\* verifyAuditChain
VerifierAccepts ==
  \A k \in DOMAIN digests :
    LET before == IF k = 1 THEN [upTo |-> 0, digest |-> NoDigest] ELSE digests[k - 1]
        rows == RowsIn(before.upTo, digests[k].upTo, MaxEvents)
    IN /\ digests[k].prev = before.digest
       /\ Len(rows) = digests[k].count
       /\ Digest(before.digest, rows) = digests[k].digest

Intact == \A n \in Ids : sealed[n] # NoRecord => events[n] = sealed[n]

\* While no sealed event was touched the verifier accepts the chain
\* (audit_digest.mjs: "the UNIQUE-less append is safe because each tick reads a
\* disjoint id range").
ChainVerifies == Intact => VerifierAccepts

\* The verifier's verdict is true: it accepts the chain while no sealed event
\* was touched and notices every alteration and deletion of one, whichever
\* ticks failed or saw events late (verifyAuditChain).
VerdictTrue == VerifierAccepts <=> Intact

\* Every logged event is sealed, although ticks fail.
AllSealed == \A n \in Ids : (n <= logged) ~> (sealed[n] # NoRecord)
=============================================================================
