------------------------ MODULE WebhookOutbox_proofs ------------------------
(***************************************************************************)
(* The webhook dispatcher for every number of ticks, endpoints and events, *)
(* whichever ticks overlap or stop: one sender for each lease, requests    *)
(* only where their delivery was bound to, deliveries that stay delivered, *)
(* and no event behind the cursor that an endpoint still waits for.        *)
(***************************************************************************)
EXTENDS MCWebhooks, FiniteSetTheorems, TLAPS

Jobs == [row: Rows, to: Destinations, attempts: Nat]

Hand == {"send", "record"}

TickRow == [pc: {"idle", "scan", "queue", "due", "claim"} \cup Hand,
            seen: SUBSET (Endpoints \X ({Global} \cup Groups)), top: Nat, full: BOOLEAN, todo: SUBSET Rows,
            due: SUBSET Jobs, job: Jobs \cup {None}, lease: Nat \cup {Past}, held: BOOLEAN, ok: BOOLEAN]

Row == [status: {"none", "pending", "delivered", "failed", "canceled"}, attempts: Nat,
        next: Nat \cup {Past}, queued: Destinations \cup {None}]

OutboxTyped ==
  /\ endpoints \in [Endpoints -> [state: {"none", "active", "disabled"}, to: Destinations]]
  /\ logged \in 0..Cardinality(Events) /\ cursor \in Nat
  /\ rows \in [Rows -> Row]
  /\ ticks \in [Ticks -> TickRow]
  /\ \A t \in Ticks : IF ticks[t].pc \in Hand THEN ticks[t].job \in Jobs ELSE ticks[t].lease = Past
  /\ sends \subseteq [row: Rows, url: Urls] /\ acked \subseteq Rows

\* Events are numbered from 1 (entitlement_events.id).
LEMMA EventNumbers ==
  /\ Cardinality(Events) \in Nat /\ Events = 1..Cardinality(Events) /\ IsFiniteSet(Events)
  /\ ClaimTtl \in Nat \ {0} /\ EnqueueBatch \in Nat \ {0}
  /\ \A n \in Nat : n + 1 < MaxAttempts => Backoff[n + 1] \in Nat \ {0}
<1>1. Cardinality(Events) \in Nat
  BY OutboxAssumption, FS_CardinalityType
<1>2. ASSUME NEW n \in Nat, n + 1 < MaxAttempts PROVE Backoff[n + 1] \in Nat \ {0}
  <2>1. n + 1 \in 1..MaxAttempts
    BY <1>2, OutboxAssumption
  <2> QED BY <2>1, OutboxAssumption
<1> QED BY <1>1, <1>2, OutboxAssumption

\* The empty rows of the schema and of a tick.
LEMMA EmptyOnes ==
  /\ NoRow \in Row /\ NoRow.status = "none" /\ Idle \in TickRow
  /\ Idle.pc = "idle" /\ Idle.lease = Past /\ Idle.job = None
  /\ "idle" \notin Hand /\ Past \notin Nat /\ Past < 0
BY DEF NoRow, Idle, Row, TickRow, Past, Hand

\* A tick changes its own row only.
LEMMA OwnTick ==
  ASSUME OutboxTyped, NEW t \in Ticks, NEW q \in TickRow, ticks' = [ticks EXCEPT ![t] = q],
         IF q.pc \in Hand THEN q.job \in Jobs ELSE q.lease = Past
  PROVE  /\ ticks' \in [Ticks -> TickRow]
         /\ \A u \in Ticks : IF ticks'[u].pc \in Hand THEN ticks'[u].job \in Jobs ELSE ticks'[u].lease = Past
BY DEF OutboxTyped

\* A new instant in next_attempt_at changes whether a lease is held, and nothing else.
LEMMA RetimedTicks ==
  ASSUME OutboxTyped, NEW r \in Rows, NEW v \in Nat
  PROVE  Retimed(r, v) \in [Ticks -> TickRow]
<1>1. ASSUME NEW x \in Ticks PROVE [ticks[x] EXCEPT !.held = (ticks[x].lease = v)] \in TickRow
  <2> DEFINE b == (ticks[x].lease = v)
  <2>1. b \in BOOLEAN
    OBVIOUS
  <2> HIDE DEF b
  <2>2. [ticks[x] EXCEPT !.held = b] \in TickRow
    BY <2>1 DEF OutboxTyped, TickRow
  <2> QED BY <2>2 DEF b
<1> QED BY <1>1 DEF Retimed, OutboxTyped

\* Who has the row in hand holds its lease again only if the instants agree.
LEMMA RetimedHeld ==
  ASSUME OutboxTyped, NEW r \in Rows, NEW v \in Nat, NEW u \in Ticks
  PROVE  \/ Retimed(r, v)[u] = ticks[u] /\ ~(ticks[u].pc \in Hand /\ ticks[u].job.row = r)
         \/ ticks[u].pc \in Hand /\ ticks[u].job.row = r /\ Retimed(r, v)[u].held = (ticks[u].lease = v)
<1>1. Retimed(r, v)[u] = IF ticks[u].pc \in Hand /\ ticks[u].job.row = r
                         THEN [ticks[u] EXCEPT !.held = (ticks[u].lease = v)] ELSE ticks[u]
  BY DEF Retimed, Hand
<1>2. ticks[u] \in TickRow
  BY DEF OutboxTyped
<1> QED BY <1>1, <1>2 DEF TickRow

\* The rest of a tick is what it was.
LEMMA RetimedFields ==
  ASSUME OutboxTyped, NEW r \in Rows, NEW v \in Nat, NEW u \in Ticks
  PROVE  /\ Retimed(r, v)[u].pc = ticks[u].pc /\ Retimed(r, v)[u].job = ticks[u].job
         /\ Retimed(r, v)[u].lease = ticks[u].lease /\ Retimed(r, v)[u].ok = ticks[u].ok
         /\ Retimed(r, v)[u].due = ticks[u].due /\ Retimed(r, v)[u].seen = ticks[u].seen
         /\ Retimed(r, v)[u].top = ticks[u].top /\ Retimed(r, v)[u].todo = ticks[u].todo
<1>1. Retimed(r, v)[u] = IF ticks[u].pc \in Hand /\ ticks[u].job.row = r
                         THEN [ticks[u] EXCEPT !.held = (ticks[u].lease = v)] ELSE ticks[u]
  BY DEF Retimed, Hand
<1>2. ticks[u] \in TickRow
  BY DEF OutboxTyped
<1> QED BY <1>1, <1>2 DEF TickRow

\* The state of a tick that lets go of its delivery.
LEMMA NextJobs ==
  ASSUME OutboxTyped, NEW t \in Ticks
  PROVE  /\ NextJob(t) \in TickRow /\ NextJob(t).pc = "claim" /\ NextJob(t).job = None
         /\ NextJob(t).lease = Past /\ NextJob(t).due = ticks[t].due
<1>1. ticks[t] \in TickRow
  BY DEF OutboxTyped
<1> QED BY <1>1 DEF NextJob, TickRow, Hand, Past

\* The schema's empty state.
LEMMA InitTyped == Init => OutboxTyped
<1> SUFFICES ASSUME Init PROVE OutboxTyped
  OBVIOUS
<1>1. endpoints \in [Endpoints -> [state: {"none", "active", "disabled"}, to: Destinations]]
  BY DEF Init
<1>2. logged \in 0..Cardinality(Events) /\ cursor \in Nat
  BY EventNumbers DEF Init
<1>3. rows \in [Rows -> Row] /\ ticks \in [Ticks -> TickRow]
  BY EmptyOnes DEF Init
<1>4. \A t \in Ticks : IF ticks[t].pc \in Hand THEN ticks[t].job \in Jobs ELSE ticks[t].lease = Past
  BY EmptyOnes DEF Init
<1>5. sends \subseteq [row: Rows, url: Urls] /\ acked \subseteq Rows
  BY DEF Init
<1> QED BY <1>1, <1>2, <1>3, <1>4, <1>5 DEF OutboxTyped

\* enqueueWebhooks.
LEMMA QueueingTyped ==
  ASSUME OutboxTyped, NEW t \in Ticks, Start(t) \/ Scan(t) \/ Enqueue(t) \/ Save(t)
  PROVE  OutboxTyped'
<1>0. ticks[t] \in TickRow
  BY DEF OutboxTyped
<1>1. CASE Start(t)
  <2> DEFINE S == {<<e, endpoints[e].to.scope>> : e \in {x \in Endpoints : endpoints[x].state = "active"}}
             q == [ticks[t] EXCEPT !.pc = "scan", !.seen = S]
  <2>1. S \subseteq Endpoints \X ({Global} \cup Groups)
    BY DEF OutboxTyped, Destinations
  <2>2. q \in TickRow /\ q.pc \notin Hand /\ q.lease = Past
    <3>1. ticks[t].lease = Past
      BY <1>1 DEF Start, At, OutboxTyped, Hand
    <3> HIDE DEF S
    <3> QED BY <1>0, <2>1, <3>1 DEF TickRow, Hand
  <2>3. ticks' = [ticks EXCEPT ![t] = q]
    BY <1>1 DEF Start, OutboxTyped
  <2> HIDE DEF q
  <2>4. /\ ticks' \in [Ticks -> TickRow]
        /\ \A u \in Ticks : IF ticks'[u].pc \in Hand THEN ticks'[u].job \in Jobs ELSE ticks'[u].lease = Past
    BY <2>2, <2>3, OwnTick
  <2>5. UNCHANGED <<endpoints, logged, cursor, rows, sends, acked>>
    BY <1>1 DEF Start, history
  <2> QED BY <2>4, <2>5 DEF OutboxTyped
<1>2. CASE Scan(t)
  <2> DEFINE batch == {n \in Events : cursor < n /\ n <= logged /\ n <= cursor + EnqueueBatch}
             wanted == {w \in ticks[t].seen \X batch : Matches(w[1][2], w[2])}
             T == {<<w[1][1], w[2]>> : w \in wanted}
             q == [ticks[t] EXCEPT !.pc = "queue", !.top = cursor + Cardinality(batch),
                                   !.full = (Cardinality(batch) = EnqueueBatch), !.todo = T]
  <2>1. ticks[t].lease = Past /\ ticks[t].pc = "scan"
    BY <1>2 DEF Scan, At, OutboxTyped, Hand
  <2>2. /\ ticks' \in [Ticks -> TickRow]
        /\ \A u \in Ticks : IF ticks'[u].pc \in Hand THEN ticks'[u].job \in Jobs ELSE ticks'[u].lease = Past
    <3>1. CASE batch = {}
      <4> DEFINE p == [ticks[t] EXCEPT !.pc = "due"]
      <4>1. ticks' = [ticks EXCEPT ![t] = p]
        BY <1>2, <3>1 DEF Scan, Goto, OutboxTyped
      <4>2. p \in TickRow /\ p.pc \notin Hand /\ p.lease = Past
        BY <1>0, <2>1 DEF TickRow, Hand
      <4> HIDE DEF p
      <4> QED BY <4>1, <4>2, OwnTick
    <3>2. CASE batch # {}
      <4>1. ticks' = [ticks EXCEPT ![t] = q]
        <5> HIDE DEF batch
        <5>1. ticks' = [ticks EXCEPT ![t].pc = "queue", ![t].top = cursor + Cardinality(batch),
                                     ![t].full = (Cardinality(batch) = EnqueueBatch), ![t].todo = T]
          BY <1>2, <3>2 DEF Scan, batch
        <5> HIDE DEF T
        <5> DEFINE b == (Cardinality(batch) = EnqueueBatch)
        <5>2. b \in BOOLEAN
          OBVIOUS
        <5> QED BY <5>1, <5>2, Zenon DEF OutboxTyped
      <4>2. Cardinality(batch) \in Nat
        <5>1. IsFiniteSet(batch)
          BY EventNumbers, FS_Subset
        <5> QED BY <5>1, FS_CardinalityType
      <4>3. T \subseteq Rows
        BY <1>0 DEF TickRow, Rows
      <4>4. q \in TickRow /\ q.pc \notin Hand /\ q.lease = Past
        <5> DEFINE m == Cardinality(batch) b == (m = EnqueueBatch)
        <5>1. b \in BOOLEAN /\ cursor + m \in Nat
          BY <4>2 DEF OutboxTyped
        <5> HIDE DEF m, b, T
        <5>2. [ticks[t] EXCEPT !.pc = "queue", !.top = cursor + m, !.full = b, !.todo = T] \in TickRow
          BY <1>0, <4>3, <5>1 DEF TickRow
        <5>3. q \in TickRow
          BY <5>2 DEF m, b
        <5>4. q.pc = "queue" /\ q.lease = ticks[t].lease
          BY <1>0, Zenon DEF TickRow
        <5> QED BY <5>3, <5>4, <2>1 DEF Hand
      <4> HIDE DEF q
      <4> QED BY <4>1, <4>4, OwnTick
    <3> QED BY <3>1, <3>2
  <2>5. UNCHANGED <<endpoints, logged, cursor, rows, sends, acked>>
    BY <1>2 DEF Scan, history
  <2> QED BY <2>2, <2>5 DEF OutboxTyped
<1>3. CASE Enqueue(t)
  <2>1. PICK r \in ticks[t].todo :
       /\ rows' = IF rows[r].status # "none" THEN rows
                  ELSE [rows EXCEPT ![r] = [NoRow EXCEPT !.status = "pending", !.next = 0, !.queued = endpoints[r[1]].to]]
       /\ ticks' = [ticks EXCEPT ![t].todo = @ \ {r}]
    BY <1>3 DEF Enqueue
  <2> DEFINE q == [ticks[t] EXCEPT !.todo = @ \ {r}]
  <2>2. r \in Rows /\ r[1] \in Endpoints
    BY <1>0 DEF TickRow, Rows
  <2>3. rows' \in [Rows -> Row]
    <3>1. [NoRow EXCEPT !.status = "pending", !.next = 0, !.queued = endpoints[r[1]].to] \in Row
      BY <2>2 DEF OutboxTyped, NoRow, Row
    <3> QED BY <2>1, <2>2, <3>1 DEF OutboxTyped
  <2>4. q \in TickRow /\ q.pc \notin Hand /\ q.lease = Past
    <3>1. ticks[t].lease = Past /\ ticks[t].pc = "queue"
      BY <1>3 DEF Enqueue, At, OutboxTyped, Hand
    <3> QED BY <1>0, <3>1 DEF TickRow, Hand
  <2>5. ticks' = [ticks EXCEPT ![t] = q]
    BY <2>1 DEF OutboxTyped
  <2> HIDE DEF q
  <2>6. /\ ticks' \in [Ticks -> TickRow]
        /\ \A u \in Ticks : IF ticks'[u].pc \in Hand THEN ticks'[u].job \in Jobs ELSE ticks'[u].lease = Past
    BY <2>4, <2>5, OwnTick
  <2>7. UNCHANGED <<endpoints, logged, cursor, sends, acked>>
    BY <1>3 DEF Enqueue, history
  <2> QED BY <2>3, <2>6, <2>7 DEF OutboxTyped
<1>4. CASE Save(t)
  <2>1. PICK pc \in {"scan", "due"} : ticks' = [ticks EXCEPT ![t].pc = pc]
    BY <1>4 DEF Save, Goto
  <2> DEFINE q == [ticks[t] EXCEPT !.pc = pc]
  <2>2. ticks' = [ticks EXCEPT ![t] = q]
    BY <2>1 DEF OutboxTyped
  <2>3. q \in TickRow /\ q.pc \notin Hand /\ q.lease = Past
    <3>1. ticks[t].lease = Past
      BY <1>4 DEF Save, At, OutboxTyped, Hand
    <3> QED BY <1>0, <2>1, <3>1 DEF TickRow, Hand
  <2> HIDE DEF q
  <2>4. /\ ticks' \in [Ticks -> TickRow]
        /\ \A u \in Ticks : IF ticks'[u].pc \in Hand THEN ticks'[u].job \in Jobs ELSE ticks'[u].lease = Past
    BY <2>2, <2>3, OwnTick
  <2>5. cursor' \in Nat
    BY <1>0, <1>4 DEF Save, Reached, TickRow
  <2>6. UNCHANGED <<endpoints, logged, rows, sends, acked>>
    BY <1>4 DEF Save, history
  <2> QED BY <2>4, <2>5, <2>6 DEF OutboxTyped
<1> QED BY <1>1, <1>2, <1>3, <1>4

\* claimPendingWebhookDelivery, when it wins.
Claims(t, d) ==
  /\ d \in ticks[t].due /\ Claimable(d.row)
  /\ rows' = [rows EXCEPT ![d.row].next = ClaimTtl]
  /\ ticks' = [Retimed(d.row, ClaimTtl) EXCEPT
        ![t] = [ticks[t] EXCEPT !.pc = "send", !.due = @ \ {d}, !.job = d, !.lease = ClaimTtl, !.held = TRUE]]

\* What a claim makes of a tick, and of the ticks beside it.
LEMMA ClaimedTicks ==
  ASSUME OutboxTyped, NEW t \in Ticks, NEW d, At(t, "claim"), Claims(t, d)
  PROVE  /\ d \in Jobs /\ d.row \in Rows /\ ticks' \in [Ticks -> TickRow]
         /\ ticks'[t].pc = "send" /\ ticks'[t].job = d /\ ticks'[t].lease = ClaimTtl /\ ticks'[t].held
         /\ ticks'[t].due = ticks[t].due \ {d}
         /\ \A u \in Ticks \ {t} : ticks'[u] = Retimed(d.row, ClaimTtl)[u]
<1>1. ticks[t] \in TickRow
  BY DEF OutboxTyped
<1>2. d \in Jobs /\ d.row \in Rows
  BY <1>1 DEF Claims, TickRow, Jobs
<1>3. Retimed(d.row, ClaimTtl) \in [Ticks -> TickRow] /\ Retimed(d.row, ClaimTtl)[t] = ticks[t]
  <2>1. ClaimTtl \in Nat
    BY OutboxAssumption
  <2>2. ticks[t].pc \notin Hand
    BY DEF At, Hand
  <2>3. Retimed(d.row, ClaimTtl) \in [Ticks -> TickRow]
    BY <1>2, <2>1, RetimedTicks
  <2>4. Retimed(d.row, ClaimTtl)[t] = ticks[t]
    BY <1>2, <2>1, <2>2, RetimedHeld
  <2> QED BY <2>3, <2>4
<1> DEFINE R == Retimed(d.row, ClaimTtl)
           q == [ticks[t] EXCEPT !.pc = "send", !.due = @ \ {d}, !.job = d, !.lease = ClaimTtl, !.held = TRUE]
<1>4. q \in TickRow /\ q.pc = "send" /\ q.job = d /\ q.lease = ClaimTtl /\ q.held /\ q.due = ticks[t].due \ {d}
  BY <1>1, <1>2, OutboxAssumption DEF TickRow, Hand
<1>5. ticks' = [R EXCEPT ![t] = q]
  <2>1. ticks' = [R EXCEPT ![t] = q]
    BY DEF Claims
  <2> QED BY <2>1
<1> HIDE DEF q
<1> QED BY <1>2, <1>3, <1>4, <1>5

\* deliverWebhooks up to the claim.
LEMMA ReadingTyped ==
  ASSUME OutboxTyped, NEW t \in Ticks, ReadDue(t) \/ Claim(t) \/ Done(t)
  PROVE  OutboxTyped'
<1>0. ticks[t] \in TickRow
  BY DEF OutboxTyped
<1>1. CASE ReadDue(t)
  <2> DEFINE due == {r \in Rows : Claimable(r) /\ endpoints[r[1]].state = "active"}
             D == {[row |-> r, to |-> endpoints[r[1]].to, attempts |-> rows[r].attempts] : r \in due}
             q == [Idle EXCEPT !.pc = "claim", !.due = D]
  <2>1. D \subseteq Jobs
    BY DEF OutboxTyped, Jobs, Rows, Row
  <2>2. ticks' = [ticks EXCEPT ![t] = q]
    BY <1>1 DEF ReadDue
  <2> HIDE DEF D
  <2>3. q \in TickRow /\ q.pc \notin Hand /\ q.lease = Past
    BY <2>1 DEF TickRow, Hand, Idle
  <2> HIDE DEF q
  <2>4. /\ ticks' \in [Ticks -> TickRow]
        /\ \A u \in Ticks : IF ticks'[u].pc \in Hand THEN ticks'[u].job \in Jobs ELSE ticks'[u].lease = Past
    BY <2>2, <2>3, OwnTick
  <2>5. UNCHANGED <<endpoints, logged, cursor, rows, sends, acked>>
    BY <1>1 DEF ReadDue, history
  <2> QED BY <2>4, <2>5 DEF OutboxTyped
<1>2. CASE Claim(t)
  <2>1. PICK d \in ticks[t].due :
          \/ Claims(t, d)
          \/ ticks' = [ticks EXCEPT ![t].due = @ \ {d}] /\ UNCHANGED rows
    BY <1>2 DEF Claim, Claims
  <2>2. UNCHANGED <<endpoints, logged, cursor, sends, acked>>
    BY <1>2 DEF Claim, history
  <2>3. CASE Claims(t, d)
    <3>1. At(t, "claim")
      BY <1>2 DEF Claim
    <3>2. /\ d \in Jobs /\ d.row \in Rows /\ ticks' \in [Ticks -> TickRow]
          /\ ticks'[t].pc = "send" /\ ticks'[t].job = d
          /\ \A u \in Ticks \ {t} : ticks'[u] = Retimed(d.row, ClaimTtl)[u]
      BY <2>3, <3>1, ClaimedTicks
    <3>3. ASSUME NEW u \in Ticks PROVE IF ticks'[u].pc \in Hand THEN ticks'[u].job \in Jobs ELSE ticks'[u].lease = Past
      <4>1. CASE u = t
        BY <3>2, <4>1 DEF Hand
      <4>2. CASE u # t
        <5>1. ClaimTtl \in Nat
          BY OutboxAssumption
        <5>2. ticks'[u].pc = ticks[u].pc /\ ticks'[u].job = ticks[u].job /\ ticks'[u].lease = ticks[u].lease
          BY <3>2, <4>2, <5>1, RetimedFields
        <5> QED BY <5>2 DEF OutboxTyped
      <4> QED BY <4>1, <4>2
    <3>4. rows' \in [Rows -> Row]
      <4>1. [rows[d.row] EXCEPT !.next = ClaimTtl] \in Row
        <5>1. rows[d.row] \in Row /\ ClaimTtl \in Nat
          BY <3>2, OutboxAssumption DEF OutboxTyped
        <5> QED BY <5>1 DEF Row
      <4>2. rows' = [rows EXCEPT ![d.row] = [rows[d.row] EXCEPT !.next = ClaimTtl]]
        BY <2>3, <3>2 DEF Claims, OutboxTyped
      <4> QED BY <3>2, <4>1, <4>2 DEF OutboxTyped
    <3> QED BY <2>2, <3>2, <3>3, <3>4 DEF OutboxTyped
  <2>4. CASE ticks' = [ticks EXCEPT ![t].due = @ \ {d}] /\ UNCHANGED rows
    <3> DEFINE q == [ticks[t] EXCEPT !.due = @ \ {d}]
    <3>1. q \in TickRow /\ q.pc \notin Hand /\ q.lease = Past
      <4>1. ticks[t].lease = Past /\ ticks[t].pc = "claim"
        BY <1>2 DEF Claim, At, OutboxTyped, Hand
      <4> QED BY <1>0, <4>1 DEF TickRow, Hand
    <3>2. ticks' = [ticks EXCEPT ![t] = q]
      BY <2>4 DEF OutboxTyped
    <3> HIDE DEF q
    <3>3. /\ ticks' \in [Ticks -> TickRow]
          /\ \A u \in Ticks : IF ticks'[u].pc \in Hand THEN ticks'[u].job \in Jobs ELSE ticks'[u].lease = Past
      BY <3>1, <3>2, OwnTick
    <3> QED BY <2>2, <2>4, <3>3 DEF OutboxTyped
  <2> QED BY <2>1, <2>3, <2>4
<1>3. CASE Done(t)
  <2>1. ticks' = [ticks EXCEPT ![t] = Idle]
    BY <1>3 DEF Done
  <2>2. /\ ticks' \in [Ticks -> TickRow]
        /\ \A u \in Ticks : IF ticks'[u].pc \in Hand THEN ticks'[u].job \in Jobs ELSE ticks'[u].lease = Past
    BY <2>1, EmptyOnes, OwnTick
  <2>3. UNCHANGED <<endpoints, logged, cursor, rows, sends, acked>>
    BY <1>3 DEF Done, history
  <2> QED BY <2>2, <2>3 DEF OutboxTyped
<1> QED BY <1>1, <1>2, <1>3

\* persistWebhookDeliveryOutcome, when the failure is retried.
Retries(t) ==
  LET r == ticks[t].job.row
      n == Count(ticks[t].job)
  IN /\ ticks[t].held /\ ~ticks[t].ok /\ rows[r].status = "pending" /\ n < MaxAttempts
     /\ rows' = [rows EXCEPT ![r].attempts = n, ![r].next = Backoff[n]]
     /\ ticks' = [Retimed(r, Backoff[n]) EXCEPT ![t] = NextJob(t)]

\* A retry lets go of the delivery and moves its instant.
LEMMA RetriedTicks ==
  ASSUME OutboxTyped, NEW t \in Ticks, ticks[t].pc \in Hand, Retries(t)
  PROVE  /\ ticks[t].job.row \in Rows /\ Count(ticks[t].job) \in Nat
         /\ Backoff[Count(ticks[t].job)] \in Nat \ {0} /\ ticks' \in [Ticks -> TickRow]
         /\ ticks'[t] = NextJob(t)
         /\ \A u \in Ticks \ {t} : ticks'[u] = Retimed(ticks[t].job.row, Backoff[Count(ticks[t].job)])[u]
<1>1. ticks[t].job \in Jobs
  BY DEF OutboxTyped
<1> DEFINE r == ticks[t].job.row
           w == Backoff[Count(ticks[t].job)]
<1>2. r \in Rows /\ ticks[t].job.attempts \in Nat
  BY <1>1 DEF Jobs
<1>3. w \in Nat \ {0} /\ Count(ticks[t].job) \in Nat
  BY <1>2, EventNumbers DEF Count, Retries
<1>4. Retimed(r, w) \in [Ticks -> TickRow]
  BY <1>2, <1>3, RetimedTicks
<1>5. ticks' = [Retimed(r, w) EXCEPT ![t] = NextJob(t)]
  BY DEF Retries
<1>6. NextJob(t) \in TickRow
  BY NextJobs
<1> QED BY <1>2, <1>3, <1>4, <1>5, <1>6

\* persistWebhookDeliveryOutcome, when the row keeps its instant.
Records(t) ==
  LET r == ticks[t].job.row
      n == Count(ticks[t].job)
  IN /\ ticks' = [ticks EXCEPT ![t] = NextJob(t)]
     /\ \/ /\ ticks[t].ok /\ ticks[t].held /\ rows[r].status \in {"pending", "canceled"}
           /\ rows' = [rows EXCEPT ![r].status = "delivered", ![r].attempts = @ + 1]
        \/ /\ ~ticks[t].ok /\ ticks[t].held /\ rows[r].status = "pending"
           /\ rows' = [rows EXCEPT ![r].status = "failed", ![r].attempts = n]
        \/ UNCHANGED rows

\* persistWebhookDeliveryOutcome.
LEMMA RecordCases ==
  ASSUME NEW t \in Ticks, Record(t)
  PROVE  At(t, "record") /\ (Records(t) \/ Retries(t)) /\ UNCHANGED <<endpoints, logged, cursor, crashes, since, sends, acked>>
BY DEF Record, Records, Retries

\* refuseUnsafeWebhookDelivery, cancelOutOfScopeWebhookDelivery: on the row.
LEMMA RefusedRow ==
  ASSUME OutboxTyped, NEW t \in Ticks, Refuse(t)
  PROVE  /\ ticks[t].job.row \in Rows /\ rows' \in [Rows -> Row]
         /\ \/ rows' = rows
            \/ /\ rows[ticks[t].job.row].status = "pending" /\ ticks[t].held
               /\ rows'[ticks[t].job.row].status \in {"failed", "canceled"}
               /\ rows'[ticks[t].job.row].next = rows[ticks[t].job.row].next
               /\ rows'[ticks[t].job.row].queued = rows[ticks[t].job.row].queued
         /\ \A s \in Rows : s # ticks[t].job.row => rows'[s] = rows[s]
<1> DEFINE d == ticks[t].job
           r == d.row
<1>1. d \in Jobs
  BY DEF OutboxTyped, Refuse, At, Hand
<1>2. r \in Rows /\ d.attempts \in Nat /\ rows[r] \in Row
  BY <1>1 DEF Jobs, OutboxTyped
<1>3. \/ rows' = rows
      \/ /\ rows[r].status = "pending" /\ ticks[t].held
         /\ rows' = [rows EXCEPT ![r].status = IF d.to.url \in Unsafe THEN "failed" ELSE "canceled",
                                 ![r].attempts = IF d.to.url \in Unsafe THEN d.attempts + 1 ELSE @]
  BY DEF Refuse
<1>4. CASE rows' = rows
  BY <1>2, <1>4 DEF OutboxTyped
<1>5. CASE /\ rows[r].status = "pending" /\ ticks[t].held
           /\ rows' = [rows EXCEPT ![r].status = IF d.to.url \in Unsafe THEN "failed" ELSE "canceled",
                                   ![r].attempts = IF d.to.url \in Unsafe THEN d.attempts + 1 ELSE @]
  <2>1. PICK s \in {"failed", "canceled"}, n \in Nat : rows' = [rows EXCEPT ![r].status = s, ![r].attempts = n]
    <3>1. CASE d.to.url \in Unsafe
      <4>1. rows' = [rows EXCEPT ![r].status = "failed", ![r].attempts = d.attempts + 1]
        BY <1>5, <3>1
      <4>2. d.attempts + 1 \in Nat
        BY <1>2
      <4> HIDE DEF d
      <4> QED BY <4>1, <4>2
    <3>2. CASE d.to.url \notin Unsafe
      <4>1. rows[r].attempts \in Nat
        BY <1>2 DEF Row
      <4>2. rows' = [rows EXCEPT ![r].status = "canceled", ![r].attempts = @]
        BY <1>5, <3>2
      <4>3. rows' = [rows EXCEPT ![r].status = "canceled", ![r].attempts = rows[r].attempts]
        BY <1>2, <4>2 DEF OutboxTyped, Row
      <4> QED BY <4>1, <4>3
    <3> QED BY <3>1, <3>2
  <2>2. rows' \in [Rows -> Row]
    BY <1>2, <2>1 DEF OutboxTyped, Row
  <2>3. rows'[r].status = s /\ rows'[r].next = rows[r].next /\ rows'[r].queued = rows[r].queued
    BY <1>2, <2>1 DEF OutboxTyped, Row
  <2>4. \A x \in Rows : x # r => rows'[x] = rows[x]
    BY <2>1 DEF OutboxTyped
  <2> HIDE DEF d
  <2> QED BY <1>2, <1>5, <2>2, <2>3, <2>4 DEF d
<1> QED BY <1>3, <1>4, <1>5

\* deliverOne: the refusal, the request and its outcome.
LEMMA DeliveringTyped ==
  ASSUME OutboxTyped, NEW t \in Ticks, Refuse(t) \/ Send(t) \/ Record(t)
  PROVE  OutboxTyped'
<1>0. ticks[t] \in TickRow
  BY DEF OutboxTyped
<1>9. NextJob(t) \in TickRow /\ NextJob(t).pc \notin Hand /\ NextJob(t).lease = Past
  BY NextJobs DEF Hand
<1>1. CASE Refuse(t)
  <2>1. rows' \in [Rows -> Row]
    BY <1>1, RefusedRow
  <2>2. ticks' = [ticks EXCEPT ![t] = NextJob(t)]
    BY <1>1 DEF Refuse
  <2>3. /\ ticks' \in [Ticks -> TickRow]
        /\ \A u \in Ticks : IF ticks'[u].pc \in Hand THEN ticks'[u].job \in Jobs ELSE ticks'[u].lease = Past
    BY <1>9, <2>2, OwnTick
  <2>4. UNCHANGED <<endpoints, logged, cursor, sends, acked>>
    BY <1>1 DEF Refuse, history
  <2> QED BY <2>1, <2>3, <2>4 DEF OutboxTyped
<1>2. CASE Send(t)
  <2> DEFINE d == ticks[t].job
  <2>0. d \in Jobs
    BY <1>2 DEF OutboxTyped, Send, At, Hand
  <2>1. PICK received \in BOOLEAN, ok \in BOOLEAN :
          /\ acked' = IF received THEN acked \cup {d.row} ELSE acked
          /\ ticks' = [ticks EXCEPT ![t].pc = "record", ![t].ok = ok]
    BY <1>2 DEF Send
  <2> DEFINE q == [ticks[t] EXCEPT !.pc = "record", !.ok = ok]
  <2>2. ticks' = [ticks EXCEPT ![t] = q]
    BY <2>1 DEF OutboxTyped
  <2>3. q \in TickRow /\ q.pc \in Hand /\ q.job \in Jobs
    BY <1>0, <2>0 DEF TickRow, Hand
  <2>4. acked' \subseteq Rows /\ sends' \subseteq [row: Rows, url: Urls]
    <3>1. d.row \in Rows /\ d.to.url \in Urls
      BY <2>0 DEF Jobs, Destinations
    <3>2. sends' = sends \cup {[row |-> d.row, url |-> d.to.url]}
      BY <1>2 DEF Send
    <3> HIDE DEF d
    <3> QED BY <2>1, <3>1, <3>2 DEF OutboxTyped
  <2> HIDE DEF q
  <2>5. /\ ticks' \in [Ticks -> TickRow]
        /\ \A u \in Ticks : IF ticks'[u].pc \in Hand THEN ticks'[u].job \in Jobs ELSE ticks'[u].lease = Past
    BY <2>2, <2>3, OwnTick
  <2>6. UNCHANGED <<endpoints, logged, cursor, rows>>
    BY <1>2 DEF Send
  <2> QED BY <2>4, <2>5, <2>6 DEF OutboxTyped
<1>3. CASE Record(t)
  <2>0. ticks[t].job \in Jobs /\ ticks[t].pc \in Hand
    BY <1>3 DEF OutboxTyped, Record, At, Hand
  <2>1. (Records(t) \/ Retries(t)) /\ UNCHANGED <<endpoints, logged, cursor, sends, acked>>
    BY <1>3, RecordCases
  <2> DEFINE r == ticks[t].job.row
  <2>2. r \in Rows /\ rows[r] \in Row /\ Count(ticks[t].job) \in Nat
    BY <2>0 DEF Jobs, OutboxTyped, Count
  <2>3. CASE Records(t)
    <3>1. ticks' = [ticks EXCEPT ![t] = NextJob(t)]
      BY <2>3 DEF Records
    <3>2. /\ ticks' \in [Ticks -> TickRow]
          /\ \A u \in Ticks : IF ticks'[u].pc \in Hand THEN ticks'[u].job \in Jobs ELSE ticks'[u].lease = Past
      BY <1>9, <3>1, OwnTick
    <3>3. rows' \in [Rows -> Row]
      BY <2>2, <2>3 DEF Records, OutboxTyped, Row
    <3> QED BY <2>1, <3>2, <3>3 DEF OutboxTyped
  <2>4. CASE Retries(t)
    <3>1. /\ Backoff[Count(ticks[t].job)] \in Nat \ {0} /\ ticks' \in [Ticks -> TickRow]
          /\ ticks'[t] = NextJob(t)
          /\ \A u \in Ticks \ {t} : ticks'[u] = Retimed(r, Backoff[Count(ticks[t].job)])[u]
      BY <2>0, <2>4, RetriedTicks
    <3>2. ASSUME NEW u \in Ticks PROVE IF ticks'[u].pc \in Hand THEN ticks'[u].job \in Jobs ELSE ticks'[u].lease = Past
      <4>1. CASE u = t
        BY <1>9, <3>1, <4>1
      <4>2. CASE u # t
        <5>1. Backoff[Count(ticks[t].job)] \in Nat
          BY <3>1
        <5>2. ticks'[u].pc = ticks[u].pc /\ ticks'[u].job = ticks[u].job /\ ticks'[u].lease = ticks[u].lease
          BY <2>2, <3>1, <4>2, <5>1, RetimedFields
        <5> QED BY <5>2 DEF OutboxTyped
      <4> QED BY <4>1, <4>2
    <3>3. rows' \in [Rows -> Row]
      BY <2>2, <2>4, <3>1 DEF Retries, OutboxTyped, Row
    <3> QED BY <2>1, <3>1, <3>2, <3>3 DEF OutboxTyped
  <2> QED BY <2>1, <2>3, <2>4
<1> QED BY <1>1, <1>2, <1>3

\* A row and a tick one second later.
LEMMA LaterOnes ==
  ASSUME OutboxTyped, Time
  PROVE  /\ rows' \in [Rows -> Row] /\ ticks' \in [Ticks -> TickRow]
         /\ \A r \in Rows : /\ rows'[r].next = Later(rows[r].next) /\ rows'[r].status = rows[r].status
                            /\ rows'[r].queued = rows[r].queued
         /\ \A t \in Ticks : /\ ticks'[t].pc = ticks[t].pc /\ ticks'[t].job = ticks[t].job
                             /\ ticks'[t].lease = Later(ticks[t].lease) /\ ticks'[t].held = ticks[t].held
                             /\ ticks'[t].ok = ticks[t].ok /\ ticks'[t].due = ticks[t].due
                             /\ ticks'[t].seen = ticks[t].seen /\ ticks'[t].top = ticks[t].top
                             /\ ticks'[t].todo = ticks[t].todo
<1>1. ASSUME NEW x \in Nat \cup {Past} PROVE Later(x) \in Nat \cup {Past}
  BY DEF Later, Past
<1>2. rows' = [r \in Rows |-> [rows[r] EXCEPT !.next = Later(rows[r].next)]]
  BY DEF Time
<1>3. ticks' = [t \in Ticks |-> [ticks[t] EXCEPT !.lease = Later(ticks[t].lease)]]
  BY DEF Time
<1>4. ASSUME NEW r \in Rows
      PROVE  /\ [rows[r] EXCEPT !.next = Later(rows[r].next)] \in Row
             /\ rows'[r].next = Later(rows[r].next) /\ rows'[r].status = rows[r].status
             /\ rows'[r].queued = rows[r].queued
  <2>1. rows[r] \in Row
    BY DEF OutboxTyped
  <2>2. Later(rows[r].next) \in Nat \cup {Past}
    BY <1>1, <2>1 DEF Row
  <2> QED BY <1>2, <2>1, <2>2 DEF Row
<1>5. ASSUME NEW t \in Ticks
      PROVE  /\ [ticks[t] EXCEPT !.lease = Later(ticks[t].lease)] \in TickRow
             /\ ticks'[t].pc = ticks[t].pc /\ ticks'[t].job = ticks[t].job
             /\ ticks'[t].lease = Later(ticks[t].lease) /\ ticks'[t].held = ticks[t].held
             /\ ticks'[t].ok = ticks[t].ok /\ ticks'[t].due = ticks[t].due
             /\ ticks'[t].seen = ticks[t].seen /\ ticks'[t].top = ticks[t].top
             /\ ticks'[t].todo = ticks[t].todo
  <2>1. ticks[t] \in TickRow
    BY DEF OutboxTyped
  <2>2. Later(ticks[t].lease) \in Nat \cup {Past}
    BY <1>1, <2>1 DEF TickRow
  <2> QED BY <1>3, <2>1, <2>2 DEF TickRow
<1>6. rows' \in [Rows -> Row]
  BY <1>2, <1>4
<1>7. ticks' \in [Ticks -> TickRow]
  BY <1>3, <1>5
<1> QED BY <1>4, <1>5, <1>6, <1>7

\* redriveWebhookDelivery.
LEMMA RedriveTyped ==
  ASSUME OutboxTyped, NEW r \in Rows, Redrive(r)
  PROVE  OutboxTyped'
<1>1. ticks' = Retimed(r, 0) /\ ticks' \in [Ticks -> TickRow]
  BY RetimedTicks DEF Redrive
<1>2. ASSUME NEW u \in Ticks PROVE IF ticks'[u].pc \in Hand THEN ticks'[u].job \in Jobs ELSE ticks'[u].lease = Past
  <2>1. ticks'[u].pc = ticks[u].pc /\ ticks'[u].job = ticks[u].job /\ ticks'[u].lease = ticks[u].lease
    BY <1>1, RetimedFields
  <2> QED BY <2>1 DEF OutboxTyped
<1>3. rows' \in [Rows -> Row]
  <2>1. [rows[r] EXCEPT !.status = "pending", !.attempts = 0, !.next = 0] \in Row
    BY DEF OutboxTyped, Row
  <2>2. rows' = [rows EXCEPT ![r] = [rows[r] EXCEPT !.status = "pending", !.attempts = 0, !.next = 0]]
    BY DEF Redrive, OutboxTyped
  <2> QED BY <2>1, <2>2 DEF OutboxTyped
<1>4. UNCHANGED <<endpoints, logged, cursor, sends, acked>>
  BY DEF Redrive
<1> QED BY <1>1, <1>2, <1>3, <1>4 DEF OutboxTyped

\* handleWebhookTransition, handleWebhookPatch and the event writers.
LEMMA AroundTyped ==
  ASSUME OutboxTyped,
         \/ Log
         \/ \E e \in Endpoints, s \in {"active", "disabled"} : SetState(e, s)
         \/ \E e \in Endpoints, to \in Destinations : Patch(e, to)
  PROVE  OutboxTyped'
<1>1. CASE Log
  <2>1. logged' \in 0..Cardinality(Events)
    BY <1>1, EventNumbers DEF Log, OutboxTyped
  <2> QED BY <1>1, <2>1 DEF Log, history, OutboxTyped
<1>2. ASSUME NEW e \in Endpoints, NEW s \in {"active", "disabled"}, SetState(e, s) PROVE OutboxTyped'
  <2>1. endpoints' \in [Endpoints -> [state: {"none", "active", "disabled"}, to: Destinations]]
    BY <1>2 DEF SetState, OutboxTyped
  <2>2. UNCHANGED <<logged, cursor, rows, ticks, sends, acked>>
    BY <1>2 DEF SetState
  <2> QED BY <2>1, <2>2 DEF OutboxTyped
<1>3. ASSUME NEW e \in Endpoints, NEW to \in Destinations, Patch(e, to) PROVE OutboxTyped'
  <2>1. endpoints' \in [Endpoints -> [state: {"none", "active", "disabled"}, to: Destinations]]
    BY <1>3 DEF Patch, OutboxTyped
  <2>2. rows' \in [Rows -> Row]
    <3>1. ASSUME NEW r \in Rows PROVE rows[r] \in Row /\ [rows[r] EXCEPT !.status = "canceled"] \in Row
      BY DEF OutboxTyped, Row
    <3>2. rows' = [r \in Rows |-> IF r[1] = e /\ Queued(r) THEN [rows[r] EXCEPT !.status = "canceled"] ELSE rows[r]]
      BY <1>3 DEF Patch
    <3> QED BY <3>1, <3>2
  <2>3. UNCHANGED <<logged, cursor, ticks, sends, acked>>
    BY <1>3 DEF Patch
  <2> QED BY <2>1, <2>2, <2>3 DEF OutboxTyped
<1> QED BY <1>1, <1>2, <1>3

\* A tick that stops.
LEMMA CrashTyped ==
  ASSUME OutboxTyped, NEW t \in Ticks, Crash(t)
  PROVE  OutboxTyped'
<1>1. UNCHANGED <<endpoints, logged, cursor, rows, sends, acked>>
  BY DEF Crash, history
<1>2. ticks[t] \in TickRow
  BY DEF OutboxTyped
<1> DEFINE p == [ticks[t] EXCEPT !.pc = "due"]
<1>3. \/ ticks' = [ticks EXCEPT ![t] = Idle]
      \/ ticks' = [ticks EXCEPT ![t] = p] /\ ticks[t].pc \in {"scan", "queue"}
  BY DEF Crash, Goto, OutboxTyped
<1>4. ticks[t].pc \in {"scan", "queue"} => p \in TickRow /\ p.pc \notin Hand /\ p.lease = Past
  BY <1>2 DEF TickRow, Hand, OutboxTyped
<1> HIDE DEF p
<1>5. /\ ticks' \in [Ticks -> TickRow]
      /\ \A u \in Ticks : IF ticks'[u].pc \in Hand THEN ticks'[u].job \in Jobs ELSE ticks'[u].lease = Past
  <2>1. CASE ticks' = [ticks EXCEPT ![t] = Idle]
    BY <2>1, EmptyOnes, OwnTick
  <2>2. CASE ticks' = [ticks EXCEPT ![t] = p] /\ ticks[t].pc \in {"scan", "queue"}
    BY <2>2, <1>4, OwnTick
  <2> QED BY <1>3, <2>1, <2>2
<1> QED BY <1>1, <1>5 DEF OutboxTyped

\* Every step of the outbox, by the handler that takes it.
LEMMA Handlers ==
  ASSUME Next
  PROVE  \/ \E t \in Ticks : Start(t) \/ Scan(t) \/ Enqueue(t) \/ Save(t)
         \/ \E t \in Ticks : ReadDue(t) \/ Claim(t) \/ Done(t)
         \/ \E t \in Ticks : Refuse(t) \/ Send(t) \/ Record(t)
         \/ \E t \in Ticks : Crash(t)
         \/ Log \/ Time
         \/ \E e \in Endpoints, s \in {"active", "disabled"} : SetState(e, s)
         \/ \E e \in Endpoints, to \in Destinations : Patch(e, to)
         \/ \E r \in Rows : Redrive(r)
BY DEF Next, Dispatch, Step, Operate

\* Every step of the dispatcher and of its operators keeps the types.
LEMMA StepTyped ==
  ASSUME OutboxTyped, [Next]_vars
  PROVE  OutboxTyped'
<1>1. CASE Next
  <2>1. CASE \E t \in Ticks : Start(t) \/ Scan(t) \/ Enqueue(t) \/ Save(t)
    BY <2>1, QueueingTyped
  <2>2. CASE \E t \in Ticks : ReadDue(t) \/ Claim(t) \/ Done(t)
    BY <2>2, ReadingTyped
  <2>3. CASE \E t \in Ticks : Refuse(t) \/ Send(t) \/ Record(t)
    BY <2>3, DeliveringTyped
  <2>4. CASE \E t \in Ticks : Crash(t)
    BY <2>4, CrashTyped
  <2>5. CASE Time
    <3>1. rows' \in [Rows -> Row] /\ ticks' \in [Ticks -> TickRow]
      BY <2>5, LaterOnes
    <3>2. ASSUME NEW u \in Ticks PROVE IF ticks'[u].pc \in Hand THEN ticks'[u].job \in Jobs ELSE ticks'[u].lease = Past
      <4>1. ticks'[u].pc = ticks[u].pc /\ ticks'[u].job = ticks[u].job /\ ticks'[u].lease = Later(ticks[u].lease)
        BY <2>5, LaterOnes
      <4> QED BY <4>1 DEF OutboxTyped, Later
    <3>3. UNCHANGED <<endpoints, logged, cursor, sends, acked>>
      BY <2>5 DEF Time, history
    <3> QED BY <3>1, <3>2, <3>3 DEF OutboxTyped
  <2>6. CASE \/ Log
             \/ \E e \in Endpoints, s \in {"active", "disabled"} : SetState(e, s)
             \/ \E e \in Endpoints, to \in Destinations : Patch(e, to)
    BY <2>6, AroundTyped
  <2>7. CASE \E r \in Rows : Redrive(r)
    BY <2>7, RedriveTyped
  <2> QED BY <1>1, <2>1, <2>2, <2>3, <2>4, <2>5, <2>6, <2>7, Handlers
<1>2. CASE UNCHANGED vars
  BY <1>2 DEF vars, OutboxTyped
<1> QED BY <1>1, <1>2

\* The shape of the rows, the ticks and the requests (deliveries.ts), for every
\* number of endpoints, events and ticks.
THEOREM TypeCorrect == Spec => []OutboxTyped
<1>1. Init => OutboxTyped
  BY InitTyped
<1>2. OutboxTyped /\ [Next]_vars => OutboxTyped'
  BY StepTyped
<1> QED BY <1>1, <1>2, PTL DEF Spec

-----------------------------------------------------------------------------
\* What a step can make of a row: queued once, for the destination of that
\* moment, delivered by a tick whose request was acknowledged, and final then.
RowMoves(r) ==
  /\ rows[r].status # "none" => rows'[r].status # "none" /\ rows'[r].queued = rows[r].queued
  /\ rows[r].status = "none" =>
       \/ rows'[r].status = "none"
       \/ rows'[r].status = "pending" /\ rows'[r].queued = endpoints[r[1]].to /\ endpoints' = endpoints
  /\ rows'[r].status \in {"pending", "failed"} /\ rows[r].status # "none" =>
       rows[r].status \in {"pending", "failed"} /\ endpoints'[r[1]].to = endpoints[r[1]].to
  /\ rows[r].status = "delivered" => rows'[r].status = "delivered"
  /\ rows'[r].status = "delivered" /\ rows[r].status # "delivered" =>
       \E t \in Ticks : ticks[t].pc = "record" /\ ticks[t].ok /\ ticks[t].job.row = r

\* A step that leaves the row and the destinations alone.
LEMMA RowStays ==
  ASSUME NEW r \in Rows, rows'[r] = rows[r], endpoints' = endpoints
  PROVE  RowMoves(r)
BY DEF RowMoves

\* persistWebhookDeliveryOutcome on the row it is about.
LEMMA RecordMoves ==
  ASSUME OutboxTyped, NEW t \in Ticks, Record(t), NEW r \in Rows
  PROVE  RowMoves(r)
<1>0. ticks[t].pc = "record" /\ ticks[t].pc \in Hand
  BY DEF Record, At, Hand
<1>1. (Records(t) \/ Retries(t)) /\ endpoints' = endpoints
  BY RecordCases
<1> DEFINE x == ticks[t].job.row
<1>2. x \in Rows /\ rows[x] \in Row
  BY <1>0 DEF OutboxTyped, Jobs
<1>3. CASE r # x \/ UNCHANGED rows
  <2>1. rows'[r] = rows[r]
    BY <1>1, <1>2, <1>3 DEF Records, Retries, OutboxTyped
  <2> QED BY <1>1, <2>1, RowStays
<1>4. CASE r = x /\ ~UNCHANGED rows
  <2>1. CASE /\ ticks[t].ok /\ ticks[t].held /\ rows[x].status \in {"pending", "canceled"}
             /\ rows' = [rows EXCEPT ![x].status = "delivered", ![x].attempts = @ + 1]
    <3>1. rows'[r].status = "delivered" /\ rows'[r].queued = rows[r].queued
      BY <1>2, <1>4, <2>1 DEF OutboxTyped, Row
    <3> QED BY <1>0, <1>1, <1>4, <2>1, <3>1 DEF RowMoves
  <2>2. CASE /\ ~ticks[t].ok /\ ticks[t].held /\ rows[x].status = "pending"
             /\ rows' = [rows EXCEPT ![x].status = "failed", ![x].attempts = Count(ticks[t].job)]
    <3>1. rows'[r].status = "failed" /\ rows'[r].queued = rows[r].queued
      BY <1>2, <1>4, <2>2 DEF OutboxTyped, Row
    <3> QED BY <1>1, <1>4, <2>2, <3>1 DEF RowMoves
  <2>3. CASE Retries(t)
    <3> DEFINE n == Count(ticks[t].job) w == Backoff[n]
    <3>1. rows' = [rows EXCEPT ![x].attempts = n, ![x].next = w] /\ rows[x].status = "pending"
      BY <2>3 DEF Retries
    <3> HIDE DEF n, w
    <3>2. rows'[r].status = rows[r].status /\ rows'[r].queued = rows[r].queued
      BY <1>2, <1>4, <3>1 DEF OutboxTyped, Row
    <3> QED BY <1>1, <1>4, <3>1, <3>2 DEF RowMoves
  <2> QED BY <1>1, <1>4, <2>1, <2>2, <2>3 DEF Records
<1> QED BY <1>3, <1>4

\* Every handler on every row.
LEMMA RowsMove ==
  ASSUME OutboxTyped, [Next]_vars, NEW r \in Rows
  PROVE  RowMoves(r)
<1>0. rows[r] \in Row
  BY DEF OutboxTyped
<1>1. ASSUME NEW t \in Ticks, Start(t) \/ Scan(t) \/ Save(t) \/ ReadDue(t) \/ Done(t) \/ Send(t) \/ Crash(t)
      PROVE  RowMoves(r)
  <2>1. UNCHANGED rows /\ UNCHANGED endpoints
    BY <1>1 DEF Start, Scan, Save, ReadDue, Done, Send, Crash
  <2> QED BY <2>1, RowStays
<1>2. ASSUME NEW t \in Ticks, Enqueue(t) PROVE RowMoves(r)
  <2>1. PICK x \in ticks[t].todo :
          rows' = IF rows[x].status # "none" THEN rows
                  ELSE [rows EXCEPT ![x] = [NoRow EXCEPT !.status = "pending", !.next = 0, !.queued = endpoints[x[1]].to]]
    BY <1>2 DEF Enqueue
  <2>2. endpoints' = endpoints
    BY <1>2 DEF Enqueue
  <2>3. CASE rows[x].status # "none" \/ x # r
    <3>1. rows'[r] = rows[r]
      BY <2>1, <2>3
    <3> QED BY <2>2, <3>1, RowStays
  <2>4. CASE rows[x].status = "none" /\ x = r
    <3>1. rows'[r] = [NoRow EXCEPT !.status = "pending", !.next = 0, !.queued = endpoints[r[1]].to]
      BY <2>1, <2>4 DEF OutboxTyped
    <3>2. rows'[r].status = "pending" /\ rows'[r].queued = endpoints[r[1]].to
      BY <3>1 DEF NoRow
    <3> QED BY <2>2, <2>4, <3>2 DEF RowMoves
  <2> QED BY <2>3, <2>4
<1>3. ASSUME NEW t \in Ticks, Claim(t) PROVE RowMoves(r)
  <2>1. PICK d \in ticks[t].due :
          rows' = rows \/ (Claimable(d.row) /\ rows' = [rows EXCEPT ![d.row].next = ClaimTtl])
    BY <1>3 DEF Claim
  <2>2. endpoints' = endpoints
    BY <1>3 DEF Claim
  <2>3. rows'[r].status = rows[r].status /\ rows'[r].queued = rows[r].queued
    BY <1>0, <2>1 DEF OutboxTyped, Row
  <2> QED BY <2>2, <2>3 DEF RowMoves
<1>4. ASSUME NEW t \in Ticks, Refuse(t) PROVE RowMoves(r)
  <2>1. endpoints' = endpoints
    BY <1>4 DEF Refuse
  <2>2. CASE rows'[r] = rows[r]
    BY <2>1, <2>2, RowStays
  <2>3. CASE rows'[r] # rows[r]
    <3>1. /\ rows[r].status = "pending" /\ rows'[r].status \in {"failed", "canceled"}
          /\ rows'[r].queued = rows[r].queued
      BY <1>4, <2>3, RefusedRow
    <3> QED BY <2>1, <3>1 DEF RowMoves
  <2> QED BY <2>2, <2>3
<1>5. ASSUME NEW t \in Ticks, Record(t) PROVE RowMoves(r)
  BY <1>5, RecordMoves
<1>6. CASE Log
  BY <1>6, RowStays DEF Log
<1>7. CASE Time
  <2>1. rows'[r].status = rows[r].status /\ rows'[r].queued = rows[r].queued
    BY <1>7, LaterOnes
  <2>2. endpoints' = endpoints
    BY <1>7 DEF Time
  <2> QED BY <2>1, <2>2 DEF RowMoves
<1>8. ASSUME NEW e \in Endpoints, NEW s \in {"active", "disabled"}, SetState(e, s) PROVE RowMoves(r)
  <2>1. rows' = rows /\ endpoints' = [endpoints EXCEPT ![e].state = s]
    BY <1>8 DEF SetState
  <2>2. endpoints'[r[1]].to = endpoints[r[1]].to
    BY <2>1 DEF OutboxTyped, Rows
  <2> QED BY <2>1, <2>2 DEF RowMoves
<1>9. ASSUME NEW e \in Endpoints, NEW to \in Destinations, Patch(e, to) PROVE RowMoves(r)
  <2>1. /\ rows'[r] = IF r[1] = e /\ Queued(r) THEN [rows[r] EXCEPT !.status = "canceled"] ELSE rows[r]
        /\ endpoints' = [endpoints EXCEPT ![e].to = to]
    BY <1>9 DEF Patch
  <2>2. CASE r[1] = e /\ Queued(r)
    <3>1. rows'[r].status = "canceled" /\ rows'[r].queued = rows[r].queued
      BY <1>0, <2>1, <2>2 DEF Row
    <3> QED BY <2>2, <3>1 DEF RowMoves, Queued
  <2>3. CASE r[1] = e /\ ~Queued(r)
    BY <2>1, <2>3 DEF RowMoves, Queued
  <2>4. CASE r[1] # e
    <3>1. rows'[r] = rows[r]
      BY <2>1, <2>4
    <3>2. endpoints'[r[1]] = endpoints[r[1]]
      BY <2>1, <2>4 DEF OutboxTyped, Rows
    <3> QED BY <3>1, <3>2 DEF RowMoves
  <2> QED BY <2>2, <2>3, <2>4
<1>10. ASSUME NEW x \in Rows, Redrive(x) PROVE RowMoves(r)
  <2>1. rows[x].status = "failed" /\ endpoints' = endpoints
    BY <1>10 DEF Redrive
  <2>2. CASE x # r
    <3>1. rows'[r] = rows[r]
      BY <1>10, <2>2 DEF Redrive, OutboxTyped
    <3> QED BY <2>1, <3>1, RowStays
  <2>3. CASE x = r
    <3>1. rows'[r].status = "pending" /\ rows'[r].queued = rows[r].queued
      BY <1>0, <1>10, <2>3 DEF Redrive, OutboxTyped, Row
    <3> QED BY <2>1, <2>3, <3>1 DEF RowMoves
  <2> QED BY <2>2, <2>3
<1>11. CASE UNCHANGED vars
  BY <1>11, RowStays DEF vars
<1> QED BY <1>1, <1>2, <1>3, <1>4, <1>5, <1>6, <1>7, <1>8, <1>9, <1>10, <1>11, Handlers

\* What a step can make of a tick's delivery: none, the same, or one that it
\* has just claimed; what it reads as due is pending and bound where it goes.
TickMoves(u) ==
  /\ \/ ticks'[u].pc \notin Hand /\ ticks'[u].job \in {None, ticks[u].job}
     \/ /\ ticks[u].pc \in Hand /\ ticks'[u].pc \in Hand /\ ticks'[u].job = ticks[u].job
        /\ \/ ticks'[u].pc = ticks[u].pc /\ ticks'[u].ok = ticks[u].ok
           \/ ticks'[u].ok => ticks[u].job.row \in acked'
     \/ ticks'[u].pc = "send" /\ ticks'[u].job \in ticks[u].due /\ Claimable(ticks'[u].job.row)
  /\ \A d \in ticks'[u].due :
       d \in ticks[u].due \/ (d.row \in Rows /\ Claimable(d.row) /\ d.to = endpoints[d.row[1]].to)

\* A tick whose job and batch are untouched by a step.
LEMMA TickStays ==
  ASSUME OutboxTyped, NEW u \in Ticks, ticks'[u].due = ticks[u].due, ticks'[u].pc = ticks[u].pc,
         ticks'[u].job = ticks[u].job, ticks'[u].ok = ticks[u].ok
  PROVE  TickMoves(u)
BY DEF TickMoves, OutboxTyped

\* A tick with nothing in hand goes on, lets go or stops.
LEMMA TickFree ==
  ASSUME OutboxTyped, NEW t \in Ticks, NEW q, ticks' = [ticks EXCEPT ![t] = q], q.pc \notin Hand,
         q.job \in {None, ticks[t].job}, q.due \subseteq ticks[t].due, NEW u \in Ticks
  PROVE  TickMoves(u)
<1>1. CASE u = t
  <2>1. ticks'[u] = q
    BY <1>1 DEF OutboxTyped
  <2> QED BY <1>1, <2>1 DEF TickMoves
<1>2. CASE u # t
  <2>1. ticks'[u] = ticks[u]
    BY <1>2 DEF OutboxTyped
  <2> QED BY <2>1, TickStays
<1> QED BY <1>1, <1>2

\* A row that is retimed leaves every tick with its delivery.
LEMMA TickRetimed ==
  ASSUME OutboxTyped, NEW r \in Rows, NEW v \in Nat, NEW u \in Ticks, ticks'[u] = Retimed(r, v)[u]
  PROVE  TickMoves(u)
<1>1. /\ ticks'[u].pc = ticks[u].pc /\ ticks'[u].job = ticks[u].job
      /\ ticks'[u].ok = ticks[u].ok /\ ticks'[u].due = ticks[u].due
  BY RetimedFields
<1> QED BY <1>1, TickStays

\* The enqueue pass, the end of a tick and its stop.
LEMMA FreeMoves ==
  ASSUME OutboxTyped, NEW t \in Ticks, Start(t) \/ Scan(t) \/ Enqueue(t) \/ Save(t) \/ Done(t) \/ Crash(t) \/ Refuse(t),
         NEW u \in Ticks
  PROVE  TickMoves(u)
<1>0. ticks[t] \in TickRow
  BY DEF OutboxTyped
<1>1. CASE Start(t)
  <2> DEFINE S == {<<e, endpoints[e].to.scope>> : e \in {x \in Endpoints : endpoints[x].state = "active"}}
             q == [ticks[t] EXCEPT !.pc = "scan", !.seen = S]
  <2>1. ticks' = [ticks EXCEPT ![t] = q]
    BY <1>1 DEF Start, OutboxTyped
  <2> HIDE DEF S
  <2>2. q.pc \notin Hand /\ q.job = ticks[t].job /\ q.due = ticks[t].due
    BY <1>0 DEF TickRow, Hand
  <2> HIDE DEF q
  <2> QED BY <2>1, <2>2, TickFree
<1>2. CASE Scan(t)
  <2> DEFINE batch == {n \in Events : cursor < n /\ n <= logged /\ n <= cursor + EnqueueBatch}
             wanted == {w \in ticks[t].seen \X batch : Matches(w[1][2], w[2])}
             T == {<<w[1][1], w[2]>> : w \in wanted}
             m == Cardinality(batch)
             b == (m = EnqueueBatch)
  <2>1. PICK q : /\ ticks' = [ticks EXCEPT ![t] = q]
                 /\ q.pc \notin Hand /\ q.job = ticks[t].job /\ q.due = ticks[t].due
    <3>1. CASE batch = {}
      <4> DEFINE p == [ticks[t] EXCEPT !.pc = "due"]
      <4>1. ticks' = [ticks EXCEPT ![t] = p]
        BY <1>2, <3>1 DEF Scan, Goto, OutboxTyped
      <4>2. p.pc \notin Hand /\ p.job = ticks[t].job /\ p.due = ticks[t].due
        BY <1>0 DEF TickRow, Hand
      <4> QED BY <4>1, <4>2
    <3>2. CASE batch # {}
      <4> DEFINE p == [ticks[t] EXCEPT !.pc = "queue", !.top = cursor + m, !.full = b, !.todo = T]
      <4>1. ticks' = [ticks EXCEPT ![t].pc = "queue", ![t].top = cursor + m, ![t].full = b, ![t].todo = T]
        <5> HIDE DEF batch
        <5> QED BY <1>2, <3>2 DEF Scan, batch
      <4>2. b \in BOOLEAN
        OBVIOUS
      <4> HIDE DEF T, m, b
      <4>3. ticks' = [ticks EXCEPT ![t] = p]
        BY <4>1, <4>2, Zenon DEF OutboxTyped
      <4>4. p.pc \notin Hand /\ p.job = ticks[t].job /\ p.due = ticks[t].due
        BY <1>0, <4>2 DEF TickRow, Hand
      <4> QED BY <4>3, <4>4
    <3> QED BY <3>1, <3>2
  <2> QED BY <2>1, TickFree
<1>3. CASE Enqueue(t)
  <2>1. PICK r \in ticks[t].todo : ticks' = [ticks EXCEPT ![t].todo = @ \ {r}]
    BY <1>3 DEF Enqueue
  <2> DEFINE q == [ticks[t] EXCEPT !.todo = @ \ {r}]
  <2>2. ticks' = [ticks EXCEPT ![t] = q]
    BY <2>1 DEF OutboxTyped
  <2>3. q.pc \notin Hand /\ q.job = ticks[t].job /\ q.due = ticks[t].due
    <3>1. ticks[t].pc = "queue"
      BY <1>3 DEF Enqueue, At
    <3> QED BY <1>0, <3>1 DEF TickRow, Hand
  <2> HIDE DEF q
  <2> QED BY <2>2, <2>3, TickFree
<1>4. CASE Save(t)
  <2>1. PICK pc \in {"scan", "due"} : ticks' = [ticks EXCEPT ![t].pc = pc]
    BY <1>4 DEF Save, Goto
  <2> DEFINE q == [ticks[t] EXCEPT !.pc = pc]
  <2>2. ticks' = [ticks EXCEPT ![t] = q]
    BY <2>1 DEF OutboxTyped
  <2>3. q.pc \notin Hand /\ q.job = ticks[t].job /\ q.due = ticks[t].due
    BY <1>0, <2>1 DEF TickRow, Hand
  <2> HIDE DEF q
  <2> QED BY <2>2, <2>3, TickFree
<1>5. Idle.pc \notin Hand /\ Idle.job = None /\ Idle.due = {}
  BY DEF Idle, Hand
<1>6. CASE Done(t)
  BY <1>5, <1>6, TickFree DEF Done
<1>7. CASE Crash(t)
  <2> DEFINE p == [ticks[t] EXCEPT !.pc = "due"]
  <2>1. ticks' = [ticks EXCEPT ![t] = Idle] \/ ticks' = [ticks EXCEPT ![t] = p]
    BY <1>7 DEF Crash, Goto, OutboxTyped
  <2>2. p.pc \notin Hand /\ p.job = ticks[t].job /\ p.due = ticks[t].due
    BY <1>0 DEF TickRow, Hand
  <2> HIDE DEF p
  <2>3. CASE ticks' = [ticks EXCEPT ![t] = Idle]
    BY <1>5, <2>3, TickFree
  <2>4. CASE ticks' = [ticks EXCEPT ![t] = p]
    BY <2>2, <2>4, TickFree
  <2> QED BY <2>1, <2>3, <2>4
<1>8. CASE Refuse(t)
  <2>1. ticks' = [ticks EXCEPT ![t] = NextJob(t)]
    BY <1>8 DEF Refuse
  <2>2. NextJob(t).pc \notin Hand /\ NextJob(t).job = None /\ NextJob(t).due = ticks[t].due
    BY NextJobs DEF Hand
  <2> QED BY <2>1, <2>2, TickFree
<1> QED BY <1>1, <1>2, <1>3, <1>4, <1>6, <1>7, <1>8

\* The claim, the request and its outcome.
LEMMA HandMoves ==
  ASSUME OutboxTyped, NEW t \in Ticks, ReadDue(t) \/ Claim(t) \/ Send(t) \/ Record(t), NEW u \in Ticks
  PROVE  TickMoves(u)
<1>0. ticks[t] \in TickRow
  BY DEF OutboxTyped
<1>1. CASE ReadDue(t)
  <2> DEFINE due == {r \in Rows : Claimable(r) /\ endpoints[r[1]].state = "active"}
             D == {[row |-> r, to |-> endpoints[r[1]].to, attempts |-> rows[r].attempts] : r \in due}
             q == [Idle EXCEPT !.pc = "claim", !.due = D]
  <2>1. ticks' = [ticks EXCEPT ![t] = q]
    BY <1>1 DEF ReadDue
  <2>2. \A d \in D : d.row \in Rows /\ Claimable(d.row) /\ d.to = endpoints[d.row[1]].to
    OBVIOUS
  <2> HIDE DEF D
  <2>3. q.pc \notin Hand /\ q.job = None /\ q.due = D
    BY DEF Idle, Hand
  <2> HIDE DEF q
  <2>4. CASE u = t
    <3>1. ticks'[u] = q
      BY <2>1, <2>4 DEF OutboxTyped
    <3> QED BY <2>2, <2>3, <3>1 DEF TickMoves
  <2>5. CASE u # t
    <3>1. ticks'[u] = ticks[u]
      BY <2>1, <2>5 DEF OutboxTyped
    <3> QED BY <3>1, TickStays
  <2> QED BY <2>4, <2>5
<1>2. CASE Claim(t)
  <2>1. PICK d \in ticks[t].due :
          \/ Claims(t, d)
          \/ ticks' = [ticks EXCEPT ![t].due = @ \ {d}]
    BY <1>2 DEF Claim, Claims
  <2>2. ticks[t].pc = "claim" /\ At(t, "claim")
    BY <1>2 DEF Claim, At
  <2>3. CASE Claims(t, d)
    <3>1. /\ d.row \in Rows /\ ticks'[t].pc = "send" /\ ticks'[t].job = d
          /\ ticks'[t].due = ticks[t].due \ {d}
          /\ \A x \in Ticks \ {t} : ticks'[x] = Retimed(d.row, ClaimTtl)[x]
      BY <2>2, <2>3, ClaimedTicks
    <3>2. CASE u = t
      BY <2>3, <3>1, <3>2 DEF TickMoves, Claims
    <3>3. CASE u # t
      <4>1. ClaimTtl \in Nat /\ ticks'[u] = Retimed(d.row, ClaimTtl)[u]
        BY <3>1, <3>3, OutboxAssumption
      <4> QED BY <3>1, <4>1, TickRetimed
    <3> QED BY <3>2, <3>3
  <2>4. CASE ticks' = [ticks EXCEPT ![t].due = @ \ {d}]
    <3> DEFINE q == [ticks[t] EXCEPT !.due = @ \ {d}]
    <3>1. ticks' = [ticks EXCEPT ![t] = q]
      BY <2>4 DEF OutboxTyped
    <3>2. q.pc \notin Hand /\ q.job = ticks[t].job /\ q.due \subseteq ticks[t].due
      BY <1>0, <2>2 DEF TickRow, Hand
    <3> HIDE DEF q
    <3> QED BY <3>1, <3>2, TickFree
  <2> QED BY <2>1, <2>3, <2>4
<1>3. CASE Send(t)
  <2>0. ticks[t].pc = "send"
    BY <1>3 DEF Send, At
  <2>1. PICK received \in BOOLEAN, ok \in BOOLEAN :
          /\ ok => received
          /\ acked' = IF received THEN acked \cup {ticks[t].job.row} ELSE acked
          /\ ticks' = [ticks EXCEPT ![t].pc = "record", ![t].ok = ok]
    BY <1>3 DEF Send
  <2>2. CASE u = t
    <3>1. /\ ticks'[u].pc = "record" /\ ticks'[u].job = ticks[u].job /\ ticks'[u].ok = ok
          /\ ticks'[u].due = ticks[u].due
      BY <1>0, <2>1, <2>2 DEF OutboxTyped, TickRow
    <3> QED BY <2>0, <2>1, <2>2, <3>1 DEF TickMoves, Hand
  <2>3. CASE u # t
    <3>1. ticks'[u] = ticks[u]
      BY <2>1, <2>3 DEF OutboxTyped
    <3> QED BY <3>1, TickStays
  <2> QED BY <2>2, <2>3
<1>4. CASE Record(t)
  <2>0. ticks[t].pc \in Hand /\ (Records(t) \/ Retries(t))
    BY <1>4, RecordCases DEF At, Hand
  <2>1. NextJob(t).pc \notin Hand /\ NextJob(t).job = None /\ NextJob(t).due = ticks[t].due
    BY NextJobs DEF Hand
  <2>2. CASE Records(t)
    <3>1. ticks' = [ticks EXCEPT ![t] = NextJob(t)]
      BY <2>2 DEF Records
    <3> QED BY <2>1, <3>1, TickFree
  <2>3. CASE Retries(t)
    <3> DEFINE r == ticks[t].job.row
               w == Backoff[Count(ticks[t].job)]
    <3>1. /\ r \in Rows /\ w \in Nat /\ ticks'[t] = NextJob(t)
          /\ \A x \in Ticks \ {t} : ticks'[x] = Retimed(r, w)[x]
      BY <2>0, <2>3, RetriedTicks
    <3> HIDE DEF r, w
    <3>2. CASE u = t
      BY <2>1, <3>1, <3>2 DEF TickMoves
    <3>3. CASE u # t
      BY <3>1, <3>3, TickRetimed
    <3> QED BY <3>2, <3>3
  <2> QED BY <2>0, <2>2, <2>3
<1> QED BY <1>1, <1>2, <1>3, <1>4

\* Every handler on every tick.
LEMMA TicksMove ==
  ASSUME OutboxTyped, [Next]_vars, NEW u \in Ticks
  PROVE  TickMoves(u)
<1>1. ASSUME NEW t \in Ticks, Start(t) \/ Scan(t) \/ Enqueue(t) \/ Save(t) \/ Done(t) \/ Crash(t) \/ Refuse(t) PROVE TickMoves(u)
  BY <1>1, FreeMoves
<1>2. ASSUME NEW t \in Ticks, ReadDue(t) \/ Claim(t) \/ Send(t) \/ Record(t) PROVE TickMoves(u)
  BY <1>2, HandMoves
<1>3. CASE UNCHANGED ticks
  BY <1>3, TickStays
<1>4. CASE Time
  <2>1. /\ ticks'[u].pc = ticks[u].pc /\ ticks'[u].job = ticks[u].job
        /\ ticks'[u].ok = ticks[u].ok /\ ticks'[u].due = ticks[u].due
    BY <1>4, LaterOnes
  <2> QED BY <2>1, TickStays
<1>5. ASSUME NEW r \in Rows, Redrive(r) PROVE TickMoves(u)
  <2>1. ticks'[u] = Retimed(r, 0)[u]
    BY <1>5 DEF Redrive
  <2> QED BY <2>1, TickRetimed
<1>6. \/ \E t \in Ticks : Start(t) \/ Scan(t) \/ Enqueue(t) \/ Save(t) \/ Done(t) \/ Crash(t) \/ Refuse(t)
      \/ \E t \in Ticks : ReadDue(t) \/ Claim(t) \/ Send(t) \/ Record(t)
      \/ Time \/ UNCHANGED ticks \/ \E r \in Rows : Redrive(r)
  <2>1. CASE Next
    <3>1. Log => UNCHANGED ticks
      BY DEF Log
    <3>2. ASSUME NEW e \in Endpoints, NEW s \in {"active", "disabled"}, SetState(e, s) PROVE UNCHANGED ticks
      BY <3>2 DEF SetState
    <3>3. ASSUME NEW e \in Endpoints, NEW to \in Destinations, Patch(e, to) PROVE UNCHANGED ticks
      BY <3>3 DEF Patch
    <3> QED BY <2>1, <3>1, <3>2, <3>3, Handlers
  <2>2. CASE UNCHANGED vars
    BY <2>2 DEF vars
  <2> QED BY <2>1, <2>2
<1> QED BY <1>1, <1>2, <1>3, <1>4, <1>5, <1>6

\* What a step can send, and that an acknowledgement is never forgotten.
SendMoves ==
  /\ acked \subseteq acked'
  /\ \/ sends' = sends
     \/ \E t \in Ticks : /\ ticks[t].pc \in Hand /\ Sendable(ticks[t].job)
                         /\ sends' = sends \cup {[row |-> ticks[t].job.row, url |-> ticks[t].job.to.url]}

\* A request leaves only from a tick that has claimed its row and checked its scope.
LEMMA SendsMove ==
  ASSUME [Next]_vars
  PROVE  SendMoves
<1>1. ASSUME NEW t \in Ticks, Start(t) \/ Scan(t) \/ Enqueue(t) \/ Save(t) \/ ReadDue(t) \/ Claim(t) \/ Done(t)
                              \/ Refuse(t) \/ Record(t) \/ Crash(t)
      PROVE  UNCHANGED <<sends, acked>>
  BY <1>1, RecordCases DEF Start, Scan, Enqueue, Save, ReadDue, Claim, Done, Refuse, Crash, history
<1>2. ASSUME NEW t \in Ticks, Send(t) PROVE SendMoves
  <2>1. acked \subseteq acked' /\ ticks[t].pc \in Hand
    BY <1>2 DEF Send, At, Hand
  <2> QED BY <1>2, <2>1 DEF Send, SendMoves
<1>3. UNCHANGED <<sends, acked>> => SendMoves
  BY DEF SendMoves
<1>4. CASE Log \/ Time \/ UNCHANGED vars
  BY <1>3, <1>4 DEF Log, Time, vars, history
<1>5. ASSUME NEW e \in Endpoints, NEW s \in {"active", "disabled"}, SetState(e, s) PROVE UNCHANGED <<sends, acked>>
  BY <1>5 DEF SetState
<1>6. ASSUME NEW e \in Endpoints, NEW to \in Destinations, Patch(e, to) PROVE UNCHANGED <<sends, acked>>
  BY <1>6 DEF Patch
<1>7. ASSUME NEW r \in Rows, Redrive(r) PROVE UNCHANGED <<sends, acked>>
  BY <1>7 DEF Redrive
<1> QED BY <1>1, <1>2, <1>3, <1>4, <1>5, <1>6, <1>7, Handlers

-----------------------------------------------------------------------------
\* A row that may still be sent is bound to where its endpoint points, and
\* whoever has read it or has it in hand knows it as bound.
Bound ==
  /\ \A r \in Rows : rows[r].status \in {"pending", "failed"} => rows[r].queued = endpoints[r[1]].to
  /\ \A t \in Ticks : \A d \in ticks[t].due : rows[d.row].status # "none" /\ d.to = rows[d.row].queued
  /\ \A t \in Ticks : ticks[t].pc \in Hand =>
       rows[ticks[t].job.row].status # "none" /\ ticks[t].job.to = rows[ticks[t].job.row].queued
  /\ \A s \in sends :
       /\ rows[s.row].status # "none"
       /\ s.url = rows[s.row].queued.url /\ Matches(rows[s.row].queued.scope, s.row[2])

\* A delivery keeps the destination it was queued with, whatever is done to the endpoint.
LEMMA BoundStep ==
  ASSUME OutboxTyped, Bound, [Next]_vars
  PROVE  Bound'
<1>0. \A r \in Rows : RowMoves(r)
  BY RowsMove
<1>1. \A u \in Ticks : TickMoves(u)
  BY TicksMove
<1>2. OutboxTyped'
  BY StepTyped
<1>3. \A r \in Rows : rows[r].status # "none" => rows'[r].status # "none" /\ rows'[r].queued = rows[r].queued
  BY <1>0 DEF RowMoves
<1>4. ASSUME NEW r \in Rows, rows'[r].status \in {"pending", "failed"} PROVE rows'[r].queued = endpoints'[r[1]].to
  <2>1. CASE rows[r].status = "none"
    BY <1>0, <1>4, <2>1 DEF RowMoves
  <2>2. CASE rows[r].status # "none"
    <3>1. /\ rows[r].status \in {"pending", "failed"} /\ endpoints'[r[1]].to = endpoints[r[1]].to
          /\ rows'[r].queued = rows[r].queued
      BY <1>0, <1>4, <2>2 DEF RowMoves
    <3> QED BY <3>1 DEF Bound
  <2> QED BY <2>1, <2>2
<1>5. ASSUME NEW u \in Ticks, NEW d \in ticks'[u].due
      PROVE  rows'[d.row].status # "none" /\ d.to = rows'[d.row].queued
  <2>1. d.row \in Rows
    BY <1>2 DEF OutboxTyped, TickRow, Jobs
  <2>2. rows[d.row].status # "none" /\ d.to = rows[d.row].queued
    <3>1. CASE d \in ticks[u].due
      BY <3>1 DEF Bound
    <3>2. CASE Claimable(d.row) /\ d.to = endpoints[d.row[1]].to
      BY <2>1, <3>2 DEF Bound, Claimable
    <3> QED BY <1>1, <3>1, <3>2 DEF TickMoves
  <2> QED BY <1>3, <2>1, <2>2
<1>6. ASSUME NEW u \in Ticks, ticks'[u].pc \in Hand
      PROVE  rows'[ticks'[u].job.row].status # "none" /\ ticks'[u].job.to = rows'[ticks'[u].job.row].queued
  <2>1. PICK d : d = ticks'[u].job
    OBVIOUS
  <2>2. d.row \in Rows
    BY <1>2, <1>6, <2>1 DEF OutboxTyped, Jobs
  <2>3. rows[d.row].status # "none" /\ d.to = rows[d.row].queued
    <3>1. CASE ticks[u].pc \in Hand /\ d = ticks[u].job
      BY <3>1 DEF Bound
    <3>2. CASE d \in ticks[u].due
      BY <3>2 DEF Bound
    <3> QED BY <1>1, <1>6, <2>1, <3>1, <3>2 DEF TickMoves
  <2>4. rows'[d.row].status # "none" /\ d.to = rows'[d.row].queued
    BY <1>3, <2>2, <2>3
  <2> QED BY <2>1, <2>4
<1>7. ASSUME NEW s \in sends'
      PROVE  /\ rows'[s.row].status # "none"
             /\ s.url = rows'[s.row].queued.url /\ Matches(rows'[s.row].queued.scope, s.row[2])
  <2>1. s.row \in Rows
    BY <1>2 DEF OutboxTyped
  <2>2. /\ rows[s.row].status # "none"
        /\ s.url = rows[s.row].queued.url /\ Matches(rows[s.row].queued.scope, s.row[2])
    <3>1. CASE s \in sends
      BY <3>1 DEF Bound
    <3>2. CASE s \notin sends
      <4>1. PICK t \in Ticks : /\ ticks[t].pc \in Hand /\ Sendable(ticks[t].job)
                               /\ s = [row |-> ticks[t].job.row, url |-> ticks[t].job.to.url]
        BY <3>2, SendsMove DEF SendMoves
      <4>2. rows[ticks[t].job.row].status # "none" /\ ticks[t].job.to = rows[ticks[t].job.row].queued
        BY <4>1 DEF Bound
      <4>3. s.row = ticks[t].job.row /\ s.url = ticks[t].job.to.url
        BY <4>1
      <4>4. Matches(ticks[t].job.to.scope, s.row[2])
        BY <4>1, <4>3 DEF Sendable
      <4> QED BY <4>2, <4>3, <4>4
    <3> QED BY <3>1, <3>2
  <2> QED BY <1>3, <2>1, <2>2
<1> QED BY <1>4, <1>5, <1>6, <1>7 DEF Bound

\* A request goes only where its event was bound to when it was queued,
\* whatever operators change between queue, read, claim, retry and redrive
\* (deliveries.ts: deliverOne, cancelQueuedDeliveries).
THEOREM DestinationKeptHolds == Spec => []DestinationKept
<1>1. Init => OutboxTyped /\ Bound
  <2> SUFFICES ASSUME Init PROVE OutboxTyped /\ Bound
    OBVIOUS
  <2>1. OutboxTyped
    BY InitTyped
  <2>2. /\ \A r \in Rows : rows[r].status = "none"
        /\ \A t \in Ticks : ticks[t].due = {} /\ ticks[t].pc = "idle"
        /\ sends = {}
    BY DEF Init, NoRow, Idle
  <2> QED BY <2>1, <2>2 DEF Bound, Hand
<1>2. OutboxTyped /\ Bound /\ [Next]_vars => (OutboxTyped /\ Bound)'
  BY StepTyped, BoundStep
<1>3. OutboxTyped /\ Bound => DestinationKept
  BY DEF Bound, DestinationKept
<1> QED BY <1>1, <1>2, <1>3, PTL DEF Spec

-----------------------------------------------------------------------------
\* What is recorded as delivered, or is about to be, was acknowledged.
Acknowledged ==
  /\ \A r \in Rows : rows[r].status = "delivered" => r \in acked
  /\ \A t \in Ticks : ticks[t].pc = "record" /\ ticks[t].ok => ticks[t].job.row \in acked

\* Only an answer from the endpoint makes a row delivered.
LEMMA AcknowledgedStep ==
  ASSUME OutboxTyped, Acknowledged, [Next]_vars
  PROVE  Acknowledged'
<1>1. acked \subseteq acked'
  BY SendsMove DEF SendMoves
<1>2. ASSUME NEW r \in Rows, rows'[r].status = "delivered" PROVE r \in acked'
  <2>1. CASE rows[r].status = "delivered"
    BY <1>1, <2>1 DEF Acknowledged
  <2>2. CASE rows[r].status # "delivered"
    <3>1. PICK t \in Ticks : ticks[t].pc = "record" /\ ticks[t].ok /\ ticks[t].job.row = r
      BY <1>2, <2>2, RowsMove DEF RowMoves
    <3> QED BY <1>1, <3>1 DEF Acknowledged
  <2> QED BY <2>1, <2>2
<1>3. ASSUME NEW u \in Ticks, ticks'[u].pc = "record", ticks'[u].ok PROVE ticks'[u].job.row \in acked'
  <2>1. TickMoves(u)
    BY TicksMove
  <2>2. ticks'[u].job = ticks[u].job
    BY <1>3, <2>1 DEF TickMoves, Hand
  <2>3. CASE ticks[u].pc = "record" /\ ticks[u].ok
    BY <1>1, <2>2, <2>3 DEF Acknowledged
  <2>4. CASE ticks[u].job.row \in acked'
    BY <2>2, <2>4
  <2> QED BY <1>3, <2>1, <2>3, <2>4 DEF TickMoves, Hand
<1> QED BY <1>2, <1>3 DEF Acknowledged

\* A delivery recorded as delivered was acknowledged, stays delivered, and is
\* not taken in hand again, whatever late outcomes of older claims arrive
\* (persistWebhookDeliveryOutcome, claimPendingWebhookDelivery).
THEOREM DeliveredIsFinalHolds == Spec => DeliveredIsFinal
<1> DEFINE Final ==
      \A r \in Rows :
        /\ rows'[r].status = "delivered" => r \in acked
        /\ rows[r].status = "delivered" =>
             /\ rows'[r].status = "delivered"
             /\ \A t \in Ticks : ticks'[t].job # ticks[t].job => (ticks'[t].job # None => ticks'[t].job.row # r)
<1>1. Init => OutboxTyped /\ Acknowledged
  <2> SUFFICES ASSUME Init PROVE OutboxTyped /\ Acknowledged
    OBVIOUS
  <2>1. OutboxTyped
    BY InitTyped
  <2>2. /\ \A r \in Rows : rows[r].status = "none"
        /\ \A t \in Ticks : ticks[t].pc = "idle"
    BY DEF Init, NoRow, Idle
  <2> QED BY <2>1, <2>2 DEF Acknowledged
<1>2. OutboxTyped /\ Acknowledged /\ [Next]_vars => (OutboxTyped /\ Acknowledged)'
  BY StepTyped, AcknowledgedStep
<1>3. OutboxTyped /\ Acknowledged /\ [Next]_vars => Final
  <2> SUFFICES ASSUME OutboxTyped, Acknowledged, [Next]_vars, NEW r \in Rows
               PROVE  /\ rows'[r].status = "delivered" => r \in acked
                      /\ rows[r].status = "delivered" =>
                           /\ rows'[r].status = "delivered"
                           /\ \A t \in Ticks : ticks'[t].job # ticks[t].job => (ticks'[t].job # None => ticks'[t].job.row # r)
    OBVIOUS
  <2>1. RowMoves(r)
    BY RowsMove
  <2>2. ASSUME rows'[r].status = "delivered" PROVE r \in acked
    BY <2>1, <2>2 DEF RowMoves, Acknowledged
  <2>3. ASSUME rows[r].status = "delivered", NEW t \in Ticks, ticks'[t].job # ticks[t].job, ticks'[t].job # None
        PROVE  ticks'[t].job.row # r
    <3>1. TickMoves(t)
      BY TicksMove
    <3> QED BY <2>3, <3>1 DEF TickMoves, Claimable
  <2>4. rows[r].status = "delivered" => rows'[r].status = "delivered"
    BY <2>1 DEF RowMoves
  <2> QED BY <2>2, <2>3, <2>4
<1> HIDE DEF Final
<1>4. Spec => [][Final]_vars
  BY <1>1, <1>2, <1>3, PTL DEF Spec
<1> QED BY <1>4 DEF DeliveredIsFinal, Final

-----------------------------------------------------------------------------
\* Who has a row in hand and its lease still lasts holds it: the row's instant
\* is the lease's, and the row is open. OneSenderPerLease is part of it, for it
\* is not inductive alone.
Leases ==
  /\ \A t \in Ticks : ticks[t].pc \in Hand =>
       /\ rows[ticks[t].job.row].status # "none"
       /\ ticks[t].held => rows[ticks[t].job.row].next = ticks[t].lease
       /\ ticks[t].lease > 0 => ticks[t].held /\ rows[ticks[t].job.row].status \in {"pending", "canceled"}
  /\ OneSenderPerLease

\* Past is no lease, and an instant that is over stays over.
LEMMA LeaseNumbers ==
  ASSUME OutboxTyped, NEW t \in Ticks
  PROVE  /\ ticks[t].lease \in Int /\ (ticks[t].lease > 0 => ticks[t].pc \in Hand)
         /\ (ticks[t].pc \in Hand => ticks[t].job.row \in Rows)
<1>1. ticks[t] \in TickRow
  BY DEF OutboxTyped
<1>2. ticks[t].lease \in Int
  BY <1>1 DEF TickRow, Past
<1>3. ticks[t].pc \notin Hand => ticks[t].lease = -1
  BY DEF OutboxTyped, Past
<1>4. ticks[t].pc \in Hand => ticks[t].job.row \in Rows
  BY DEF OutboxTyped, Jobs
<1> QED BY <1>2, <1>3, <1>4

\* A tick with nothing in hand after the step, or with what it had, on a row
\* whose instant is the same and that is not closed while the lease lasts.
Undisturbed(u) ==
  \/ ticks'[u].pc \notin Hand
  \/ /\ ticks[u].pc \in Hand /\ ticks'[u].pc \in Hand /\ ticks'[u].job = ticks[u].job
     /\ ticks'[u].lease = ticks[u].lease /\ ticks'[u].held = ticks[u].held
     /\ rows'[ticks[u].job.row].status # "none"
     /\ rows'[ticks[u].job.row].next = rows[ticks[u].job.row].next
     /\ ticks[u].lease > 0 => rows'[ticks[u].job.row].status \in {"pending", "canceled"}

\* A step that touches no lease of a tick at work keeps them apart.
LEMMA LeasesUndisturbed ==
  ASSUME OutboxTyped', Leases, \A u \in Ticks : Undisturbed(u)
  PROVE  Leases'
<1>1. ASSUME NEW t \in Ticks, ticks'[t].pc \in Hand
      PROVE  /\ rows'[ticks'[t].job.row].status # "none"
             /\ ticks'[t].held => rows'[ticks'[t].job.row].next = ticks'[t].lease
             /\ ticks'[t].lease > 0 => ticks'[t].held /\ rows'[ticks'[t].job.row].status \in {"pending", "canceled"}
  BY <1>1 DEF Undisturbed, Leases
<1>2. ASSUME NEW t \in Ticks, NEW u \in Ticks, t # u, ticks'[t].lease > 0, ticks'[u].lease > 0,
             ticks'[t].job.row = ticks'[u].job.row
      PROVE  FALSE
  <2>1. ticks'[t].pc \in Hand /\ ticks'[u].pc \in Hand
    BY <1>2 DEF OutboxTyped, Past
  <2> QED BY <1>2, <2>1 DEF Undisturbed, Leases, OneSenderPerLease
<1> QED BY <1>1, <1>2 DEF Leases, OneSenderPerLease

\* One row is set to a new instant while no lease on it lasts: at most one tick
\* takes it, with that instant as its lease.
LEMMA LeasesRetimed ==
  ASSUME OutboxTyped, OutboxTyped', Leases, NEW r \in Rows, NEW v \in Nat, NEW t,
         rows'[r].status = "pending", rows'[r].next = v, \A x \in Rows \ {r} : rows'[x] = rows[x],
         \A u \in Ticks : ticks[u].lease > 0 /\ ticks[u].job.row = r => ticks'[u].pc \notin Hand,
         \A u \in Ticks : \/ ticks'[u].pc \notin Hand
                          \/ ticks'[u] = Retimed(r, v)[u]
                          \/ u = t /\ ticks'[u].job.row = r /\ ticks'[u].lease = v /\ ticks'[u].held
  PROVE  Leases'
<1>1. ASSUME NEW u \in Ticks, ticks'[u].pc \in Hand
      PROVE  \/ u = t /\ ticks'[u].job.row = r /\ ticks'[u].lease = v /\ ticks'[u].held
             \/ /\ ticks'[u].job = ticks[u].job /\ ticks'[u].lease = ticks[u].lease /\ ticks[u].pc \in Hand
                /\ ticks[u].job.row = r
                /\ ~(ticks[u].lease > 0)
                /\ ticks'[u].held = (ticks[u].lease = v)
             \/ /\ ticks'[u] = ticks[u] /\ ticks[u].job.row # r
  <2>1. CASE ticks'[u] = Retimed(r, v)[u]
    <3>1. ticks'[u].pc = ticks[u].pc /\ ticks'[u].job = ticks[u].job /\ ticks'[u].lease = ticks[u].lease
      BY <2>1, RetimedFields
    <3>2. \/ ticks'[u] = ticks[u] /\ ~(ticks[u].pc \in Hand /\ ticks[u].job.row = r)
          \/ ticks[u].pc \in Hand /\ ticks[u].job.row = r /\ ticks'[u].held = (ticks[u].lease = v)
      BY <2>1, RetimedHeld
    <3> QED BY <1>1, <3>1, <3>2
  <2>2. CASE u = t /\ ticks'[u].job.row = r /\ ticks'[u].lease = v /\ ticks'[u].held
    BY <2>2
  <2> QED BY <1>1, <2>1, <2>2
<1>2. ASSUME NEW u \in Ticks, ticks'[u].pc \in Hand
      PROVE  /\ rows'[ticks'[u].job.row].status # "none"
             /\ ticks'[u].held => rows'[ticks'[u].job.row].next = ticks'[u].lease
             /\ ticks'[u].lease > 0 => ticks'[u].held /\ rows'[ticks'[u].job.row].status \in {"pending", "canceled"}
  <2>1. CASE u = t /\ ticks'[u].job.row = r /\ ticks'[u].lease = v /\ ticks'[u].held
    BY <2>1
  <2>2. CASE /\ ticks'[u].job = ticks[u].job /\ ticks'[u].lease = ticks[u].lease
             /\ ticks[u].job.row = r /\ ~(ticks[u].lease > 0) /\ ticks'[u].held = (ticks[u].lease = v)
    BY <2>2
  <2>3. CASE ticks'[u] = ticks[u] /\ ticks[u].job.row # r
    <3>1. ticks[u].pc \in Hand /\ ticks[u].job.row \in Rows \ {r}
      BY <1>2, <2>3, LeaseNumbers
    <3>2. rows'[ticks[u].job.row] = rows[ticks[u].job.row]
      BY <3>1
    <3> QED BY <2>3, <3>1, <3>2 DEF Leases
  <2> QED BY <1>1, <1>2, <2>1, <2>2, <2>3
<1>3. ASSUME NEW x \in Ticks, NEW u \in Ticks, x # u, ticks'[x].lease > 0, ticks'[u].lease > 0,
             ticks'[x].job.row = ticks'[u].job.row
      PROVE  FALSE
  <2>1. ticks'[x].pc \in Hand /\ ticks'[u].pc \in Hand
    BY <1>3 DEF OutboxTyped, Past
  <2>2. \/ x = t /\ ticks'[x].job.row = r
        \/ ticks'[x] = ticks[x] /\ ticks[x].job.row # r
    BY <1>1, <1>3, <2>1
  <2>3. \/ u = t /\ ticks'[u].job.row = r
        \/ ticks'[u] = ticks[u] /\ ticks[u].job.row # r
    BY <1>1, <1>3, <2>1
  <2>4. ticks'[x] = ticks[x] /\ ticks'[u] = ticks[u]
    BY <1>3, <2>2, <2>3
  <2> QED BY <1>3, <2>4 DEF Leases, OneSenderPerLease
<1> QED BY <1>2, <1>3 DEF Leases, OneSenderPerLease

\* A step that leaves the open rows' instants and status, and gives no tick a
\* delivery it did not have.
LEMMA LeasesQuiet ==
  ASSUME OutboxTyped, OutboxTyped', Leases,
         \A r \in Rows : rows[r].status # "none" =>
           /\ rows'[r].status # "none" /\ rows'[r].next = rows[r].next
           /\ rows[r].status \in {"pending", "canceled"} => rows'[r].status \in {"pending", "canceled"},
         \A u \in Ticks : \/ ticks'[u].pc \notin Hand
                          \/ /\ ticks[u].pc \in Hand /\ ticks'[u].job = ticks[u].job
                             /\ ticks'[u].lease = ticks[u].lease /\ ticks'[u].held = ticks[u].held
  PROVE  Leases'
<1>1. ASSUME NEW u \in Ticks, ticks'[u].pc \in Hand PROVE Undisturbed(u)
  <2>1. /\ ticks[u].pc \in Hand /\ ticks'[u].job = ticks[u].job
        /\ ticks'[u].lease = ticks[u].lease /\ ticks'[u].held = ticks[u].held
    BY <1>1
  <2>2. ticks[u].job.row \in Rows /\ rows[ticks[u].job.row].status # "none"
    BY <2>1, LeaseNumbers DEF Leases
  <2>3. ticks[u].lease > 0 => rows[ticks[u].job.row].status \in {"pending", "canceled"}
    BY <2>1 DEF Leases
  <2> QED BY <1>1, <2>1, <2>2, <2>3 DEF Undisturbed
<1>2. \A u \in Ticks : Undisturbed(u)
  BY <1>1 DEF Undisturbed
<1> QED BY <1>2, LeasesUndisturbed

\* A row is closed by who holds it: nobody else's lease lasts.
LEMMA HolderAlone ==
  ASSUME OutboxTyped, Leases, NEW t \in Ticks, ticks[t].pc \in Hand, ticks[t].held,
         NEW u \in Ticks, u # t, ticks[u].job.row = ticks[t].job.row
  PROVE  ~(ticks[u].lease > 0)
<1> SUFFICES ASSUME ticks[u].lease > 0 PROVE FALSE
  OBVIOUS
<1>1. ticks[u].pc \in Hand
  BY LeaseNumbers
<1>2. rows[ticks[u].job.row].next = ticks[u].lease /\ rows[ticks[t].job.row].next = ticks[t].lease
  BY <1>1 DEF Leases
<1>3. ticks[t].lease > 0
  BY <1>2
<1> QED BY <1>3 DEF Leases, OneSenderPerLease

\* A tick that has nothing in hand afterwards, beside ticks that go on.
LEMMA OwnQuiet ==
  ASSUME OutboxTyped, NEW t \in Ticks, ticks'[t].pc \notin Hand, \A u \in Ticks \ {t} : ticks'[u] = ticks[u], NEW u \in Ticks
  PROVE  \/ ticks'[u].pc \notin Hand
         \/ /\ ticks[u].pc \in Hand /\ ticks'[u].job = ticks[u].job
            /\ ticks'[u].lease = ticks[u].lease /\ ticks'[u].held = ticks[u].held
BY DEF OutboxTyped

\* The enqueue pass, the reads, the request, a stop and the operators.
LEMMA LeasesThroughOthers ==
  ASSUME OutboxTyped, OutboxTyped', Leases,
         \/ \E t \in Ticks : Start(t) \/ Scan(t) \/ Enqueue(t) \/ Save(t) \/ ReadDue(t) \/ Done(t) \/ Send(t) \/ Crash(t)
         \/ Log
         \/ \E e \in Endpoints, s \in {"active", "disabled"} : SetState(e, s)
         \/ \E e \in Endpoints, to \in Destinations : Patch(e, to)
  PROVE  Leases'
<1> DEFINE RowsQuiet == \A r \in Rows : rows[r].status # "none" =>
               /\ rows'[r].status # "none" /\ rows'[r].next = rows[r].next
               /\ rows[r].status \in {"pending", "canceled"} => rows'[r].status \in {"pending", "canceled"}
           TicksQuiet == \A u \in Ticks :
               \/ ticks'[u].pc \notin Hand
               \/ /\ ticks[u].pc \in Hand /\ ticks'[u].job = ticks[u].job
                  /\ ticks'[u].lease = ticks[u].lease /\ ticks'[u].held = ticks[u].held
<1>0. RowsQuiet /\ TicksQuiet => Leases'
  BY LeasesQuiet
<1> HIDE DEF RowsQuiet, TicksQuiet
<1>1. UNCHANGED rows => RowsQuiet
  BY DEF RowsQuiet
<1>2. UNCHANGED ticks => TicksQuiet
  BY DEF TicksQuiet, OutboxTyped
<1>3. ASSUME NEW t \in Ticks, ticks'[t].pc \notin Hand, \A u \in Ticks \ {t} : ticks'[u] = ticks[u] PROVE TicksQuiet
  BY <1>3, OwnQuiet DEF TicksQuiet
<1>4. ASSUME NEW t \in Ticks, Start(t) \/ Scan(t) \/ Save(t) \/ ReadDue(t) \/ Done(t) \/ Crash(t)
      PROVE  RowsQuiet /\ TicksQuiet
  <2>1. UNCHANGED rows
    BY <1>4 DEF Start, Scan, Save, ReadDue, Done, Crash
  <2>2. ticks[t] \in TickRow /\ ticks \in [Ticks -> TickRow]
    BY DEF OutboxTyped
  <2>3. \A u \in Ticks \ {t} : ticks'[u] = ticks[u]
    <3>1. CASE Scan(t)
      BY <2>2, <3>1 DEF Scan, Goto
    <3>2. CASE Start(t)
      BY <2>2, <3>2 DEF Start
    <3>3. CASE Save(t)
      BY <2>2, <3>3 DEF Save, Goto
    <3>4. CASE ReadDue(t)
      BY <2>2, <3>4 DEF ReadDue
    <3>5. CASE Done(t) \/ Crash(t)
      BY <2>2, <3>5 DEF Done, Crash, Goto
    <3> QED BY <1>4, <3>1, <3>2, <3>3, <3>4, <3>5
  <2>4. ticks'[t].pc \notin Hand
    <3>1. TickMoves(t)
      BY <1>4, FreeMoves, HandMoves
    <3>2. ticks[t].pc \notin Hand \/ Done(t) \/ Crash(t)
      BY <1>4 DEF Start, Scan, Save, ReadDue, At, Hand
    <3>3. CASE Done(t) \/ Crash(t)
      BY <2>2, <3>3 DEF Done, Crash, Goto, Idle, Hand, TickRow
    <3>4. ticks'[t].pc # "send" \/ Done(t) \/ Crash(t)
      <4>1. CASE Start(t)
        BY <2>2, <4>1 DEF Start, TickRow
      <4>2. CASE Scan(t)
        <5> DEFINE batch == {n \in Events : cursor < n /\ n <= logged /\ n <= cursor + EnqueueBatch}
                   m == Cardinality(batch)
                   b == (m = EnqueueBatch)
                   T == {<<w[1][1], w[2]>> : w \in {w \in ticks[t].seen \X batch : Matches(w[1][2], w[2])}}
        <5>1. \/ ticks' = [ticks EXCEPT ![t].pc = "due"]
              \/ ticks' = [ticks EXCEPT ![t].pc = "queue", ![t].top = cursor + m, ![t].full = b, ![t].todo = T]
          <6> HIDE DEF batch
          <6> QED BY <4>2 DEF Scan, Goto, batch
        <5>2. b \in BOOLEAN
          OBVIOUS
        <5> HIDE DEF T, m, b
        <5> QED BY <2>2, <5>1, <5>2 DEF TickRow
      <4>3. CASE Save(t)
        BY <2>2, <4>3 DEF Save, Goto, TickRow
      <4>4. CASE ReadDue(t)
        BY <2>2, <4>4 DEF ReadDue, Idle
      <4> QED BY <1>4, <4>1, <4>2, <4>3, <4>4
    <3> QED BY <3>1, <3>2, <3>3, <3>4 DEF TickMoves
  <2> QED BY <1>1, <1>3, <2>1, <2>3, <2>4
<1>5. ASSUME NEW t \in Ticks, Enqueue(t) PROVE RowsQuiet /\ TicksQuiet
  <2>1. PICK r \in ticks[t].todo :
          /\ rows' = IF rows[r].status # "none" THEN rows
                     ELSE [rows EXCEPT ![r] = [NoRow EXCEPT !.status = "pending", !.next = 0, !.queued = endpoints[r[1]].to]]
          /\ ticks' = [ticks EXCEPT ![t].todo = @ \ {r}]
    BY <1>5 DEF Enqueue
  <2>2. RowsQuiet
    BY <2>1 DEF RowsQuiet, OutboxTyped
  <2>3. ticks[t] \in TickRow /\ ticks[t].pc = "queue"
    BY <1>5 DEF OutboxTyped, Enqueue, At
  <2>4. ticks'[t].pc \notin Hand /\ \A u \in Ticks \ {t} : ticks'[u] = ticks[u]
    BY <2>1, <2>3 DEF OutboxTyped, TickRow, Hand
  <2> QED BY <1>3, <2>2, <2>4
<1>6. ASSUME NEW t \in Ticks, Send(t) PROVE RowsQuiet /\ TicksQuiet
  <2>1. PICK ok \in BOOLEAN : ticks' = [ticks EXCEPT ![t].pc = "record", ![t].ok = ok]
    BY <1>6 DEF Send
  <2>2. ticks[t] \in TickRow /\ ticks[t].pc \in Hand
    BY <1>6 DEF OutboxTyped, Send, At, Hand
  <2>3. /\ ticks'[t].job = ticks[t].job /\ ticks'[t].lease = ticks[t].lease /\ ticks'[t].held = ticks[t].held
        /\ \A u \in Ticks \ {t} : ticks'[u] = ticks[u]
    BY <2>1, <2>2 DEF OutboxTyped, TickRow
  <2>4. UNCHANGED rows
    BY <1>6 DEF Send
  <2> QED BY <1>1, <2>2, <2>3, <2>4 DEF TicksQuiet, OutboxTyped
<1>7. CASE Log
  BY <1>0, <1>1, <1>2, <1>7 DEF Log
<1>8. ASSUME NEW e \in Endpoints, NEW s \in {"active", "disabled"}, SetState(e, s) PROVE RowsQuiet /\ TicksQuiet
  BY <1>1, <1>2, <1>8 DEF SetState
<1>9. ASSUME NEW e \in Endpoints, NEW to \in Destinations, Patch(e, to) PROVE RowsQuiet /\ TicksQuiet
  <2>1. UNCHANGED ticks
    BY <1>9 DEF Patch
  <2>2. ASSUME NEW r \in Rows, rows[r].status # "none"
        PROVE  /\ rows'[r].status # "none" /\ rows'[r].next = rows[r].next
               /\ rows[r].status \in {"pending", "canceled"} => rows'[r].status \in {"pending", "canceled"}
    <3>1. rows[r] \in Row
      BY DEF OutboxTyped
    <3>2. rows'[r] = IF r[1] = e /\ Queued(r) THEN [rows[r] EXCEPT !.status = "canceled"] ELSE rows[r]
      BY <1>9 DEF Patch
    <3> QED BY <2>2, <3>1, <3>2 DEF Row
  <2> QED BY <1>2, <2>1, <2>2 DEF RowsQuiet
<1> QED BY <1>0, <1>4, <1>5, <1>6, <1>7, <1>8, <1>9

\* claimPendingWebhookDelivery: it wins only where no lease lasts.
LEMMA LeasesThroughClaim ==
  ASSUME OutboxTyped, OutboxTyped', Leases, NEW t \in Ticks, Claim(t)
  PROVE  Leases'
<1>1. PICK d \in ticks[t].due :
        \/ Claims(t, d)
        \/ ticks' = [ticks EXCEPT ![t].due = @ \ {d}] /\ UNCHANGED rows
  BY DEF Claim, Claims
<1>2. ticks[t].pc = "claim" /\ At(t, "claim") /\ ticks[t] \in TickRow
  BY DEF Claim, At, OutboxTyped
<1>3. CASE ticks' = [ticks EXCEPT ![t].due = @ \ {d}] /\ UNCHANGED rows
  <2>1. ticks'[t].pc \notin Hand /\ \A u \in Ticks \ {t} : ticks'[u] = ticks[u]
    BY <1>2, <1>3 DEF OutboxTyped, TickRow, Hand
  <2>2. \A u \in Ticks : \/ ticks'[u].pc \notin Hand
                         \/ /\ ticks[u].pc \in Hand /\ ticks'[u].job = ticks[u].job
                            /\ ticks'[u].lease = ticks[u].lease /\ ticks'[u].held = ticks[u].held
    BY <2>1, OwnQuiet
  <2> QED BY <1>3, <2>2, LeasesQuiet
<1>4. CASE Claims(t, d)
  <2>1. /\ d \in Jobs /\ d.row \in Rows
        /\ ticks'[t].pc = "send" /\ ticks'[t].job = d /\ ticks'[t].lease = ClaimTtl /\ ticks'[t].held
        /\ \A u \in Ticks \ {t} : ticks'[u] = Retimed(d.row, ClaimTtl)[u]
    BY <1>2, <1>4, ClaimedTicks
  <2> DEFINE r == d.row
  <2>2. ClaimTtl \in Nat
    BY OutboxAssumption
  <2>3. rows[r] \in Row /\ rows[r].status = "pending" /\ ~(rows[r].next > 0) /\ rows[r].next \in Int
    <3>1. rows[r] \in Row
      BY <2>1 DEF OutboxTyped
    <3>2. rows[r].next \in Int
      BY <3>1 DEF Row, Past
    <3> QED BY <1>4, <3>1, <3>2 DEF Claims, Claimable
  <2>4. rows' = [rows EXCEPT ![r].next = ClaimTtl]
    BY <1>4 DEF Claims
  <2>5. /\ rows'[r].status = "pending" /\ rows'[r].next = ClaimTtl
        /\ \A x \in Rows \ {r} : rows'[x] = rows[x]
    BY <2>1, <2>3, <2>4 DEF OutboxTyped, Row
  <2>6. ASSUME NEW u \in Ticks, ticks[u].lease > 0, ticks[u].job.row = r PROVE FALSE
    <3>1. ticks[u].pc \in Hand
      BY <2>6, LeaseNumbers
    <3>2. rows[r].next = ticks[u].lease
      BY <2>6, <3>1 DEF Leases
    <3> QED BY <2>3, <2>6, <3>2
  <2>7. \A u \in Ticks : \/ ticks'[u].pc \notin Hand
                         \/ ticks'[u] = Retimed(r, ClaimTtl)[u]
                         \/ u = t /\ ticks'[u].job.row = r /\ ticks'[u].lease = ClaimTtl /\ ticks'[u].held
    BY <2>1
  <2>8. \A u \in Ticks : ticks[u].lease > 0 /\ ticks[u].job.row = r => ticks'[u].pc \notin Hand
    BY <2>6
  <2>9. r \in Rows
    BY <2>1
  <2> HIDE DEF r
  <2> QED BY <2>2, <2>5, <2>7, <2>8, <2>9, LeasesRetimed
<1> QED BY <1>1, <1>3, <1>4

\* The row of the delivery in hand is closed, or its instant moved, by who
\* holds it only.
LEMMA LeasesThroughOutcome ==
  ASSUME OutboxTyped, OutboxTyped', Leases, NEW t \in Ticks, Refuse(t) \/ Record(t)
  PROVE  Leases'
<1>0. ticks[t].pc \in Hand /\ ticks[t].job.row \in Rows
  BY LeaseNumbers DEF Refuse, Record, At, Hand
<1> DEFINE r == ticks[t].job.row
<1>1. NextJob(t).pc \notin Hand
  BY NextJobs DEF Hand
<1>2. rows[r] \in Row
  BY <1>0 DEF OutboxTyped
<1>3. CASE Retries(t)
  <2> DEFINE v == Backoff[Count(ticks[t].job)]
             n == Count(ticks[t].job)
  <2>1. /\ v \in Nat /\ ticks'[t] = NextJob(t)
        /\ \A u \in Ticks \ {t} : ticks'[u] = Retimed(r, v)[u]
    BY <1>0, <1>3, RetriedTicks
  <2>2. ticks[t].held /\ rows[r].status = "pending" /\ rows' = [rows EXCEPT ![r].attempts = n, ![r].next = v]
    BY <1>3 DEF Retries
  <2> HIDE DEF v, n
  <2>3. rows'[r].status = "pending" /\ rows'[r].next = v /\ \A x \in Rows \ {r} : rows'[x] = rows[x]
    BY <1>0, <1>2, <2>2 DEF OutboxTyped, Row
  <2>4. \A u \in Ticks : ticks[u].lease > 0 /\ ticks[u].job.row = r => ticks'[u].pc \notin Hand
    BY <1>0, <1>1, <2>1, <2>2, HolderAlone
  <2>5. \A u \in Ticks : \/ ticks'[u].pc \notin Hand
                         \/ ticks'[u] = Retimed(r, v)[u]
                         \/ u = t /\ ticks'[u].job.row = r /\ ticks'[u].lease = v /\ ticks'[u].held
    BY <1>1, <2>1
  <2>6. r \in Rows
    BY <1>0
  <2> HIDE DEF r
  <2> QED BY <2>1, <2>3, <2>4, <2>5, <2>6, LeasesRetimed
<1>4. CASE ~Retries(t)
  <2>1. /\ ticks' = [ticks EXCEPT ![t] = NextJob(t)]
        /\ \/ UNCHANGED rows
           \/ /\ ticks[t].held /\ rows[r].status # "none" /\ rows'[r].status # "none" /\ rows'[r].next = rows[r].next
              /\ \A x \in Rows : x # r => rows'[x] = rows[x]
    <3>1. CASE Refuse(t)
      <4>1. ticks' = [ticks EXCEPT ![t] = NextJob(t)]
        BY <3>1 DEF Refuse
      <4> QED BY <3>1, <4>1, RefusedRow
    <3>2. CASE Record(t)
      <4>1. Records(t)
        BY <1>4, <3>2, RecordCases
      <4>2. ticks' = [ticks EXCEPT ![t] = NextJob(t)]
        BY <4>1 DEF Records
      <4>3. \A x \in Rows : x # r => rows'[x] = rows[x]
        BY <1>0, <4>1 DEF Records, OutboxTyped
      <4> DEFINE n == Count(ticks[t].job)
      <4>4. CASE /\ ticks[t].ok /\ ticks[t].held /\ rows[r].status \in {"pending", "canceled"}
                 /\ rows' = [rows EXCEPT ![r].status = "delivered", ![r].attempts = @ + 1]
        <5>1. rows'[r].status = "delivered" /\ rows'[r].next = rows[r].next
          BY <1>0, <1>2, <4>4 DEF OutboxTyped, Row
        <5> QED BY <4>2, <4>3, <4>4, <5>1
      <4>5. CASE /\ ~ticks[t].ok /\ ticks[t].held /\ rows[r].status = "pending"
                 /\ rows' = [rows EXCEPT ![r].status = "failed", ![r].attempts = n]
        <5> HIDE DEF n
        <5>1. rows'[r].status = "failed" /\ rows'[r].next = rows[r].next
          BY <1>0, <1>2, <4>5 DEF OutboxTyped, Row
        <5> QED BY <4>2, <4>3, <4>5, <5>1
      <4> QED BY <4>1, <4>2, <4>4, <4>5 DEF Records
    <3> QED BY <3>1, <3>2
  <2>2. ticks'[t] = NextJob(t) /\ \A u \in Ticks \ {t} : ticks'[u] = ticks[u]
    BY <2>1 DEF OutboxTyped
  <2>3. ASSUME NEW u \in Ticks PROVE Undisturbed(u)
    <3>1. CASE u = t \/ ticks[u].pc \notin Hand
      BY <1>1, <2>2, <3>1 DEF Undisturbed
    <3>2. CASE u # t /\ ticks[u].pc \in Hand
      <4>1. ticks'[u] = ticks[u] /\ ticks[u].job.row \in Rows
        BY <2>2, <3>2, LeaseNumbers
      <4>2. /\ rows[ticks[u].job.row].status # "none"
            /\ ticks[u].lease > 0 => rows[ticks[u].job.row].status \in {"pending", "canceled"}
        BY <3>2 DEF Leases
      <4>3. CASE UNCHANGED rows \/ ticks[u].job.row # r
        <5>1. rows'[ticks[u].job.row] = rows[ticks[u].job.row]
          BY <2>1, <4>1, <4>3
        <5> QED BY <3>2, <4>1, <4>2, <5>1 DEF Undisturbed
      <4>4. CASE ~UNCHANGED rows /\ ticks[u].job.row = r
        <5>1. ~(ticks[u].lease > 0)
          BY <1>0, <2>1, <3>2, <4>4, HolderAlone
        <5> QED BY <2>1, <3>2, <4>1, <4>4, <5>1 DEF Undisturbed
      <4> QED BY <4>3, <4>4
    <3> QED BY <3>1, <3>2
  <2> QED BY <2>3, LeasesUndisturbed
<1> QED BY <1>3, <1>4

\* A lease and its row's instant grow old together.
LEMMA LeasesThroughTime ==
  ASSUME OutboxTyped, OutboxTyped', Leases, Time
  PROVE  Leases'
<1>1. ASSUME NEW u \in Ticks
      PROVE  /\ ticks'[u].pc = ticks[u].pc /\ ticks'[u].job = ticks[u].job
             /\ ticks'[u].lease = Later(ticks[u].lease) /\ ticks'[u].held = ticks[u].held
             /\ ticks'[u].lease > 0 => ticks[u].lease > 0
  <2>1. /\ ticks'[u].pc = ticks[u].pc /\ ticks'[u].job = ticks[u].job
        /\ ticks'[u].lease = Later(ticks[u].lease) /\ ticks'[u].held = ticks[u].held
    BY LaterOnes
  <2>2. ticks[u].lease \in Int
    BY LeaseNumbers
  <2> QED BY <2>1, <2>2 DEF Later, Past
<1>2. ASSUME NEW r \in Rows PROVE rows'[r].next = Later(rows[r].next) /\ rows'[r].status = rows[r].status
  BY LaterOnes
<1>3. ASSUME NEW u \in Ticks, ticks'[u].pc \in Hand
      PROVE  /\ rows'[ticks'[u].job.row].status # "none"
             /\ ticks'[u].held => rows'[ticks'[u].job.row].next = ticks'[u].lease
             /\ ticks'[u].lease > 0 => ticks'[u].held /\ rows'[ticks'[u].job.row].status \in {"pending", "canceled"}
  <2>1. ticks[u].pc \in Hand /\ ticks[u].job.row \in Rows
    BY <1>1, <1>3, LeaseNumbers
  <2> QED BY <1>1, <1>2, <2>1 DEF Leases
<1>4. OneSenderPerLease'
  BY <1>1 DEF Leases, OneSenderPerLease
<1> QED BY <1>3, <1>4 DEF Leases

\* redriveWebhookDelivery: the row has failed, so no lease on it lasts.
LEMMA LeasesThroughRedrive ==
  ASSUME OutboxTyped, OutboxTyped', Leases, NEW r \in Rows, Redrive(r)
  PROVE  Leases'
<1>1. rows[r] \in Row /\ rows[r].status = "failed"
  BY DEF OutboxTyped, Redrive
<1>2. rows'[r].status = "pending" /\ rows'[r].next = 0 /\ \A x \in Rows \ {r} : rows'[x] = rows[x]
  BY <1>1 DEF Redrive, OutboxTyped, Row
<1>3. ASSUME NEW u \in Ticks, ticks[u].lease > 0, ticks[u].job.row = r PROVE FALSE
  BY <1>1, <1>3, LeaseNumbers DEF Leases
<1>4. \A u \in Ticks : ticks'[u] = Retimed(r, 0)[u]
  BY DEF Redrive
<1>5. 0 \in Nat
  OBVIOUS
<1>6. \A u \in Ticks : ticks[u].lease > 0 /\ ticks[u].job.row = r => ticks'[u].pc \notin Hand
  BY <1>3
<1>7. PICK t : t \notin Ticks
  <2>1. (CHOOSE x : x \notin Ticks) \notin Ticks
    BY NoSetContainsEverything
  <2> QED BY <2>1
<1>8. \A u \in Ticks : \/ ticks'[u].pc \notin Hand
                       \/ ticks'[u] = Retimed(r, 0)[u]
                       \/ u = t /\ ticks'[u].job.row = r /\ ticks'[u].lease = 0 /\ ticks'[u].held
  BY <1>4
<1> QED BY <1>2, <1>5, <1>6, <1>8, LeasesRetimed

\* Every step keeps one sender for each lease that has time left.
LEMMA LeasesStep ==
  ASSUME OutboxTyped, Leases, [Next]_vars
  PROVE  Leases'
<1>0. OutboxTyped'
  BY StepTyped
<1>1. CASE UNCHANGED vars
  BY <1>1 DEF vars, Leases, OneSenderPerLease
<1>2. CASE Next
  <2>1. ASSUME NEW t \in Ticks, Claim(t) PROVE Leases'
    BY <1>0, <2>1, LeasesThroughClaim
  <2>2. ASSUME NEW t \in Ticks, Refuse(t) \/ Record(t) PROVE Leases'
    BY <1>0, <2>2, LeasesThroughOutcome
  <2>3. CASE Time
    BY <1>0, <2>3, LeasesThroughTime
  <2>4. ASSUME NEW r \in Rows, Redrive(r) PROVE Leases'
    BY <1>0, <2>4, LeasesThroughRedrive
  <2>5. CASE \/ \E t \in Ticks : Start(t) \/ Scan(t) \/ Enqueue(t) \/ Save(t) \/ ReadDue(t) \/ Done(t) \/ Send(t) \/ Crash(t)
             \/ Log
             \/ \E e \in Endpoints, s \in {"active", "disabled"} : SetState(e, s)
             \/ \E e \in Endpoints, to \in Destinations : Patch(e, to)
    BY <1>0, <2>5, LeasesThroughOthers
  <2> QED BY <1>2, <2>1, <2>2, <2>3, <2>4, <2>5, Handlers
<1> QED BY <1>1, <1>2

\* Two ticks never have one delivery in hand while both leases last, however
\* many ticks overlap, and whatever operators redrive or cancel
\* (claimPendingWebhookDelivery and its compare-and-set on next_attempt_at).
THEOREM OneSenderPerLeaseHolds == Spec => []OneSenderPerLease
<1>1. Init => OutboxTyped /\ Leases
  <2> SUFFICES ASSUME Init PROVE OutboxTyped /\ Leases
    OBVIOUS
  <2>1. OutboxTyped
    BY InitTyped
  <2>2. \A t \in Ticks : ticks[t].pc \notin Hand /\ ticks[t].lease = -1
    BY EmptyOnes DEF Init, Past
  <2> QED BY <2>1, <2>2 DEF Leases, OneSenderPerLease
<1>2. OutboxTyped /\ Leases /\ [Next]_vars => (OutboxTyped /\ Leases)'
  BY StepTyped, LeasesStep
<1>3. OutboxTyped /\ Leases => OneSenderPerLease
  BY DEF Leases
<1> QED BY <1>1, <1>2, <1>3, PTL DEF Spec

-----------------------------------------------------------------------------
\* The outbox beside endpoints that stay as they are: its steps are steps of
\* the outbox, and leave the endpoints.
LEMMA OutboxSteps ==
  ASSUME [OutboxNext]_<<vars, operated>>
  PROVE  /\ [Next]_vars /\ operated' = operated
         /\ ~operated => [Steady]_vars
<1>1. OutboxNext => Next
  BY DEF OutboxNext, Steady, Operated, Starts, Steps, Next, Dispatch
<1> QED BY <1>1 DEF OutboxNext

\* An active endpoint's event is queued or still to be queued.
Served(e, n, q) ==
  endpoints[e].state = "active" /\ Matches(endpoints[e].to.scope, n) => rows[<<e, n>>].status # "none" \/ <<e, n>> \in q

\* A tick knows every endpoint, queues everything up to where it will put the
\* cursor, and everything behind the cursor is queued.
Passed ==
  /\ cursor <= logged
  /\ \A t \in Ticks : ticks[t].pc \in {"scan", "queue"} =>
       \A e \in Endpoints : endpoints[e].state = "active" => <<e, endpoints[e].to.scope>> \in ticks[t].seen
  /\ \A t \in Ticks : ticks[t].pc = "queue" =>
       ticks[t].top <= logged /\ \A e \in Endpoints, n \in Events : n <= ticks[t].top => Served(e, n, ticks[t].todo)
  /\ \A e \in Endpoints, n \in Events : n <= cursor => Served(e, n, {})

\* Rows stay queued, so what is served stays served.
LEMMA ServedStays ==
  ASSUME OutboxTyped, [Next]_vars, endpoints' = endpoints, NEW e \in Endpoints, NEW n \in Events, NEW q, NEW p,
         Served(e, n, q), \A r \in q \ p : rows'[r].status # "none"
  PROVE  Served(e, n, p)'
<1>1. <<e, n>> \in Rows
  BY DEF Rows
<1>2. RowMoves(<<e, n>>)
  BY <1>1, RowsMove
<1> QED BY <1>2 DEF Served, RowMoves, Matches

\* The batch of a scan reaches from the cursor to its last event.
LEMMA BatchReaches ==
  ASSUME OutboxTyped, Passed,
         NEW batch, batch = {n \in Events : cursor < n /\ n <= logged /\ n <= cursor + EnqueueBatch}, batch # {}
  PROVE  /\ Cardinality(batch) \in Nat /\ cursor + Cardinality(batch) <= logged
         /\ \A n \in Events : n <= cursor + Cardinality(batch) => n <= cursor \/ n \in batch
<1> DEFINE last == IF logged <= cursor + EnqueueBatch THEN logged ELSE cursor + EnqueueBatch
<1>1. cursor \in Nat /\ logged \in Nat /\ logged <= Cardinality(Events) /\ cursor <= logged /\ EnqueueBatch \in Nat
  BY OutboxAssumption, EventNumbers DEF OutboxTyped, Passed
<1>2. Events = 1..Cardinality(Events) /\ Cardinality(Events) \in Nat
  BY EventNumbers
<1>3. last \in Nat /\ last <= logged /\ cursor <= last
  BY <1>1
<1>4. batch = (cursor + 1)..last
  <2> DEFINE k == Cardinality(Events)
  <2>1. Events = 1..k /\ k \in Nat /\ logged <= k
    BY <1>1, <1>2
  <2> HIDE DEF k
  <2>2. ASSUME NEW n \in batch PROVE n \in (cursor + 1)..last
    BY <1>1, <2>1
  <2>3. ASSUME NEW n \in (cursor + 1)..last PROVE n \in batch
    <3>1. n \in Int /\ cursor + 1 <= n /\ n <= last
      BY <2>3, <1>1, <1>3
    <3>2. n \in Events /\ cursor < n /\ n <= logged /\ n <= cursor + EnqueueBatch
      BY <1>1, <2>1, <3>1
    <3> QED BY <3>2
  <2> QED BY <2>2, <2>3
<1> HIDE DEF last
<1>5. Cardinality(batch) = last - cursor
  <2>1. cursor + 1 \in Int /\ last \in Int
    BY <1>1, <1>3
  <2>2. Cardinality((cursor + 1)..last) = IF cursor + 1 > last THEN 0 ELSE last - (cursor + 1) + 1
    BY <2>1, FS_Interval
  <2> DEFINE c == Cardinality(batch)
  <2>3. c = IF cursor + 1 > last THEN 0 ELSE last - (cursor + 1) + 1
    BY <1>4, <2>2
  <2> HIDE DEF c
  <2>4. c = last - cursor
    BY <1>1, <1>3, <2>3
  <2> QED BY <2>4 DEF c
<1>6. ASSUME NEW n \in Events, n <= last PROVE n <= cursor \/ n \in batch
  <2>1. n \in Int
    BY <1>2
  <2> QED BY <1>1, <1>3, <1>4, <1>6, <2>1
<1>7. cursor + Cardinality(batch) = last /\ Cardinality(batch) \in Nat
  BY <1>1, <1>3, <1>5
<1> QED BY <1>3, <1>6, <1>7

\* The other ticks of a step by one tick, and who is in the enqueue pass.
QueueStays(u) ==
  \/ ticks'[u].pc \notin {"scan", "queue"}
  \/ /\ ticks'[u].pc = ticks[u].pc /\ ticks'[u].seen = ticks[u].seen
     /\ ticks'[u].top = ticks[u].top /\ ticks'[u].todo = ticks[u].todo

\* A step that leaves the cursor and the ticks in the enqueue pass alone.
LEMMA PassedStays ==
  ASSUME OutboxTyped, OutboxTyped', Passed, [Next]_vars, endpoints' = endpoints,
         \A u \in Ticks : QueueStays(u), cursor' = cursor, logged <= logged'
  PROVE  Passed'
<1>0. \A e \in Endpoints, n \in Events : \A q : Served(e, n, q) => Served(e, n, q)'
  <2> TAKE e \in Endpoints, n \in Events
  <2> TAKE q
  <2> SUFFICES ASSUME Served(e, n, q) PROVE Served(e, n, q)'
    OBVIOUS
  <2>1. <<e, n>> \in Rows
    BY DEF Rows
  <2>2. RowMoves(<<e, n>>)
    BY <2>1, RowsMove
  <2> QED BY <2>2 DEF Served, RowMoves, Matches
<1>1. cursor' <= logged'
  BY DEF OutboxTyped, Passed
<1>2. ASSUME NEW u \in Ticks, ticks'[u].pc \in {"scan", "queue"},
             NEW e \in Endpoints, endpoints'[e].state = "active"
      PROVE  <<e, endpoints'[e].to.scope>> \in ticks'[u].seen
  BY <1>2 DEF QueueStays, Passed
<1>3. ASSUME NEW u \in Ticks, ticks'[u].pc = "queue" PROVE ticks'[u].top <= logged'
  <2>1. ticks'[u].top = ticks[u].top /\ ticks[u].top <= logged /\ ticks[u] \in TickRow
    BY <1>3 DEF QueueStays, Passed, OutboxTyped
  <2> QED BY <2>1 DEF TickRow, OutboxTyped
<1>4. ASSUME NEW u \in Ticks, ticks'[u].pc = "queue", NEW e \in Endpoints, NEW n \in Events, n <= ticks'[u].top
      PROVE  Served(e, n, ticks[u].todo)' /\ ticks'[u].todo = ticks[u].todo
  <2>1. /\ ticks'[u].todo = ticks[u].todo /\ ticks'[u].top = ticks[u].top /\ ticks[u].pc = "queue"
    BY <1>4 DEF QueueStays
  <2>2. Served(e, n, ticks[u].todo)
    BY <1>4, <2>1 DEF Passed
  <2>3. PICK q : q = ticks[u].todo
    OBVIOUS
  <2>4. Served(e, n, q)'
    BY <1>0, <2>2, <2>3
  <2> QED BY <2>1, <2>3, <2>4 DEF Served
<1>5. ASSUME NEW e \in Endpoints, NEW n \in Events, n <= cursor' PROVE Served(e, n, {})'
  BY <1>0, <1>5 DEF Passed
<1> QED BY <1>1, <1>2, <1>3, <1>4, <1>5 DEF Passed

\* Deliveries, stops, time and new events leave the enqueue passes alone.
LEMMA QueuesStay ==
  ASSUME OutboxTyped,
         \/ \E t \in Ticks : ReadDue(t) \/ Claim(t) \/ Done(t) \/ Refuse(t) \/ Send(t) \/ Record(t) \/ Crash(t)
         \/ Time \/ UNCHANGED ticks,
         NEW u \in Ticks
  PROVE  QueueStays(u)
<1>1. ASSUME NEW t \in Ticks, NEW q, ticks' = [ticks EXCEPT ![t] = q], q.pc \notin {"scan", "queue"}
      PROVE  QueueStays(u)
  <2>1. CASE u = t
    BY <1>1, <2>1 DEF QueueStays, OutboxTyped
  <2>2. CASE u # t
    BY <1>1, <2>2 DEF QueueStays, OutboxTyped
  <2> QED BY <2>1, <2>2
<1>2. ASSUME NEW t \in Ticks, NEW r \in Rows, NEW v \in Nat, \A x \in Ticks \ {t} : ticks'[x] = Retimed(r, v)[x],
             ticks'[t].pc \notin {"scan", "queue"}
      PROVE  QueueStays(u)
  BY <1>2, RetimedFields DEF QueueStays
<1>3. ASSUME NEW t \in Ticks, ReadDue(t) \/ Done(t) \/ Refuse(t) \/ Send(t) \/ Crash(t) PROVE QueueStays(u)
  <2>0. ticks[t] \in TickRow
    BY DEF OutboxTyped
  <2>1. CASE ReadDue(t)
    <3> DEFINE due == {r \in Rows : Claimable(r) /\ endpoints[r[1]].state = "active"}
               D == {[row |-> r, to |-> endpoints[r[1]].to, attempts |-> rows[r].attempts] : r \in due}
               q == [Idle EXCEPT !.pc = "claim", !.due = D]
    <3>1. ticks' = [ticks EXCEPT ![t] = q]
      BY <2>1 DEF ReadDue
    <3> HIDE DEF D
    <3>2. q.pc = "claim"
      BY DEF Idle
    <3> HIDE DEF q
    <3> QED BY <1>1, <3>1, <3>2
  <2>2. CASE Done(t)
    BY <1>1, <2>2 DEF Done, Idle
  <2>3. CASE Refuse(t)
    <3>1. ticks' = [ticks EXCEPT ![t] = NextJob(t)] /\ NextJob(t).pc = "claim"
      BY <2>3, NextJobs DEF Refuse
    <3> QED BY <1>1, <3>1
  <2>4. CASE Send(t)
    <3>1. PICK ok \in BOOLEAN : ticks' = [ticks EXCEPT ![t].pc = "record", ![t].ok = ok]
      BY <2>4 DEF Send
    <3> DEFINE q == [ticks[t] EXCEPT !.pc = "record", !.ok = ok]
    <3>2. ticks' = [ticks EXCEPT ![t] = q] /\ q.pc = "record"
      BY <2>0, <3>1 DEF OutboxTyped, TickRow
    <3> HIDE DEF q
    <3> QED BY <1>1, <3>2
  <2>5. CASE Crash(t)
    <3> DEFINE q == [ticks[t] EXCEPT !.pc = "due"]
    <3>1. ticks' = [ticks EXCEPT ![t] = Idle] \/ ticks' = [ticks EXCEPT ![t] = q]
      BY <2>5 DEF Crash, Goto, OutboxTyped
    <3>2. q.pc = "due" /\ Idle.pc = "idle"
      BY <2>0 DEF TickRow, Idle
    <3> HIDE DEF q
    <3> QED BY <1>1, <3>1, <3>2
  <2> QED BY <1>3, <2>1, <2>2, <2>3, <2>4, <2>5
<1>4. ASSUME NEW t \in Ticks, Claim(t) PROVE QueueStays(u)
  <2>1. PICK d \in ticks[t].due : Claims(t, d) \/ ticks' = [ticks EXCEPT ![t].due = @ \ {d}]
    BY <1>4 DEF Claim, Claims
  <2>2. At(t, "claim") /\ ticks[t] \in TickRow
    BY <1>4 DEF Claim, OutboxTyped
  <2>3. CASE Claims(t, d)
    <3>1. /\ d.row \in Rows /\ ticks'[t].pc = "send"
          /\ \A x \in Ticks \ {t} : ticks'[x] = Retimed(d.row, ClaimTtl)[x]
      BY <2>2, <2>3, ClaimedTicks
    <3>2. ClaimTtl \in Nat
      BY OutboxAssumption
    <3> QED BY <1>2, <3>1, <3>2
  <2>4. CASE ticks' = [ticks EXCEPT ![t].due = @ \ {d}]
    <3> DEFINE q == [ticks[t] EXCEPT !.due = @ \ {d}]
    <3>1. ticks' = [ticks EXCEPT ![t] = q] /\ q.pc = "claim"
      BY <2>2, <2>4 DEF OutboxTyped, TickRow, At
    <3> HIDE DEF q
    <3> QED BY <1>1, <3>1
  <2> QED BY <2>1, <2>3, <2>4
<1>5. ASSUME NEW t \in Ticks, Record(t) PROVE QueueStays(u)
  <2>1. ticks[t].pc \in Hand /\ (Records(t) \/ Retries(t)) /\ NextJob(t).pc = "claim"
    BY <1>5, RecordCases, NextJobs DEF At, Hand
  <2>2. CASE Records(t)
    BY <1>1, <2>1, <2>2 DEF Records
  <2>3. CASE Retries(t)
    <3> DEFINE r == ticks[t].job.row
               w == Backoff[Count(ticks[t].job)]
    <3>1. /\ r \in Rows /\ w \in Nat /\ ticks'[t] = NextJob(t)
          /\ \A x \in Ticks \ {t} : ticks'[x] = Retimed(r, w)[x]
      BY <2>1, <2>3, RetriedTicks
    <3> HIDE DEF r, w
    <3> QED BY <1>2, <2>1, <3>1
  <2> QED BY <2>1, <2>2, <2>3
<1>6. CASE Time
  BY <1>6, LaterOnes DEF QueueStays
<1>7. CASE UNCHANGED ticks
  BY <1>7 DEF QueueStays
<1> QED BY <1>3, <1>4, <1>5, <1>6, <1>7

\* enqueueWebhooks, enqueueSource and writeCursor.
LEMMA PassedThroughQueue ==
  ASSUME OutboxTyped, OutboxTyped', Passed, NEW t \in Ticks, Start(t) \/ Scan(t) \/ Enqueue(t) \/ Save(t)
  PROVE  Passed'
<1>0. /\ [Next]_vars /\ endpoints' = endpoints /\ logged' = logged
      /\ ticks[t] \in TickRow /\ ticks'[t] \in TickRow
  BY DEF Next, Dispatch, Step, Start, Scan, Enqueue, Save, OutboxTyped
<1>s. \A e \in Endpoints, n \in Events : \A q, p : Served(e, n, q) /\ (\A r \in q \ p : rows'[r].status # "none") => Served(e, n, p)'
  BY <1>0, ServedStays
<1>1. SUFFICES ASSUME \A u \in Ticks \ {t} : ticks'[u] = ticks[u]
               PROVE  /\ cursor' <= logged
                      /\ ticks'[t].pc \in {"scan", "queue"} =>
                           \A e \in Endpoints : endpoints[e].state = "active" => <<e, endpoints[e].to.scope>> \in ticks'[t].seen
                      /\ ticks'[t].pc = "queue" =>
                           ticks'[t].top <= logged
                           /\ \A e \in Endpoints, n \in Events : n <= ticks'[t].top => Served(e, n, ticks[t].todo)'
                      /\ \A e \in Endpoints, n \in Events : n <= cursor' => Served(e, n, {})'
  <2>1. \A u \in Ticks \ {t} : ticks'[u] = ticks[u]
    BY <1>0 DEF Start, Scan, Enqueue, Save, Goto, OutboxTyped
  <2>2. ASSUME NEW u \in Ticks \ {t}, ticks'[u].pc = "queue"
        PROVE  /\ ticks'[u].top <= logged'
               /\ \A e \in Endpoints, n \in Events : n <= ticks'[u].top => Served(e, n, ticks[u].todo)'
    <3>1. PICK q : q = ticks[u].todo
      OBVIOUS
    <3>2. ticks'[u] = ticks[u] /\ ticks[u].pc = "queue" /\ ticks[u].top <= logged
      BY <2>1, <2>2 DEF Passed
    <3>3. \A e \in Endpoints, n \in Events : n <= ticks[u].top => Served(e, n, q)
      BY <3>1, <3>2 DEF Passed
    <3>4. \A e \in Endpoints, n \in Events : n <= ticks[u].top => Served(e, n, q)'
      BY <1>s, <3>3
    <3>5. \A e \in Endpoints, n \in Events : n <= ticks[u].top => Served(e, n, ticks[u].todo)'
      BY <3>1, <3>2, <3>4 DEF Served
    <3> QED BY <1>0, <3>2, <3>5
  <2>3. ASSUME NEW u \in Ticks \ {t}, ticks'[u].pc \in {"scan", "queue"}, NEW e \in Endpoints, endpoints'[e].state = "active"
        PROVE  <<e, endpoints'[e].to.scope>> \in ticks'[u].seen
    BY <1>0, <2>1, <2>3 DEF Passed
  <2> HIDE <1>s
  <2> QED BY <1>0, <2>1, <2>2, <2>3 DEF Passed
<1>2. CASE Start(t)
  <2> DEFINE S == {<<e, endpoints[e].to.scope>> : e \in {x \in Endpoints : endpoints[x].state = "active"}}
  <2>1. ticks'[t].pc = "scan" /\ ticks'[t].seen = S /\ cursor' = cursor
    BY <1>0, <1>2 DEF Start, OutboxTyped, TickRow
  <2>2. \A e \in Endpoints : endpoints[e].state = "active" => <<e, endpoints[e].to.scope>> \in S
    OBVIOUS
  <2>3. \A e \in Endpoints, n \in Events : n <= cursor' => Served(e, n, {})'
    BY <1>s, <2>1 DEF Passed
  <2> QED BY <2>1, <2>2, <2>3 DEF Passed
<1>3. CASE Scan(t)
  <2> DEFINE batch == {n \in Events : cursor < n /\ n <= logged /\ n <= cursor + EnqueueBatch}
             wanted == {w \in ticks[t].seen \X batch : Matches(w[1][2], w[2])}
             T == {<<w[1][1], w[2]>> : w \in wanted}
             m == Cardinality(batch)
             b == (m = EnqueueBatch)
  <2>1. ticks[t].pc = "scan" /\ cursor' = cursor /\ rows' = rows
    BY <1>3 DEF Scan, At
  <2>2. \A e \in Endpoints, n \in Events : n <= cursor' => Served(e, n, {})'
    BY <1>s, <2>1 DEF Passed
  <2>3. \A e \in Endpoints : endpoints[e].state = "active" => <<e, endpoints[e].to.scope>> \in ticks[t].seen
    BY <2>1 DEF Passed
  <2>4. CASE batch = {}
    <3>1. ticks'[t].pc = "due"
      <4>1. ticks' = [ticks EXCEPT ![t].pc = "due"]
        BY <1>3, <2>4 DEF Scan, Goto
      <4> HIDE DEF batch, T
      <4> QED BY <1>0, <4>1 DEF OutboxTyped, TickRow
    <3> QED BY <2>1, <2>2, <3>1 DEF Passed
  <2>5. CASE batch # {}
    <3>1. /\ m \in Nat /\ cursor + m <= logged
          /\ \A n \in Events : n <= cursor + m => n <= cursor \/ n \in batch
      <4> HIDE DEF batch
      <4> QED BY <2>5, BatchReaches DEF batch
    <3>2. ticks' = [ticks EXCEPT ![t].pc = "queue", ![t].top = cursor + m, ![t].full = b, ![t].todo = T]
      <4> HIDE DEF batch
      <4> QED BY <1>3, <2>5 DEF Scan, batch
    <3>3. b \in BOOLEAN
      OBVIOUS
    <3>4. ASSUME NEW e \in Endpoints, NEW n \in batch, endpoints[e].state = "active", Matches(endpoints[e].to.scope, n)
          PROVE  <<e, n>> \in T
      <4>1. <<<<e, endpoints[e].to.scope>>, n>> \in wanted
        BY <2>3, <3>4
      <4> HIDE DEF wanted
      <4> QED BY <4>1
    <3>5. ASSUME NEW e \in Endpoints, NEW n \in Events, n <= cursor + m PROVE Served(e, n, T)
      <4>1. CASE n <= cursor
        BY <4>1 DEF Passed, Served
      <4>2. CASE n \in batch
        BY <3>4, <4>2 DEF Served
      <4> QED BY <3>1, <3>5, <4>1, <4>2
    <3> HIDE DEF T, m, b
    <3>6. ticks'[t].pc = "queue" /\ ticks'[t].top = cursor + m /\ ticks'[t].todo = T /\ ticks'[t].seen = ticks[t].seen
      BY <1>0, <3>2, <3>3 DEF OutboxTyped, TickRow
    <3>7. \A e \in Endpoints, n \in Events : n <= cursor + m => Served(e, n, ticks[t].todo)'
      <4>1. PICK q : q = T
        OBVIOUS
      <4>2. \A e \in Endpoints, n \in Events : n <= cursor + m => Served(e, n, q)'
        BY <1>s, <3>5, <4>1
      <4> QED BY <3>6, <4>1, <4>2 DEF Served
    <3> QED BY <2>1, <2>2, <2>3, <3>1, <3>6, <3>7 DEF Passed
  <2> QED BY <2>4, <2>5
<1>4. CASE Enqueue(t)
  <2>1. PICK r \in ticks[t].todo :
          /\ rows' = IF rows[r].status # "none" THEN rows
                     ELSE [rows EXCEPT ![r] = [NoRow EXCEPT !.status = "pending", !.next = 0, !.queued = endpoints[r[1]].to]]
          /\ ticks' = [ticks EXCEPT ![t].todo = @ \ {r}]
    BY <1>4 DEF Enqueue
  <2>2. ticks[t].pc = "queue" /\ cursor' = cursor /\ r \in Rows
    BY <1>0, <1>4 DEF Enqueue, At, TickRow
  <2>3. /\ ticks'[t].pc = "queue" /\ ticks'[t].todo = ticks[t].todo \ {r}
        /\ ticks'[t].top = ticks[t].top /\ ticks'[t].seen = ticks[t].seen
    BY <1>0, <2>1, <2>2 DEF OutboxTyped, TickRow
  <2>4. rows'[r].status # "none"
    BY <2>1, <2>2 DEF OutboxTyped, NoRow
  <2>5. \A e \in Endpoints, n \in Events : n <= cursor' => Served(e, n, {})'
    BY <1>s, <2>2 DEF Passed
  <2>6. \A e \in Endpoints, n \in Events : n <= ticks[t].top => Served(e, n, ticks[t].todo)'
    <3>1. PICK q, p : q = ticks[t].todo /\ p = q \ {r}
      OBVIOUS
    <3>2. \A e \in Endpoints, n \in Events : n <= ticks[t].top => Served(e, n, q)
      BY <2>2, <3>1 DEF Passed
    <3>3. \A x \in q \ p : rows'[x].status # "none"
      BY <2>4, <3>1
    <3>4. \A e \in Endpoints, n \in Events : n <= ticks[t].top => Served(e, n, p)'
      BY <1>s, <3>2, <3>3
    <3> QED BY <2>3, <3>1, <3>4 DEF Served
  <2> QED BY <2>2, <2>3, <2>5, <2>6 DEF Passed
<1>5. CASE Save(t)
  <2>1. ticks[t].pc = "queue" /\ ticks[t].todo = {} /\ cursor' = ticks[t].top
    BY <1>5 DEF Save, At, Reached
  <2>2. ticks[t].top <= logged
    BY <2>1 DEF Passed
  <2>3. \A e \in Endpoints, n \in Events : n <= ticks[t].top => Served(e, n, {})
    BY <2>1 DEF Passed
  <2>4. \A e \in Endpoints, n \in Events : n <= cursor' => Served(e, n, {})'
    BY <1>s, <2>1, <2>3
  <2>5. ticks'[t].pc \in {"scan", "due"} /\ ticks'[t].seen = ticks[t].seen
    BY <1>0, <1>5 DEF Save, Goto, OutboxTyped, TickRow
  <2>6. \A e \in Endpoints : endpoints[e].state = "active" => <<e, endpoints[e].to.scope>> \in ticks[t].seen
    BY <2>1 DEF Passed
  <2> QED BY <2>1, <2>2, <2>4, <2>5, <2>6
<1> QED BY <1>2, <1>3, <1>4, <1>5

\* No event is passed by while endpoints stay as they are.
LEMMA PassedStep ==
  ASSUME OutboxTyped, Passed, [Steady]_vars
  PROVE  Passed'
<1>0. [Next]_vars
  BY DEF Steady, Starts, Steps, Next, Dispatch
<1>1. OutboxTyped'
  BY <1>0, StepTyped
<1>2. ASSUME NEW t \in Ticks, Start(t) \/ Scan(t) \/ Enqueue(t) \/ Save(t) PROVE Passed'
  BY <1>1, <1>2, PassedThroughQueue
<1>3. ASSUME \/ \E t \in Ticks : ReadDue(t) \/ Claim(t) \/ Done(t) \/ Refuse(t) \/ Send(t) \/ Record(t) \/ Crash(t)
             \/ Log \/ Time \/ UNCHANGED vars
      PROVE  Passed'
  <2>1. endpoints' = endpoints /\ cursor' = cursor /\ (logged' = logged \/ logged' = logged + 1)
    BY <1>3, RecordCases DEF ReadDue, Claim, Done, Refuse, Send, Crash, Log, Time, vars
  <2>2. logged <= logged'
    BY <2>1 DEF OutboxTyped
  <2>3. \A u \in Ticks : QueueStays(u)
    BY <1>3, QueuesStay DEF Log, vars
  <2> QED BY <1>0, <1>1, <2>1, <2>2, <2>3, PassedStays
<1> QED BY <1>2, <1>3 DEF Steady, Starts, Steps, Step

\* While endpoints stay as they are, an active one has a delivery of every
\* event it wants before the cursor passes it, wherever ticks overlap or stop
\* and whatever cursor they write back (enqueueSource, writeCursor).
THEOREM NoSteadyEventSkippedHolds == OutboxSpec => []NoSteadyEventSkipped
<1> DEFINE Inv == OutboxTyped /\ (~operated => Passed)
<1>1. OutboxInit => Inv
  <2> SUFFICES ASSUME OutboxInit PROVE OutboxTyped /\ Passed
    OBVIOUS
  <2>1. OutboxTyped
    BY InitTyped DEF OutboxInit
  <2>2. cursor = 0 /\ logged = 0 /\ \A t \in Ticks : ticks[t].pc = "idle"
    BY DEF OutboxInit, Init, Idle
  <2>3. ASSUME NEW e \in Endpoints, NEW n \in Events, n <= cursor PROVE FALSE
    <3>1. n \in Int /\ n > 0
      BY EventNumbers
    <3> QED BY <2>2, <2>3, <3>1
  <2> QED BY <2>1, <2>2, <2>3 DEF Passed
<1>2. Inv /\ [OutboxNext]_<<vars, operated>> => Inv'
  BY OutboxSteps, StepTyped, PassedStep
<1>3. Inv => NoSteadyEventSkipped
  BY DEF Passed, Served, NoSteadyEventSkipped, NoEventSkipped, Wants
<1> HIDE DEF Inv
<1> QED BY <1>1, <1>2, <1>3, PTL DEF OutboxSpec
=============================================================================
