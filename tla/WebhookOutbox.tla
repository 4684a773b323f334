---------------------------- MODULE WebhookOutbox ----------------------------
(***************************************************************************)
(* The webhook dispatcher: a cron tick queues one delivery for each event  *)
(* and endpoint behind a cursor, then claims, sends and records what is    *)
(* due; operators change endpoints and redrive failures. Ticks may overlap *)
(* and stop anywhere. One event source; event types, payloads, signatures  *)
(* and the batch limit of due rows are left out. Time is relative: next is *)
(* what remains until next_attempt_at, Past once it is over.               *)
(***************************************************************************)
EXTENDS Integers, FiniteSets

CONSTANTS Endpoints, Urls, Groups, Ticks,
          Unsafe,         \* urls that safeWebhookUrl refuses
          GroupOf,        \* the project or customer of an event
          None,
          EnqueueBatch, MaxAttempts, ClaimTtl,
          Backoff,        \* seconds to wait after the n-th failure
          MaxCrashes      \* bound: ticks that stop half way

Events == DOMAIN GroupOf

ASSUME OutboxAssumption ==
  /\ Events = 1..Cardinality(Events) /\ IsFiniteSet(Events)
  /\ Unsafe \subseteq Urls /\ None \notin Urls
  /\ EnqueueBatch \in Nat \ {0} /\ ClaimTtl \in Nat \ {0} /\ MaxCrashes \in Nat
  /\ MaxAttempts \in Nat \ {0} /\ Backoff \in [1..MaxAttempts -> Nat \ {0}]

VARIABLES endpoints,      \* webhook_endpoints
          logged,         \* events 1..logged have been written
          cursor,         \* webhook_cursor
          rows,           \* webhook_deliveries
          ticks,          \* the runs of the cron handler
          crashes,
          since,          \* history: events logged when an endpoint became what it is
          sends, acked,   \* history: requests that left, rows that were acknowledged
          failures        \* history: failures recorded since queued or redriven, up to MaxAttempts

vars == <<endpoints, logged, cursor, rows, ticks, crashes, since, sends, acked, failures>>
history == <<since, sends, acked, failures>>

Global == "global"
Destinations == [url : Urls, scope : {Global} \cup Groups]
Rows == Endpoints \X Events
Past == -1

NoRow == [status |-> "none", attempts |-> 0, next |-> Past, queued |-> None]
Idle == [pc |-> "idle", seen |-> {}, top |-> 0, full |-> FALSE, todo |-> {}, due |-> {},
         job |-> None, lease |-> Past, held |-> FALSE, ok |-> FALSE]

Init ==
  /\ endpoints \in [Endpoints -> [state : {"none", "active"}, to : Destinations]]
  /\ logged = 0 /\ cursor = 0 /\ crashes = 0
  /\ rows = [r \in Rows |-> NoRow]
  /\ ticks = [t \in Ticks |-> Idle]
  /\ since = [e \in Endpoints |-> 0]
  /\ sends = {} /\ acked = {}
  /\ failures = [r \in Rows |-> 0]

-----------------------------------------------------------------------------
\* endpointScopeMatches
Matches(scope, n) == scope = Global \/ scope = GroupOf[n]

At(t, pc) == ticks[t].pc = pc
Goto(t, pc) == ticks' = [ticks EXCEPT ![t].pc = pc]

\* A row's next_attempt_at is set to v from now: whoever holds a lease on it
\* keeps it only if that is the same instant (the compare-and-set on it).
Retimed(r, v) ==
  [u \in Ticks |->
    IF ticks[u].pc \in {"send", "record"} /\ ticks[u].job.row = r
    THEN [ticks[u] EXCEPT !.held = (ticks[u].lease = v)] ELSE ticks[u]]

\* Slip: delivered rows are claimed like pending ones.
SlipClaimable(r) == rows[r].status \in {"pending", "delivered"} /\ rows[r].next <= 0

\* Slip: a lease does not keep others out.
SlipClaimableLeased(r) == rows[r].status = "pending"

\* The WHERE clause of claimPendingWebhookDelivery.
Claimable(r) == rows[r].status = "pending" /\ rows[r].next <= 0

-----------------------------------------------------------------------------
\* The cron tick.

\* enqueueWebhooks loads the active endpoints once.
Start(t) ==
  /\ At(t, "idle") /\ \E e \in Endpoints : endpoints[e].state = "active"
  /\ ticks' = [ticks EXCEPT ![t].pc = "scan",
                            ![t].seen = {<<e, endpoints[e].to.scope>> : e \in {x \in Endpoints : endpoints[x].state = "active"}}]
  /\ UNCHANGED <<endpoints, logged, cursor, rows, crashes, history>>

\* enqueueSource: the cursor and one batch of events behind it.
Scan(t) ==
  LET batch == {n \in Events : cursor < n /\ n <= logged /\ n <= cursor + EnqueueBatch}
      wanted == {w \in ticks[t].seen \X batch : Matches(w[1][2], w[2])}
  IN /\ At(t, "scan")
     /\ IF batch = {} THEN Goto(t, "due")
        ELSE ticks' = [ticks EXCEPT ![t].pc = "queue", ![t].top = cursor + Cardinality(batch),
                                    ![t].full = (Cardinality(batch) = EnqueueBatch),
                                    ![t].todo = {<<w[1][1], w[2]>> : w \in wanted}]
     /\ UNCHANGED <<endpoints, logged, cursor, rows, crashes, history>>

\* INSERT OR IGNORE, event by event.
Enqueue(t) ==
  /\ At(t, "queue")
  /\ \E r \in ticks[t].todo :
       /\ \A s \in ticks[t].todo : r[2] <= s[2]
       /\ rows' = IF rows[r].status # "none" THEN rows
                  ELSE [rows EXCEPT ![r] = [NoRow EXCEPT !.status = "pending", !.next = 0, !.queued = endpoints[r[1]].to]]
       /\ ticks' = [ticks EXCEPT ![t].todo = @ \ {r}]
  /\ UNCHANGED <<endpoints, logged, cursor, crashes, history>>

\* Slip: the cursor goes to the newest event there is.
SlipReached(t) == logged

\* The highest id the scan has seen.
Reached(t) == ticks[t].top

\* writeCursor overwrites what another tick wrote. A full batch may be
\* followed by another one.
Save(t) ==
  /\ At(t, "queue") /\ ticks[t].todo = {}
  /\ cursor' = Reached(t)
  /\ \E pc \in IF ticks[t].full THEN {"scan", "due"} ELSE {"due"} : Goto(t, pc)
  /\ UNCHANGED <<endpoints, logged, rows, crashes, history>>

\* deliverWebhooks reads what is due, with url, scope and attempts.
ReadDue(t) ==
  LET due == {r \in Rows : Claimable(r) /\ endpoints[r[1]].state = "active"}
  IN /\ At(t, "due")
     /\ ticks' = [ticks EXCEPT ![t] = [Idle EXCEPT !.pc = "claim",
                    !.due = {[row |-> r, to |-> endpoints[r[1]].to, attempts |-> rows[r].attempts] : r \in due}]]
     /\ UNCHANGED <<endpoints, logged, cursor, rows, crashes, history>>

Claim(t) ==
  /\ At(t, "claim")
  /\ \E d \in ticks[t].due :
       IF Claimable(d.row)
       THEN /\ rows' = [rows EXCEPT ![d.row].next = ClaimTtl]
            /\ ticks' = [Retimed(d.row, ClaimTtl) EXCEPT
                 ![t] = [ticks[t] EXCEPT !.pc = "send", !.due = @ \ {d}, !.job = d, !.lease = ClaimTtl, !.held = TRUE]]
       ELSE ticks' = [ticks EXCEPT ![t].due = @ \ {d}] /\ UNCHANGED rows
  /\ UNCHANGED <<endpoints, logged, cursor, crashes, history>>

Done(t) ==
  /\ At(t, "claim") /\ ticks[t].due = {}
  /\ ticks' = [ticks EXCEPT ![t] = Idle]
  /\ UNCHANGED <<endpoints, logged, cursor, rows, crashes, history>>

NextJob(t) == [ticks[t] EXCEPT !.pc = "claim", !.job = None, !.lease = Past, !.held = FALSE, !.ok = FALSE]

\* What deliverOne checks before the request.
Sendable(d) == d.to.url \notin Unsafe /\ Matches(d.to.scope, d.row[2])

\* refuseUnsafeWebhookDelivery, cancelOutOfScopeWebhookDelivery
Refuse(t) ==
  LET d == ticks[t].job
  IN /\ At(t, "send") /\ ~Sendable(d)
     /\ rows' = IF rows[d.row].status # "pending" \/ ~ticks[t].held THEN rows
                ELSE [rows EXCEPT ![d.row].status = IF d.to.url \in Unsafe THEN "failed" ELSE "canceled",
                                  ![d.row].attempts = IF d.to.url \in Unsafe THEN d.attempts + 1 ELSE @]
     /\ ticks' = [ticks EXCEPT ![t] = NextJob(t)]
     /\ UNCHANGED <<endpoints, logged, cursor, crashes, history>>

\* The signed POST and its answer, which may be lost on the way.
Send(t) ==
  LET d == ticks[t].job
  IN /\ At(t, "send") /\ Sendable(d)
     /\ sends' = sends \cup {[row |-> d.row, url |-> d.to.url]}
     /\ \E received, ok \in BOOLEAN :
          /\ ok => received
          /\ acked' = IF received THEN acked \cup {d.row} ELSE acked
          /\ ticks' = [ticks EXCEPT ![t].pc = "record", ![t].ok = ok]
     /\ UNCHANGED <<endpoints, logged, cursor, rows, crashes, since, failures>>

\* Slip: every failure is the first.
SlipCount(d) == 1

Count(d) == d.attempts + 1

\* persistWebhookDeliveryOutcome; the count is the one read with the due row.
Record(t) ==
  LET d == ticks[t].job
      r == d.row
      n == Count(d)
      mine == ticks[t].held
      failing == ~ticks[t].ok /\ mine /\ rows[r].status = "pending"
      wait == Backoff[n]
  IN /\ At(t, "record")
     /\ \/ /\ ticks[t].ok /\ mine /\ rows[r].status \in {"pending", "canceled"}
           /\ rows' = [rows EXCEPT ![r].status = "delivered", ![r].attempts = @ + 1]
           /\ ticks' = [ticks EXCEPT ![t] = NextJob(t)]
           /\ UNCHANGED failures
        \/ /\ failing /\ n >= MaxAttempts
           /\ rows' = [rows EXCEPT ![r].status = "failed", ![r].attempts = n]
           /\ ticks' = [ticks EXCEPT ![t] = NextJob(t)]
           /\ failures' = [failures EXCEPT ![r] = IF @ < MaxAttempts THEN @ + 1 ELSE @]
        \/ /\ failing /\ n < MaxAttempts
           /\ rows' = [rows EXCEPT ![r].attempts = n, ![r].next = wait]
           /\ ticks' = [Retimed(r, wait) EXCEPT ![t] = NextJob(t)]
           /\ failures' = [failures EXCEPT ![r] = IF @ < MaxAttempts THEN @ + 1 ELSE @]
        \/ /\ ~failing /\ ~(ticks[t].ok /\ mine /\ rows[r].status \in {"pending", "canceled"})
           /\ ticks' = [ticks EXCEPT ![t] = NextJob(t)]
           /\ UNCHANGED <<rows, failures>>
     /\ UNCHANGED <<endpoints, logged, cursor, crashes, since, sends, acked>>

Step(t) == Scan(t) \/ Enqueue(t) \/ Save(t) \/ ReadDue(t) \/ Claim(t) \/ Done(t) \/ Refuse(t) \/ Send(t) \/ Record(t)

\* The Worker is gone, or a query fails: the rest of this tick, or of its
\* enqueue pass, does not happen.
Crash(t) ==
  /\ crashes < MaxCrashes /\ ~At(t, "idle")
  /\ crashes' = crashes + 1
  /\ \/ ticks' = [ticks EXCEPT ![t] = Idle]
     \/ ticks[t].pc \in {"scan", "queue"} /\ Goto(t, "due")
  /\ UNCHANGED <<endpoints, logged, cursor, rows, history>>

-----------------------------------------------------------------------------
\* Events, operators and time.

Log == logged < Cardinality(Events) /\ logged' = logged + 1 /\ UNCHANGED <<endpoints, cursor, rows, ticks, crashes, history>>

Later(x) == IF x = Past THEN Past ELSE x - 1

Time ==
  /\ rows' = [r \in Rows |-> [rows[r] EXCEPT !.next = Later(@)]]
  /\ ticks' = [t \in Ticks |-> [ticks[t] EXCEPT !.lease = Later(@)]]
  /\ UNCHANGED <<endpoints, logged, cursor, crashes, history>>

\* handleWebhookCreate, handleWebhookTransition
SetState(e, s) ==
  /\ <<endpoints[e].state, s>> \in {<<"none", "active">>, <<"active", "disabled">>, <<"disabled", "active">>}
  /\ endpoints' = [endpoints EXCEPT ![e].state = s]
  /\ since' = [since EXCEPT ![e] = logged]
  /\ UNCHANGED <<logged, cursor, rows, ticks, crashes, sends, acked, failures>>

\* Slip: only pending deliveries are canceled.
SlipQueued(r) == rows[r].status = "pending"

\* The rows that cancelQueuedDeliveries cancels.
Queued(r) == rows[r].status \in {"pending", "failed"}

\* handleWebhookPatch, when it moves the url or the scope: one batch.
Patch(e, to) ==
  /\ endpoints[e].state # "none" /\ to.url \notin Unsafe /\ to # endpoints[e].to
  /\ endpoints' = [endpoints EXCEPT ![e].to = to]
  /\ rows' = [r \in Rows |-> IF r[1] = e /\ Queued(r) THEN [rows[r] EXCEPT !.status = "canceled"] ELSE rows[r]]
  /\ since' = [since EXCEPT ![e] = logged]
  /\ UNCHANGED <<logged, cursor, ticks, crashes, sends, acked, failures>>

\* redriveWebhookDelivery
Redrive(r) ==
  /\ rows[r].status = "failed"
  /\ rows' = [rows EXCEPT ![r].status = "pending", ![r].attempts = 0, ![r].next = 0]
  /\ ticks' = Retimed(r, 0)
  /\ failures' = [failures EXCEPT ![r] = 0]
  /\ UNCHANGED <<endpoints, logged, cursor, crashes, since, sends, acked>>

Dispatch == \E t \in Ticks : Start(t) \/ Step(t) \/ Crash(t)

Operate ==
  \/ \E e \in Endpoints, s \in {"active", "disabled"} : SetState(e, s)
  \/ \E e \in Endpoints, to \in Destinations : Patch(e, to)
  \/ \E r \in Rows : Redrive(r)

Next == Dispatch \/ Log \/ Time \/ Operate

Spec == Init /\ [][Next]_vars

\* WEBHOOK_DELIVER_TIMEOUT_MS is far below WEBHOOK_CLAIM_TTL_SECONDS: a request
\* is over before its lease.
Prompt == \A t \in Ticks : ticks[t].job # None => ticks[t].lease > 1
PromptTime == Prompt /\ Time

\* The cron fires again and again, a tick that is not stopped goes on, and
\* time passes.
Fairness == WF_vars(PromptTime) /\ \A t \in Ticks : WF_vars(Start(t)) /\ WF_vars(Step(t))

FairNext == Dispatch \/ Log \/ PromptTime
FairSpec == Init /\ [][FairNext]_vars /\ Fairness

-----------------------------------------------------------------------------
\* An active endpoint that has been what it is since before the event was
\* logged gets a delivery before the cursor passes the event (webhook.mjs: "for
\* each event x each active endpoint whose filter matches"), wherever ticks
\* overlap or stop.
Wants(e, n) == endpoints[e].state = "active" /\ since[e] < n /\ Matches(endpoints[e].to.scope, n)
NoEventSkipped == \A e \in Endpoints, n \in Events : n <= cursor /\ Wants(e, n) => rows[<<e, n>>].status # "none"

\* A request goes only where its event was bound to when it was queued: a PATCH
\* between queue, read, claim, retry and redrive cannot move it (deliveries.ts:
\* "only under the endpoint URL and scope in effect when it was queued").
DestinationKept == \A s \in sends : s.url = rows[s.row].queued.url /\ Matches(rows[s.row].queued.scope, s.row[2])

\* Two ticks never have the same delivery in hand while both leases last.
OneSenderPerLease ==
  \A t, u \in Ticks : ~(t # u /\ ticks[t].lease > 0 /\ ticks[u].lease > 0 /\ ticks[t].job.row = ticks[u].job.row)

\* What is recorded as delivered was acknowledged, stays so and is not taken in
\* hand again: the late outcome of an older claim changes nothing.
DeliveredIsFinal ==
  [][\A r \in Rows :
       /\ rows'[r].status = "delivered" => r \in acked
       /\ rows[r].status = "delivered" =>
            /\ rows'[r].status = "delivered"
            /\ \A t \in Ticks : ticks'[t].job # ticks[t].job => (ticks'[t].job # None => ticks'[t].job.row # r)]_vars

\* After MaxAttempts recorded failures a delivery is not tried again
\* (webhook.mjs: "after MAX_ATTEMPTS the delivery is marked 'failed'").
RetriesEnd == \A r \in Rows : failures[r] >= MaxAttempts => rows[r].status # "pending"

\* Every event an active endpoint wants is queued, and its delivery comes to an
\* end, however many ticks overlap, whatever stops and whatever fails.
EventsSettle ==
  \A e \in Endpoints, n \in Events :
    (n <= logged /\ Wants(e, n)) ~> (rows[<<e, n>>].status \in {"delivered", "failed", "canceled"})
=============================================================================
