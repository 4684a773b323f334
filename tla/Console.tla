------------------------------ MODULE Console ------------------------------
(***************************************************************************)
(* Grants as the administration console changes them: create, patch, set   *)
(* the device limit, disable, reenable, revoke, sync, and plan projections *)
(* that are previewed and then applied. Every await of a request is a step *)
(* between which other requests, order ingest and catalog changes run. A   *)
(* client that got no answer repeats its request with the same key.        *)
(***************************************************************************)
EXTENDS Integers, Sequences, FiniteSets

CONSTANTS
  Grants,        \* entitlement keys: features of one license
  Requests,      \* [op, grant, actor, key, status, terms, limit, preview]
  Calls,         \* requests that may be under way at the same time
  Terms,         \* what an order can make of the terms of a grant
  Catalogs,      \* plans: for each grant, the [terms, limit] it stamps, or None
  Previews,      \* preview ids
  Trials,        \* grants that are trials (is_trial)
  MaxSeq,        \* bound of a grant's revocation_seq
  MaxTouches,    \* bound of the catalog changes
  Other,         \* the license's plan belongs to another fingerprint
  None

Statuses == {"active", "disabled", "revoked"}
Operations == {"create", "patch", "limit", "disable", "reenable", "revoke", "sync", "preview", "apply"}

ASSUME ConsoleAssumption ==
  /\ MaxSeq \in Nat /\ MaxTouches \in Nat /\ Trials \subseteq Grants
  /\ \A r \in Requests :
       /\ r.op \in Operations /\ r.grant \in Grants /\ r.status \in Statuses
       /\ r.op = "apply" => r.preview \in Previews

VARIABLES
  grants,        \* entitlements
  log,           \* entitlement_events, grant by grant
  replies,       \* mutation_idempotency
  catalog,       \* the plan a projection reads
  generation,    \* license_plan_projection_generations
  assigned,      \* license_plan_assignments: a plan, None or Other
  previews,      \* license_plan_projection_previews
  calls,
  touches,
  answers        \* history: what was answered as done under a key

console == <<grants, log, replies, catalog, generation, assigned, previews, calls, touches, answers>>

NoGrant == [status |-> "none", seq |-> 0, terms |-> None, limit |-> None, started |-> FALSE]
NoPreview == [state |-> "none"]
Idle == [pc |-> "new"]

Transitions == {"disable", "reenable", "revoke"}
Target(act) == CASE act = "disable" -> "disabled" [] act = "reenable" -> "active" [] act = "revoke" -> "revoked"

ConsoleInit ==
  /\ grants = [f \in Grants |-> NoGrant] /\ log = [f \in Grants |-> <<>>]
  /\ replies = {} /\ answers = {}
  /\ catalog \in Catalogs /\ generation = 0 /\ assigned = None
  /\ previews = [p \in Previews |-> NoPreview]
  /\ calls = [c \in Calls |-> Idle] /\ touches = 0

-----------------------------------------------------------------------------
(* The rows of one call *)

Req(c) == calls[c].req
Row(c) == grants[Req(c).grant]

\* A collection has one scope, a grant one for each of its paths.
Scope(r) ==
  [actor |-> r.actor, op |-> IF r.op = "limit" THEN "patch" ELSE r.op,
   grant |-> IF r.op \in {"create", "sync", "apply"} THEN None ELSE r.grant]

KeyOf(r) == IF r.key = None THEN None ELSE [scope |-> Scope(r), key |-> r.key]

ASSUME NoneIsNoKey == \A r \in Requests : r.key # None => KeyOf(r) # None

Stored(c) == {x \in replies : x.of = KeyOf(Req(c))}

Answered(c, body) ==
  answers' = answers \cup {[of |-> k, body |-> body] : k \in {KeyOf(Req(c))} \ {None}}

CallAt(c, pc) == calls[c].pc = pc
CallGoes(c, pc) == calls' = [calls EXCEPT ![c].pc = pc]
Done(c) == calls' = [calls EXCEPT ![c] = [pc |-> "done"]]

tables == <<grants, log, replies, catalog, generation, assigned, previews, touches>>

\* A cached success stands for a create only if it is about the same grant.
Admitted(c, body) == Req(c).op = "create" => body.grant = Req(c).grant

\* The answer to the same request, if it is stored; else on to the next step.
Replay(c, next) ==
  IF Stored(c) = {} THEN CallGoes(c, next) /\ UNCHANGED answers
  ELSE /\ Done(c)
       /\ \E x \in Stored(c) : IF Admitted(c, x.body) THEN Answered(c, x.body) ELSE UNCHANGED answers

\* A request refused for good: only a create looks once more for a stored answer.
Refused(c) == CallGoes(c, IF Req(c).op = "create" THEN "missed" ELSE "done") /\ UNCHANGED answers

-----------------------------------------------------------------------------
(* Entitlement mutations *)

Arrive(c, r) ==
  /\ CallAt(c, "new")
  /\ calls' = [calls EXCEPT ![c] =
       [pc |-> IF r.op = "preview" THEN "snapshot" ELSE "dedup", req |-> r, act |-> r.op, tries |-> 1,
        expected |-> grants[r.grant], seen |-> NoGrant, data |-> None]]
  /\ UNCHANGED <<tables, answers>>

\* mutationResponse: the replay lookup.
Dedup(c) ==
  /\ CallAt(c, "dedup")
  /\ Replay(c, CASE Req(c).op = "sync" -> "sync" [] Req(c).op = "apply" -> "load" [] OTHER -> "read")
  /\ UNCHANGED tables

NoOp(c) == calls' = [calls EXCEPT ![c].pc = "settle", ![c].data = [grant |-> Req(c).grant, row |-> Row(c)]]

\* syncEntitlement: a withdrawal becomes a transition of the row just read.
ReadSync(c) ==
  LET r == Req(c)
  IN /\ CallAt(c, "sync")
     /\ CASE Row(c).status = r.status /\ Row(c).terms = r.terms -> NoOp(c)
          [] Row(c) # NoGrant /\ r.status # "active" ->
               calls' = [calls EXCEPT ![c].pc = "read", ![c].expected = Row(c),
                                      ![c].act = IF r.status = "revoked" THEN "revoke" ELSE "disable"]
          [] OTHER -> calls' = [calls EXCEPT ![c].pc = "read", ![c].act = "create"]
     /\ UNCHANGED <<tables, answers>>

Expected(c) == Row(c).seq = calls[c].expected.seq

\* The read and the guards of createEntitlement, patchEntitlement,
\* setEntitlementCapacity and transitionEntitlement.
ReadGrant(c) ==
  LET act == calls[c].act
      read == calls' = [calls EXCEPT ![c].pc = "write", ![c].seen = Row(c)] /\ UNCHANGED answers
  IN /\ CallAt(c, "read")
     /\ CASE act = "create" -> IF Row(c).status = "revoked" THEN Refused(c) ELSE read
          [] Row(c) = NoGrant -> Done(c) /\ UNCHANGED answers
          [] ~Expected(c) -> CallGoes(c, "missed") /\ UNCHANGED answers
          [] Row(c).status = "revoked" /\ act # "revoke" -> Done(c) /\ UNCHANGED answers
          [] act \in Transitions /\ Row(c).status = Target(act) -> NoOp(c) /\ UNCHANGED answers
          [] OTHER -> read
     /\ UNCHANGED tables

\* protectedPatchRefusal, the assertion and the capacity triggers of the batch:
\* customers, licenses and connected devices are not in the model.
Refuse(c) ==
  /\ \/ CallAt(c, "read") /\ calls[c].act = "patch"
     \/ CallAt(c, "write") /\ calls[c].act \in {"create", "limit"}
  /\ Refused(c) /\ UNCHANGED tables

Or(x, y) == IF x = None THEN y ELSE x

Written(c) ==
  LET r == Req(c)
      act == calls[c].act
      bumped == [Row(c) EXCEPT !.seq = @ + 1]
  IN CASE act = "create" -> [bumped EXCEPT !.status = r.status, !.terms = r.terms, !.limit = Or(r.limit, Or(@, 1))]
       [] act = "patch" -> [bumped EXCEPT !.terms = r.terms]
       [] act = "limit" -> [bumped EXCEPT !.limit = r.limit]
       [] act \in Transitions -> [bumped EXCEPT !.status = Target(act)]

\* Slip: the write asks only whether there still is such a row.
SlipUnchanged(c) == (Row(c) = NoGrant) = (calls[c].seen = NoGrant)

\* The optimistic claim: status and revocation_seq are those that were read.
Unchanged(c) == Row(c).status = calls[c].seen.status /\ Row(c).seq = calls[c].seen.seq

AuditEntry(prev, next, of) == [source |-> "console", prev |-> prev, next |-> next, of |-> of]

\* What every audit entry tells of a grant: all but the start of its trial.
Told(row) == [status |-> row.status, seq |-> row.seq, terms |-> row.terms, limit |-> row.limit]

\* Slip: the response is stored unless the key has one already.
SlipKeyFree(c) == TRUE

\* The strict insert of the response: a key that is taken fails the batch.
KeyFree(c) == Stored(c) = {}

\* writeEntitlementWithAudit: the row, its event and the stored response, or
\* nothing. A create that lost its claim fails on the protected assertion.
Write(c) ==
  LET r == Req(c)
      f == r.grant
      body == [grant |-> f, row |-> Written(c)]
  IN /\ CallAt(c, "write")
     /\ IF Unchanged(c) /\ KeyFree(c)
        THEN /\ Row(c).seq < MaxSeq
             /\ grants' = [grants EXCEPT ![f] = Written(c)]
             /\ log' = [log EXCEPT ![f] = Append(@, AuditEntry(calls[c].seen, Written(c), KeyOf(r)))]
             /\ replies' = IF r.key = None \/ Stored(c) # {} THEN replies
                           ELSE replies \cup {[of |-> KeyOf(r), body |-> body]}
             /\ generation' = generation + 1
             /\ Answered(c, body) /\ Done(c)
             /\ UNCHANGED <<catalog, assigned, previews, touches>>
        ELSE /\ IF Unchanged(c) THEN CallGoes(c, "missed") /\ UNCHANGED answers
                ELSE IF calls[c].act = "create" THEN Refused(c)
                ELSE CallGoes(c, "classify") /\ UNCHANGED answers
             /\ UNCHANGED tables

\* classifyEntitlementGuardMiss, classifyEntitlementTransitionGuardMiss
Classify(c) ==
  LET act == calls[c].act
  IN /\ CallAt(c, "classify")
     /\ CASE act \in Transitions /\ Row(c).status = Target(act) -> NoOp(c)
          [] Row(c).status = "revoked" /\ act # "revoke" -> Done(c)
          [] OTHER -> CallGoes(c, "missed")
     /\ UNCHANGED <<tables, answers>>

\* The lookup after a lost race, for the answer of the request that won it.
Missed(c) == CallAt(c, "missed") /\ Replay(c, "done") /\ UNCHANGED tables

\* The same lookup when there was nothing to write.
Settle(c) == CallAt(c, "settle") /\ Replay(c, "remember") /\ UNCHANGED tables

\* writeIdempotentResponse: the first writer wins.
Remember(c) ==
  LET r == Req(c)
  IN /\ CallAt(c, "remember")
     /\ IF r.key = None THEN Answered(c, calls[c].data) /\ Done(c) /\ UNCHANGED replies
        ELSE /\ replies' = IF Stored(c) # {} THEN replies
                           ELSE replies \cup {[of |-> KeyOf(r), body |-> calls[c].data]}
             /\ CallGoes(c, "stored") /\ UNCHANGED answers
     /\ UNCHANGED <<grants, log, catalog, generation, assigned, previews, touches>>

Reread(c) == CallAt(c, "stored") /\ Replay(c, "done") /\ UNCHANGED tables

-----------------------------------------------------------------------------
(* Plan projections *)

Live(plan) == {f \in Grants : plan[f] # None}
Matches(row, want) == row.status = "active" /\ row.terms = want.terms /\ row.limit = want.limit

Blocked(s) == \E f \in Live(s.catalog) : s.grants[f].status = "revoked"

\* deriveActions
Created(s) == {f \in Live(s.catalog) : s.grants[f] = NoGrant}
Updated(s) ==
  {f \in Live(s.catalog) : s.grants[f].status \in {"active", "disabled"} /\ ~Matches(s.grants[f], s.catalog[f])}
Disabled(s) == {f \in Grants \ Live(s.catalog) : s.grants[f].status = "active"}

\* buildProjectionSnapshot: one batch of reads.
Snapshot(c) ==
  /\ CallAt(c, "snapshot")
  /\ IF assigned = Other THEN Done(c)
     ELSE calls' = [calls EXCEPT ![c].pc = "persist",
                      ![c].data = [generation |-> generation, grants |-> grants, catalog |-> catalog,
                                   assigned |-> assigned]]
  /\ UNCHANGED <<tables, answers>>

\* previewPlanProjection: expired previews go, and the new one is stored if
\* nothing changed since its reads. An id is never given twice.
Persist(c) ==
  LET s == calls[c].data
      kept == [p \in Previews |-> IF previews[p].state = "lapsed" THEN [state |-> "gone"] ELSE previews[p]]
      unused == {p \in Previews : previews[p].state = "none"}
  IN /\ CallAt(c, "persist") /\ unused # {}
     /\ IF s.generation = generation
        THEN /\ previews' = [kept EXCEPT ![CHOOSE p \in unused : TRUE] =
                               [state |-> "live", actor |-> Req(c).actor, of |-> s]]
             /\ Done(c)
        ELSE /\ previews' = kept
             /\ IF calls[c].tries = 3 THEN Done(c)
                ELSE calls' = [calls EXCEPT ![c].pc = "snapshot", ![c].tries = @ + 1, ![c].data = None]
     /\ UNCHANGED <<grants, log, replies, catalog, generation, assigned, touches, answers>>

\* storedPreview
Load(c) ==
  LET p == Req(c).preview
  IN /\ CallAt(c, "load")
     /\ CASE previews[p].state \in {"none", "gone"} -> CallGoes(c, "missed")
          [] Blocked(previews[p].of) -> Done(c)
          [] OTHER -> calls' = [calls EXCEPT ![c].pc = "apply", ![c].data = previews[p].of]
     /\ UNCHANGED <<tables, answers>>

\* Slip: only the conditions on the preview itself.
SlipClaimable(c) == previews[Req(c).preview].state = "live"

\* claimStatement
Claimable(c) ==
  LET p == previews[Req(c).preview]
  IN /\ p.state = "live" /\ p.actor = Req(c).actor
     /\ p.of.generation = generation
     /\ assigned # Other /\ assigned = p.of.assigned

\* claimFailureStatement: only a stale preview leads to another lookup.
ClaimFailed(c) ==
  LET p == previews[Req(c).preview]
      told == p.actor = Req(c).actor /\ assigned = Other
  IN \/ ~told /\ CallGoes(c, "missed")
     \/ (told \/ p.state = "lapsed") /\ Done(c)

\* The rows of a projection, each in its statement of the batch.
Projected(f, s) ==
  LET bumped == [grants[f] EXCEPT !.seq = @ + 1]
  IN CASE f \in Created(s) \cup Updated(s) ->
            [bumped EXCEPT !.status = "active", !.terms = s.catalog[f].terms, !.limit = s.catalog[f].limit]
       [] f \in Disabled(s) -> [bumped EXCEPT !.status = "disabled"]

\* applyPlanProjection: the claim and every write in one batch; a key that is
\* taken, or an action that did not land, fails all of it.
Apply(c) ==
  LET r == Req(c)
      s == calls[c].data
      changed == Created(s) \cup Updated(s) \cup Disabled(s)
      body == [preview |-> r.preview]
  IN /\ CallAt(c, "apply")
     /\ IF ~Claimable(c) THEN ClaimFailed(c) /\ UNCHANGED <<tables, answers>>
        ELSE IF Stored(c) # {} THEN Done(c) /\ UNCHANGED <<tables, answers>>
        ELSE /\ \A f \in changed : grants[f].seq < MaxSeq
             /\ grants' = [f \in Grants |-> IF f \in changed THEN Projected(f, s) ELSE grants[f]]
             /\ log' = [f \in Grants |->
                          IF f \in changed THEN Append(log[f], AuditEntry(s.grants[f], Projected(f, s), KeyOf(r)))
                          ELSE log[f]]
             /\ replies' = IF r.key = None THEN replies ELSE replies \cup {[of |-> KeyOf(r), body |-> body]}
             /\ assigned' = s.catalog /\ generation' = generation + 1
             /\ previews' = [previews EXCEPT ![r.preview].state = "consumed"]
             /\ Answered(c, body) /\ Done(c)
             /\ UNCHANGED <<catalog, touches>>

-----------------------------------------------------------------------------
(* Everything else that writes these tables *)

\* A plan, a feature or a policy changes, or another fingerprint of the license
\* is assigned a plan.
Touch ==
  /\ touches < MaxTouches /\ touches' = touches + 1
  /\ generation' = generation + 1
  /\ \/ catalog' \in Catalogs /\ UNCHANGED assigned
     \/ assigned' = Other /\ UNCHANGED catalog
  /\ UNCHANGED <<grants, log, replies, previews, calls, answers>>

\* stampTrial: the first device of a trial starts it. The write counts for the
\* generation, by the trigger, but not in revocation_seq, and has no event.
StampTrial(f) ==
  /\ f \in Trials /\ grants[f].status = "active" /\ ~grants[f].started
  /\ grants' = [grants EXCEPT ![f].started = TRUE]
  /\ generation' = generation + 1
  /\ UNCHANGED <<log, replies, catalog, assigned, previews, calls, touches, answers>>

\* Order ingest renews a grant, with an event of its own, which leaves the start
\* of a trial out.
Renew(f) ==
  /\ grants[f].status \in {"active", "disabled"} /\ grants[f].seq < MaxSeq
  /\ \E t \in Terms : grants' = [grants EXCEPT ![f].terms = t, ![f].seq = @ + 1]
  /\ log' = [log EXCEPT ![f] = Append(@, [source |-> "order", next |-> Told(grants'[f]), of |-> None])]
  /\ generation' = generation + 1
  /\ UNCHANGED <<replies, catalog, assigned, previews, calls, touches, answers>>

\* A preview, or a grant it would make, runs out.
Lapse(p) ==
  /\ previews[p].state \in {"live", "consumed"}
  /\ previews' = [previews EXCEPT ![p].state = "lapsed"]
  /\ UNCHANGED <<grants, log, replies, catalog, generation, assigned, calls, touches, answers>>

CallStep(c) ==
  \/ Dedup(c) \/ ReadSync(c) \/ ReadGrant(c) \/ Refuse(c) \/ Write(c) \/ Classify(c)
  \/ Missed(c) \/ Settle(c) \/ Remember(c) \/ Reread(c)
  \/ Snapshot(c) \/ Persist(c) \/ Load(c) \/ Apply(c)

ConsoleNext ==
  \/ \E c \in Calls : CallStep(c) \/ \E r \in Requests : Arrive(c, r)
  \/ Touch \/ (\E f \in Grants : Renew(f) \/ StampTrial(f)) \/ (\E p \in Previews : Lapse(p))

ConsoleSpec == ConsoleInit /\ [][ConsoleNext]_console

-----------------------------------------------------------------------------
\* The audit log has no gaps and no invented past: what a console event says
\* the grant was before is what the event before it left, and the row is what
\* the last event says, whoever else wrote between the read and the batch
\* (entitlement_mutation.mjs writeEntitlementWithAudit, plan_projection.mjs
\* entitlementAuditStatement).
EventsChain ==
  \A f \in Grants :
    /\ Told(grants[f]) = Told(IF log[f] = <<>> THEN NoGrant ELSE log[f][Len(log[f])].next)
    /\ \A i \in DOMAIN log[f] : log[f][i].source = "console" =>
         Told(log[f][i].prev) = Told(IF i = 1 THEN NoGrant ELSE log[f][i - 1].next)

\* The start of a trial has no event and no claim asks for it (bound_store.mjs
\* stampTrial), so the prev of an event may lack one that came between its read
\* and its batch, and the row may have one that no event tells. But no event and
\* no write undoes a start that an event has told.
StartsKept ==
  \A f \in Grants : \A i \in DOMAIN log[f] : log[f][i].source = "console" =>
    /\ log[f][i].prev.started => log[f][i].next.started
    /\ log[f][i].next.started =>
         /\ grants[f].started
         /\ \A j \in DOMAIN log[f] : j > i /\ log[f][j].source = "console" => log[f][j].prev.started

\* The events of a grant are its history, as far as each of its writers tells it.
AuditUnbroken == EventsChain /\ StartsKept

\* However often and however concurrently a request is repeated with its key,
\* it takes effect once and everybody is told the same (idempotency.ts
\* mutationResponse).
KeySpentOnce ==
  /\ \A x, y \in answers : x.of = y.of => x.body = y.body
  /\ \A f, g \in Grants : \A i \in DOMAIN log[f], j \in DOMAIN log[g] :
       LET of == log[f][i].of
       IN of # None /\ of = log[g][j].of => (f = g => i = j) /\ (f # g => of.scope.op = "apply")

\* A preview is applied at most once, and applying it does exactly what
\* the preview showed: at that moment the plan, the assignment and every grant
\* are still what the preview was computed from (plan_projection.mjs:3-6).
ProjectedAsPreviewed ==
  [][\A p \in Previews :
       previews[p].state # "consumed" /\ previews'[p].state = "consumed"
       => LET s == previews'[p].of
          IN /\ previews[p].state = "live" /\ s.grants = grants /\ s.catalog = catalog /\ s.assigned = assigned
             /\ \A f \in Grants : IF f \in Live(s.catalog) THEN Matches(grants'[f], s.catalog[f])
                                ELSE grants'[f].status \in {"none", "disabled", "revoked"}]_console
=============================================================================
