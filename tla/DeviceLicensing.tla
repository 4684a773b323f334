-------------------------- MODULE DeviceLicensing --------------------------
(***************************************************************************)
(* Device-bound licensing: enrollment, consent, issuance and recovery,     *)
(* retirement, administration and cleanup over one database.               *)
(***************************************************************************)
EXTENDS Enrollment, Consent, Issue, Retire, DeviceAdmin, DeviceCleanup

Tick ==
  /\ now < MaxTime
  /\ now' = now + 1
  /\ UNCHANGED <<customers, entitlements, devices, bindings, attempts, challenges, operations,
                 leases, denials, denyCache, requests, consents, retires, replies>>

Next ==
  \/ EnrollmentNext \/ ConsentNext \/ IssueNext \/ RetireNext
  \/ AdminNext \/ CleanupNext \/ Tick

Spec == Init /\ [][Next]_vars

\* Time passes and an admitted invocation is run to its end by the Worker.
HandlerFairness ==
  /\ WF_vars(Tick)
  /\ \A r \in Requests : WF_vars(IssueStep(r))
  /\ \A s \in Consents : WF_vars(ConsentStep(s))
  /\ \A t \in Retires : WF_vars(RetireStep(t))

\* Each statement of the scheduled cleanup is executed again and again.
CleanupFairness ==
  /\ WF_vars(EraseExpiredApprovals) /\ WF_vars(PurgeChallenges) /\ WF_vars(PurgeUnconsumedAttempts)
  /\ WF_vars(ExpireResponses) /\ WF_vars(PurgeConsumedAttempts) /\ WF_vars(PurgeLeases)

Fairness == HandlerFairness /\ CleanupFairness

FairSpec == Spec /\ Fairness

-----------------------------------------------------------------------------
(* Refinement: every binding is a seat, every lease ever issued a grant. *)

Issued == {r \in Requests : leases[r].row # "none"}

SeatState(state) == CASE state = "none" -> "free" [] state = "active" -> "open" [] state = "retiring" -> "closed"

SeatOf(b) == [state |-> SeatState(bindings[b].state), license |-> bindings[b].license,
              holder |-> bindings[b].key, hold |-> bindings[b].hold]

GrantOf(r) == [seat |-> leases[r].binding, license |-> leases[r].license,
               holder |-> leases[r].opKey[1], until |-> leases[r].accept]

CapTable == [l \in Licenses |-> entitlements[l].max]
SeatTable == [b \in Bindings |-> SeatOf(b)]
Grants == {GrantOf(r) : r \in Issued}

Ledger == INSTANCE SeatLedger WITH
  Seats <- Bindings, Holders <- Keys, NoOne <- None, Times <- 0 .. Horizon, Sizes <- Limits,
  cap <- CapTable, seats <- SeatTable, granted <- Grants

\* The device handlers implement the seat ledger: whatever the interleaving,
\* each of their steps takes, extends, closes or resizes as the ledger allows
\* (bound_store.mjs, bound_retire.mjs and the capacity triggers together).
ImplementsLedger == Ledger!LedgerSpec

-----------------------------------------------------------------------------
(* Safety *)

\* Two enrollments that both read a free slot, a raised and lowered limit, a
\* retirement still on hold: the occupied slots never exceed
\* max_active_devices (bound_store.mjs guard, tr_bound_capacity_decrease).
WithinCapacity == \A l \in Licenses : Cardinality(Occupied(l)) <= entitlements[l].max

\* The devices whose lease on l would still be accepted somewhere.
LiveDevices(l) == {leases[r].opKey[1] : r \in {x \in Issued : leases[x].license = l /\ leases[x].accept > now}}

\* A lease cannot be called back, so its slot must outlive it: no license ever
\* has more devices with an acceptable lease than it allows, across retirement,
\* re-enrollment, renewal and lost answers (hold_until in updateBinding).
LiveDevicesWithinLimit == \A l \in Licenses : Cardinality(LiveDevices(l)) <= entitlements[l].max

\* A retried or duplicated operation is executed once: it issues at most one
\* lease, and every answer it ever gets is the committed one
\* (device_bound_operations, recoverBoundDeviceLease, cached in retireWithActor).
OneAnswerPerOperation ==
  /\ \A x, y \in Issued : leases[x].opKey = leases[y].opKey => x = y
  /\ \A x, y \in replies : x.opKey = y.opKey => x.answer = y.answer

\* One approval enrolls once, however many exchanges present its code.
ApprovalSpentOnce ==
  \A x, y \in Issued : /\ leases[x].opKey[2] = "exchange" /\ leases[y].opKey[2] = "exchange"
                       /\ leases[x].subject = leases[y].subject
                       => x = y

\* An invocation that read the license at its current revision read what the
\* license says now: the limit and the end of the lease it computed are still
\* right. This is what lets the commit compare one number instead of every
\* column (tr_bound_entitlement_revision).
RevisionStandsForAuthority ==
  \A r \in Requests :
    LET q == requests[r] IN
    q.pc \in {"device", "capacity", "commit"} =>
      LET e == entitlements[q.license] IN
      q.entRev = e.rev =>
        /\ q.limit = e.max /\ e.status = "active" /\ e.owner = q.customer
        /\ q.expires <= e.until
        /\ e.lease > 0 => q.expires <= q.issued + e.lease

\* Until its retention ends, a committed exchange can be replayed: its stored
\* response and the consumed attempt that proves it are both still there, for
\* cleanup removes neither early (expireBoundRecovery, purgeExpiredBoundEphemera).
RecoverableWhileRetained ==
  \A o \in OpKeys :
    o[2] = "exchange" /\ operations[o].exists /\ operations[o].retain > now =>
      /\ operations[o].response
      /\ \E a \in Attempts : /\ a = operations[o].digest.subject /\ attempts[a].status = "consumed"
                             /\ attempts[a].op = o[3] /\ attempts[a].inv = operations[o].inv
                             /\ attempts[a].recovery = operations[o].retain

\* A retirement fences: every lease of a retired binding carries an older
\* generation, so no renewal in flight slips a lease past it
\* (generation in BOUND_RETIRE_SQL, tr_bound_device_disable, activeBinding).
RetirementFencesLeases ==
  \A r \in Issued :
    LET b == bindings[leases[r].binding] IN
    IF b.state = "retiring" THEN leases[r].gen < b.gen ELSE leases[r].gen = b.gen

\* What a retirement promised stays true: the slot is free exactly at the
\* effective_release_at it answered, and not later because of a late renewal.
RetirementPromiseKept ==
  \A o \in OpKeys :
    o[2] = "retire" /\ operations[o].exists =>
      LET b == bindings[operations[o].binding] IN
      /\ b.state = "retiring" /\ Later(b.hold, operations[o].committed) = operations[o].release
      /\ \A r \in Issued : leases[r].binding = operations[o].binding => leases[r].accept <= operations[o].release

\* The code a customer is sent back to the application with is the one the
\* exchange will accept, also when two approvals raced or one was retried
\* (approveBoundAuthorization, approvedResponse).
ReturnedCodeIsCommitted ==
  \A s \in Consents :
    consents[s].answer # None /\ consents[s].pc = "done" =>
      LET a == attempts[consents[s].attempt] IN a.status = "purged" \/ a.code = consents[s].answer

\* A denial that was answered is final: no approval of the attempt was or will
\* be answered and it never enrolls a device (denyBoundAuthorization,
\* tr_bound_attempt_terminal).
DenialIsFinal ==
  \A d \in denyCache :
    /\ attempts[d.attempt].status \in {"denied", "purged"}
    /\ \A r \in Issued : leases[r].subject # d.attempt
    /\ \A s \in Consents : consents[s].attempt = d.attempt => consents[s].answer = None

\* A trial starts once: a one-device trial has leases of one device only, and
\* no lease of an activation trial outlives the time counted from the first
\* activation, also when two devices raced to start it (stampTrial).
TrialStartsOnce ==
  \A x \in Issued :
    LET l == leases[x].license
        e == entitlements[l]
    IN  l \in Trials =>
          /\ e.started # NoTime
          /\ l \in OnePerDevice => leases[x].opKey[1] = e.trialKey
          /\ l \notin IssueTrials => leases[x].expires <= e.started + TrialSeconds

\* A client whose operation has committed is never told, from reads that mixed
\* two states, that its enrollment is unavailable, expired or has no room: it
\* would discard an enrollment that exists (recheck in issueBoundLease).
NoFalseDenial ==
  [][\A r \in Requests :
       /\ requests[r].pc \notin {"idle", "done"} /\ requests'[r].pc = "done"
       /\ requests'[r].code \in Rechecked
       => ~operations[RequestOpKey(requests[r])].exists]_vars

-----------------------------------------------------------------------------
(* Liveness *)

\* A retired slot comes back: no renewal or replay keeps extending the hold of
\* a disconnected device (boundOccupiedSql, updateBinding). The holds
\* considered are those that end before the model's clock stops.
RetiredSlotComesBack ==
  \A b \in Bindings :
    bindings[b].state = "retiring" /\ bindings[b].hold <= MaxTime ~> ~Occupies(b)

\* Cleanup in bounded batches catches up: whatever expired while a batch was
\* taken, there comes a time when no expired attempt is left, however it
\* ended, and no expired sealed code either (drainBoundCleanup).
Overdue ==
  {a \in Attempts :
     /\ attempts[a].status \notin {"none", "purged"}
     /\ (IF attempts[a].status = "consumed" THEN attempts[a].recovery ELSE attempts[a].expires) <= now}
LeftSealed == {a \in Attempts : attempts[a].sealed /\ attempts[a].codeExpires <= now}
CleanupCatchesUp == Overdue \cup LeftSealed # {} ~> Overdue \cup LeftSealed = {}
=============================================================================
