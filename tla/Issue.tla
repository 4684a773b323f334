------------------------------- MODULE Issue -------------------------------
(***************************************************************************)
(* bound_issue.mjs, bound_store.mjs and bound_recovery.mjs: the exchange   *)
(* and renew routes. An invocation proves possession of the device key,    *)
(* looks its operation up, reads the authority it needs and ends in one    *)
(* atomic batch that either issues a lease (commit) or returns the stored  *)
(* one (recover). Every read is a step of its own: the batch alone decides *)
(* whether what was read still holds.                                      *)
(***************************************************************************)
EXTENDS DeviceTables

\* What a client may send. arg is 1 for an exchange that presents the code,
\* verifier and redirect of its attempt and 0 for one that does not; for a
\* renewal it is the generation the client holds.
RequestInputs ==
  [purpose: {"exchange"}, subject: Attempts, arg: {0, 1}, op: OpIds, chal: Challenges] \cup
  [purpose: {"renew"}, subject: Bindings, arg: Generations, op: OpIds, chal: Challenges]

RequestDigest(q) == [subject |-> q.subject, arg |-> q.arg, actor |-> "device"]
RequestOpKey(q) == <<q.key, q.purpose, q.op>>

OnlyRequests == UNCHANGED <<now, customers, entitlements, devices, bindings, attempts, challenges,
                            operations, leases, denyCache, consents, retires, replies>>

\* The invocation answers; nothing else of it remains.
Answer(r, code) == requests' = [requests EXCEPT ![r] = [IdleRequest EXCEPT !.pc = "done", !.code = code]]

\* These four denials, made without having seen the operation, are checked
\* once more against the operations table before they are returned.
Rechecked == {"authorization_expired", "authorization_unavailable", "device_limit_reached",
              "binding_unavailable"}

\* Slip: the denial is returned as it was computed.
DenyAtOnce(r, code) == Answer(r, code)

Deny(r, code) ==
  IF requests[r].prior = None /\ code \in Rechecked
  THEN requests' = [requests EXCEPT ![r] = [@ EXCEPT !.pc = "recheck", !.code = code]]
  ELSE Answer(r, code)

-----------------------------------------------------------------------------
(* prove: the subject and the challenge. The challenge exists before the   *)
(* request does, so reading both in one step loses only refusals.          *)

SubjectExists(in) ==
  \/ in.purpose = "exchange" /\ \E a \in Attempts : a = in.subject /\ attempts[a].status \notin {"none", "purged"}
  \/ in.purpose = "renew" /\ \E b \in Bindings : b = in.subject /\ bindings[b].state # "none"

SubjectKey(in) == IF in.purpose = "exchange" THEN attempts[in.subject].key ELSE bindings[in.subject].key

ChallengeFits(c, in) ==
  /\ challenges[c].status = "open" /\ challenges[c].purpose = in.purpose
  /\ challenges[c].subject = in.subject /\ challenges[c].op = in.op

ProveRefusal(in) ==
  IF ~SubjectExists(in)
  THEN IF in.purpose = "exchange" THEN "authorization_unavailable" ELSE "binding_unavailable"
  ELSE IF ~ChallengeFits(in.chal, in) \/ challenges[in.chal].key # SubjectKey(in) THEN "invalid_proof"
  ELSE IF challenges[in.chal].expires <= now THEN "challenge_expired"
  ELSE "none"

\* The columns of attempt row a that the exchange keeps.
AttemptRead(q, a) ==
  [q EXCEPT !.status = attempts[a].status, !.attRev = attempts[a].rev,
            !.customer = attempts[a].customer, !.license = attempts[a].license,
            !.attOp = attempts[a].op, !.attInv = attempts[a].inv,
            !.live = attempts[a].expires > now /\ attempts[a].codeExpires > now]

Proved(in) ==
  LET q == [IdleRequest EXCEPT !.pc = "lookup", !.purpose = in.purpose, !.subject = in.subject,
                               !.arg = in.arg, !.op = in.op, !.chal = in.chal, !.key = SubjectKey(in)]
  IN  IF in.purpose = "exchange" THEN AttemptRead(q, in.subject)
      ELSE [q EXCEPT !.license = bindings[in.subject].license,
                     !.customer = devices[bindings[in.subject].key].customer]

Prove(r, in) ==
  /\ requests[r].pc = "idle"
  /\ IF ProveRefusal(in) = "none"
     THEN requests' = [requests EXCEPT ![r] = Proved(in)]
     ELSE Answer(r, ProveRefusal(in))
  /\ OnlyRequests /\ UNCHANGED denials

\* issueBoundLease: look the operation up.
LookUp(r) ==
  LET q == requests[r] IN
  /\ q.pc = "lookup"
  /\ \E o \in OpKeys :
       /\ o = RequestOpKey(q)
       /\ IF ~operations[o].exists
          THEN requests' = [requests EXCEPT ![r].pc = "license"]
          ELSE IF \/ operations[o].digest # RequestDigest(q)
                  \/ ~operations[o].response \/ operations[o].retain <= now
          THEN Answer(r, "idempotency_conflict")
          ELSE requests' = [requests EXCEPT ![r] =
                 [q EXCEPT !.prior = operations[o].inv, !.priorBinding = operations[o].binding,
                           !.pc = IF q.purpose = "exchange" THEN "reread" ELSE "license"]]
  /\ OnlyRequests /\ UNCHANGED denials

\* A replayed exchange observes the attempt as its own commit left it.
Reread(r) ==
  LET q == requests[r] IN
  /\ q.pc = "reread"
  /\ IF \E a \in Attempts : a = q.subject /\ attempts[a].status \notin {"none", "purged"}
     THEN requests' = [requests EXCEPT ![r] = [AttemptRead(q, q.subject) EXCEPT !.pc = "license"]]
     ELSE Answer(r, "temporarily_unavailable")
  /\ OnlyRequests /\ UNCHANGED denials

-----------------------------------------------------------------------------
(* authority: attempt, binding state, entitlement and customer. *)

AttemptRefusal(q) ==
  IF q.purpose = "renew" THEN "none"
  ELSE IF q.status \notin {"approved", "consumed"} THEN "authorization_unavailable"
  ELSE IF q.arg = 0 THEN "access_denied"
  ELSE IF q.prior = None /\ (q.status # "approved" \/ ~q.live) THEN "authorization_expired"
  ELSE IF q.prior # None /\ (q.status # "consumed" \/ q.attOp # q.op \/ q.attInv # q.prior)
  THEN "authorization_unavailable"
  ELSE "none"

\* The binding a renewal or a replay is about.
TargetBinding(q) ==
  IF q.prior # None THEN q.priorBinding ELSE IF q.purpose = "renew" THEN q.subject ELSE None

Disconnected(q) ==
  \E b \in Bindings : /\ b = TargetBinding(q)
                      /\ \/ bindings[b].state # "active"
                         \/ devices[bindings[b].key].status # "active"

LicenseRefusal(q) ==
  IF AttemptRefusal(q) # "none" THEN AttemptRefusal(q)
  ELSE IF Disconnected(q) THEN "device_retired"
  ELSE IF ~\E l \in Licenses, c \in Customers :
             /\ l = q.license /\ c = q.customer /\ Usable(l, c)
             /\ TrialOpen(l, entitlements[l], q.key, q.purpose = "exchange" /\ q.prior = None)
             /\ (l \in Trials /\ entitlements[l].started = NoTime => entitlements[l].rev < MaxRevision)
  THEN "access_denied"
  ELSE "none"

\* Reads the license; the lease window is computed from this read.
ReadLicense(r) ==
  LET q == requests[r] IN
  /\ q.pc = "license"
  /\ IF LicenseRefusal(q) # "none"
     THEN Deny(r, LicenseRefusal(q))
     ELSE LET e == entitlements[q.license] IN
          requests' = [requests EXCEPT ![r] =
            [q EXCEPT !.pc = "device", !.custRev = customers[q.customer].rev, !.entRev = e.rev,
                      !.limit = e.max, !.issued = now, !.expires = LeaseEnd(q.license, e),
                      !.stamp = q.license \in Trials /\ e.started = NoTime]]
  /\ OnlyRequests /\ UNCHANGED denials

\* The active binding of key k on license l, None when there is none.
ActiveBindingOf(l, k) ==
  LET found == {b \in Bindings : /\ bindings[b].state = "active"
                                 /\ bindings[b].license = l /\ bindings[b].key = k}
  IN  IF found = {} THEN None ELSE CHOOSE b \in found : TRUE

DeviceRefusal(q, b) ==
  LET d == devices[q.key] IN
  IF d.status # "none" /\ d.customer # q.customer THEN "access_denied"
  ELSE IF d.status = "disabled" THEN "device_retired"
  ELSE IF b \in Bindings /\ (bindings[b].key # q.key \/ bindings[b].license # q.license) THEN "access_denied"
  ELSE IF b \in Bindings /\ bindings[b].state # "active" THEN "device_retired"
  ELSE IF TargetBinding(q) # None /\ (b \notin Bindings \/ d.status = "none") THEN "binding_unavailable"
  ELSE IF q.purpose = "renew" /\ bindings[b].gen # q.arg THEN "revision_conflict"
  ELSE "none"

\* Past authority, a lease too short to renew is refused unless it is a replay.
Ready(q) ==
  IF q.prior # None THEN "recover" ELSE IF q.expires - q.issued >= 2 THEN "commit" ELSE "refused"

\* Reads the device and its binding.
ReadDevice(r) ==
  LET q == requests[r]
      d == devices[q.key]
      b == IF TargetBinding(q) # None THEN TargetBinding(q)
           ELSE IF d.status = "none" THEN None ELSE ActiveBindingOf(q.license, q.key)
      known == [q EXCEPT !.known = d.status # "none", !.devRev = d.rev]
  IN
  /\ q.pc = "device"
  /\ IF DeviceRefusal(q, b) # "none" THEN Deny(r, DeviceRefusal(q, b))
     ELSE IF b = None THEN requests' = [requests EXCEPT ![r] = [known EXCEPT !.pc = "capacity"]]
     ELSE IF Ready(q) = "refused" THEN Answer(r, "access_denied")
     ELSE requests' = [requests EXCEPT ![r] =
            [known EXCEPT !.pc = Ready(q), !.binding = b, !.bindRev = bindings[b].rev, !.gen = bindings[b].gen]]
  /\ OnlyRequests /\ UNCHANGED denials

\* The refusal of a full license is recorded once per window and key.
RecordDenial(l, k) ==
  denials' = IF \E d \in denials : d.license = l /\ d.key = k /\ d.ts > now - DenialWindow
             THEN denials
             ELSE denials \cup {[license |-> l, key |-> k, ts |-> now]}

\* Counts the occupied slots for an enrollment without a binding, against the
\* limit that ReadLicense saw.
CheckCapacity(r) ==
  LET q == requests[r] IN
  /\ q.pc = "capacity"
  /\ \E l \in Licenses, k \in Keys :
       /\ l = q.license /\ k = q.key
       /\ \/ /\ Cardinality(Occupied(l)) >= q.limit
             /\ IF ActiveBindingOf(l, k) # None
                THEN Answer(r, "temporarily_unavailable") /\ UNCHANGED denials
                ELSE Deny(r, "device_limit_reached") /\ (RecordDenial(l, k) \/ UNCHANGED denials)
          \/ /\ Cardinality(Occupied(l)) < q.limit
             /\ IF Ready(q) = "refused" THEN Answer(r, "access_denied")
                ELSE requests' = [requests EXCEPT ![r] = [@ EXCEPT !.pc = "commit", !.gen = 1]]
             /\ UNCHANGED denials
  /\ OnlyRequests

\* A denial made from mixed reads is not returned once the operation has committed.
Recheck(r) ==
  LET q == requests[r] IN
  /\ q.pc = "recheck"
  /\ \E o \in OpKeys : /\ o = RequestOpKey(q)
                       /\ Answer(r, IF operations[o].exists THEN "temporarily_unavailable" ELSE q.code)
  /\ OnlyRequests /\ UNCHANGED denials

\* Any await may fail: a rate limit, a D1 or signer error, an evicted isolate.
Fail(r) ==
  /\ requests[r].pc \notin {"idle", "done"}
  /\ Answer(r, "temporarily_unavailable")
  /\ OnlyRequests /\ UNCHANGED denials

-----------------------------------------------------------------------------
(* BOUND_LEASE_COMMIT_SQL: one transaction. unixepoch() may advance between *)
(* its statements; a later one can then only fail the final check, which    *)
(* rolls all of it back as a failed guard does.                             *)

ChallengeLive(q) ==
  \E c \in Challenges : /\ c = q.chal /\ ChallengeFits(c, q)
                        /\ challenges[c].key = q.key /\ challenges[c].expires > now

ActiveDevice(q) == devices[q.key].status = "active" /\ devices[q.key].customer = q.customer
                     /\ devices[q.key].rev = q.devRev

\* Slip: the binding is updated whatever happened to it since it was read.
AnyBinding(b, q) == b = q.binding /\ bindings[b].license = q.license /\ bindings[b].key = q.key

ActiveBinding(b, q) ==
  /\ b = q.binding /\ bindings[b].license = q.license /\ bindings[b].key = q.key
  /\ bindings[b].state = "active" /\ bindings[b].gen = q.gen /\ bindings[b].rev = q.bindRev

ApprovedAttempt(a, q) ==
  /\ a = q.subject /\ attempts[a].status = "approved" /\ attempts[a].rev = q.attRev
  /\ attempts[a].customer = q.customer /\ attempts[a].license = q.license /\ attempts[a].key = q.key
  /\ attempts[a].expires > now /\ attempts[a].codeExpires > now

\* The license still is what the candidate was computed from.
AuthorityHolds(l, q) ==
  LET e == entitlements[l] IN
  /\ Usable(l, q.customer) /\ e.rev = q.entRev /\ customers[q.customer].rev = q.custRev
  /\ TrialOpen(l, e, q.key, TRUE)
  /\ q.issued <= now /\ now < q.expires /\ q.expires <= e.until
  /\ e.lease > 0 => q.expires <= q.issued + e.lease
  /\ q.stamp = (l \in Trials /\ e.started = NoTime)
  /\ q.stamp => e.rev < MaxRevision /\ q.purpose = "exchange"
  /\ l \in Trials => q.expires <= TrialEnd(l, e, q.issued)

\* Slip: the room found by CheckCapacity is not checked again.
MayUseAnyFreeBinding(b, l, q) ==
  \/ ActiveBinding(b, q)
  \/ /\ q.binding = None /\ q.purpose = "exchange"
     /\ bindings[b].state = "none" /\ ActiveBindingOf(l, q.key) = None

\* The binding that b is for the candidate: the one it read, or a fresh one
\* when there is room and the device has none.
MayUseBinding(b, l, q) ==
  \/ ActiveBinding(b, q)
  \/ /\ q.binding = None /\ q.purpose = "exchange"
     /\ bindings[b].state = "none" /\ ActiveBindingOf(l, q.key) = None
     /\ Cardinality(Occupied(l)) < entitlements[l].max

\* BOUND_LEASE_GUARD_SQL for operation o, license l and binding b.
CommitGuard(o, l, b, q) ==
  /\ o = RequestOpKey(q) /\ ~operations[o].exists
  /\ l = q.license /\ q.customer \in Customers /\ AuthorityHolds(l, q)
  /\ ChallengeLive(q)
  /\ MayUseBinding(b, l, q) /\ bindings[b].rev < MaxRevision
  /\ \/ q.purpose = "renew" /\ q.subject = b /\ ActiveDevice(q)
     \/ /\ q.purpose = "exchange" /\ \E a \in Attempts : ApprovedAttempt(a, q)
        /\ IF q.known THEN ActiveDevice(q) ELSE devices[q.key].status = "none"

\* How long a verifier may still accept the lease.
AcceptUntil(q) == q.expires + Allowance

\* consumeChallenge, also of a recovery.
SpendChallenge(r) ==
  challenges' = [c \in Challenges |->
    IF c = requests[r].chal THEN [challenges[c] EXCEPT !.status = "consumed", !.inv = r] ELSE challenges[c]]

\* stampTrial, with the revision its trigger adds.
StampTrial(l, q) ==
  entitlements' = IF ~q.stamp THEN entitlements
    ELSE [entitlements EXCEPT ![l].started = now, ![l].trialKey = q.key, ![l].rev = @ + 1]

CreateDevice(q) ==
  devices' = IF devices[q.key].status # "none" THEN devices
    ELSE [devices EXCEPT ![q.key] = [status |-> "active", customer |-> q.customer, rev |-> 0]]

\* Slip: the slot is held until the lease expires, without the allowance.
HeldToExpiry(hold, q) == Later(hold, q.expires)

Held(hold, q) == Later(hold, AcceptUntil(q))

\* createBinding, then updateBinding: the slot is held until the lease it now
\* carries is no longer acceptable.
BoundRow(row, l, q) ==
  IF row.state = "none"
  THEN [state |-> "active", license |-> l, key |-> q.key, gen |-> 1, rev |-> 1, hold |-> Held(0, q)]
  ELSE [row EXCEPT !.hold = Held(@, q), !.rev = @ + 1]

HoldBinding(b, l, q) == bindings' = [bindings EXCEPT ![b] = BoundRow(@, l, q)]

\* Slip: the attempt stays approved.
KeepApproval(r) == attempts' = attempts

ConsumeApproval(r) ==
  LET q == requests[r] IN
  attempts' = [a \in Attempts |->
    IF q.purpose = "exchange" /\ a = q.subject
    THEN [attempts[a] EXCEPT !.status = "consumed", !.rev = @ + 1, !.sealed = FALSE,
                             !.inv = r, !.op = q.op, !.recovery = now + RecoveryTTL]
    ELSE attempts[a]]

StoreOperation(r, o, b) ==
  LET q == requests[r] IN
  operations' = [operations EXCEPT ![o] =
    [exists |-> TRUE, digest |-> RequestDigest(q), inv |-> r, customer |-> q.customer, binding |-> b,
     response |-> TRUE, committed |-> now, retain |-> now + RecoveryTTL, release |-> 0, rev |-> 0, gen |-> 0]]

IssueLease(r, o, l, b) ==
  LET q == requests[r] IN
  leases' = [leases EXCEPT ![r] =
    [row |-> "stored", opKey |-> o, subject |-> q.subject, license |-> l, binding |-> b,
     gen |-> q.gen, entRev |-> q.entRev + (IF q.stamp THEN 1 ELSE 0),
     issued |-> q.issued, expires |-> q.expires, accept |-> AcceptUntil(q)]]

\* The committed answer reaches the client, or is lost and the client sees 503.
Reply(r, o, answer) ==
  \/ Answer(r, "ok") /\ replies' = replies \cup {[opKey |-> o, answer |-> answer]}
  \/ Answer(r, "temporarily_unavailable") /\ UNCHANGED replies

\* commitBoundDeviceLease
Commit(r, o, l, b) ==
  LET q == requests[r] IN
  /\ q.pc = "commit"
  /\ CommitGuard(o, l, b, q)
  /\ StampTrial(l, q) /\ CreateDevice(q) /\ HoldBinding(b, l, q)
  /\ SpendChallenge(r) /\ ConsumeApproval(r) /\ StoreOperation(r, o, b) /\ IssueLease(r, o, l, b)
  /\ Reply(r, o, r)
  /\ UNCHANGED <<now, customers, denials, denyCache, consents, retires>>

\* The batch aborts: 503, and nothing of it remains.
CommitAborts(r) ==
  /\ requests[r].pc = "commit"
  /\ ~\E o \in OpKeys, l \in Licenses, b \in Bindings : CommitGuard(o, l, b, requests[r])
  /\ Answer(r, "temporarily_unavailable")
  /\ OnlyRequests /\ UNCHANGED denials

-----------------------------------------------------------------------------
(* BOUND_RECOVERY_SQL *)

\* The authority under which operation o may be returned again.
RecoverGuard(o, l, b, q) ==
  LET op == operations[o] IN
  /\ o = RequestOpKey(q) /\ l = q.license /\ b = q.binding
  /\ op.exists /\ op.digest = RequestDigest(q) /\ op.response /\ op.retain > now
  /\ op.customer = q.customer /\ op.binding = b
  /\ q.customer \in Customers /\ ActiveDevice(q)
  /\ bindings[b].key = q.key /\ bindings[b].license = l
  /\ bindings[b].state = "active" /\ bindings[b].gen = q.gen
  /\ Usable(l, q.customer)
  /\ entitlements[l].rev = q.entRev /\ customers[q.customer].rev = q.custRev
  /\ TrialOpen(l, entitlements[l], q.key, FALSE)
  /\ \/ q.purpose = "renew" /\ q.subject = b
     \/ /\ q.purpose = "exchange"
        /\ \E a \in Attempts :
             /\ a = q.subject /\ attempts[a].status = "consumed" /\ attempts[a].inv = op.inv
             /\ attempts[a].op = q.op /\ attempts[a].recovery > now
             /\ attempts[a].customer = q.customer /\ attempts[a].license = l /\ attempts[a].key = q.key
  /\ ChallengeLive(q)

\* recoverBoundDeviceLease: spends the challenge, returns the stored response.
Recover(r, o, l, b) ==
  /\ requests[r].pc = "recover"
  /\ RecoverGuard(o, l, b, requests[r])
  /\ SpendChallenge(r)
  /\ Reply(r, o, operations[o].inv)
  /\ UNCHANGED <<now, customers, entitlements, devices, bindings, attempts, operations, leases,
                 denials, denyCache, consents, retires>>

RecoverAborts(r) ==
  /\ requests[r].pc = "recover"
  /\ ~\E o \in OpKeys, l \in Licenses, b \in Bindings : RecoverGuard(o, l, b, requests[r])
  /\ Answer(r, "temporarily_unavailable")
  /\ OnlyRequests /\ UNCHANGED denials

\* What an invocation that has been admitted does on its own.
IssueStep(r) ==
  \/ LookUp(r) \/ Reread(r) \/ ReadLicense(r) \/ ReadDevice(r) \/ CheckCapacity(r)
  \/ Recheck(r) \/ CommitAborts(r) \/ RecoverAborts(r)
  \/ \E o \in OpKeys, l \in Licenses, b \in Bindings : Commit(r, o, l, b) \/ Recover(r, o, l, b)

IssueNext ==
  \E r \in Requests :
    \/ \E in \in RequestInputs : Prove(r, in)
    \/ IssueStep(r) \/ Fail(r)
=============================================================================
