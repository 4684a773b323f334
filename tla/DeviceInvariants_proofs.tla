----------------------- MODULE DeviceInvariants_proofs -----------------------
(***************************************************************************)
(* The invariants of device-bound licensing beyond capacity, for every     *)
(* number of devices, licenses and invocations: a retried operation has    *)
(* one answer, an approval is spent once, a retirement fences and keeps    *)
(* its promise, a denial is final, a trial starts once. First which steps  *)
(* write which table, then how a row may change, then the invariants.      *)
(***************************************************************************)
EXTENDS DeviceLicensing_proofs

\* Some invocation commits its batch (commitBoundDeviceLease).
Commits == \E r \in Requests, o \in OpKeys, l \in Licenses, b \in Bindings : Commit(r, o, l, b)

\* Some retirement commits its batch (BOUND_RETIRE_SQL).
Retirements == \E t \in Retires, o \in OpKeys, b \in Bindings : RetireBatch(t, o, b)

\* Some attempt is opened, approved or denied.
Decisions ==
  \/ \E a \in Attempts, k \in Keys : CreateAuthorization(a, k)
  \/ \E s \in Consents, a \in Attempts, c \in Customers, l \in Licenses : Approve(s, a, c, l)
  \/ \E s \in Consents, a \in Attempts, c \in Customers :
       /\ DenyBatch(s, a, c) /\ DenyGuard(a, c, consents[s])
       /\ attempts' = [attempts EXCEPT ![a] = Denied(@)]

-----------------------------------------------------------------------------
(* Which steps write which table. *)

\* A step of an exchange or a renewal that does not commit writes no table but
\* challenges and denials.
LEMMA IssueFrame ==
  ASSUME IssueNext, ~Commits
  PROVE  UNCHANGED <<now, customers, entitlements, devices, bindings, attempts, operations, leases, denyCache,
                     consents, retires>>
<1>1. PICK r \in Requests : (\E in \in RequestInputs : Prove(r, in)) \/ IssueStep(r) \/ Fail(r)
  BY DEF IssueNext
<1>2. CASE OnlyRequests
  BY <1>2 DEF OnlyRequests
<1>3. CASE \E in \in RequestInputs : Prove(r, in)
  BY <1>2, <1>3 DEF Prove
<1>4. CASE LookUp(r) \/ Reread(r) \/ ReadLicense(r)
  BY <1>2, <1>4 DEF LookUp, Reread, ReadLicense
<1>5. CASE ReadDevice(r) \/ CheckCapacity(r) \/ Recheck(r)
  BY <1>2, <1>5 DEF ReadDevice, CheckCapacity, Recheck
<1>6. CASE CommitAborts(r) \/ RecoverAborts(r) \/ Fail(r)
  BY <1>2, <1>6 DEF CommitAborts, RecoverAborts, Fail
<1>7. CASE \E o \in OpKeys, l \in Licenses, b \in Bindings : Recover(r, o, l, b)
  BY <1>7 DEF Recover
<1> QED BY <1>1, <1>3, <1>4, <1>5, <1>6, <1>7 DEF IssueStep, Commits

\* A step of a retirement that does not commit writes no table.
LEMMA RetireFrame ==
  ASSUME RetireNext
  PROVE  /\ UNCHANGED <<now, customers, entitlements, devices, attempts, challenges, leases, denials, denyCache,
                        requests, consents>>
         /\ UNCHANGED <<bindings, operations>> \/ Retirements
<1>1. PICK t \in Retires :
        \/ RetireStep(t) \/ RetireFails(t)
        \/ \E b \in Bindings, c \in Customers, actor \in {"customer", "operator"},
              expected \in Revisions, op \in OpIds : ReadRetire(t, b, c, actor, expected, op)
  BY DEF RetireNext
<1>2. RetireAborts(t) \/ RetireFails(t) => OnlyRetires /\ UNCHANGED <<bindings, operations>>
  BY DEF RetireAborts, RetireFails
<1>3. \A o \in OpKeys, b \in Bindings : RetireBatch(t, o, b) => OnlyRetires
  BY DEF RetireBatch
<1>4. \A b \in Bindings, c \in Customers :
        RetireCached(t, b, c) \/ RetireCurrent(t, b, c) => OnlyRetires /\ UNCHANGED <<bindings, operations>>
  BY DEF RetireCached, RetireCurrent
<1>5. \A b \in Bindings, c \in Customers, actor \in {"customer", "operator"}, expected \in Revisions, op \in OpIds :
        ReadRetire(t, b, c, actor, expected, op) => OnlyRetires /\ UNCHANGED <<bindings, operations>>
  <2>1. SUFFICES ASSUME NEW b \in Bindings, NEW c \in Customers, NEW actor \in {"customer", "operator"},
                        NEW expected \in Revisions, NEW op \in OpIds, ReadRetire(t, b, c, actor, expected, op)
                 PROVE  OnlyRetires /\ UNCHANGED <<bindings, operations>>
    OBVIOUS
  <2> QED BY <2>1, Zenon DEF ReadRetire
<1>6. OnlyRetires /\ (UNCHANGED <<bindings, operations>> \/ Retirements)
  BY <1>1, <1>2, <1>3, <1>4, <1>5 DEF RetireStep, Retirements
<1> QED BY <1>6 DEF OnlyRetires

\* Enrollment opens attempts and adds challenges.
LEMMA EnrollmentFrame ==
  ASSUME EnrollmentNext
  PROVE  /\ UNCHANGED <<now, customers, entitlements, devices, bindings, operations, leases, denials, denyCache,
                        requests, consents, retires, replies>>
         /\ UNCHANGED attempts \/ Decisions
<1>1. \A c \in Challenges, a \in Attempts, op \in OpIds :
        ExchangeChallenge(c, a, op) =>
          UNCHANGED <<now, customers, entitlements, devices, bindings, attempts, operations, leases, denials,
                      denyCache, requests, consents, retires, replies>>
  BY DEF ExchangeChallenge, AddChallenge
<1>2. \A c \in Challenges, b \in Bindings, op \in OpIds :
        RenewChallenge(c, b, op) =>
          UNCHANGED <<now, customers, entitlements, devices, bindings, attempts, operations, leases, denials,
                      denyCache, requests, consents, retires, replies>>
  BY DEF RenewChallenge, AddChallenge
<1>3. \A a \in Attempts, k \in Keys :
        CreateAuthorization(a, k) =>
          UNCHANGED <<now, customers, entitlements, devices, bindings, operations, leases, denials,
                      denyCache, requests, consents, retires, replies>>
  BY DEF CreateAuthorization
<1> QED BY <1>1, <1>2, <1>3 DEF EnrollmentNext, Decisions

\* Consent decides attempts, and answers.
LEMMA ConsentFrame ==
  ASSUME ConsentNext
  PROVE  /\ UNCHANGED <<now, customers, entitlements, devices, bindings, challenges, operations, leases, denials,
                        requests, retires, replies>>
         /\ UNCHANGED <<attempts, denyCache>> \/ Decisions
<1>1. PICK s \in Consents :
        \/ ConsentStep(s) \/ ConsentFails(s)
        \/ \E a \in Attempts, c \in Customers, expected \in SeenRevisions, op \in OpIds :
             \/ ReadDenial(s, a, c, expected, op)
             \/ \E l \in Licenses : ReadApproval(s, a, c, l, expected, op)
  BY DEF ConsentNext
<1>2. ConsentFails(s) \/ ApproveLoses(s) => OnlyConsents /\ UNCHANGED <<attempts, denyCache>>
  BY DEF ConsentFails, ApproveLoses
<1>3. \A a \in Attempts, c \in Customers :
        /\ RereadApproval(s, a, c) \/ ReconcileDenial(s, a, c) => OnlyConsents /\ UNCHANGED <<attempts, denyCache>>
        /\ DenyBatch(s, a, c) => /\ OnlyConsents
                                 /\ \/ UNCHANGED <<attempts, denyCache>>
                                    \/ /\ DenyGuard(a, c, consents[s])
                                       /\ attempts' = [attempts EXCEPT ![a] = Denied(@)]
  BY DEF RereadApproval, ReconcileDenial, DenyBatch
<1>4. \A a \in Attempts, c \in Customers, l \in Licenses :
        /\ Approve(s, a, c, l) => OnlyConsents
        /\ OpenApproval(s, a, c, l) => OnlyConsents /\ UNCHANGED <<attempts, denyCache>>
  BY DEF Approve, OpenApproval
<1>5. \A a \in Attempts, c \in Customers, expected \in SeenRevisions, op \in OpIds :
        ReadDenial(s, a, c, expected, op) => OnlyConsents /\ UNCHANGED <<attempts, denyCache>>
  BY DEF ReadDenial
<1>6. \A a \in Attempts, c \in Customers, l \in Licenses, expected \in SeenRevisions, op \in OpIds :
        ReadApproval(s, a, c, l, expected, op) => OnlyConsents /\ UNCHANGED <<attempts, denyCache>>
  BY DEF ReadApproval
<1>7. ConsentStep(s) => OnlyConsents /\ (UNCHANGED <<attempts, denyCache>> \/ Decisions)
  BY <1>2, <1>3, <1>4, Zenon DEF ConsentStep, Decisions
<1>8. OnlyConsents /\ (UNCHANGED <<attempts, denyCache>> \/ Decisions)
  BY <1>1, <1>2, <1>5, <1>6, <1>7, Zenon
<1> QED BY <1>8 DEF OnlyConsents

\* Administration writes authority only.
LEMMA AdminFrame ==
  ASSUME AdminNext
  PROVE  UNCHANGED <<now, attempts, challenges, operations, leases, denials, denyCache, requests, consents,
                     retires, replies>>
BY DEF AdminNext, TransitionEntitlement, UpdateEntitlement, SetEntitlementCapacity, WriteEntitlement,
       TransitionCustomer, TransitionDevice, OnlyAuthority

\* Each cleanup statement writes its own table.
LEMMA CleanupFrame ==
  ASSUME CleanupNext
  PROVE  /\ UNCHANGED <<now, customers, entitlements, devices, bindings, denials, denyCache, requests, consents,
                        retires, replies>>
         /\ UNCHANGED attempts \/ EraseExpiredApprovals \/ PurgeUnconsumedAttempts \/ PurgeConsumedAttempts
         /\ UNCHANGED operations \/ ExpireResponses
         /\ UNCHANGED leases \/ PurgeLeases
<1>1. EraseExpiredApprovals \/ PurgeChallenges => OnlyCleanup /\ UNCHANGED <<operations, leases>>
  BY DEF EraseExpiredApprovals, PurgeChallenges
<1>2. PurgeUnconsumedAttempts \/ PurgeConsumedAttempts => OnlyCleanup /\ UNCHANGED <<operations, leases>>
  BY DEF PurgeUnconsumedAttempts, PurgeConsumedAttempts
<1>3. PurgeChallenges => UNCHANGED attempts
  BY DEF PurgeChallenges
<1>4. ExpireResponses => OnlyCleanup /\ UNCHANGED <<attempts, leases>>
  BY DEF ExpireResponses
<1>5. PurgeLeases => OnlyCleanup /\ UNCHANGED <<attempts, operations>>
  BY DEF PurgeLeases
<1> QED BY <1>1, <1>2, <1>3, <1>4, <1>5 DEF CleanupNext, OnlyCleanup

\* Every table has few writers.
LEMMA Writers ==
  ASSUME [Next]_vars
  PROVE  /\ UNCHANGED operations \/ Commits \/ Retirements \/ ExpireResponses
         /\ UNCHANGED leases \/ Commits \/ PurgeLeases
         /\ UNCHANGED bindings \/ Commits \/ Retirements \/ AdminNext
         /\ UNCHANGED attempts \/ Commits \/ Decisions \/ EraseExpiredApprovals \/ PurgeUnconsumedAttempts
              \/ PurgeConsumedAttempts
         /\ UNCHANGED <<entitlements, devices>> \/ Commits \/ AdminNext
         /\ UNCHANGED <<consents, denyCache>> \/ ConsentNext
         /\ UNCHANGED requests \/ IssueNext
         /\ UNCHANGED replies \/ IssueNext \/ RetireNext
         /\ UNCHANGED now \/ Tick
<1>1. CASE IssueNext
  <2>1. Commits => UNCHANGED <<now, consents, denyCache>>
    BY DEF Commits, Commit
  <2> QED BY <1>1, <2>1, IssueFrame
<1>2. CASE Tick
  BY <1>2 DEF Tick
<1>3. CASE UNCHANGED vars
  BY <1>3 DEF vars
<1> QED BY <1>1, <1>2, <1>3, RetireFrame, EnrollmentFrame, ConsentFrame, AdminFrame, CleanupFrame DEF Next

-----------------------------------------------------------------------------
(* What a commit writes, table by table. *)

\* StoreOperation: the operation is new, and answered by the committing invocation.
LEMMA CommitOperation ==
  ASSUME TypeOK, NEW r \in Requests, NEW o \in OpKeys, NEW l \in Licenses, NEW b \in Bindings, Commit(r, o, l, b)
  PROVE  /\ o = <<requests[r].key, requests[r].purpose, requests[r].op>>
         /\ ~operations[o].exists
         /\ operations'[o].exists /\ operations'[o].inv = r /\ operations'[o].binding = b
         /\ operations'[o].digest.subject = requests[r].subject
         /\ operations'[o].response /\ operations'[o].retain = now + RecoveryTTL
         /\ \A x \in OpKeys \ {o} : operations'[x] = operations[x]
<1> DEFINE row == [exists |-> TRUE, digest |-> RequestDigest(requests[r]), inv |-> r, customer |-> requests[r].customer,
                   binding |-> b, response |-> TRUE, committed |-> now, retain |-> now + RecoveryTTL,
                   release |-> 0, rev |-> 0, gen |-> 0]
<1>1. operations' = [operations EXCEPT ![o] = row]
  BY DEF Commit, StoreOperation
<1>2. operations'[o] = row /\ \A x \in OpKeys \ {o} : operations'[x] = operations[x]
  BY <1>1 DEF TypeOK
<1>3. o = <<requests[r].key, requests[r].purpose, requests[r].op>> /\ ~operations[o].exists
  BY DEF Commit, CommitGuard, RequestOpKey
<1> QED BY <1>2, <1>3 DEF RequestDigest

\* IssueLease: only the committing invocation's lease is written.
LEMMA CommitLease ==
  ASSUME TypeOK, NEW r \in Requests, NEW o \in OpKeys, NEW l \in Licenses, NEW b \in Bindings, Commit(r, o, l, b)
  PROVE  /\ leases'[r].row = "stored" /\ leases'[r].opKey = o /\ leases'[r].subject = requests[r].subject
         /\ leases'[r].license = l /\ leases'[r].binding = b /\ leases'[r].gen = requests[r].gen
         /\ leases'[r].expires = requests[r].expires /\ leases'[r].accept = requests[r].expires + Allowance
         /\ \A x \in Requests \ {r} : leases'[x] = leases[x]
<1> DEFINE q == requests[r]
           row == [row |-> "stored", opKey |-> o, subject |-> q.subject, license |-> l, binding |-> b,
                   gen |-> q.gen, entRev |-> q.entRev + (IF q.stamp THEN 1 ELSE 0),
                   issued |-> q.issued, expires |-> q.expires, accept |-> AcceptUntil(q)]
<1>1. leases' = [leases EXCEPT ![r] = row]
  BY DEF Commit, IssueLease
<1>2. leases'[r] = row /\ \A x \in Requests \ {r} : leases'[x] = leases[x]
  BY <1>1 DEF TypeOK
<1> QED BY <1>2 DEF AcceptUntil

\* HoldBinding: the binding is the one the invocation read, or a fresh one.
LEMMA CommitBinding ==
  ASSUME TypeOK, NEW r \in Requests, NEW o \in OpKeys, NEW l \in Licenses, NEW b \in Bindings, Commit(r, o, l, b)
  PROVE  /\ \/ /\ bindings[b].state = "active" /\ bindings'[b].hold >= bindings[b].hold
               /\ bindings'[b].gen = bindings[b].gen /\ requests[r].gen = bindings[b].gen
            \/ bindings[b].state = "none" /\ requests[r].binding = None /\ bindings'[b].gen = 1
         /\ bindings'[b].state = "active"
         /\ bindings'[b].hold >= requests[r].expires + Allowance
         /\ \A x \in Bindings \ {b} : bindings'[x] = bindings[x]
<1> DEFINE q == requests[r]
<1>1. bindings'[b] = BoundRow(bindings[b], l, q) /\ \A x \in Bindings \ {b} : bindings'[x] = bindings[x]
  BY DEF Commit, HoldBinding, TypeOK
<1>2. /\ bindings[b].hold \in Nat /\ bindings[b] \in BindingRow
      /\ q.expires \in Nat /\ Allowance \in Nat
  BY TimingAssumption DEF TypeOK, BindingRow, RequestState, Horizon
<1>3. \/ bindings[b].state = "active" /\ bindings[b].gen = q.gen
      \/ bindings[b].state = "none" /\ q.binding = None
  BY DEF Commit, CommitGuard, MayUseBinding, ActiveBinding
<1>4. CASE bindings[b].state = "active"
  <2>1. bindings'[b] = [bindings[b] EXCEPT !.hold = Held(@, q), !.rev = @ + 1]
    BY <1>1, <1>4 DEF BoundRow
  <2>2. /\ bindings'[b].gen = bindings[b].gen /\ bindings'[b].state = "active"
        /\ bindings'[b].hold = Held(bindings[b].hold, q)
    BY <1>2, <1>4, <2>1 DEF BindingRow
  <2> QED BY <1>1, <1>2, <1>3, <1>4, <2>2 DEF Held, Later, AcceptUntil
<1>5. CASE bindings[b].state = "none"
  <2>1. /\ bindings'[b].gen = 1 /\ bindings'[b].state = "active" /\ bindings'[b].hold = Held(0, q)
    BY <1>1, <1>5 DEF BoundRow
  <2> QED BY <1>1, <1>2, <1>3, <1>5, <2>1 DEF Held, Later, AcceptUntil
<1> QED BY <1>3, <1>4, <1>5

\* ConsumeApproval: an exchange consumes the approved attempt it presents.
LEMMA CommitAttempts ==
  ASSUME TypeOK, NEW r \in Requests, NEW o \in OpKeys, NEW l \in Licenses, NEW b \in Bindings, Commit(r, o, l, b)
  PROVE  /\ requests[r].purpose = "exchange" =>
              LET a == requests[r].subject IN
              /\ a \in Attempts /\ attempts[a].status = "approved"
              /\ attempts'[a].status = "consumed" /\ attempts'[a].inv = r /\ attempts'[a].op = requests[r].op
              /\ attempts'[a].recovery = now + RecoveryTTL /\ attempts'[a].code = attempts[a].code
              /\ \A x \in Attempts \ {a} : attempts'[x] = attempts[x]
         /\ requests[r].purpose = "renew" => UNCHANGED attempts /\ requests[r].subject = b
<1> DEFINE q == requests[r]
<1>1. attempts' = [a \in Attempts |->
        IF q.purpose = "exchange" /\ a = q.subject
        THEN [attempts[a] EXCEPT !.status = "consumed", !.rev = @ + 1, !.sealed = FALSE,
                                 !.inv = r, !.op = q.op, !.recovery = now + RecoveryTTL]
        ELSE attempts[a]]
  BY DEF Commit, ConsumeApproval
<1>2. CASE q.purpose = "exchange"
  <2>1. q.subject \in Attempts /\ attempts[q.subject].status = "approved"
    BY <1>2 DEF Commit, CommitGuard, ApprovedAttempt
  <2>2. attempts[q.subject] \in AttemptRow
    BY <2>1 DEF TypeOK
  <2>3. /\ attempts'[q.subject] = [attempts[q.subject] EXCEPT !.status = "consumed", !.rev = @ + 1, !.sealed = FALSE,
                                 !.inv = r, !.op = q.op, !.recovery = now + RecoveryTTL]
        /\ \A x \in Attempts \ {q.subject} : attempts'[x] = attempts[x]
    BY <1>1, <1>2, <2>1
  <2> QED BY <1>2, <2>1, <2>2, <2>3 DEF AttemptRow
<1>3. CASE q.purpose = "renew"
  <2>1. attempts' = [a \in Attempts |-> attempts[a]]
    BY <1>1, <1>3
  <2> QED BY <1>3, <2>1 DEF TypeOK, Commit, CommitGuard
<1> QED BY <1>2, <1>3

\* StampTrial: the first activation of a trial is written once, with the key
\* that made it, and the license counts it.
LEMMA CommitEntitlement ==
  ASSUME TypeOK, NEW r \in Requests, NEW o \in OpKeys, NEW l \in Licenses, NEW b \in Bindings, Commit(r, o, l, b)
  PROVE  /\ \A x \in Licenses \ {l} : entitlements'[x] = entitlements[x]
         /\ IF l \in Trials /\ entitlements[l].started = NoTime
            THEN /\ entitlements'[l].started = now /\ entitlements'[l].trialKey = requests[r].key
                 /\ entitlements'[l].rev = entitlements[l].rev + 1
            ELSE entitlements'[l] = entitlements[l]
<1> DEFINE q == requests[r]
<1>1. q.stamp = (l \in Trials /\ entitlements[l].started = NoTime)
  BY DEF Commit, CommitGuard, AuthorityHolds
<1>2. entitlements[l] \in EntitlementRow
  BY DEF TypeOK
<1>3. CASE q.stamp
  <2>1. entitlements' = [entitlements EXCEPT ![l].started = now, ![l].trialKey = q.key, ![l].rev = @ + 1]
    BY <1>3 DEF Commit, StampTrial
  <2> QED BY <1>1, <1>2, <1>3, <2>1 DEF TypeOK, EntitlementRow
<1>4. CASE ~q.stamp
  BY <1>1, <1>4 DEF Commit, StampTrial
<1> QED BY <1>3, <1>4

-----------------------------------------------------------------------------
(* How a row may change. *)

\* An operation, once stored, stands: cleanup takes the response only when its
\* retention has ended, and nothing rewrites the rest.
LEMMA OperationsStand ==
  ASSUME TypeOK, [Next]_vars, NEW o \in OpKeys, operations[o].exists
  PROVE  /\ operations'[o].exists
         /\ operations'[o].digest = operations[o].digest /\ operations'[o].inv = operations[o].inv
         /\ operations'[o].binding = operations[o].binding /\ operations'[o].committed = operations[o].committed
         /\ operations'[o].retain = operations[o].retain /\ operations'[o].release = operations[o].release
         /\ operations'[o].response = operations[o].response \/ operations[o].retain <= now
<1>1. CASE UNCHANGED operations
  BY <1>1
<1>2. CASE Commits
  <2>1. PICK r \in Requests, p \in OpKeys, l \in Licenses, b \in Bindings : Commit(r, p, l, b)
    BY <1>2 DEF Commits
  <2> QED BY <2>1, CommitOperation
<1>3. CASE Retirements
  <2>1. PICK t \in Retires, p \in OpKeys, b \in Bindings : RetireBatch(t, p, b)
    BY <1>3 DEF Retirements
  <2>2. ~operations[p].exists
    BY <2>1 DEF RetireBatch, RetireGuard
  <2>3. \A x \in OpKeys \ {p} : operations'[x] = operations[x]
    BY <2>1 DEF RetireBatch, TypeOK
  <2> QED BY <2>2, <2>3
<1>4. CASE ExpireResponses
  <2>1. PICK batch \in SUBSET {x \in OpKeys : operations[x].exists /\ operations[x].response /\ operations[x].retain <= now} :
          operations' = [x \in OpKeys |-> IF x \in batch THEN WithoutResponse(x) ELSE operations[x]]
    BY <1>4 DEF ExpireResponses
  <2>2. operations[o] \in OperationRow
    BY DEF TypeOK
  <2>3. CASE o \in batch
    <3>1. operations'[o] = [operations[o] EXCEPT !.response = FALSE] /\ operations[o].retain <= now
      BY <2>1, <2>3 DEF WithoutResponse
    <3> QED BY <2>2, <3>1 DEF OperationRow
  <2>4. CASE o \notin batch
    BY <2>1, <2>4
  <2> QED BY <2>3, <2>4
<1> QED BY <1>1, <1>2, <1>3, <1>4, Writers

\* What a decision does to the attempts: it opens a fresh one, or decides one
\* that is pending.
LEMMA DecisionWrites ==
  ASSUME TypeOK, Decisions
  PROVE  \E a \in Attempts :
           /\ \A x \in Attempts \ {a} : attempts'[x] = attempts[x]
           /\ \/ attempts[a].status = "none" /\ attempts'[a].status = "pending"
              \/ attempts[a].status = "pending" /\ attempts'[a].status \in {"approved", "denied"}
<1>1. ASSUME NEW a \in Attempts, NEW k \in Keys, CreateAuthorization(a, k)
      PROVE  /\ attempts[a].status = "none" /\ attempts'[a].status = "pending"
             /\ \A x \in Attempts \ {a} : attempts'[x] = attempts[x]
  <2>1. attempts' = [attempts EXCEPT ![a] = [NoAttempt EXCEPT !.status = "pending", !.key = k, !.expires = now + AttemptTTL]]
    BY <1>1 DEF CreateAuthorization
  <2>2. [NoAttempt EXCEPT !.status = "pending", !.key = k, !.expires = now + AttemptTTL].status = "pending"
    BY DEF NoAttempt
  <2> QED BY <1>1, <2>1, <2>2 DEF CreateAuthorization, TypeOK
<1>2. ASSUME NEW s \in Consents, NEW a \in Attempts, NEW c \in Customers, NEW l \in Licenses, Approve(s, a, c, l)
      PROVE  /\ attempts[a].status = "pending" /\ attempts'[a].status = "approved"
             /\ \A x \in Attempts \ {a} : attempts'[x] = attempts[x]
  <2>1. attempts' = [attempts EXCEPT ![a] = Approved(@, s, c, l, consents[s])] /\ attempts[a].status = "pending"
    BY <1>2 DEF Approve, ApproveGuard
  <2>2. attempts[a] \in AttemptRow
    BY DEF TypeOK
  <2>3. Approved(attempts[a], s, c, l, consents[s]).status = "approved"
    BY <2>2 DEF Approved, AttemptRow
  <2> QED BY <2>1, <2>3 DEF TypeOK
<1>3. ASSUME NEW s \in Consents, NEW a \in Attempts, NEW c \in Customers, DenyGuard(a, c, consents[s]),
             attempts' = [attempts EXCEPT ![a] = Denied(@)]
      PROVE  /\ attempts[a].status = "pending" /\ attempts'[a].status = "denied"
             /\ \A x \in Attempts \ {a} : attempts'[x] = attempts[x]
  <2>1. attempts[a] \in AttemptRow
    BY DEF TypeOK
  <2>2. Denied(attempts[a]).status = "denied"
    BY <2>1 DEF Denied, AttemptRow
  <2> QED BY <1>3, <2>2 DEF DenyGuard, TypeOK
<1> QED BY <1>1, <1>2, <1>3 DEF Decisions

\* A consumed attempt proves its exchange until its recovery ends, and an
\* identifier that was purged is never used again.
LEMMA AttemptsStand ==
  ASSUME TypeOK, [Next]_vars, NEW a \in Attempts
  PROVE  /\ attempts[a].status = "consumed" =>
              \/ /\ attempts'[a].status = "consumed" /\ attempts'[a].op = attempts[a].op
                 /\ attempts'[a].inv = attempts[a].inv /\ attempts'[a].recovery = attempts[a].recovery
                 /\ attempts'[a].code = attempts[a].code
              \/ attempts'[a].status = "purged" /\ attempts[a].recovery <= now
         /\ attempts[a].status = "purged" => attempts'[a].status = "purged"
         /\ attempts[a].status = "denied" => attempts'[a].status \in {"denied", "purged"}
         /\ attempts[a].status = "approved" =>
              \/ attempts'[a].status \in {"approved", "consumed"} /\ attempts'[a].code = attempts[a].code
              \/ attempts'[a].status = "purged"
<1>1. CASE UNCHANGED attempts
  BY <1>1
<1>2. CASE Commits
  <2>1. PICK r \in Requests, o \in OpKeys, l \in Licenses, b \in Bindings : Commit(r, o, l, b)
    BY <1>2 DEF Commits
  <2>2. requests[r].purpose \in {"exchange", "renew"}
    BY DEF TypeOK, RequestState
  <2>3. CASE requests[r].purpose = "exchange"
    BY <2>1, <2>3, CommitAttempts
  <2>4. CASE requests[r].purpose = "renew"
    BY <1>1, <2>1, <2>4, CommitAttempts
  <2> QED BY <2>2, <2>3, <2>4
<1>3. CASE Decisions
  BY <1>3, DecisionWrites
<1>4. attempts[a] \in AttemptRow
  BY DEF TypeOK
<1>5. CASE EraseExpiredApprovals
  <2>1. attempts'[a] = attempts[a] \/ attempts'[a] = [attempts[a] EXCEPT !.sealed = FALSE]
    BY <1>5 DEF EraseExpiredApprovals
  <2>2. attempts'[a].status = attempts[a].status /\ attempts'[a].op = attempts[a].op
        /\ attempts'[a].inv = attempts[a].inv /\ attempts'[a].recovery = attempts[a].recovery
        /\ attempts'[a].code = attempts[a].code
    BY <1>4, <2>1 DEF AttemptRow
  <2> QED BY <2>2
<1>6. Purged.status = "purged"
  BY DEF Purged, NoAttempt
<1>7. CASE PurgeUnconsumedAttempts
  <2>1. attempts'[a] = attempts[a] \/ (attempts[a].status \in Unconsumed /\ attempts'[a] = Purged)
    BY <1>7 DEF PurgeUnconsumedAttempts, PurgeAttempts
  <2> QED BY <1>6, <2>1 DEF Unconsumed
<1>8. CASE PurgeConsumedAttempts
  <2>1. \/ attempts'[a] = attempts[a]
        \/ attempts[a].status = "consumed" /\ attempts[a].recovery <= now /\ attempts'[a] = Purged
    BY <1>8 DEF PurgeConsumedAttempts, PurgeAttempts
  <2> QED BY <1>6, <2>1
<1> QED BY <1>1, <1>2, <1>3, <1>5, <1>7, <1>8, Writers

\* A lease that was issued is not rewritten: a step changes nothing of it but
\* that cleanup may purge the row, and only a commit issues one.
LEMMA LeasesStand ==
  ASSUME TypeOK, LeasesAnswered, [Next]_vars, NEW r \in Requests
  PROVE  /\ r \in Issued =>
              /\ r \in Issued'
              /\ leases'[r].opKey = leases[r].opKey /\ leases'[r].subject = leases[r].subject
              /\ leases'[r].license = leases[r].license /\ leases'[r].binding = leases[r].binding
              /\ leases'[r].gen = leases[r].gen /\ leases'[r].expires = leases[r].expires
              /\ leases'[r].accept = leases[r].accept
         /\ r \in Issued' => \/ r \in Issued
                            \/ \E o \in OpKeys, l \in Licenses, b \in Bindings : Commit(r, o, l, b)
<1>1. CASE UNCHANGED leases
  BY <1>1 DEF Issued
<1>2. CASE Commits
  <2>1. PICK x \in Requests, o \in OpKeys, l \in Licenses, b \in Bindings : Commit(x, o, l, b)
    BY <1>2 DEF Commits
  <2>2. leases[x].row = "none"
    BY <2>1 DEF LeasesAnswered, Commit
  <2> QED BY <2>1, <2>2, CommitLease DEF Issued
<1>3. CASE PurgeLeases
  <2>1. leases'[r] = leases[r] \/ (leases[r].row = "stored" /\ leases'[r] = [leases[r] EXCEPT !.row = "purged"])
    BY <1>3 DEF PurgeLeases
  <2>2. leases[r] \in LeaseRow
    BY DEF TypeOK
  <2> QED BY <2>1, <2>2 DEF LeaseRow, Issued
<1> QED BY <1>1, <1>2, <1>3, Writers

\* What retires a binding: nothing but the fence moves.
LEMMA RetiredRow ==
  ASSUME NEW row \in BindingRow
  PROVE  /\ Retired(row).state = "retiring" /\ Retired(row).gen = row.gen + 1 /\ Retired(row).hold = row.hold
BY DEF Retired, BindingRow

\* A retiring binding never changes, and an active one is held longer by a
\* commit or is retired with the hold it has.
LEMMA BindingsStand ==
  ASSUME TypeOK, [Next]_vars, NEW b \in Bindings
  PROVE  /\ bindings[b].state = "retiring" => bindings'[b] = bindings[b]
         /\ bindings[b].state = "active" =>
              \/ /\ bindings'[b].state = "active" /\ bindings'[b].gen = bindings[b].gen
                 /\ bindings'[b].hold >= bindings[b].hold
              \/ /\ bindings'[b].state = "retiring" /\ bindings'[b].gen = bindings[b].gen + 1
                 /\ bindings'[b].hold = bindings[b].hold
<1>1. bindings[b] \in BindingRow /\ bindings[b].hold \in Int
  BY TimingAssumption DEF TypeOK, BindingRow, Horizon
<1>2. CASE bindings'[b] = bindings[b]
  BY <1>1, <1>2
<1>3. CASE Commits
  <2>1. PICK r \in Requests, o \in OpKeys, l \in Licenses, x \in Bindings : Commit(r, o, l, x)
    BY <1>3 DEF Commits
  <2> QED BY <1>2, <2>1, CommitBinding
<1>4. CASE Retirements
  <2>1. PICK t \in Retires, o \in OpKeys, x \in Bindings : RetireBatch(t, o, x)
    BY <1>4 DEF Retirements
  <2>2. bindings' = [bindings EXCEPT ![x] = Retired(@)] /\ bindings[x].state = "active"
    BY <2>1 DEF RetireBatch, RetireGuard
  <2> QED BY <1>1, <1>2, <2>2, RetiredRow DEF TypeOK
<1>5. CASE AdminNext
  <2>1. UNCHANGED bindings \/ \E k \in Keys : TransitionDevice(k)
    BY <1>5 DEF AdminNext, TransitionEntitlement, UpdateEntitlement, SetEntitlementCapacity, WriteEntitlement,
                TransitionCustomer
  <2>2. ASSUME NEW k \in Keys, TransitionDevice(k)
        PROVE  bindings'[b] = bindings[b] \/ (bindings[b].state = "active" /\ bindings'[b] = Retired(bindings[b]))
    BY <2>2 DEF TransitionDevice
  <2> QED BY <1>1, <1>2, <2>1, <2>2, RetiredRow
<1> QED BY <1>2, <1>3, <1>4, <1>5, Writers

\* A write of a license counts (tr_bound_entitlement_revision) and leaves the
\* start of its trial alone; only a commit starts a trial.
LEMMA EntitlementsStand ==
  ASSUME TypeOK, [Next]_vars, NEW l \in Licenses
  PROVE  /\ entitlements'[l] = entitlements[l] \/ entitlements'[l].rev > entitlements[l].rev
         /\ entitlements[l].started # NoTime =>
              entitlements'[l].started = entitlements[l].started /\ entitlements'[l].trialKey = entitlements[l].trialKey
<1>1. entitlements[l] \in EntitlementRow /\ entitlements[l].rev \in Nat
  BY DEF TypeOK, EntitlementRow, Revisions
<1>2. CASE entitlements'[l] = entitlements[l]
  BY <1>1, <1>2
<1>3. CASE Commits
  <2>1. PICK r \in Requests, o \in OpKeys, x \in Licenses, b \in Bindings : Commit(r, o, x, b)
    BY <1>3 DEF Commits
  <2> QED BY <1>1, <1>2, <2>1, CommitEntitlement
<1>4. CASE AdminNext
  <2>1. ASSUME NEW x \in Licenses, NEW e \in EntitlementRow, WriteEntitlement(x, e), e.rev = entitlements[x].rev,
               e.started = entitlements[x].started, e.trialKey = entitlements[x].trialKey
        PROVE  /\ entitlements'[l] = entitlements[l] \/ entitlements'[l].rev > entitlements[l].rev
               /\ entitlements[l].started # NoTime =>
                    /\ entitlements'[l].started = entitlements[l].started
                    /\ entitlements'[l].trialKey = entitlements[l].trialKey
    <3>1. entitlements' = [entitlements EXCEPT ![x] = Counted(e)]
      BY <2>1 DEF WriteEntitlement
    <3>2. /\ Counted(e).rev = e.rev + 1 /\ Counted(e).started = e.started /\ Counted(e).trialKey = e.trialKey
      BY DEF Counted, EntitlementRow
    <3> QED BY <1>1, <2>1, <3>1, <3>2 DEF TypeOK
  <2>2. ASSUME NEW x \in Licenses
        PROVE  entitlements[x] \in EntitlementRow
    BY DEF TypeOK
  <2>3. ASSUME NEW x \in Licenses, NEW status \in {"active", "disabled", "revoked"}, TransitionEntitlement(x, status)
        PROVE  \E e \in EntitlementRow :
                 /\ WriteEntitlement(x, e) /\ e.rev = entitlements[x].rev
                 /\ e.started = entitlements[x].started /\ e.trialKey = entitlements[x].trialKey
    <3> DEFINE e == [entitlements[x] EXCEPT !.status = status]
    <3>1. WriteEntitlement(x, e)
      BY <2>3 DEF TransitionEntitlement
    <3>2. e \in EntitlementRow /\ e.rev = entitlements[x].rev
          /\ e.started = entitlements[x].started /\ e.trialKey = entitlements[x].trialKey
      BY <2>2 DEF EntitlementRow
    <3> HIDE DEF e
    <3> QED BY <3>1, <3>2
  <2>4. ASSUME NEW x \in Licenses, NEW from \in Starts, NEW until \in Ends, NEW owner \in Customers,
               UpdateEntitlement(x, from, until, owner)
        PROVE  \E e \in EntitlementRow :
                 /\ WriteEntitlement(x, e) /\ e.rev = entitlements[x].rev
                 /\ e.started = entitlements[x].started /\ e.trialKey = entitlements[x].trialKey
    <3> DEFINE e == [entitlements[x] EXCEPT !.from = from, !.until = until, !.owner = owner]
    <3>1. WriteEntitlement(x, e)
      BY <2>4 DEF UpdateEntitlement
    <3>2. from \in Nat /\ until \in Nat
      BY SetsAssumption
    <3>3. e \in EntitlementRow /\ e.rev = entitlements[x].rev
          /\ e.started = entitlements[x].started /\ e.trialKey = entitlements[x].trialKey
      BY <2>2, <3>2 DEF EntitlementRow
    <3> HIDE DEF e
    <3> QED BY <3>1, <3>3
  <2>5. ASSUME NEW x \in Licenses, NEW max \in Limits, NEW lease \in LeaseTerms, SetEntitlementCapacity(x, max, lease)
        PROVE  \E e \in EntitlementRow :
                 /\ WriteEntitlement(x, e) /\ e.rev = entitlements[x].rev
                 /\ e.started = entitlements[x].started /\ e.trialKey = entitlements[x].trialKey
    <3> DEFINE e == [entitlements[x] EXCEPT !.max = max, !.lease = lease]
    <3>1. WriteEntitlement(x, e)
      BY <2>5 DEF SetEntitlementCapacity
    <3>2. lease \in Nat
      BY SetsAssumption
    <3>3. e \in EntitlementRow /\ e.rev = entitlements[x].rev
          /\ e.started = entitlements[x].started /\ e.trialKey = entitlements[x].trialKey
      BY <2>2, <3>2 DEF EntitlementRow
    <3> HIDE DEF e
    <3> QED BY <3>1, <3>3
  <2>6. (\E c \in Customers : TransitionCustomer(c)) \/ (\E k \in Keys : TransitionDevice(k)) => UNCHANGED entitlements
    BY DEF TransitionCustomer, TransitionDevice
  <2> QED BY <1>2, <1>4, <2>1, <2>3, <2>4, <2>5, <2>6 DEF AdminNext
<1> QED BY <1>2, <1>3, <1>4, Writers

-----------------------------------------------------------------------------
(* One answer per operation. *)

\* What is answered for an operation is the invocation its row names.
AnswersCommitted ==
  /\ \A r \in Issued : /\ leases[r].opKey \in OpKeys
                       /\ operations[leases[r].opKey].exists /\ operations[leases[r].opKey].inv = r
  /\ \A x \in replies : operations[x.opKey].exists /\ operations[x.opKey].inv = x.answer

\* A retirement that is answered from the operations table gives what the row says.
LEMMA CachedAnswer ==
  ASSUME NEW t, NEW o, NEW b, NEW c, NEW q, operations[o].exists, AnswerCached(t, o, b, c, q)
  PROVE  UNCHANGED replies \/ replies' = replies \cup {[opKey |-> o, answer |-> operations[o].inv]}
BY DEF AnswerCached, ReturnRetired

\* Every new answer is the one its operation's row names after the step.
LEMMA RepliesGrow ==
  ASSUME TypeOK, [Next]_vars
  PROVE  \/ UNCHANGED replies
         \/ \E o, answer : /\ replies' = replies \cup {[opKey |-> o, answer |-> answer]}
                           /\ operations'[o].exists /\ operations'[o].inv = answer
<1>1. CASE IssueNext
  <2>1. PICK r \in Requests : (\E in \in RequestInputs : Prove(r, in)) \/ IssueStep(r) \/ Fail(r)
    BY <1>1 DEF IssueNext
  <2>2. OnlyRequests => UNCHANGED replies
    BY DEF OnlyRequests
  <2>3. CASE \E in \in RequestInputs : Prove(r, in)
    BY <2>2, <2>3 DEF Prove
  <2>4. LookUp(r) \/ Reread(r) \/ ReadLicense(r) \/ ReadDevice(r) => OnlyRequests
    BY DEF LookUp, Reread, ReadLicense, ReadDevice
  <2>5. CheckCapacity(r) \/ Recheck(r) \/ CommitAborts(r) \/ RecoverAborts(r) \/ Fail(r) => OnlyRequests
    BY DEF CheckCapacity, Recheck, CommitAborts, RecoverAborts, Fail
  <2>6. ASSUME NEW o \in OpKeys, NEW l \in Licenses, NEW b \in Bindings, Commit(r, o, l, b)
        PROVE  \/ UNCHANGED replies
               \/ /\ replies' = replies \cup {[opKey |-> o, answer |-> r]}
                  /\ operations'[o].exists /\ operations'[o].inv = r
    <3>1. UNCHANGED replies \/ replies' = replies \cup {[opKey |-> o, answer |-> r]}
      BY <2>6 DEF Commit, Reply
    <3> QED BY <2>6, <3>1, CommitOperation
  <2>7. ASSUME NEW o \in OpKeys, NEW l \in Licenses, NEW b \in Bindings, Recover(r, o, l, b)
        PROVE  \/ UNCHANGED replies
               \/ /\ replies' = replies \cup {[opKey |-> o, answer |-> operations[o].inv]}
                  /\ operations'[o].exists /\ operations'[o].inv = operations[o].inv
    BY <2>7 DEF Recover, Reply, RecoverGuard
  <2> QED BY <2>1, <2>2, <2>3, <2>4, <2>5, <2>6, <2>7 DEF IssueStep
<1>2. CASE RetireNext
  <2>1. PICK t \in Retires :
          \/ RetireStep(t) \/ RetireFails(t)
          \/ \E b \in Bindings, c \in Customers, actor \in {"customer", "operator"},
                expected \in Revisions, op \in OpIds : ReadRetire(t, b, c, actor, expected, op)
    BY <1>2 DEF RetireNext
  <2>2. RetireAborts(t) \/ RetireFails(t) => UNCHANGED replies
    BY DEF RetireAborts, RetireFails
  <2>3. ASSUME NEW o \in OpKeys, NEW b \in Bindings, RetireBatch(t, o, b)
        PROVE  \/ UNCHANGED replies
               \/ /\ replies' = replies \cup {[opKey |-> o, answer |-> t]}
                  /\ operations'[o].exists /\ operations'[o].inv = t
    BY <2>3 DEF RetireBatch, TypeOK
  <2>4. ASSUME NEW b \in Bindings, NEW c \in Customers, RetireCached(t, b, c)
        PROVE  \/ UNCHANGED replies
               \/ \E o : /\ replies' = replies \cup {[opKey |-> o, answer |-> operations[o].inv]}
                         /\ operations'[o].exists /\ operations'[o].inv = operations[o].inv
    <3> DEFINE o == RetireOpKey(retires[t])
    <3>1. UNCHANGED operations
      BY <2>4 DEF RetireCached
    <3>2. CASE operations[o].exists
      <4>1. AnswerCached(t, o, b, c, retires[t])
        BY <2>4, <3>2 DEF RetireCached
      <4> HIDE DEF o
      <4>2. UNCHANGED replies \/ replies' = replies \cup {[opKey |-> o, answer |-> operations[o].inv]}
        BY <3>2, <4>1, CachedAnswer
      <4> QED BY <3>1, <3>2, <4>2
    <3>3. CASE ~operations[o].exists
      BY <2>4, <3>3 DEF RetireCached
    <3> QED BY <3>2, <3>3
  <2>5. ASSUME NEW b \in Bindings, NEW c \in Customers, RetireCurrent(t, b, c)
        PROVE  UNCHANGED replies
    BY <2>5 DEF RetireCurrent
  <2>6. ASSUME NEW b \in Bindings, NEW c \in Customers, NEW actor \in {"customer", "operator"},
               NEW expected \in Revisions, NEW op \in OpIds, ReadRetire(t, b, c, actor, expected, op)
        PROVE  \/ UNCHANGED replies
               \/ \E o : /\ replies' = replies \cup {[opKey |-> o, answer |-> operations[o].inv]}
                         /\ operations'[o].exists /\ operations'[o].inv = operations[o].inv
    <3> DEFINE q == [IdleRetire EXCEPT !.pc = "batch", !.binding = b, !.customer = c, !.actor = actor,
                       !.expected = expected, !.op = op, !.key = bindings[b].key, !.gen = bindings[b].gen,
                       !.custRev = customers[c].rev, !.devRev = devices[bindings[b].key].rev,
                       !.entRev = entitlements[bindings[b].license].rev]
               o == RetireOpKey(q)
    <3>1. /\ UNCHANGED operations
          /\ UNCHANGED replies \/ (operations[o].exists /\ AnswerCached(t, o, b, c, q))
      BY <2>6 DEF ReadRetire
    <3> HIDE DEF o, q
    <3>2. operations[o].exists /\ AnswerCached(t, o, b, c, q) =>
            UNCHANGED replies \/ replies' = replies \cup {[opKey |-> o, answer |-> operations[o].inv]}
      BY CachedAnswer
    <3> QED BY <3>1, <3>2
  <2> QED BY <2>1, <2>2, <2>3, <2>4, <2>5, <2>6 DEF RetireStep
<1> QED BY <1>1, <1>2, Writers

\* AnswersCommitted is inductive: operations stand, and what is new is committed.
LEMMA AnswersCommittedHolds ==
  ASSUME TypeOK, TypeOK', LeasesAnswered, AnswersCommitted, [Next]_vars
  PROVE  AnswersCommitted'
<1>1. ASSUME NEW r \in Issued'
      PROVE  leases'[r].opKey \in OpKeys /\ operations'[leases'[r].opKey].exists /\ operations'[leases'[r].opKey].inv = r
  <2>1. r \in Requests
    BY DEF Issued
  <2>2. CASE r \in Issued
    BY <2>1, <2>2, LeasesStand, OperationsStand DEF AnswersCommitted
  <2>3. CASE \E o \in OpKeys, l \in Licenses, b \in Bindings : Commit(r, o, l, b)
    BY <2>1, <2>3, CommitLease, CommitOperation
  <2> QED BY <1>1, <2>1, <2>2, <2>3, LeasesStand
<1>2. ASSUME NEW x \in replies'
      PROVE  operations'[x.opKey].exists /\ operations'[x.opKey].inv = x.answer
  <2>1. CASE x \in replies
    <3>1. x.opKey \in OpKeys
      BY <2>1 DEF TypeOK
    <3> QED BY <2>1, <3>1, OperationsStand DEF AnswersCommitted
  <2>2. CASE x \notin replies
    BY <2>2, RepliesGrow
  <2> QED BY <2>1, <2>2
<1> QED BY <1>1, <1>2 DEF AnswersCommitted

\* In the empty database nothing is issued, answered or denied.
LEMMA NothingAtFirst ==
  ASSUME Init
  PROVE  /\ Issued = {} /\ replies = {} /\ denyCache = {}
         /\ \A o \in OpKeys : ~operations[o].exists
         /\ \A r \in Requests : requests[r].pc = "idle"
         /\ \A s \in Consents : consents[s].answer = None
BY DEF Init, Issued, NoLease, NoOperation, IdleRequest, IdleConsent

\* A retried or duplicated operation issues at most one lease, and every answer
\* it ever gets is the committed one.
THEOREM OneAnswerPerOperationHolds == Spec => []OneAnswerPerOperation
<1>1. Init => LeasesAnswered /\ AnswersCommitted
  BY InitTyped, InitRefines, NothingAtFirst DEF AnswersCommitted
<1>2. TypeOK /\ TypeOK' /\ LeasesAnswered /\ AnswersCommitted /\ [Next]_vars => LeasesAnswered' /\ AnswersCommitted'
  BY LeasesAnsweredHolds, AnswersCommittedHolds
<1>3. AnswersCommitted => OneAnswerPerOperation
  BY DEF AnswersCommitted, OneAnswerPerOperation
<1> QED BY <1>1, <1>2, <1>3, TypeCorrect, PTL DEF Spec

-----------------------------------------------------------------------------
(* Approvals and denials. *)

\* A lease that an exchange issued has consumed its attempt, and one that a
\* renewal issued is about a binding.
ApprovalsSpent ==
  \A r \in Issued :
    /\ leases[r].opKey[2] = "exchange" =>
         leases[r].subject \in Attempts /\ attempts[leases[r].subject].status \in {"consumed", "purged"}
    /\ leases[r].opKey[2] # "exchange" => leases[r].subject \in Bindings

\* No lease is issued for an attempt that was spent before.
LEMMA ApprovalsSpentHolds ==
  ASSUME TypeOK, LeasesAnswered, ApprovalsSpent, ApprovalSpentOnce, [Next]_vars
  PROVE  ApprovalsSpent' /\ ApprovalSpentOnce'
<1>1. ASSUME NEW r \in Issued
      PROVE  /\ leases'[r].opKey = leases[r].opKey /\ leases'[r].subject = leases[r].subject
             /\ leases[r].opKey[2] = "exchange" => attempts'[leases[r].subject].status \in {"consumed", "purged"}
  <2>1. r \in Requests
    BY DEF Issued
  <2> QED BY <2>1, LeasesStand, AttemptsStand DEF ApprovalsSpent
<1>2. ASSUME NEW r \in Issued', r \notin Issued
      PROVE  /\ leases'[r].opKey[2] = "exchange" =>
                  /\ leases'[r].subject \in Attempts /\ attempts'[leases'[r].subject].status = "consumed"
                  /\ attempts[leases'[r].subject].status = "approved"
             /\ leases'[r].opKey[2] # "exchange" => leases'[r].subject \in Bindings
             /\ \A x \in Requests \ {r} : leases'[x] = leases[x]
  <2>1. r \in Requests
    BY DEF Issued
  <2>2. PICK o \in OpKeys, l \in Licenses, b \in Bindings : Commit(r, o, l, b)
    BY <1>2, <2>1, LeasesStand
  <2>3. o[2] = requests[r].purpose /\ requests[r].purpose \in {"exchange", "renew"}
    BY <2>1, <2>2, CommitOperation DEF TypeOK, RequestState
  <2> QED BY <2>1, <2>2, <2>3, CommitLease, CommitAttempts
<1>3. ApprovalsSpent'
  <2>1. ASSUME NEW r \in Issued'
        PROVE  /\ leases'[r].opKey[2] = "exchange" =>
                    leases'[r].subject \in Attempts /\ attempts'[leases'[r].subject].status \in {"consumed", "purged"}
               /\ leases'[r].opKey[2] # "exchange" => leases'[r].subject \in Bindings
    <3>1. CASE r \in Issued
      BY <1>1, <3>1 DEF ApprovalsSpent
    <3>2. CASE r \notin Issued
      BY <1>2, <3>2
    <3> QED BY <3>1, <3>2
  <2> QED BY <2>1 DEF ApprovalsSpent
<1>4. ASSUME NEW x \in Issued', NEW y \in Issued',
             leases'[x].opKey[2] = "exchange", leases'[y].opKey[2] = "exchange", leases'[x].subject = leases'[y].subject
      PROVE  x = y
  <2>1. CASE x \in Issued /\ y \in Issued
    BY <1>1, <1>4, <2>1 DEF ApprovalSpentOnce
  <2>2. CASE x \in Issued /\ y \notin Issued
    <3>1. attempts[leases'[y].subject].status = "approved"
      BY <1>2, <1>4, <2>2
    <3>2. attempts[leases'[x].subject].status \in {"consumed", "purged"}
      BY <1>1, <1>4, <2>2 DEF ApprovalsSpent
    <3> QED BY <1>4, <3>1, <3>2
  <2>3. CASE x \notin Issued /\ y \in Issued
    <3>1. attempts[leases'[x].subject].status = "approved"
      BY <1>2, <1>4, <2>3
    <3>2. attempts[leases'[y].subject].status \in {"consumed", "purged"}
      BY <1>1, <1>4, <2>3 DEF ApprovalsSpent
    <3> QED BY <1>4, <3>1, <3>2
  <2>4. CASE x \notin Issued /\ y \notin Issued
    <3>1. x \in Requests /\ y \in Requests
      BY DEF Issued
    <3>2. x # y => leases'[y] = leases[y]
      BY <1>2, <2>4, <3>1
    <3>3. leases'[y].row # "none" /\ leases[y].row = "none"
      BY <2>4, <3>1 DEF Issued
    <3> QED BY <3>2, <3>3
  <2> QED BY <2>1, <2>2, <2>3, <2>4
<1> QED BY <1>3, <1>4 DEF ApprovalSpentOnce

\* One approval enrolls once, however many exchanges present its code.
THEOREM ApprovalSpentOnceHolds == Spec => []ApprovalSpentOnce
<1>1. Init => LeasesAnswered /\ ApprovalsSpent /\ ApprovalSpentOnce
  BY InitTyped, InitRefines, NothingAtFirst DEF ApprovalsSpent, ApprovalSpentOnce
<1>2. TypeOK /\ LeasesAnswered /\ ApprovalsSpent /\ ApprovalSpentOnce /\ [Next]_vars =>
        LeasesAnswered' /\ ApprovalsSpent' /\ ApprovalSpentOnce'
  BY LeasesAnsweredHolds, ApprovalsSpentHolds
<1> QED BY <1>1, <1>2, TypeCorrect, PTL DEF Spec

\* A code that a consent invocation holds or has returned is that of its
\* attempt, which was approved and, unless it is gone, still carries it.
CodesCommitted ==
  \A s \in Consents :
    consents[s].answer # None =>
      LET a == consents[s].attempt IN
      /\ a \in Attempts
      /\ \/ attempts[a].status = "purged"
         \/ attempts[a].status \in {"approved", "consumed"} /\ attempts[a].code = consents[s].answer

\* A consent invocation that keeps no code, and one that got it from the attempt.
LEMMA FinishHasNoCode ==
  ASSUME TypeOK, NEW s \in Consents, NEW code, Finish(s, code)
  PROVE  consents'[s].answer = None /\ \A x \in Consents \ {s} : consents'[x] = consents[x]
<1>1. [IdleConsent EXCEPT !.pc = "done", !.code = code].answer = None
  BY DEF IdleConsent
<1> QED BY <1>1 DEF Finish, TypeOK

\* ReturnCode answers with the code it is given, or loses the answer.
LEMMA ReturnedCode ==
  ASSUME TypeOK, NEW s \in Consents, NEW a, NEW code, ReturnCode(s, a, code)
  PROVE  /\ \/ consents'[s].answer = None
            \/ consents'[s].answer = code /\ consents'[s].attempt = a
         /\ \A x \in Consents \ {s} : consents'[x] = consents[x]
<1>1. CASE Finish(s, "temporarily_unavailable")
  BY <1>1, FinishHasNoCode
<1>2. CASE consents' = [consents EXCEPT ![s] =
             [IdleConsent EXCEPT !.pc = "done", !.code = "ok", !.attempt = a, !.answer = code]]
  <2>1. /\ [IdleConsent EXCEPT !.pc = "done", !.code = "ok", !.attempt = a, !.answer = code].answer = code
        /\ [IdleConsent EXCEPT !.pc = "done", !.code = "ok", !.attempt = a, !.answer = code].attempt = a
    BY DEF IdleConsent
  <2> QED BY <1>2, <2>1 DEF TypeOK
<1> QED BY <1>1, <1>2 DEF ReturnCode

\* OpenSealed takes the code of an attempt that is approved now.
LEMMA OpenedCode ==
  ASSUME TypeOK, NEW s \in Consents, NEW q \in ConsentState, NEW a \in Attempts, q.attempt = a, OpenSealed(s, q, a)
  PROVE  /\ \/ consents'[s].answer = None
            \/ /\ consents'[s].answer = attempts[a].code /\ consents'[s].attempt = a
               /\ attempts[a].status = "approved"
         /\ \A x \in Consents \ {s} : consents'[x] = consents[x]
<1>1. CASE SealRefusal(a, q.customer, q.license, q.expected, q.op) # "none"
  BY <1>1, FinishHasNoCode DEF OpenSealed
<1>2. CASE SealRefusal(a, q.customer, q.license, q.expected, q.op) = "none"
  <2>1. attempts[a].status = "approved"
    BY <1>2 DEF SealRefusal, LiveApproval
  <2>2. consents' = [consents EXCEPT ![s] = [q EXCEPT !.pc = "open", !.attRev = attempts[a].rev, !.answer = attempts[a].code]]
    BY <1>2 DEF OpenSealed
  <2>3. LET row == [q EXCEPT !.pc = "open", !.attRev = attempts[a].rev, !.answer = attempts[a].code]
        IN  row.answer = attempts[a].code /\ row.attempt = a
    BY DEF ConsentState
  <2> QED BY <2>1, <2>2, <2>3 DEF TypeOK
<1> QED BY <1>1, <1>2

\* What one step of consent does to the codes that are held.
LEMMA ConsentCodes ==
  ASSUME TypeOK, ConsentNext
  PROVE  \E s \in Consents :
           /\ \A x \in Consents \ {s} : consents'[x] = consents[x]
           /\ consents'[s].answer # None =>
                LET a == consents'[s].attempt IN
                \/ consents'[s].answer = consents[s].answer /\ a = consents[s].attempt
                \/ /\ a \in Attempts
                   /\ \/ attempts[a].status = "approved" /\ attempts[a].code = consents'[s].answer
                      \/ attempts'[a].status = "approved" /\ attempts'[a].code = consents'[s].answer
<1>1. PICK s \in Consents :
        \/ ConsentStep(s) \/ ConsentFails(s)
        \/ \E a \in Attempts, c \in Customers, expected \in SeenRevisions, op \in OpIds :
             \/ ReadDenial(s, a, c, expected, op)
             \/ \E l \in Licenses : ReadApproval(s, a, c, l, expected, op)
  BY DEF ConsentNext
<1> DEFINE Others == \A x \in Consents \ {s} : consents'[x] = consents[x]
           Quiet == Others /\ consents'[s].answer = None
           Opened(a) == /\ Others /\ consents'[s].attempt = a
                        /\ attempts[a].status = "approved" /\ attempts[a].code = consents'[s].answer
           Kept == /\ Others /\ consents'[s].answer = consents[s].answer
                   /\ consents'[s].attempt = consents[s].attempt
           Granted(a) == /\ Others /\ consents'[s].attempt = a
                         /\ attempts'[a].status = "approved" /\ attempts'[a].code = consents'[s].answer
<1>2. consents[s] \in ConsentState
  BY DEF TypeOK
<1>3. \A code : Finish(s, code) => Quiet
  BY FinishHasNoCode
<1>4. ConsentFails(s) => Quiet
  BY <1>3 DEF ConsentFails
<1>5. ApproveLoses(s) => Kept
  <2>1. LET row == [consents[s] EXCEPT !.pc = "reread"]
        IN  row.answer = consents[s].answer /\ row.attempt = consents[s].attempt
    BY <1>2 DEF ConsentState
  <2> QED BY <2>1 DEF ApproveLoses, TypeOK
<1>6. ASSUME NEW a \in Attempts, NEW c \in Customers, RereadApproval(s, a, c)
      PROVE  Quiet \/ Opened(a)
  <2>1. (\E code : Finish(s, code)) \/ (consents[s].attempt = a /\ OpenSealed(s, consents[s], a))
    BY <1>6 DEF RereadApproval
  <2> QED BY <1>2, <1>3, <2>1, OpenedCode
<1>7. ASSUME NEW a \in Attempts, NEW c \in Customers, DenyBatch(s, a, c)
      PROVE  Kept
  <2>1. LET row == [consents[s] EXCEPT !.pc = "reconcile"]
        IN  row.answer = consents[s].answer /\ row.attempt = consents[s].attempt
    BY <1>2 DEF ConsentState
  <2> QED BY <1>7, <2>1 DEF DenyBatch, TypeOK
<1>8. ASSUME NEW a \in Attempts, NEW c \in Customers, ReconcileDenial(s, a, c)
      PROVE  Quiet
  BY <1>3, <1>8 DEF ReconcileDenial
<1>9. ASSUME NEW a \in Attempts, NEW c \in Customers, NEW l \in Licenses, Approve(s, a, c, l)
      PROVE  Quiet \/ Granted(a)
  <2>1. attempts' = [attempts EXCEPT ![a] = Approved(@, s, c, l, consents[s])] /\ ReturnCode(s, a, s)
    BY <1>9 DEF Approve
  <2>2. attempts[a] \in AttemptRow
    BY DEF TypeOK
  <2>3. Approved(attempts[a], s, c, l, consents[s]).status = "approved"
        /\ Approved(attempts[a], s, c, l, consents[s]).code = s
    BY <2>2 DEF Approved, AttemptRow
  <2>4. attempts'[a].status = "approved" /\ attempts'[a].code = s
    BY <2>1, <2>3 DEF TypeOK
  <2> QED BY <2>1, <2>4, ReturnedCode
<1>10. ASSUME NEW a \in Attempts, NEW c \in Customers, NEW l \in Licenses, OpenApproval(s, a, c, l)
       PROVE  \/ Quiet
              \/ Others /\ consents'[s].answer = consents[s].answer /\ consents'[s].attempt = consents[s].attempt
  <2>1. a = consents[s].attempt /\ ((\E code : Finish(s, code)) \/ ReturnCode(s, a, consents[s].answer))
    BY <1>10 DEF OpenApproval
  <2> QED BY <1>3, <2>1, ReturnedCode
<1>11. ASSUME NEW a \in Attempts, NEW c \in Customers, NEW expected \in SeenRevisions, NEW op \in OpIds,
              ReadDenial(s, a, c, expected, op)
       PROVE  Quiet
  <2>1. \/ \E code : Finish(s, code)
        \/ consents' = [consents EXCEPT ![s] =
             [Consent(a, c, None, expected, op) EXCEPT
                !.pc = "deny", !.custRev = customers[c].rev,
                !.pending = attempts[a].status = "pending" /\ attempts[a].rev = expected]]
    BY <1>11 DEF ReadDenial
  <2>2. [Consent(a, c, None, expected, op) EXCEPT
           !.pc = "deny", !.custRev = customers[c].rev,
           !.pending = attempts[a].status = "pending" /\ attempts[a].rev = expected].answer = None
    BY DEF Consent, IdleConsent
  <2> QED BY <1>3, <2>1, <2>2 DEF TypeOK
<1>12. ASSUME NEW a \in Attempts, NEW c \in Customers, NEW l \in Licenses, NEW expected \in SeenRevisions,
              NEW op \in OpIds, ReadApproval(s, a, c, l, expected, op)
       PROVE  Quiet \/ Opened(a)
  <2> DEFINE asked == Consent(a, c, l, expected, op)
             reading == [asked EXCEPT
                           !.pc = "approve", !.attRev = attempts[a].rev, !.custRev = customers[c].rev,
                           !.entRev = entitlements[l].rev, !.expires = Lesser(attempts[a].expires, now + CodeTTL)]
  <2>1. \/ \E code : Finish(s, code)
        \/ OpenSealed(s, asked, a)
        \/ consents' = [consents EXCEPT ![s] = reading]
    BY <1>12 DEF ReadApproval
  <2>2. reading.answer = None
    BY DEF Consent, IdleConsent
  <2>3. asked \in ConsentState /\ asked.attempt = a
    <3>1. asked.attempt = a
      BY DEF Consent, IdleConsent
    <3>2. expected \in Nat /\ l \in Licenses \cup {None}
      BY DEF SeenRevisions
    <3> QED BY <3>1, <3>2, ConsentTyped
  <2> HIDE DEF asked, reading
  <2> QED BY <1>3, <2>1, <2>2, <2>3, OpenedCode DEF TypeOK
<1> HIDE DEF Others, Quiet, Opened, Kept, Granted
<1>13. \/ Quiet \/ Kept
       \/ \E a \in Attempts : Opened(a) \/ Granted(a)
  <2>1. CASE ConsentStep(s)
    BY <1>5, <1>6, <1>7, <1>8, <1>9, <1>10, <2>1 DEF ConsentStep, Kept
  <2> QED BY <1>1, <1>4, <1>11, <1>12, <2>1
<1>14. CASE Quiet \/ Kept
  BY <1>14 DEF Quiet, Kept, Others
<1>15. CASE \E a \in Attempts : Opened(a) \/ Granted(a)
  BY <1>15 DEF Opened, Granted, Others
<1> QED BY <1>13, <1>14, <1>15

\* CodesCommitted is inductive: an attempt that was approved keeps its code.
LEMMA CodesCommittedHolds ==
  ASSUME TypeOK, CodesCommitted, [Next]_vars
  PROVE  CodesCommitted'
<1> DEFINE Carries(row, code) == row.status = "purged" \/ (row.status \in {"approved", "consumed"} /\ row.code = code)
<1>1. ASSUME NEW a \in Attempts, NEW code, Carries(attempts[a], code)
      PROVE  Carries(attempts'[a], code)
  BY <1>1, AttemptsStand
<1>2. CASE UNCHANGED consents
  BY <1>1, <1>2 DEF CodesCommitted
<1>3. CASE ConsentNext
  <2>1. PICK s \in Consents :
          /\ \A x \in Consents \ {s} : consents'[x] = consents[x]
          /\ consents'[s].answer # None =>
               LET a == consents'[s].attempt IN
               \/ consents'[s].answer = consents[s].answer /\ a = consents[s].attempt
               \/ /\ a \in Attempts
                  /\ \/ attempts[a].status = "approved" /\ attempts[a].code = consents'[s].answer
                     \/ attempts'[a].status = "approved" /\ attempts'[a].code = consents'[s].answer
    BY <1>3, ConsentCodes
  <2>2. ASSUME NEW x \in Consents, consents'[x].answer # None
        PROVE  consents'[x].attempt \in Attempts /\ Carries(attempts'[consents'[x].attempt], consents'[x].answer)
    <3>1. CASE x = s
      <4> DEFINE a == consents'[s].attempt
                 code == consents'[s].answer
      <4>1. a \in Attempts /\ (Carries(attempts[a], code) \/ Carries(attempts'[a], code))
        BY <2>1, <2>2, <3>1 DEF CodesCommitted
      <4> HIDE DEF a, code, Carries
      <4>2. Carries(attempts'[a], code)
        BY <1>1, <4>1
      <4> QED BY <3>1, <4>1, <4>2 DEF a, code
    <3>2. CASE x # s
      BY <1>1, <2>1, <2>2, <3>2 DEF CodesCommitted
    <3> QED BY <3>1, <3>2
  <2> QED BY <2>2 DEF CodesCommitted
<1> QED BY <1>2, <1>3, Writers

\* The code a customer is sent back with is the one the exchange will accept,
\* also when two approvals raced or one was retried.
THEOREM ReturnedCodeIsCommittedHolds == Spec => []ReturnedCodeIsCommitted
<1>1. Init => CodesCommitted
  BY NothingAtFirst DEF CodesCommitted
<1>2. TypeOK /\ CodesCommitted /\ [Next]_vars => CodesCommitted'
  BY CodesCommittedHolds
<1>3. CodesCommitted => ReturnedCodeIsCommitted
  BY DEF CodesCommitted, ReturnedCodeIsCommitted
<1> QED BY <1>1, <1>2, <1>3, TypeCorrect, PTL DEF Spec

\* A denial is recorded together with the decision it records.
LEMMA DenialRecorded ==
  ASSUME TypeOK, ConsentNext
  PROVE  \A d \in denyCache' : d \in denyCache \/ (d.attempt \in Attempts /\ attempts'[d.attempt].status = "denied")
<1>1. CASE UNCHANGED denyCache
  BY <1>1
<1>2. CASE Decisions
  <2>1. ASSUME NEW a \in Attempts, NEW k \in Keys, CreateAuthorization(a, k)
        PROVE  UNCHANGED denyCache
    BY <2>1 DEF CreateAuthorization
  <2>2. ASSUME NEW s \in Consents, NEW a \in Attempts, NEW c \in Customers, NEW l \in Licenses, Approve(s, a, c, l)
        PROVE  UNCHANGED denyCache
    BY <2>2 DEF Approve
  <2>3. ASSUME NEW s \in Consents, NEW a \in Attempts, NEW c \in Customers, DenyBatch(s, a, c),
               attempts' = [attempts EXCEPT ![a] = Denied(@)]
        PROVE  \A d \in denyCache' : d \in denyCache \/ (d.attempt = a /\ attempts'[a].status = "denied")
    <3>1. attempts[a] \in AttemptRow
      BY DEF TypeOK
    <3>2. attempts'[a].status = "denied"
      BY <2>3, <3>1 DEF TypeOK, Denied, AttemptRow
    <3>3. UNCHANGED denyCache \/ denyCache' = denyCache \cup {[customer |-> c, attempt |-> a, op |-> consents[s].op,
                                                               expected |-> consents[s].expected]}
      BY <2>3 DEF DenyBatch
    <3> QED BY <3>2, <3>3
  <2> QED BY <1>1, <1>2, <2>1, <2>2, <2>3 DEF Decisions
<1> QED BY <1>1, <1>2, ConsentFrame

\* DenialIsFinal is inductive with what approvals and codes there are: at the
\* denial there was neither, and a denied attempt gets neither.
LEMMA DenialsStand ==
  ASSUME TypeOK, LeasesAnswered, ApprovalsSpent', CodesCommitted', DenialIsFinal, [Next]_vars
  PROVE  DenialIsFinal'
<1>1. ASSUME NEW d \in denyCache
      PROVE  /\ attempts'[d.attempt].status \in {"denied", "purged"}
             /\ \A r \in Issued' : leases'[r].subject # d.attempt
             /\ \A s \in Consents : consents'[s].attempt = d.attempt => consents'[s].answer = None
  <2>1. /\ d.attempt \in Attempts /\ attempts[d.attempt].status \in {"denied", "purged"}
        /\ attempts'[d.attempt].status \in {"denied", "purged"}
    <3>1. d.attempt \in Attempts
      BY DEF TypeOK
    <3> QED BY <3>1, AttemptsStand DEF DenialIsFinal
  <2>2. ASSUME NEW r \in Issued', leases'[r].subject = d.attempt
        PROVE  FALSE
    <3>1. r \in Requests
      BY DEF Issued
    <3>2. CASE r \in Issued
      BY <2>2, <3>1, <3>2, LeasesStand DEF DenialIsFinal
    <3>3. CASE r \notin Issued
      <4>1. PICK o \in OpKeys, l \in Licenses, b \in Bindings : Commit(r, o, l, b)
        BY <3>1, <3>3, LeasesStand
      <4>2. requests[r].purpose \in {"exchange", "renew"} /\ leases'[r].subject = requests[r].subject
        BY <3>1, <4>1, CommitLease DEF TypeOK, RequestState
      <4>3. CASE requests[r].purpose = "exchange"
        BY <2>1, <2>2, <3>1, <4>1, <4>2, <4>3, CommitAttempts
      <4>4. CASE requests[r].purpose = "renew"
        <5>1. d.attempt \in Bindings
          BY <2>2, <3>1, <4>1, <4>2, <4>4, CommitAttempts
        <5> QED BY <2>1, <5>1, SetsAssumption
      <4> QED BY <4>2, <4>3, <4>4
    <3> QED BY <3>2, <3>3
  <2>3. ASSUME NEW s \in Consents, consents'[s].attempt = d.attempt, consents'[s].answer # None
        PROVE  FALSE
    <3>1. CASE UNCHANGED consents
      BY <2>3, <3>1 DEF DenialIsFinal
    <3>2. CASE ConsentNext
      BY <2>1, <2>3, <3>2, ConsentCodes DEF DenialIsFinal
    <3> QED BY <3>1, <3>2, Writers
  <2> QED BY <2>1, <2>2, <2>3
<1>2. ASSUME NEW d \in denyCache', d \notin denyCache
      PROVE  /\ attempts'[d.attempt].status \in {"denied", "purged"}
             /\ \A r \in Issued' : leases'[r].subject # d.attempt
             /\ \A s \in Consents : consents'[s].attempt = d.attempt => consents'[s].answer = None
  <2>1. d.attempt \in Attempts /\ attempts'[d.attempt].status = "denied"
    BY <1>2, DenialRecorded, Writers
  <2>2. \A r \in Issued' : leases'[r].subject # d.attempt
    <3>1. d.attempt \notin Bindings
      BY <2>1, SetsAssumption
    <3> QED BY <2>1, <3>1 DEF ApprovalsSpent
  <2>3. \A s \in Consents : consents'[s].attempt = d.attempt => consents'[s].answer = None
    BY <2>1 DEF CodesCommitted
  <2> QED BY <2>1, <2>2, <2>3
<1> QED BY <1>1, <1>2 DEF DenialIsFinal

\* A denial that was answered is final: no approval of the attempt was or will
\* be answered and it never enrolls a device.
THEOREM DenialIsFinalHolds == Spec => []DenialIsFinal
<1>1. Init => LeasesAnswered /\ ApprovalsSpent /\ ApprovalSpentOnce /\ CodesCommitted /\ DenialIsFinal
  BY InitTyped, InitRefines, NothingAtFirst
  DEF ApprovalsSpent, ApprovalSpentOnce, CodesCommitted, DenialIsFinal
<1>2. TypeOK /\ LeasesAnswered /\ ApprovalsSpent /\ ApprovalSpentOnce /\ CodesCommitted /\ DenialIsFinal /\ [Next]_vars =>
        LeasesAnswered' /\ ApprovalsSpent' /\ ApprovalSpentOnce' /\ CodesCommitted' /\ DenialIsFinal'
  BY LeasesAnsweredHolds, ApprovalsSpentHolds, CodesCommittedHolds, DenialsStand
<1> QED BY <1>1, <1>2, TypeCorrect, PTL DEF Spec

-----------------------------------------------------------------------------
(* What one step does to the state of an invocation. *)

\* Invocation row p knows what q knew when it read its attempt, operation and license.
SameReads(p, q) ==
  /\ p.purpose = q.purpose /\ p.subject = q.subject /\ p.op = q.op /\ p.key = q.key
  /\ p.customer = q.customer /\ p.license = q.license
  /\ p.status = q.status /\ p.attOp = q.attOp /\ p.attInv = q.attInv
  /\ p.prior = q.prior /\ p.priorBinding = q.priorBinding

\* It also computed the same lease window from the same license.
SameWindow(p, q) ==
  p.entRev = q.entRev /\ p.limit = q.limit /\ p.issued = q.issued /\ p.expires = q.expires

OthersWait(r) == \A x \in Requests \ {r} : requests'[x] = requests[x]

\* Answer: the invocation is done, with that code.
LEMMA AnswerRow ==
  ASSUME TypeOK, NEW r \in Requests, NEW code, Answer(r, code)
  PROVE  requests'[r].pc = "done" /\ requests'[r].code = code /\ OthersWait(r)
<1>1. /\ [IdleRequest EXCEPT !.pc = "done", !.code = code].pc = "done"
      /\ [IdleRequest EXCEPT !.pc = "done", !.code = code].code = code
  BY DEF IdleRequest
<1> QED BY <1>1 DEF Answer, TypeOK, OthersWait

\* Deny: a denial made without a stored operation is rechecked, others are final.
LEMMA DenyRow ==
  ASSUME TypeOK, NEW r \in Requests, NEW code, Deny(r, code)
  PROVE  /\ OthersWait(r)
         /\ \/ /\ requests'[r].pc = "done" /\ requests'[r].code = code
               /\ requests[r].prior # None \/ code \notin Rechecked
            \/ /\ requests'[r].pc = "recheck" /\ requests[r].prior = None /\ SameReads(requests'[r], requests[r])
<1>1. CASE requests[r].prior = None /\ code \in Rechecked
  <2>1. requests[r] \in RequestState
    BY DEF TypeOK
  <2>2. requests'[r] = [requests[r] EXCEPT !.pc = "recheck", !.code = code] /\ OthersWait(r)
    BY <1>1 DEF Deny, TypeOK, OthersWait
  <2> QED BY <1>1, <2>1, <2>2 DEF RequestState, SameReads
<1>2. CASE ~(requests[r].prior = None /\ code \in Rechecked)
  BY <1>2, AnswerRow DEF Deny
<1> QED BY <1>1, <1>2

\* prove: the invocation is admitted, without a stored operation.
LEMMA ProveRow ==
  ASSUME TypeOK, NEW r \in Requests, NEW in \in RequestInputs, Prove(r, in)
  PROVE  /\ OthersWait(r) /\ requests[r].pc = "idle"
         /\ requests'[r].pc = "done" \/ (requests'[r].pc = "lookup" /\ requests'[r].prior = None)
<1>1. requests[r].pc = "idle"
  BY DEF Prove
<1>2. CASE ProveRefusal(in) = "none"
  <2>1. requests'[r] = Proved(in) /\ OthersWait(r)
    BY <1>2 DEF Prove, TypeOK, OthersWait
  <2>2. Proved(in).pc = "lookup" /\ Proved(in).prior = None
    BY DEF Proved, AttemptRead, IdleRequest
  <2> QED BY <1>1, <2>1, <2>2
<1>3. CASE ProveRefusal(in) # "none"
  BY <1>1, <1>3, AnswerRow DEF Prove
<1> QED BY <1>2, <1>3

\* LookUp: the operation is not there, or its row is kept with the invocation.
LEMMA LookUpRow ==
  ASSUME TypeOK, NEW r \in Requests, LookUp(r)
  PROVE  /\ OthersWait(r) /\ requests[r].pc = "lookup"
         /\ LET q == requests[r]
                p == requests'[r]
                o == RequestOpKey(q)
            IN
            \/ p.pc = "done" /\ p.code \notin Rechecked
            \/ p.pc = "license" /\ SameReads(p, q)
            \/ /\ o \in OpKeys /\ operations[o].exists /\ operations[o].digest.subject = q.subject
               /\ p.pc = IF q.purpose = "exchange" THEN "reread" ELSE "license"
               /\ p.prior = operations[o].inv /\ p.priorBinding = operations[o].binding
               /\ p.purpose = q.purpose /\ p.subject = q.subject /\ p.op = q.op /\ p.key = q.key
<1> DEFINE q == requests[r]
<1>1. q \in RequestState /\ q.pc = "lookup"
  BY DEF TypeOK, LookUp
<1>2. PICK o \in OpKeys :
        /\ o = RequestOpKey(q)
        /\ IF ~operations[o].exists
           THEN requests' = [requests EXCEPT ![r].pc = "license"]
           ELSE IF \/ operations[o].digest # RequestDigest(q)
                   \/ ~operations[o].response \/ operations[o].retain <= now
           THEN Answer(r, "idempotency_conflict")
           ELSE requests' = [requests EXCEPT ![r] =
                  [q EXCEPT !.prior = operations[o].inv, !.priorBinding = operations[o].binding,
                            !.pc = IF q.purpose = "exchange" THEN "reread" ELSE "license"]]
  BY DEF LookUp
<1>3. CASE ~operations[o].exists
  <2>1. requests'[r] = [q EXCEPT !.pc = "license"] /\ OthersWait(r)
    BY <1>2, <1>3 DEF TypeOK, OthersWait
  <2> QED BY <1>1, <2>1 DEF RequestState, SameReads
<1>4. CASE operations[o].exists /\ Answer(r, "idempotency_conflict")
  BY <1>1, <1>4, AnswerRow DEF Rechecked
<1>5. CASE operations[o].exists /\ ~Answer(r, "idempotency_conflict")
  <2>1. /\ requests'[r] = [q EXCEPT !.prior = operations[o].inv, !.priorBinding = operations[o].binding,
                                    !.pc = IF q.purpose = "exchange" THEN "reread" ELSE "license"]
        /\ OthersWait(r) /\ operations[o].digest = RequestDigest(q)
    BY <1>2, <1>5 DEF TypeOK, OthersWait
  <2>2. operations[o].digest.subject = q.subject
    BY <2>1 DEF RequestDigest
  <2> QED BY <1>1, <1>2, <1>5, <2>1, <2>2 DEF RequestState
<1> QED BY <1>3, <1>4, <1>5

\* Reread: the attempt is read as it is now.
LEMMA RereadRow ==
  ASSUME TypeOK, NEW r \in Requests, Reread(r)
  PROVE  /\ OthersWait(r) /\ requests[r].pc = "reread"
         /\ LET q == requests[r]
                p == requests'[r]
            IN
            \/ p.pc = "done" /\ p.code \notin Rechecked
            \/ /\ q.subject \in Attempts /\ attempts[q.subject].status \notin {"none", "purged"}
               /\ p.pc = "license" /\ p.status = attempts[q.subject].status
               /\ p.attOp = attempts[q.subject].op /\ p.attInv = attempts[q.subject].inv
               /\ p.purpose = q.purpose /\ p.subject = q.subject /\ p.op = q.op /\ p.key = q.key
               /\ p.prior = q.prior /\ p.priorBinding = q.priorBinding
<1> DEFINE q == requests[r]
<1>1. q \in RequestState /\ q.pc = "reread"
  BY DEF TypeOK, Reread
<1>2. CASE \E a \in Attempts : a = q.subject /\ attempts[a].status \notin {"none", "purged"}
  <2>1. requests'[r] = [AttemptRead(q, q.subject) EXCEPT !.pc = "license"] /\ OthersWait(r)
    BY <1>2 DEF Reread, TypeOK, OthersWait
  <2> QED BY <1>1, <1>2, <2>1 DEF RequestState, AttemptRead
<1>3. CASE ~\E a \in Attempts : a = q.subject /\ attempts[a].status \notin {"none", "purged"}
  BY <1>1, <1>3, AnswerRow DEF Reread, Rechecked
<1> QED BY <1>2, <1>3

\* ReadLicense: the lease window is computed from what the license says now.
LEMMA ReadLicenseRow ==
  ASSUME TypeOK, NEW r \in Requests, ReadLicense(r)
  PROVE  /\ OthersWait(r) /\ requests[r].pc = "license"
         /\ LET q == requests[r]
                p == requests'[r]
            IN
            \/ /\ Deny(r, LicenseRefusal(q)) /\ LicenseRefusal(q) # "none"
            \/ /\ LicenseRefusal(q) = "none" /\ p.pc = "device" /\ SameReads(p, q)
               /\ p.entRev = entitlements[q.license].rev /\ p.limit = entitlements[q.license].max
               /\ p.issued = now /\ p.expires = LeaseEnd(q.license, entitlements[q.license])
<1> DEFINE q == requests[r]
           e == entitlements[q.license]
<1>1. q \in RequestState /\ q.pc = "license"
  BY DEF TypeOK, ReadLicense
<1>2. CASE LicenseRefusal(q) # "none"
  BY <1>1, <1>2, DenyRow DEF ReadLicense
<1>3. CASE LicenseRefusal(q) = "none"
  <2>1. /\ requests'[r] = [q EXCEPT !.pc = "device", !.custRev = customers[q.customer].rev, !.entRev = e.rev,
                      !.limit = e.max, !.issued = now, !.expires = LeaseEnd(q.license, e),
                      !.stamp = q.license \in Trials /\ e.started = NoTime]
        /\ OthersWait(r)
    BY <1>3 DEF ReadLicense, TypeOK, OthersWait
  <2> QED BY <1>1, <1>3, <2>1 DEF RequestState, SameReads
<1> QED BY <1>2, <1>3

\* The binding ReadDevice looks at.
BindingRead(q) ==
  IF TargetBinding(q) # None THEN TargetBinding(q)
  ELSE IF devices[q.key].status = "none" THEN None ELSE ActiveBindingOf(q.license, q.key)

\* ReadDevice: to the capacity check without a binding, to the batch with one.
LEMMA ReadDeviceRow ==
  ASSUME TypeOK, NEW r \in Requests, ReadDevice(r)
  PROVE  /\ OthersWait(r) /\ requests[r].pc = "device"
         /\ LET q == requests[r]
                p == requests'[r]
                b == BindingRead(q)
            IN
            \/ Deny(r, DeviceRefusal(q, b)) /\ DeviceRefusal(q, b) # "none"
            \/ p.pc = "done" /\ p.code \notin Rechecked
            \/ b = None /\ p.pc = "capacity" /\ SameReads(p, q) /\ SameWindow(p, q)
            \/ /\ b # None /\ p.pc = IF q.prior # None THEN "recover" ELSE "commit"
               /\ p.binding = b /\ SameReads(p, q) /\ SameWindow(p, q)
<1> DEFINE q == requests[r]
           d == devices[q.key]
           b == BindingRead(q)
           known == [q EXCEPT !.known = d.status # "none", !.devRev = d.rev]
<1>1. q \in RequestState /\ q.pc = "device"
  BY DEF TypeOK, ReadDevice
<1>2. IF DeviceRefusal(q, b) # "none" THEN Deny(r, DeviceRefusal(q, b))
      ELSE IF b = None THEN requests' = [requests EXCEPT ![r] = [known EXCEPT !.pc = "capacity"]]
      ELSE IF Ready(q) = "refused" THEN Answer(r, "access_denied")
      ELSE requests' = [requests EXCEPT ![r] =
             [known EXCEPT !.pc = Ready(q), !.binding = b, !.bindRev = bindings[b].rev, !.gen = bindings[b].gen]]
  BY DEF ReadDevice, BindingRead
<1>3. CASE DeviceRefusal(q, b) # "none"
  BY <1>1, <1>2, <1>3, DenyRow
<1>4. CASE DeviceRefusal(q, b) = "none" /\ b = None
  <2>1. requests'[r] = [known EXCEPT !.pc = "capacity"] /\ OthersWait(r)
    BY <1>2, <1>4 DEF TypeOK, OthersWait
  <2>2. requests'[r].pc = "capacity" /\ SameReads(requests'[r], q) /\ SameWindow(requests'[r], q)
    BY <1>1, <2>1 DEF RequestState, SameReads, SameWindow
  <2> QED BY <1>1, <1>4, <2>1, <2>2
<1>5. CASE DeviceRefusal(q, b) = "none" /\ b # None /\ Ready(q) = "refused"
  BY <1>1, <1>2, <1>5, AnswerRow DEF Rechecked
<1>6. CASE DeviceRefusal(q, b) = "none" /\ b # None /\ Ready(q) # "refused"
  <2>1. /\ requests'[r] = [known EXCEPT !.pc = Ready(q), !.binding = b, !.bindRev = bindings[b].rev, !.gen = bindings[b].gen]
        /\ OthersWait(r)
    BY <1>2, <1>6 DEF TypeOK, OthersWait
  <2>2. requests'[r].pc = Ready(q) /\ requests'[r].binding = b /\ SameReads(requests'[r], q) /\ SameWindow(requests'[r], q)
    <3> HIDE DEF b
    <3> QED BY <1>1, <2>1 DEF RequestState, SameReads, SameWindow
  <2>3. Ready(q) = IF q.prior # None THEN "recover" ELSE "commit"
    BY <1>6 DEF Ready
  <2> QED BY <1>1, <1>6, <2>1, <2>2, <2>3
<1> QED BY <1>3, <1>4, <1>5, <1>6

\* CheckCapacity: a device without a binding goes to the batch with generation 1.
LEMMA CapacityRow ==
  ASSUME TypeOK, NEW r \in Requests, CheckCapacity(r)
  PROVE  /\ OthersWait(r) /\ requests[r].pc = "capacity"
         /\ LET q == requests[r]
                p == requests'[r]
            IN
            \/ Deny(r, "device_limit_reached")
            \/ p.pc = "done" /\ p.code \notin Rechecked
            \/ p.pc = "commit" /\ p.gen = 1 /\ SameReads(p, q) /\ SameWindow(p, q)
<1> DEFINE q == requests[r]
<1>1. q \in RequestState /\ q.pc = "capacity"
  BY DEF TypeOK, CheckCapacity
<1>2. \/ Answer(r, "temporarily_unavailable") \/ Deny(r, "device_limit_reached") \/ Answer(r, "access_denied")
      \/ requests' = [requests EXCEPT ![r] = [@ EXCEPT !.pc = "commit", !.gen = 1]]
  BY DEF CheckCapacity
<1>3. CASE Answer(r, "temporarily_unavailable") \/ Answer(r, "access_denied")
  BY <1>1, <1>3, AnswerRow DEF Rechecked
<1>4. CASE Deny(r, "device_limit_reached")
  BY <1>1, <1>4, DenyRow
<1>5. CASE requests' = [requests EXCEPT ![r] = [@ EXCEPT !.pc = "commit", !.gen = 1]]
  <2>1. requests'[r] = [q EXCEPT !.pc = "commit", !.gen = 1] /\ OthersWait(r)
    BY <1>5 DEF TypeOK, OthersWait
  <2> QED BY <1>1, <2>1 DEF RequestState, SameReads, SameWindow
<1> QED BY <1>2, <1>3, <1>4, <1>5

\* The steps that end an invocation: only a recheck may repeat a denial, and it
\* does so when the operation is still not there.
LEMMA LastRow ==
  ASSUME TypeOK, NEW r \in Requests,
         \/ Recheck(r) \/ CommitAborts(r) \/ RecoverAborts(r) \/ Fail(r)
         \/ \E o \in OpKeys, l \in Licenses, b \in Bindings : Commit(r, o, l, b) \/ Recover(r, o, l, b)
  PROVE  /\ OthersWait(r) /\ requests'[r].pc = "done"
         /\ requests'[r].code \in Rechecked => ~operations[RequestOpKey(requests[r])].exists
<1>1. CASE Recheck(r)
  <2>1. PICK o \in OpKeys : /\ o = RequestOpKey(requests[r])
                            /\ Answer(r, IF operations[o].exists THEN "temporarily_unavailable" ELSE requests[r].code)
    BY <1>1 DEF Recheck
  <2> QED BY <2>1, AnswerRow DEF Rechecked
<1>2. CASE CommitAborts(r) \/ RecoverAborts(r) \/ Fail(r)
  <2>1. Answer(r, "temporarily_unavailable")
    BY <1>2 DEF CommitAborts, RecoverAborts, Fail
  <2> QED BY <2>1, AnswerRow DEF Rechecked
<1>3. CASE \E o \in OpKeys, l \in Licenses, b \in Bindings : Commit(r, o, l, b) \/ Recover(r, o, l, b)
  <2>1. \E o, answer : Reply(r, o, answer)
    BY <1>3 DEF Commit, Recover
  <2>2. Answer(r, "ok") \/ Answer(r, "temporarily_unavailable")
    BY <2>1 DEF Reply
  <2> QED BY <2>2, AnswerRow DEF Rechecked
<1> QED BY <1>1, <1>2, <1>3

-----------------------------------------------------------------------------
(* Retirement. *)

\* An invocation that found no binding commits generation 1.
FreshGeneration ==
  \A r \in Requests : requests[r].pc = "commit" /\ requests[r].binding = None => requests[r].gen = 1

\* A commit is reached from a binding that was read or from the capacity check.
LEMMA FreshGenerationHolds ==
  ASSUME TypeOK, FreshGeneration, [Next]_vars
  PROVE  FreshGeneration'
<1>1. CASE UNCHANGED requests
  BY <1>1 DEF FreshGeneration
<1>2. CASE IssueNext
  <2>1. PICK r \in Requests : (\E in \in RequestInputs : Prove(r, in)) \/ IssueStep(r) \/ Fail(r)
    BY <1>2 DEF IssueNext
  <2> DEFINE Fresh == OthersWait(r) /\ (requests'[r].pc = "commit" => requests'[r].binding # None \/ requests'[r].gen = 1)
  <2>2. (\E in \in RequestInputs : Prove(r, in)) => Fresh
    BY ProveRow
  <2>3. LookUp(r) => Fresh
    BY LookUpRow
  <2>4. Reread(r) => Fresh
    BY RereadRow
  <2>5. \A code : Deny(r, code) => Fresh
    BY DenyRow
  <2>6. ReadLicense(r) => Fresh
    BY <2>5, ReadLicenseRow
  <2>7. ReadDevice(r) => Fresh
    <3>1. ASSUME ReadDevice(r)
          PROVE  \/ Deny(r, DeviceRefusal(requests[r], BindingRead(requests[r])))
                 \/ OthersWait(r) /\ requests'[r].pc \in {"done", "capacity", "recover"}
                 \/ OthersWait(r) /\ requests'[r].binding # None
      BY <3>1, ReadDeviceRow
    <3> QED BY <2>5, <3>1
  <2>8. CheckCapacity(r) => Fresh
    BY <2>5, CapacityRow
  <2>9. (\/ Recheck(r) \/ CommitAborts(r) \/ RecoverAborts(r) \/ Fail(r)
         \/ \E o \in OpKeys, l \in Licenses, b \in Bindings : Commit(r, o, l, b) \/ Recover(r, o, l, b)) => Fresh
    BY LastRow
  <2>10. Fresh
    <3> HIDE DEF Fresh
    <3> QED BY <2>1, <2>2, <2>3, <2>4, <2>6, <2>7, <2>8, <2>9 DEF IssueStep
  <2> QED BY <2>10 DEF FreshGeneration, OthersWait
<1> QED BY <1>1, <1>2, Writers

\* A lease is carried by a binding that holds its slot for as long as the lease
\* is acceptable, in its generation until the binding is retired.
LeasesCarried ==
  \A r \in Issued :
    LET b == bindings[leases[r].binding] IN
    /\ leases[r].binding \in Bindings
    /\ leases[r].accept <= b.hold
    /\ b.state \in {"active", "retiring"}
    /\ b.state = "active" => leases[r].gen = b.gen
    /\ b.state = "retiring" => leases[r].gen < b.gen

\* LeasesCarried is inductive: a commit extends the hold over its own lease, a
\* retirement advances the generation past every lease.
LEMMA LeasesCarriedHolds ==
  ASSUME TypeOK, TypeOK', LeasesAnswered, FreshGeneration, LeasesCarried, [Next]_vars
  PROVE  LeasesCarried'
<1> DEFINE Carried(x, lease, b) ==
             /\ lease.binding = x /\ lease.accept <= b.hold
             /\ b.state \in {"active", "retiring"}
             /\ b.state = "active" => lease.gen = b.gen
             /\ b.state = "retiring" => lease.gen < b.gen
<1>1. ASSUME NEW r \in Issued', r \in Issued
      PROVE  leases'[r].binding \in Bindings /\ Carried(leases'[r].binding, leases'[r], bindings'[leases'[r].binding])
  <2> DEFINE x == leases[r].binding
  <2>1. r \in Requests /\ x \in Bindings /\ Carried(x, leases[r], bindings[x])
    BY <1>1 DEF Issued, LeasesCarried
  <2>2. /\ leases'[r].binding = x /\ leases'[r].gen = leases[r].gen /\ leases'[r].accept = leases[r].accept
    BY <1>1, <2>1, LeasesStand
  <2>3. /\ leases[r].accept \in Int /\ leases[r].gen \in Int
        /\ bindings[x].hold \in Int /\ bindings[x].gen \in Int
    BY <2>1, TimingAssumption DEF TypeOK, LeaseRow, BindingRow, Horizon, Revisions
  <2>4. bindings'[x].hold \in Int
    BY <2>1, TimingAssumption DEF TypeOK, BindingRow, Horizon
  <2> HIDE DEF x
  <2>5. CASE bindings[x].state = "retiring"
    BY <2>1, <2>2, <2>5, BindingsStand
  <2>6. CASE bindings[x].state = "active"
    BY <2>1, <2>2, <2>3, <2>4, <2>6, BindingsStand
  <2> QED BY <2>1, <2>5, <2>6
<1>2. ASSUME NEW r \in Issued', r \notin Issued
      PROVE  leases'[r].binding \in Bindings /\ Carried(leases'[r].binding, leases'[r], bindings'[leases'[r].binding])
  <2>1. r \in Requests
    BY DEF Issued
  <2>2. PICK o \in OpKeys, l \in Licenses, b \in Bindings : Commit(r, o, l, b)
    BY <1>2, <2>1, LeasesStand
  <2>3. /\ leases'[r].binding = b /\ leases'[r].gen = requests[r].gen
        /\ leases'[r].accept = requests[r].expires + Allowance
    BY <2>1, <2>2, CommitLease
  <2>4. bindings'[b].gen = requests[r].gen
    <3>1. requests[r].pc = "commit"
      BY <2>2 DEF Commit
    <3> QED BY <2>1, <2>2, <3>1, CommitBinding DEF FreshGeneration
  <2> QED BY <2>1, <2>2, <2>3, <2>4, CommitBinding
<1> QED BY <1>1, <1>2 DEF LeasesCarried

\* A retirement fences: every lease of a retired binding carries an older
\* generation, every other lease the one of its binding.
THEOREM RetirementFencesLeasesHolds == Spec => []RetirementFencesLeases
<1>1. Init => LeasesAnswered /\ FreshGeneration /\ LeasesCarried
  BY InitTyped, InitRefines, NothingAtFirst DEF FreshGeneration, LeasesCarried
<1>2. TypeOK /\ TypeOK' /\ LeasesAnswered /\ FreshGeneration /\ LeasesCarried /\ [Next]_vars =>
        LeasesAnswered' /\ FreshGeneration' /\ LeasesCarried'
  BY LeasesAnsweredHolds, FreshGenerationHolds, LeasesCarriedHolds
<1>3. LeasesCarried => RetirementFencesLeases
  BY DEF LeasesCarried, RetirementFencesLeases
<1> QED BY <1>1, <1>2, <1>3, TypeCorrect, PTL DEF Spec

\* What a stored retirement says of its binding.
RetirementsStored ==
  \A o \in OpKeys :
    o[2] = "retire" /\ operations[o].exists =>
      /\ operations[o].binding \in Bindings /\ bindings[operations[o].binding].state = "retiring"
      /\ Later(bindings[operations[o].binding].hold, operations[o].committed) = operations[o].release

\* RetirementsStored is inductive: the batch writes both, and a retiring
\* binding is never written again.
LEMMA RetirementsStoredHolds ==
  ASSUME TypeOK, RetirementsStored, [Next]_vars
  PROVE  RetirementsStored'
<1>1. ASSUME NEW o \in OpKeys, o[2] = "retire", operations[o].exists
      PROVE  /\ operations'[o].binding \in Bindings /\ bindings'[operations'[o].binding].state = "retiring"
             /\ Later(bindings'[operations'[o].binding].hold, operations'[o].committed) = operations'[o].release
  <2>1. /\ operations'[o].binding = operations[o].binding /\ operations'[o].committed = operations[o].committed
        /\ operations'[o].release = operations[o].release
    BY <1>1, OperationsStand
  <2>2. operations[o].binding \in Bindings /\ bindings[operations[o].binding].state = "retiring"
    BY <1>1 DEF RetirementsStored
  <2>3. bindings'[operations[o].binding] = bindings[operations[o].binding]
    BY <2>2, BindingsStand
  <2> QED BY <1>1, <2>1, <2>2, <2>3 DEF RetirementsStored
<1>2. ASSUME NEW o \in OpKeys, o[2] = "retire", ~operations[o].exists, operations'[o].exists
      PROVE  /\ operations'[o].binding \in Bindings /\ bindings'[operations'[o].binding].state = "retiring"
             /\ Later(bindings'[operations'[o].binding].hold, operations'[o].committed) = operations'[o].release
  <2>1. ~UNCHANGED operations
    BY <1>2
  <2>2. ~ExpireResponses
    <3>1. SUFFICES ASSUME ExpireResponses
                   PROVE  FALSE
      OBVIOUS
    <3>2. operations'[o] = operations[o] \/ operations'[o] = WithoutResponse(o)
      BY <3>1 DEF ExpireResponses
    <3>3. operations[o] \in OperationRow
      BY DEF TypeOK
    <3>4. WithoutResponse(o).exists = operations[o].exists
      BY <3>3 DEF WithoutResponse, OperationRow
    <3> QED BY <1>2, <3>2, <3>4
  <2>3. ~Commits
    <3>1. SUFFICES ASSUME NEW r \in Requests, NEW p \in OpKeys, NEW l \in Licenses, NEW b \in Bindings, Commit(r, p, l, b)
                   PROVE  FALSE
      BY DEF Commits
    <3>2. p = <<requests[r].key, requests[r].purpose, requests[r].op>> /\ requests[r].purpose \in {"exchange", "renew"}
      BY <3>1, CommitOperation DEF TypeOK, RequestState
    <3>3. p[2] # "retire"
      BY <3>2
    <3> QED BY <1>2, <3>1, <3>3, CommitOperation
  <2>4. PICK t \in Retires, p \in OpKeys, b \in Bindings : RetireBatch(t, p, b)
    BY <2>1, <2>2, <2>3, Writers DEF Retirements
  <2>5. operations' = [operations EXCEPT ![p] =
          [exists |-> TRUE, digest |-> RetireDigest(retires[t]), inv |-> t, customer |-> retires[t].customer, binding |-> b,
           response |-> TRUE, committed |-> now, retain |-> now + RecoveryTTL,
           release |-> Later(bindings[b].hold, now), rev |-> bindings[b].rev + 1, gen |-> bindings[b].gen + 1]]
    BY <2>4 DEF RetireBatch
  <2>6. o = p
    BY <1>2, <2>5 DEF TypeOK
  <2>7. /\ operations'[o].binding = b /\ operations'[o].committed = now
        /\ operations'[o].release = Later(bindings[b].hold, now)
    BY <2>5, <2>6 DEF TypeOK
  <2>8. bindings'[b] = Retired(bindings[b]) /\ bindings[b] \in BindingRow
    BY <2>4 DEF RetireBatch, TypeOK
  <2> QED BY <2>7, <2>8, RetiredRow
<1> QED BY <1>1, <1>2 DEF RetirementsStored

\* What a retirement promised stays true: the slot is free exactly at the
\* release it answered, and no lease of the binding is accepted after it.
THEOREM RetirementPromiseKeptHolds == Spec => []RetirementPromiseKept
<1>1. Init => LeasesAnswered /\ FreshGeneration /\ LeasesCarried /\ RetirementsStored
  BY InitTyped, InitRefines, NothingAtFirst DEF FreshGeneration, LeasesCarried, RetirementsStored
<1>2. TypeOK /\ TypeOK' /\ LeasesAnswered /\ FreshGeneration /\ LeasesCarried /\ RetirementsStored /\ [Next]_vars =>
        LeasesAnswered' /\ FreshGeneration' /\ LeasesCarried' /\ RetirementsStored'
  BY LeasesAnsweredHolds, FreshGenerationHolds, LeasesCarriedHolds, RetirementsStoredHolds
<1>3. TypeOK /\ LeasesCarried /\ RetirementsStored => RetirementPromiseKept
  <2>1. SUFFICES ASSUME TypeOK, LeasesCarried, RetirementsStored, NEW o \in OpKeys, o[2] = "retire", operations[o].exists
                 PROVE  LET b == bindings[operations[o].binding] IN
                        /\ b.state = "retiring" /\ Later(b.hold, operations[o].committed) = operations[o].release
                        /\ \A r \in Issued : leases[r].binding = operations[o].binding =>
                                               leases[r].accept <= operations[o].release
    BY DEF RetirementPromiseKept
  <2> DEFINE hold == bindings[operations[o].binding].hold
  <2>2. /\ operations[o].binding \in Bindings /\ bindings[operations[o].binding].state = "retiring"
        /\ Later(hold, operations[o].committed) = operations[o].release
    BY <2>1 DEF RetirementsStored
  <2>3. hold \in Int /\ operations[o].committed \in Int
    BY <2>1, <2>2, TimingAssumption DEF TypeOK, BindingRow, OperationRow, Horizon
  <2>4. hold <= operations[o].release
    BY <2>2, <2>3 DEF Later
  <2>5. ASSUME NEW r \in Issued, leases[r].binding = operations[o].binding
        PROVE  leases[r].accept <= operations[o].release
    <3>1. leases[r].accept <= hold
      BY <2>1, <2>5 DEF LeasesCarried
    <3>2. leases[r].accept \in Int /\ operations[o].release \in Int
      BY <2>1, TimingAssumption DEF TypeOK, LeaseRow, OperationRow, Horizon, Issued
    <3> QED BY <2>3, <2>4, <3>1, <3>2
  <2> QED BY <2>2, <2>5
<1> QED BY <1>1, <1>2, <1>3, TypeCorrect, PTL DEF Spec

-----------------------------------------------------------------------------
(* Licenses: revisions and trials. *)

\* deviceLeaseWindow: a lease ends with the grant, and after lease_seconds.
LEMMA LeaseEndBounds ==
  ASSUME TypeOK, NEW l \in Licenses
  PROVE  /\ LeaseEnd(l, entitlements[l]) <= entitlements[l].until
         /\ entitlements[l].lease > 0 => LeaseEnd(l, entitlements[l]) <= now + entitlements[l].lease
<1> DEFINE e == entitlements[l]
           paid == Lesser(e.until, IF e.lease > 0 THEN now + e.lease ELSE now + LeaseMax)
           open == IF l \in Trials THEN Lesser(paid, TrialEnd(l, e, now)) ELSE paid
<1>1. /\ e.until \in Int /\ e.lease \in Int /\ e.started \in Int
      /\ now \in Int /\ LeaseMax \in Int /\ TrialSeconds \in Int
  BY TimingAssumption DEF TypeOK, EntitlementRow, Time, NoTime
<1>2. paid \in Int /\ paid <= e.until /\ (e.lease > 0 => paid <= now + e.lease)
  BY <1>1 DEF Lesser
<1>3. TrialEnd(l, e, now) \in Int
  BY <1>1 DEF TrialEnd
<1>4. open \in Int /\ open <= paid
  <2> HIDE DEF paid
  <2> QED BY <1>2, <1>3 DEF Lesser
<1>5. LeaseEnd(l, e) = Lesser(open, now + LeaseMax)
  BY DEF LeaseEnd
<1> HIDE DEF open, paid
<1>6. LeaseEnd(l, e) \in Int /\ LeaseEnd(l, e) <= open
  BY <1>1, <1>4, <1>5 DEF Lesser
<1> QED BY <1>1, <1>2, <1>4, <1>6

\* RevisionStandsForAuthority, and that no invocation read a revision the
\* license does not have yet.
AuthorityKnown ==
  \A r \in Requests :
    LET q == requests[r] IN
    q.pc \in {"device", "capacity", "commit"} =>
      LET e == entitlements[q.license] IN
      /\ q.license \in Licenses /\ q.entRev <= e.rev
      /\ q.entRev = e.rev =>
           /\ q.limit = e.max /\ e.status = "active" /\ e.owner = q.customer
           /\ q.expires <= e.until
           /\ e.lease > 0 => q.expires <= q.issued + e.lease

\* AuthorityKnown is inductive: every write of a license counts.
LEMMA AuthorityKnownHolds ==
  ASSUME TypeOK, TypeOK', AuthorityKnown, [Next]_vars
  PROVE  AuthorityKnown'
<1> DEFINE Known(q, e) ==
             /\ q.entRev <= e.rev
             /\ q.entRev = e.rev =>
                  /\ q.limit = e.max /\ e.status = "active" /\ e.owner = q.customer
                  /\ q.expires <= e.until
                  /\ e.lease > 0 => q.expires <= q.issued + e.lease
<1>1. ASSUME NEW x \in Requests, requests'[x].pc \in {"device", "capacity", "commit"},
             requests[x].pc \in {"device", "capacity", "commit"},
             SameReads(requests'[x], requests[x]) /\ SameWindow(requests'[x], requests[x])
      PROVE  requests'[x].license \in Licenses /\ Known(requests'[x], entitlements'[requests'[x].license])
  <2> DEFINE q == requests[x]
             l == q.license
  <2>1. l \in Licenses /\ Known(q, entitlements[l])
    BY <1>1 DEF AuthorityKnown
  <2>2. /\ requests'[x].license = l /\ requests'[x].customer = q.customer /\ requests'[x].entRev = q.entRev
        /\ requests'[x].limit = q.limit /\ requests'[x].issued = q.issued /\ requests'[x].expires = q.expires
    BY <1>1 DEF SameReads, SameWindow
  <2>3. q.entRev \in Int /\ entitlements[l].rev \in Int /\ entitlements'[l].rev \in Int
    BY <2>1 DEF TypeOK, RequestState, EntitlementRow, Revisions
  <2>4. entitlements'[l] = entitlements[l] \/ entitlements'[l].rev > entitlements[l].rev
    BY <2>1, EntitlementsStand
  <2> HIDE DEF q, l
  <2> QED BY <2>1, <2>2, <2>3, <2>4
<1>2. ASSUME NEW x \in Requests, requests'[x].pc \in {"device", "capacity", "commit"}
      PROVE  requests'[x].license \in Licenses /\ Known(requests'[x], entitlements'[requests'[x].license])
  <2>1. CASE requests'[x] = requests[x]
    BY <1>1, <1>2, <2>1 DEF SameReads, SameWindow
  <2>2. CASE requests'[x] # requests[x]
    <3>1. IssueNext
      BY <2>2, Writers
    <3>2. PICK r \in Requests : (\E in \in RequestInputs : Prove(r, in)) \/ IssueStep(r) \/ Fail(r)
      BY <3>1 DEF IssueNext
    <3>3. CASE \/ \E in \in RequestInputs : Prove(r, in)
               \/ LookUp(r) \/ Reread(r) \/ Recheck(r) \/ CommitAborts(r) \/ RecoverAborts(r) \/ Fail(r)
               \/ \E o \in OpKeys, l \in Licenses, b \in Bindings : Commit(r, o, l, b) \/ Recover(r, o, l, b)
      <4>1. OthersWait(r) /\ requests'[r].pc \in {"lookup", "reread", "license", "done"}
        BY <3>3, ProveRow, LookUpRow, RereadRow, LastRow
      <4> QED BY <1>2, <2>2, <4>1 DEF OthersWait
    <3>4. CASE ReadLicense(r)
      <4> DEFINE q == requests[r]
                 e == entitlements[q.license]
      <4>1. x = r /\ ~Deny(r, LicenseRefusal(q))
        BY <1>2, <2>2, <3>4, ReadLicenseRow, DenyRow DEF OthersWait
      <4>2. /\ LicenseRefusal(q) = "none" /\ SameReads(requests'[r], q)
            /\ requests'[r].entRev = e.rev /\ requests'[r].limit = e.max
            /\ requests'[r].issued = now /\ requests'[r].expires = LeaseEnd(q.license, e)
        BY <3>4, <4>1, ReadLicenseRow
      <4>3. q.license \in Licenses /\ Usable(q.license, q.customer)
        BY <4>2 DEF LicenseRefusal
      <4>4. e.status = "active" /\ e.owner = q.customer
        BY <4>3 DEF Usable
      <4>5. UNCHANGED entitlements
        BY <3>4 DEF ReadLicense, OnlyRequests
      <4>6. requests'[r].license = q.license /\ requests'[r].customer = q.customer
        BY <4>2 DEF SameReads
      <4>7. e.rev <= e.rev
        BY <4>3 DEF TypeOK, EntitlementRow, Revisions
      <4>8. requests'[r].expires <= e.until /\ (e.lease > 0 => requests'[r].expires <= requests'[r].issued + e.lease)
        BY <4>2, <4>3, LeaseEndBounds
      <4> HIDE DEF q, e
      <4>9. Known(requests'[r], e)
        BY <4>2, <4>4, <4>6, <4>7, <4>8
      <4> QED BY <4>1, <4>3, <4>5, <4>6, <4>9 DEF e
    <3>5. CASE ReadDevice(r)
      <4>1. x = r
        BY <2>2, <3>5, ReadDeviceRow DEF OthersWait
      <4>2. SameReads(requests'[r], requests[r]) /\ SameWindow(requests'[r], requests[r]) /\ requests[r].pc = "device"
        BY <1>2, <3>5, <4>1, ReadDeviceRow, DenyRow
      <4> QED BY <1>1, <1>2, <4>1, <4>2
    <3>6. CASE CheckCapacity(r)
      <4>1. x = r
        BY <2>2, <3>6, CapacityRow DEF OthersWait
      <4>2. SameReads(requests'[r], requests[r]) /\ SameWindow(requests'[r], requests[r]) /\ requests[r].pc = "capacity"
        BY <1>2, <3>6, <4>1, CapacityRow, DenyRow
      <4> QED BY <1>1, <1>2, <4>1, <4>2
    <3> QED BY <3>2, <3>3, <3>4, <3>5, <3>6 DEF IssueStep
  <2> QED BY <2>1, <2>2
<1> QED BY <1>2 DEF AuthorityKnown

\* An invocation that read the license at its current revision read what the
\* license says now, so the commit may compare one number.
THEOREM RevisionStandsForAuthorityHolds == Spec => []RevisionStandsForAuthority
<1>1. Init => AuthorityKnown
  BY NothingAtFirst DEF AuthorityKnown
<1>2. TypeOK /\ TypeOK' /\ AuthorityKnown /\ [Next]_vars => AuthorityKnown'
  BY AuthorityKnownHolds
<1>3. AuthorityKnown => RevisionStandsForAuthority
  BY DEF AuthorityKnown, RevisionStandsForAuthority
<1> QED BY <1>1, <1>2, <1>3, TypeCorrect, PTL DEF Spec

\* TrialStartsOnce, of leases that name a license.
TrialsStarted ==
  \A x \in Issued :
    LET l == leases[x].license
        e == entitlements[l]
    IN  /\ l \in Licenses
        /\ l \in Trials =>
             /\ e.started # NoTime
             /\ l \in OnePerDevice => leases[x].opKey[1] = e.trialKey
             /\ l \notin IssueTrials => leases[x].expires <= e.started + TrialSeconds

\* TrialsStarted is inductive: only the first commit on a trial starts it, and
\* every other is admitted by the start that is written.
LEMMA TrialsStartedHolds ==
  ASSUME TypeOK, LeasesAnswered, TrialsStarted, [Next]_vars
  PROVE  TrialsStarted'
<1> DEFINE Started(lease, e) ==
             lease.license \in Trials =>
               /\ e.started # NoTime
               /\ lease.license \in OnePerDevice => lease.opKey[1] = e.trialKey
               /\ lease.license \notin IssueTrials => lease.expires <= e.started + TrialSeconds
<1>1. ASSUME NEW x \in Issued', x \in Issued
      PROVE  leases'[x].license \in Licenses /\ Started(leases'[x], entitlements'[leases'[x].license])
  <2> DEFINE l == leases[x].license
  <2>1. x \in Requests /\ l \in Licenses /\ Started(leases[x], entitlements[l])
    BY <1>1 DEF TrialsStarted, Issued
  <2>2. /\ leases'[x].license = l /\ leases'[x].opKey = leases[x].opKey /\ leases'[x].expires = leases[x].expires
    BY <1>1, <2>1, LeasesStand
  <2>3. entitlements[l].started # NoTime =>
          entitlements'[l].started = entitlements[l].started /\ entitlements'[l].trialKey = entitlements[l].trialKey
    BY <2>1, EntitlementsStand
  <2> QED BY <2>1, <2>2, <2>3
<1>2. ASSUME NEW x \in Issued', x \notin Issued
      PROVE  leases'[x].license \in Licenses /\ Started(leases'[x], entitlements'[leases'[x].license])
  <2>1. x \in Requests
    BY DEF Issued
  <2>2. PICK o \in OpKeys, l \in Licenses, b \in Bindings : Commit(x, o, l, b)
    BY <1>2, <2>1, LeasesStand
  <2> DEFINE q == requests[x]
             e == entitlements[l]
  <2>3. leases'[x].license = l /\ leases'[x].opKey[1] = q.key /\ leases'[x].expires = q.expires
    BY <2>1, <2>2, CommitLease, CommitOperation
  <2>4. /\ q.issued <= now
        /\ TrialOpen(l, e, q.key, TRUE)
        /\ l \in Trials => q.expires <= TrialEnd(l, e, q.issued)
    BY <2>2 DEF Commit, CommitGuard, AuthorityHolds
  <2>5. now \in Nat /\ q.issued \in Nat /\ q.expires \in Nat /\ TrialSeconds \in Nat
    BY <2>1, TimingAssumption DEF TypeOK, RequestState
  <2>6. CASE l \in Trials /\ e.started = NoTime
    <3>1. entitlements'[l].started = now /\ entitlements'[l].trialKey = q.key
      BY <2>1, <2>2, <2>6, CommitEntitlement
    <3>2. l \notin IssueTrials => q.expires <= q.issued + TrialSeconds
      BY <2>4, <2>6 DEF TrialEnd
    <3>3. now # NoTime
      BY <2>5 DEF NoTime
    <3>4. l \notin IssueTrials => q.expires <= now + TrialSeconds
      BY <2>4, <2>5, <3>2
    <3> QED BY <2>3, <3>1, <3>3, <3>4
  <2>7. CASE l \in Trials /\ e.started # NoTime
    <3>1. entitlements'[l] = e
      BY <2>1, <2>2, <2>7, CommitEntitlement
    <3>2. l \in OnePerDevice => q.key = e.trialKey
      BY <2>4, <2>7 DEF TrialOpen
    <3>3. l \notin IssueTrials => q.expires <= e.started + TrialSeconds
      BY <2>4, <2>7 DEF TrialEnd
    <3> QED BY <2>3, <2>7, <3>1, <3>2, <3>3
  <2>8. CASE l \notin Trials
    BY <2>3, <2>8
  <2> QED BY <2>6, <2>7, <2>8
<1> QED BY <1>1, <1>2 DEF TrialsStarted

\* A trial starts once: a one-device trial has leases of one device only, and no
\* lease of an activation trial outlives the time since its first activation.
THEOREM TrialStartsOnceHolds == Spec => []TrialStartsOnce
<1>1. Init => LeasesAnswered /\ TrialsStarted
  BY InitTyped, InitRefines, NothingAtFirst DEF TrialsStarted
<1>2. TypeOK /\ LeasesAnswered /\ TrialsStarted /\ [Next]_vars => LeasesAnswered' /\ TrialsStarted'
  BY LeasesAnsweredHolds, TrialsStartedHolds
<1>3. TrialsStarted => TrialStartsOnce
  BY DEF TrialsStarted, TrialStartsOnce
<1> QED BY <1>1, <1>2, <1>3, TypeCorrect, PTL DEF Spec

-----------------------------------------------------------------------------
(* Replays. *)

\* The clock does not go back.
LEMMA ClockAdvances ==
  ASSUME TypeOK, [Next]_vars
  PROVE  now' >= now /\ now \in Nat
<1>1. now \in Nat
  BY TimingAssumption DEF TypeOK
<1> QED BY <1>1, Writers DEF Tick

\* An exchange or a renewal is stored by its own commit, never by a retirement
\* or by cleanup.
LEMMA CommitStores ==
  ASSUME TypeOK, [Next]_vars, NEW o \in OpKeys, o[2] # "retire", ~operations[o].exists, operations'[o].exists
  PROVE  \E r \in Requests, l \in Licenses, b \in Bindings : Commit(r, o, l, b)
<1>1. ~UNCHANGED operations
  OBVIOUS
<1>2. ~ExpireResponses
  <2>1. SUFFICES ASSUME ExpireResponses
                 PROVE  FALSE
    OBVIOUS
  <2>2. operations'[o] = operations[o] \/ operations'[o] = WithoutResponse(o)
    BY <2>1 DEF ExpireResponses
  <2>3. operations[o] \in OperationRow
    BY DEF TypeOK
  <2>4. WithoutResponse(o).exists = operations[o].exists
    BY <2>3 DEF WithoutResponse, OperationRow
  <2> QED BY <2>2, <2>4
<1>3. ~Retirements
  <2>1. SUFFICES ASSUME NEW t \in Retires, NEW p \in OpKeys, NEW b \in Bindings, RetireBatch(t, p, b)
                 PROVE  FALSE
    BY DEF Retirements
  <2>2. p = <<retires[t].key, "retire", retires[t].op>>
    BY <2>1 DEF RetireBatch, RetireGuard, RetireOpKey
  <2>3. p # o
    BY <2>2
  <2>4. operations'[o] = operations[o]
    BY <2>1, <2>3 DEF RetireBatch, TypeOK
  <2> QED BY <2>4
<1>4. PICK r \in Requests, p \in OpKeys, l \in Licenses, b \in Bindings : Commit(r, p, l, b)
  BY <1>1, <1>2, <1>3, Writers DEF Commits
<1>5. p = o
  BY <1>4, CommitOperation
<1> QED BY <1>4, <1>5

\* The consumed attempt row a proves operation row op, stored under key o.
Proves(a, o, op) ==
  a.status = "consumed" /\ a.op = o[3] /\ a.inv = op.inv /\ a.recovery = op.retain

\* A stored exchange names its attempt; until the end of its retention the
\* attempt proves it and the response is there.
ExchangesProved ==
  \A o \in OpKeys :
    o[2] = "exchange" /\ operations[o].exists =>
      LET op == operations[o] IN
      /\ op.digest.subject \in Attempts
      /\ \/ Proves(attempts[op.digest.subject], o, op)
         \/ attempts[op.digest.subject].status = "purged" /\ op.retain <= now
      /\ op.response \/ op.retain <= now

\* ExchangesProved is inductive: the commit consumes the attempt and stores the
\* operation with one deadline, and cleanup waits for it on both tables.
LEMMA ExchangesProvedHolds ==
  ASSUME TypeOK, TypeOK', ExchangesProved, [Next]_vars
  PROVE  ExchangesProved'
<1> DEFINE Known(a, o, op, t) ==
             /\ Proves(a, o, op) \/ (a.status = "purged" /\ op.retain <= t)
             /\ op.response \/ op.retain <= t
<1>1. ASSUME NEW o \in OpKeys, o[2] = "exchange", operations[o].exists
      PROVE  /\ operations'[o].digest.subject \in Attempts
             /\ Known(attempts'[operations'[o].digest.subject], o, operations'[o], now')
  <2> DEFINE a == operations[o].digest.subject
  <2>1. a \in Attempts /\ Known(attempts[a], o, operations[o], now)
    BY <1>1 DEF ExchangesProved
  <2>2. /\ operations'[o].digest = operations[o].digest /\ operations'[o].inv = operations[o].inv
        /\ operations'[o].retain = operations[o].retain
        /\ operations'[o].response = operations[o].response \/ operations[o].retain <= now
    BY <1>1, OperationsStand
  <2>3. operations[o].retain \in Nat /\ now' \in Nat
    BY TimingAssumption DEF TypeOK, OperationRow
  <2>4. operations[o].retain <= now => operations[o].retain <= now'
    BY <2>3, ClockAdvances
  <2>5. CASE attempts[a].status = "purged" /\ operations[o].retain <= now
    <3>1. attempts'[a].status = "purged"
      BY <2>1, <2>5, AttemptsStand
    <3> QED BY <2>1, <2>2, <2>4, <2>5, <3>1
  <2>6. CASE Proves(attempts[a], o, operations[o])
    <3>1. \/ /\ attempts'[a].status = "consumed" /\ attempts'[a].op = attempts[a].op
             /\ attempts'[a].inv = attempts[a].inv /\ attempts'[a].recovery = attempts[a].recovery
          \/ attempts'[a].status = "purged" /\ attempts[a].recovery <= now
      BY <2>1, <2>6, AttemptsStand DEF Proves
    <3>2. Proves(attempts'[a], o, operations'[o]) \/ (attempts'[a].status = "purged" /\ operations[o].retain <= now)
      BY <2>2, <2>6, <3>1 DEF Proves
    <3> QED BY <2>1, <2>2, <2>4, <3>2
  <2> QED BY <2>1, <2>5, <2>6
<1>2. ASSUME NEW o \in OpKeys, o[2] = "exchange", ~operations[o].exists, operations'[o].exists
      PROVE  /\ operations'[o].digest.subject \in Attempts
             /\ Known(attempts'[operations'[o].digest.subject], o, operations'[o], now')
  <2>1. PICK r \in Requests, l \in Licenses, b \in Bindings : Commit(r, o, l, b)
    BY <1>2, CommitStores
  <2>2. /\ o = <<requests[r].key, requests[r].purpose, requests[r].op>>
        /\ operations'[o].inv = r /\ operations'[o].digest.subject = requests[r].subject
        /\ operations'[o].response /\ operations'[o].retain = now + RecoveryTTL
    BY <2>1, CommitOperation
  <2>3. requests[r].purpose = "exchange" /\ requests[r].op = o[3]
    BY <1>2, <2>2
  <2> QED BY <2>1, <2>2, <2>3, CommitAttempts DEF Proves
<1> QED BY <1>1, <1>2 DEF ExchangesProved

\* Until its retention ends, a committed exchange can be replayed: the stored
\* response and the consumed attempt that proves it are both still there.
THEOREM RecoverableWhileRetainedHolds == Spec => []RecoverableWhileRetained
<1>1. Init => ExchangesProved
  BY NothingAtFirst DEF ExchangesProved
<1>2. TypeOK /\ TypeOK' /\ ExchangesProved /\ [Next]_vars => ExchangesProved'
  BY ExchangesProvedHolds
<1>3. TypeOK /\ ExchangesProved => RecoverableWhileRetained
  <2>1. SUFFICES ASSUME TypeOK, ExchangesProved, NEW o \in OpKeys, o[2] = "exchange", operations[o].exists,
                        operations[o].retain > now
                 PROVE  /\ operations[o].response
                        /\ \E a \in Attempts : /\ a = operations[o].digest.subject /\ attempts[a].status = "consumed"
                                               /\ attempts[a].op = o[3] /\ attempts[a].inv = operations[o].inv
                                               /\ attempts[a].recovery = operations[o].retain
    BY DEF RecoverableWhileRetained
  <2>2. operations[o].retain \in Nat /\ now \in Nat
    BY <2>1, TimingAssumption DEF TypeOK, OperationRow
  <2>3. ~(operations[o].retain <= now)
    BY <2>1, <2>2
  <2> QED BY <2>1, <2>3 DEF ExchangesProved, Proves
<1> QED BY <1>1, <1>2, <1>3, TypeCorrect, PTL DEF Spec

\* A device that enrolled is never forgotten: its row may be disabled, not removed.
LEMMA DevicesStand ==
  ASSUME TypeOK, [Next]_vars, NEW k \in Keys, devices[k].status # "none"
  PROVE  devices'[k].status # "none"
<1>1. devices[k] \in DeviceRow
  BY DEF TypeOK
<1>2. CASE UNCHANGED devices
  BY <1>2
<1>3. CASE Commits
  <2>1. PICK r \in Requests, o \in OpKeys, l \in Licenses, b \in Bindings : Commit(r, o, l, b)
    BY <1>3 DEF Commits
  <2> DEFINE made == [status |-> "active", customer |-> requests[r].customer, rev |-> 0]
  <2>2. UNCHANGED devices \/ devices' = [devices EXCEPT ![requests[r].key] = made]
    BY <2>1 DEF Commit, CreateDevice
  <2>3. made.status = "active"
    OBVIOUS
  <2> HIDE DEF made
  <2> QED BY <2>2, <2>3 DEF TypeOK
<1>4. CASE AdminNext
  <2>1. UNCHANGED devices \/ \E x \in Keys : TransitionDevice(x)
    BY <1>4 DEF AdminNext, TransitionEntitlement, UpdateEntitlement, SetEntitlementCapacity, WriteEntitlement,
                TransitionCustomer
  <2>2. ASSUME NEW x \in Keys, TransitionDevice(x)
        PROVE  devices'[k].status # "none"
    BY <1>1, <2>2 DEF TransitionDevice, TypeOK, DeviceRow
  <2> QED BY <1>2, <2>1, <2>2
<1> QED BY <1>2, <1>3, <1>4, Writers

\* CreateDevice: the device that commits is there afterwards.
LEMMA CommitDevice ==
  ASSUME TypeOK, NEW r \in Requests, NEW o \in OpKeys, NEW l \in Licenses, NEW b \in Bindings, Commit(r, o, l, b)
  PROVE  o[1] \in Keys /\ devices'[o[1]].status # "none"
<1>1. o = <<requests[r].key, requests[r].purpose, requests[r].op>> /\ o[1] \in Keys
  BY CommitOperation DEF OpKeys
<1>2. devices' = IF devices[o[1]].status # "none" THEN devices
                 ELSE [devices EXCEPT ![o[1]] = [status |-> "active", customer |-> requests[r].customer, rev |-> 0]]
  BY <1>1 DEF Commit, CreateDevice
<1> QED BY <1>1, <1>2 DEF TypeOK

\* A stored exchange or renewal has a binding and a device.
OperationsBound ==
  \A o \in OpKeys :
    o[2] # "retire" /\ operations[o].exists => operations[o].binding \in Bindings /\ devices[o[1]].status # "none"

\* OperationsBound is inductive: the commit that stores the operation writes both.
LEMMA OperationsBoundHolds ==
  ASSUME TypeOK, OperationsBound, [Next]_vars
  PROVE  OperationsBound'
<1>1. ASSUME NEW o \in OpKeys, o[2] # "retire", operations[o].exists
      PROVE  operations'[o].binding \in Bindings /\ devices'[o[1]].status # "none"
  <2>1. o[1] \in Keys
    BY DEF OpKeys
  <2> QED BY <1>1, <2>1, OperationsStand, DevicesStand DEF OperationsBound
<1>2. ASSUME NEW o \in OpKeys, o[2] # "retire", ~operations[o].exists, operations'[o].exists
      PROVE  operations'[o].binding \in Bindings /\ devices'[o[1]].status # "none"
  <2>1. PICK r \in Requests, l \in Licenses, b \in Bindings : Commit(r, o, l, b)
    BY <1>2, CommitStores
  <2> QED BY <2>1, CommitOperation, CommitDevice
<1> QED BY <1>1, <1>2 DEF OperationsBound

\* Invocation row q, when it replays, knows the operation that ops stores, and
\* past its reread the attempt as the commit of that operation left it.
ReplayKnown(q, ops) ==
  /\ q.pc \in {"lookup", "capacity"} => q.prior = None
  /\ q.pc = "reread" => q.purpose = "exchange"
  /\ q.pc \in {"reread", "license", "device"} /\ q.prior # None =>
       /\ RequestOpKey(q) \in OpKeys
       /\ ops[RequestOpKey(q)].exists /\ ops[RequestOpKey(q)].inv = q.prior
       /\ ops[RequestOpKey(q)].binding = q.priorBinding /\ ops[RequestOpKey(q)].digest.subject = q.subject
       /\ q.pc # "reread" /\ q.purpose = "exchange" =>
            q.status = "consumed" /\ q.attOp = q.op /\ q.attInv = q.prior

ReplaysKnown == \A r \in Requests : ReplayKnown(requests[r], operations)

\* What a replay knows stays true while it waits, and rows that read the same
\* know the same.
LEMMA ReplayStaysKnown ==
  ASSUME TypeOK, [Next]_vars, NEW q \in RequestState, ReplayKnown(q, operations)
  PROVE  /\ ReplayKnown(q, operations')
         /\ \A p \in RequestState :
              q.pc \in {"license", "device"} /\ p.pc = "device" /\ SameReads(p, q) => ReplayKnown(p, operations')
<1> DEFINE o == RequestOpKey(q)
<1>1. ASSUME o \in OpKeys, operations[o].exists
      PROVE  /\ operations'[o].exists /\ operations'[o].inv = operations[o].inv
             /\ operations'[o].binding = operations[o].binding /\ operations'[o].digest = operations[o].digest
  BY <1>1, OperationsStand
<1>2. ReplayKnown(q, operations')
  BY <1>1 DEF ReplayKnown
<1>3. ASSUME NEW p \in RequestState, q.pc \in {"license", "device"}, p.pc = "device", SameReads(p, q)
      PROVE  ReplayKnown(p, operations')
  <2>1. RequestOpKey(p) = o
    BY <1>3 DEF SameReads, RequestOpKey
  <2> HIDE DEF o
  <2> QED BY <1>2, <1>3, <2>1 DEF ReplayKnown, SameReads, o
<1> QED BY <1>2, <1>3

\* A replay targets the binding its operation was committed for.
LEMMA ReplayTarget ==
  ASSUME TypeOK, OperationsBound, NEW q \in RequestState, q.pc = "device", q.prior # None, ReplayKnown(q, operations)
  PROVE  /\ TargetBinding(q) \in Bindings /\ TargetBinding(q) # None
         /\ BindingRead(q) \in Bindings /\ devices[q.key].status # "none"
<1> DEFINE o == RequestOpKey(q)
<1>1. o \in OpKeys /\ operations[o].exists /\ operations[o].binding = q.priorBinding
  BY DEF ReplayKnown
<1>2. o[1] = q.key /\ o[2] = q.purpose /\ q.purpose # "retire"
  BY DEF RequestOpKey, RequestState
<1>3. q.priorBinding \in Bindings /\ devices[q.key].status # "none"
  <2> HIDE DEF o
  <2> QED BY <1>1, <1>2 DEF OperationsBound
<1>4. q.priorBinding # None
  BY <1>3, SetsAssumption
<1> QED BY <1>3, <1>4 DEF TargetBinding, BindingRead

\* ReplaysKnown is inductive: a reread finds the attempt that proves the
\* operation, and a replay never counts capacity.
LEMMA ReplaysKnownHolds ==
  ASSUME TypeOK, TypeOK', ExchangesProved, OperationsBound, ReplaysKnown, [Next]_vars
  PROVE  ReplaysKnown'
<1>1. \A x \in Requests : requests[x] \in RequestState /\ requests'[x] \in RequestState
  BY DEF TypeOK
<1>2. \A x \in Requests : requests'[x] = requests[x] => ReplayKnown(requests'[x], operations')
  BY <1>1, ReplayStaysKnown DEF ReplaysKnown
<1>3. CASE UNCHANGED requests
  BY <1>2, <1>3 DEF ReplaysKnown
<1>4. CASE IssueNext
  <2>1. PICK r \in Requests : (\E in \in RequestInputs : Prove(r, in)) \/ IssueStep(r) \/ Fail(r)
    BY <1>4 DEF IssueNext
  <2> DEFINE q == requests[r]
             p == requests'[r]
             Known == OthersWait(r) /\ ReplayKnown(p, operations')
  <2>2. /\ q \in RequestState /\ p \in RequestState /\ ReplayKnown(q, operations)
        /\ ReplayKnown(q, operations')
        /\ q.pc \in {"license", "device"} /\ p.pc = "device" /\ SameReads(p, q) => ReplayKnown(p, operations')
    BY <1>1, ReplayStaysKnown DEF ReplaysKnown
  <2>3. p.pc \in {"done", "recheck", "commit", "recover"} => ReplayKnown(p, operations')
    BY DEF ReplayKnown
  <2>4. \A code : Deny(r, code) => Known
    BY <2>3, DenyRow
  <2>5. (\E in \in RequestInputs : Prove(r, in)) => Known
    <3>1. p.pc = "lookup" /\ p.prior = None => ReplayKnown(p, operations')
      BY DEF ReplayKnown
    <3> QED BY <2>3, <3>1, ProveRow
  <2>6. ASSUME LookUp(r)
        PROVE  Known
    <3> DEFINE o == RequestOpKey(q)
    <3>1. OthersWait(r) /\ q.prior = None
      BY <2>2, <2>6, LookUpRow DEF ReplayKnown
    <3>2. CASE p.pc = "license" /\ SameReads(p, q)
      <4>1. p.prior = None
        BY <3>1, <3>2 DEF SameReads
      <4> QED BY <3>1, <3>2, <4>1 DEF ReplayKnown
    <3>3. CASE /\ o \in OpKeys /\ operations[o].exists /\ operations[o].digest.subject = q.subject
               /\ p.pc = IF q.purpose = "exchange" THEN "reread" ELSE "license"
               /\ p.prior = operations[o].inv /\ p.priorBinding = operations[o].binding
               /\ p.purpose = q.purpose /\ p.subject = q.subject /\ p.op = q.op /\ p.key = q.key
      <4>1. RequestOpKey(p) = o
        BY <3>3 DEF RequestOpKey
      <4>2. /\ operations'[o].exists /\ operations'[o].inv = operations[o].inv
            /\ operations'[o].binding = operations[o].binding /\ operations'[o].digest = operations[o].digest
        BY <3>3, OperationsStand
      <4> HIDE DEF o
      <4> QED BY <3>1, <3>3, <4>1, <4>2 DEF ReplayKnown
    <3> QED BY <2>3, <2>6, <3>1, <3>2, <3>3, LookUpRow
  <2>7. ASSUME Reread(r)
        PROVE  Known
    <3> DEFINE o == RequestOpKey(q)
    <3>1. OthersWait(r) /\ q.pc = "reread" /\ q.purpose = "exchange"
      BY <2>2, <2>7, RereadRow DEF ReplayKnown
    <3>2. CASE /\ q.subject \in Attempts /\ attempts[q.subject].status \notin {"none", "purged"}
               /\ p.pc = "license" /\ p.status = attempts[q.subject].status
               /\ p.attOp = attempts[q.subject].op /\ p.attInv = attempts[q.subject].inv
               /\ p.purpose = q.purpose /\ p.subject = q.subject /\ p.op = q.op /\ p.key = q.key
               /\ p.prior = q.prior /\ p.priorBinding = q.priorBinding
      <4>1. CASE p.prior = None
        BY <3>1, <3>2, <4>1 DEF ReplayKnown
      <4>2. CASE p.prior # None
        <5>1. /\ o \in OpKeys /\ operations[o].exists /\ operations[o].inv = q.prior
              /\ operations[o].digest.subject = q.subject
          BY <2>2, <3>1, <3>2, <4>2 DEF ReplayKnown
        <5>2. o[2] = "exchange" /\ o[3] = q.op /\ RequestOpKey(p) = o
          BY <3>1, <3>2 DEF RequestOpKey
        <5>3. Proves(attempts[q.subject], o, operations[o])
          <6> HIDE DEF o, q
          <6> QED BY <3>2, <5>1, <5>2 DEF ExchangesProved
        <5>4. p.status = "consumed" /\ p.attOp = p.op /\ p.attInv = p.prior
          BY <3>2, <5>1, <5>2, <5>3 DEF Proves
        <5>5. ReplayKnown(q, operations')
          BY <2>2
        <5> HIDE DEF o, q, p
        <5> QED BY <3>1, <3>2, <4>2, <5>1, <5>2, <5>4, <5>5 DEF ReplayKnown, o, q, p
      <4> QED BY <4>1, <4>2
    <3> QED BY <2>3, <2>7, <3>1, <3>2, RereadRow
  <2>8. ReadLicense(r) => Known
    BY <2>2, <2>4, ReadLicenseRow
  <2>9. ASSUME ReadDevice(r)
        PROVE  Known
    <3> DEFINE b == BindingRead(q)
    <3>1. OthersWait(r) /\ q.pc = "device"
      BY <2>9, ReadDeviceRow
    <3>2. CASE b = None /\ p.pc = "capacity" /\ SameReads(p, q)
      <4>1. q.prior = None
        BY <2>2, <3>1, <3>2, ReplayTarget, SetsAssumption
      <4> QED BY <3>1, <3>2, <4>1 DEF ReplayKnown, SameReads
    <3>3. \/ Deny(r, DeviceRefusal(q, b)) \/ p.pc \in {"done", "recover", "commit"}
          \/ b = None /\ p.pc = "capacity" /\ SameReads(p, q)
      BY <2>9, ReadDeviceRow
    <3> QED BY <2>3, <2>4, <3>1, <3>2, <3>3
  <2>10. CheckCapacity(r) => Known
    BY <2>3, <2>4, CapacityRow
  <2>11. (\/ Recheck(r) \/ CommitAborts(r) \/ RecoverAborts(r) \/ Fail(r)
          \/ \E o \in OpKeys, l \in Licenses, b \in Bindings : Commit(r, o, l, b) \/ Recover(r, o, l, b)) => Known
    BY <2>3, LastRow
  <2>12. Known
    <3> HIDE DEF Known
    <3> QED BY <2>1, <2>5, <2>6, <2>7, <2>8, <2>9, <2>10, <2>11 DEF IssueStep
  <2> QED BY <1>2, <2>12 DEF ReplaysKnown, OthersWait
<1> QED BY <1>3, <1>4, Writers

\* The refusals of a replay are not among those a client discards its
\* enrollment for.
LEMMA ReplayRefusals ==
  ASSUME TypeOK, OperationsBound, NEW q \in RequestState, q.prior # None, ReplayKnown(q, operations)
  PROVE  /\ q.pc = "license" => LicenseRefusal(q) \notin Rechecked
         /\ q.pc = "device" => DeviceRefusal(q, BindingRead(q)) \notin Rechecked
<1>1. ASSUME q.pc = "license"
      PROVE  LicenseRefusal(q) \notin Rechecked
  <2>1. AttemptRefusal(q) \in {"none", "access_denied"}
    BY <1>1 DEF ReplayKnown, AttemptRefusal, RequestState
  <2> QED BY <2>1 DEF LicenseRefusal, Rechecked
<1>2. ASSUME q.pc = "device"
      PROVE  DeviceRefusal(q, BindingRead(q)) \notin Rechecked
  <2>1. BindingRead(q) \in Bindings /\ devices[q.key].status # "none"
    BY <1>2, ReplayTarget
  <2> QED BY <2>1, Zenon DEF DeviceRefusal, Rechecked
<1> QED BY <1>1, <1>2

\* A client whose operation has committed is never told, from reads that mixed
\* two states, to discard its enrollment.
THEOREM NoFalseDenialHolds == Spec => NoFalseDenial
<1> DEFINE Honest == \A r \in Requests :
                       /\ requests[r].pc \notin {"idle", "done"} /\ requests'[r].pc = "done"
                       /\ requests'[r].code \in Rechecked
                       => ~operations[RequestOpKey(requests[r])].exists
<1>1. Init => ExchangesProved /\ OperationsBound /\ ReplaysKnown
  BY NothingAtFirst DEF ExchangesProved, OperationsBound, ReplaysKnown, ReplayKnown
<1>2. TypeOK /\ TypeOK' /\ ExchangesProved /\ OperationsBound /\ ReplaysKnown /\ [Next]_vars =>
        ExchangesProved' /\ OperationsBound' /\ ReplaysKnown'
  BY ExchangesProvedHolds, OperationsBoundHolds, ReplaysKnownHolds
<1>3. ASSUME TypeOK, OperationsBound, ReplaysKnown, [Next]_vars
      PROVE  Honest
  <2>1. SUFFICES ASSUME NEW r \in Requests, requests[r].pc \notin {"idle", "done"}, requests'[r].pc = "done",
                        requests'[r].code \in Rechecked
                 PROVE  ~operations[RequestOpKey(requests[r])].exists
    OBVIOUS
  <2>2. PICK x \in Requests : (\E in \in RequestInputs : Prove(x, in)) \/ IssueStep(x) \/ Fail(x)
    BY <1>3, <2>1, Writers DEF IssueNext
  <2>3. /\ \A in \in RequestInputs : Prove(x, in) => OthersWait(x)
        /\ IssueStep(x) \/ Fail(x) => OthersWait(x)
    BY <1>3, ProveRow, LookUpRow, RereadRow, ReadLicenseRow, ReadDeviceRow, CapacityRow, LastRow DEF IssueStep
  <2>4. x = r
    BY <2>1, <2>2, <2>3 DEF OthersWait
  <2>5. requests[r] \in RequestState /\ ReplayKnown(requests[r], operations)
    BY <1>3 DEF TypeOK, ReplaysKnown
  <2>6. ~\E in \in RequestInputs : Prove(r, in)
    BY <2>1 DEF Prove
  <2>7. ~LookUp(r) /\ ~Reread(r)
    BY <1>3, <2>1, LookUpRow, RereadRow
  <2>8. \A code : Deny(r, code) => requests'[r].code = code /\ requests[r].prior # None
    BY <1>3, <2>1, DenyRow
  <2>9. ~ReadLicense(r)
    BY <1>3, <2>1, <2>5, <2>8, ReadLicenseRow, ReplayRefusals
  <2>10. ~ReadDevice(r)
    BY <1>3, <2>1, <2>5, <2>8, ReadDeviceRow, ReplayRefusals
  <2>11. ~CheckCapacity(r)
    BY <1>3, <2>1, <2>5, <2>8, CapacityRow DEF ReplayKnown
  <2> QED BY <1>3, <2>1, <2>2, <2>4, <2>6, <2>7, <2>9, <2>10, <2>11, LastRow DEF IssueStep
<1>4. TypeOK /\ OperationsBound /\ ReplaysKnown /\ [Next]_vars => [Honest]_vars
  BY <1>3
<1> QED BY <1>1, <1>2, <1>4, TypeCorrect, PTL DEF Spec, NoFalseDenial
=============================================================================
