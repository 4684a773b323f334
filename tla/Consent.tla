------------------------------ MODULE Consent ------------------------------
(***************************************************************************)
(* bound_consent.mjs: the customer approves or denies an attempt through   *)
(* the portal. An invocation reads the attempt, the customer and the       *)
(* license, then makes one guarded write; a loser of a race or a retry     *)
(* recovers only what was committed. The callback code of an approval is   *)
(* identified by the invocation that generated it.                         *)
(***************************************************************************)
EXTENDS DeviceTables

OnlyConsents == UNCHANGED <<now, customers, entitlements, devices, bindings, challenges, operations,
                            leases, denials, requests, retires, replies>>

Finish(s, code) == consents' = [consents EXCEPT ![s] = [IdleConsent EXCEPT !.pc = "done", !.code = code]]

\* The code that reaches the customer; the response may also be lost.
ReturnCode(s, a, code) ==
  \/ consents' = [consents EXCEPT ![s] =
       [IdleConsent EXCEPT !.pc = "done", !.code = "ok", !.attempt = a, !.answer = code]]
  \/ Finish(s, "temporarily_unavailable")

\* attemptForCustomer
CustomerRefusal(a, c) ==
  IF customers[c].status # "active" THEN "access_denied"
  ELSE IF attempts[a].status \in {"none", "purged"} THEN "authorization_unavailable"
  ELSE IF attempts[a].customer \notin {None, c} THEN "access_denied"
  ELSE "none"

LiveApproval(a) ==
  /\ attempts[a].status = "approved" /\ attempts[a].sealed
  /\ attempts[a].codeExpires > now /\ attempts[a].expires > now

\* approvedResponse up to its decryption: only the same operation with the
\* same intent may see the sealed response.
SealRefusal(a, c, l, expected, op) ==
  IF ~LiveApproval(a) THEN "authorization_expired"
  ELSE IF attempts[a].customer # c THEN "access_denied"
  ELSE IF \/ attempts[a].approveOp # op \/ attempts[a].license # l
          \/ attempts[a].rev # expected + 1
  THEN "idempotency_conflict"
  ELSE "none"

\* Decryption yields: the attempt is read again before the code is returned.
OpenSealed(s, q, a) ==
  IF SealRefusal(a, q.customer, q.license, q.expected, q.op) # "none"
  THEN Finish(s, SealRefusal(a, q.customer, q.license, q.expected, q.op))
  ELSE consents' = [consents EXCEPT ![s] =
         [q EXCEPT !.pc = "open", !.attRev = attempts[a].rev, !.answer = attempts[a].code]]

Consent(a, c, l, expected, op) ==
  [IdleConsent EXCEPT !.attempt = a, !.customer = c, !.license = l, !.expected = expected, !.op = op]

Approvable(l, c, k) == Usable(l, c) /\ TrialOpen(l, entitlements[l], k, TRUE)

\* approveBoundAuthorization: reads. The update rechecks both revisions, so the
\* reads of the attempt and of the license are one step.
ReadApproval(s, a, c, l, expected, op) ==
  /\ consents[s].pc = "idle"
  /\ IF CustomerRefusal(a, c) # "none" THEN Finish(s, CustomerRefusal(a, c))
     ELSE IF attempts[a].status # "pending" THEN OpenSealed(s, Consent(a, c, l, expected, op), a)
     ELSE IF attempts[a].expires <= now THEN Finish(s, "authorization_expired")
     ELSE IF attempts[a].rev # expected THEN Finish(s, "revision_conflict")
     ELSE IF ~Approvable(l, c, attempts[a].key) THEN Finish(s, "access_denied")
     ELSE consents' = [consents EXCEPT ![s] =
            [Consent(a, c, l, expected, op) EXCEPT
               !.pc = "approve", !.attRev = attempts[a].rev, !.custRev = customers[c].rev,
               !.entRev = entitlements[l].rev,
               !.expires = Lesser(attempts[a].expires, now + CodeTTL)]]
  /\ OnlyConsents /\ UNCHANGED <<attempts, denyCache>>

\* Slip: the update trusts the attempt that was read.
ApproveGuardStale(a, c, l, q) ==
  /\ a = q.attempt /\ c = q.customer /\ l = q.license
  /\ attempts[a].expires > now /\ q.expires > now
  /\ customers[c].rev = q.custRev /\ entitlements[l].rev = q.entRev
  /\ Approvable(l, c, attempts[a].key)

ApproveGuard(a, c, l, q) ==
  /\ a = q.attempt /\ c = q.customer /\ l = q.license
  /\ attempts[a].status = "pending" /\ attempts[a].rev = q.attRev
  /\ attempts[a].expires > now /\ q.expires > now
  /\ customers[c].rev = q.custRev /\ entitlements[l].rev = q.entRev
  /\ Approvable(l, c, attempts[a].key)

Approved(row, s, c, l, q) ==
  [row EXCEPT !.status = "approved", !.rev = @ + 1, !.customer = c, !.license = l,
              !.code = s, !.codeExpires = q.expires, !.sealed = TRUE, !.approveOp = q.op]

\* The guarded UPDATE of an approval.
Approve(s, a, c, l) ==
  LET q == consents[s] IN
  /\ q.pc = "approve"
  /\ ApproveGuard(a, c, l, q)
  /\ attempts' = [attempts EXCEPT ![a] = Approved(@, s, c, l, q)]
  /\ ReturnCode(s, a, s)
  /\ OnlyConsents /\ UNCHANGED denyCache

ApproveLoses(s) ==
  /\ consents[s].pc = "approve"
  /\ ~\E a \in Attempts, c \in Customers, l \in Licenses : ApproveGuard(a, c, l, consents[s])
  /\ consents' = [consents EXCEPT ![s].pc = "reread"]
  /\ OnlyConsents /\ UNCHANGED <<attempts, denyCache>>

\* A competing approval may have won.
RereadApproval(s, a, c) ==
  LET q == consents[s] IN
  /\ q.pc = "reread" /\ a = q.attempt /\ c = q.customer
  /\ IF CustomerRefusal(a, c) # "none" THEN Finish(s, CustomerRefusal(a, c))
     ELSE IF attempts[a].status = "approved" THEN OpenSealed(s, q, a)
     ELSE Finish(s, "revision_conflict")
  /\ OnlyConsents /\ UNCHANGED <<attempts, denyCache>>

\* approvedResponse after its decryption.
OpenApproval(s, a, c, l) ==
  LET q == consents[s] IN
  /\ q.pc = "open" /\ a = q.attempt /\ c = q.customer /\ l = q.license
  /\ IF /\ LiveApproval(a) /\ attempts[a].rev = q.attRev /\ attempts[a].customer = c
        /\ Approvable(l, c, attempts[a].key)
     THEN ReturnCode(s, a, q.answer)
     ELSE Finish(s, "access_denied")
  /\ OnlyConsents /\ UNCHANGED <<attempts, denyCache>>

-----------------------------------------------------------------------------
\* denyBoundAuthorization: reads.
ReadDenial(s, a, c, expected, op) ==
  /\ consents[s].pc = "idle"
  /\ IF CustomerRefusal(a, c) # "none" THEN Finish(s, CustomerRefusal(a, c))
     ELSE IF attempts[a].expires <= now THEN Finish(s, "authorization_expired")
     ELSE consents' = [consents EXCEPT ![s] =
            [Consent(a, c, None, expected, op) EXCEPT
               !.pc = "deny", !.custRev = customers[c].rev,
               !.pending = attempts[a].status = "pending" /\ attempts[a].rev = expected]]
  /\ OnlyConsents /\ UNCHANGED <<attempts, denyCache>>

CachedDenials(a, c, op) == {d \in denyCache : d.attempt = a /\ d.customer = c /\ d.op = op}

\* Slip: an attempt that is no longer pending is denied as well.
DenyAny(a, c, q) == attempts[a].rev = q.expected /\ CachedDenials(a, c, q.op) = {}

DenyGuard(a, c, q) ==
  /\ attempts[a].status = "pending" /\ attempts[a].rev = q.expected /\ attempts[a].expires > now
  /\ customers[c].status = "active" /\ customers[c].rev = q.custRev
  /\ CachedDenials(a, c, q.op) = {}

Denied(row) == [row EXCEPT !.status = "denied", !.rev = @ + 1]

\* The denial batch: the cache row and the denial commit together; without
\* both, or when D1 fails it, the batch changes nothing. Either way the outcome
\* is then read back.
DenyBatch(s, a, c) ==
  LET q == consents[s] IN
  /\ q.pc = "deny" /\ a = q.attempt /\ c = q.customer
  /\ \/ /\ DenyGuard(a, c, q)
        /\ attempts' = [attempts EXCEPT ![a] = Denied(@)]
        /\ denyCache' = denyCache \cup {[customer |-> c, attempt |-> a, op |-> q.op, expected |-> q.expected]}
     \/ UNCHANGED <<attempts, denyCache>>
  /\ consents' = [consents EXCEPT ![s].pc = "reconcile"]
  /\ OnlyConsents

\* What the denial answers is what the tables say.
ReconcileDenial(s, a, c) ==
  LET q == consents[s]
      committed == {d \in CachedDenials(a, c, q.op) :
                      /\ customers[c].status = "active" /\ attempts[a].status = "denied"
                      /\ attempts[a].rev = d.expected + 1 /\ attempts[a].expires > now}
  IN
  /\ q.pc = "reconcile" /\ a = q.attempt /\ c = q.customer
  /\ Finish(s, IF committed # {}
               THEN IF \E d \in committed : d.expected = q.expected THEN "ok" ELSE "idempotency_conflict"
               ELSE IF q.pending THEN "temporarily_unavailable" ELSE "revision_conflict")
  /\ OnlyConsents /\ UNCHANGED <<attempts, denyCache>>

\* Any await of a consent invocation may fail.
ConsentFails(s) ==
  /\ consents[s].pc \notin {"idle", "done"}
  /\ Finish(s, "temporarily_unavailable")
  /\ OnlyConsents /\ UNCHANGED <<attempts, denyCache>>

\* Attempt revisions a customer may have seen.
SeenRevisions == {0, 1}

ConsentStep(s) ==
  \/ ApproveLoses(s)
  \/ \E a \in Attempts, c \in Customers :
       \/ RereadApproval(s, a, c) \/ DenyBatch(s, a, c) \/ ReconcileDenial(s, a, c)
       \/ \E l \in Licenses : Approve(s, a, c, l) \/ OpenApproval(s, a, c, l)

ConsentNext ==
  \E s \in Consents :
    \/ ConsentStep(s) \/ ConsentFails(s)
    \/ \E a \in Attempts, c \in Customers, expected \in SeenRevisions, op \in OpIds :
         \/ ReadDenial(s, a, c, expected, op)
         \/ \E l \in Licenses : ReadApproval(s, a, c, l, expected, op)
=============================================================================
