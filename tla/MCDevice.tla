------------------------------ MODULE MCDevice ------------------------------
(***************************************************************************)
(* Slices of DeviceLicensing for TLC. Each runs the handlers its question  *)
(* is about from a state the program reaches, with the requests that get   *)
(* past proof; a request that is refused there changes nothing, and the    *)
(* whole specification, refusals included, has a run of its own.           *)
(***************************************************************************)
EXTENDS DeviceLicensing, TLC

VARIABLE slice           \* which of its slices a behaviour belongs to

\* Interchangeable identifiers.
Symmetric == Permutations(Requests) \cup Permutations(Bindings) \cup Permutations(Challenges)

\* Requests whose proof matches the challenge they present.
ProvedRequests ==
  \E r \in Requests, in \in RequestInputs : ChallengeFits(in.chal, in) /\ Prove(r, in)

HandlerSteps == \E r \in Requests : IssueStep(r)

ExchangeChallenges(ops) ==
  \E c \in Challenges, a \in Attempts, op \in ops : ExchangeChallenge(c, a, op)

RenewChallenges ==
  \E c \in Challenges, b \in Bindings, op \in OpIds : RenewChallenge(c, b, op)

\* The first n of them; which ones does not matter.
Some(S, n) == CHOOSE T \in SUBSET S : Cardinality(T) = Lesser(n, Cardinality(S))
First(S) == CHOOSE x \in S : TRUE

\* Invocations that are still to come; the others came earlier and were refused.
Waiting(r, c, s, t) ==
  /\ requests = [x \in Requests |-> [IdleRequest EXCEPT !.pc = IF x \in Some(Requests, r) THEN "idle" ELSE "done"]]
  /\ challenges = [x \in Challenges |-> [NoChallenge EXCEPT !.status = IF x \in Some(Challenges, c) THEN "none" ELSE "purged"]]
  /\ consents = [x \in Consents |-> [IdleConsent EXCEPT !.pc = IF x \in Some(Consents, s) THEN "idle" ELSE "done"]]
  /\ retires = [x \in Retires |-> [IdleRetire EXCEPT !.pc = IF x \in Some(Retires, t) THEN "idle" ELSE "done"]]

All(S) == Cardinality(S)

Grant(c, m, u) ==
  [status |-> "active", owner |-> c, rev |-> 0, max |-> m, from |-> 0, until |-> u,
   lease |-> LeaseMax, started |-> NoTime, trialKey |-> None]

\* Fresh licenses; only those in use differ, and a trial has room for everyone.
Granted(used) ==
  entitlements \in {g \in [Licenses -> {Grant(c, m, u) : c \in Customers, m \in Limits, u \in Ends}] :
    \A x \in Licenses :
      /\ x \in used \cap Trials => \A m \in Limits : m <= g[x].max
      /\ x \in used \ Trials => \A u \in Ends : u <= g[x].until
      /\ x \notin used => g[x] = Grant(First(Customers), First(Limits), First(Ends))}

\* The first customer owns every license.
OneOwner == \A l \in Licenses : entitlements[l].owner = First(Customers)
NoRoom == \A l \in Licenses : entitlements[l].max = 1

\* Attempt rows after authorize and approve at time 0.
ApprovedRow(k, l, s, op) ==
  [NoAttempt EXCEPT !.status = "approved", !.key = k, !.rev = 1, !.expires = AttemptTTL,
     !.customer = entitlements[l].owner, !.license = l, !.code = s,
     !.codeExpires = Lesser(AttemptTTL, CodeTTL), !.sealed = TRUE, !.approveOp = op]

\* Attempts are for different keys as far as there are keys; which is for which
\* does not matter.
Spread(k) ==
  k = CHOOSE f \in [Attempts -> Keys] : Cardinality({f[a] : a \in Attempts}) = Lesser(Cardinality(Keys), Cardinality(Attempts))

Quiet ==
  /\ now = 0
  /\ customers = [c \in Customers |-> [status |-> "active", rev |-> 0]]
  /\ denials = {} /\ denyCache = {} /\ replies = {}

NothingEnrolled ==
  /\ devices = [k \in Keys |-> NoDevice]
  /\ bindings = [b \in Bindings |-> NoBinding]
  /\ operations = [o \in OpKeys |-> NoOperation]
  /\ leases = [r \in Requests |-> NoLease]

\* n attempts are approved, each for one of these licenses, and nothing is enrolled.
ApprovedInit(licenses, n) ==
  /\ Quiet /\ NothingEnrolled
  /\ \E k \in [Attempts -> Keys], l \in [Attempts -> licenses], s \in Some(Consents, 1) :
       /\ Spread(k)
       /\ Granted({l[a] : a \in Some(Attempts, n)})
       /\ attempts = [a \in Attempts |-> IF a \in Some(Attempts, n) THEN ApprovedRow(k[a], l[a], s, First(OpIds))
                                                                  ELSE NoAttempt]

\* A challenge opened at time 0 for the binding b0 of key k0 or for an attempt.
OpenRow(subject, b0, k, k0, op) ==
  [status |-> "open", purpose |-> IF subject = b0 THEN "renew" ELSE "exchange", subject |-> subject,
   key |-> IF subject = b0 THEN k0 ELSE k[subject], op |-> op, expires |-> ChallengeTTL, inv |-> None]

\* n attempts are approved, and one has been exchanged at time 0; the answer was
\* lost. m other challenges are open, each for the new binding or for another
\* attempt.
EnrolledInit(n, m) ==
  /\ Quiet
  /\ consents = [x \in Consents |-> [IdleConsent EXCEPT !.pc = "done"]]
  /\ retires = [x \in Retires |-> IdleRetire]
  /\ LET a0 == First(Attempts)
         c0 == First(Challenges)
         r0 == First(Requests)
         b0 == First(Bindings)
         others == Some(Attempts, n) \ {a0}
         open == Some(Challenges, m + 1) \ {c0}
         waiting == Some(Requests, m + 1) \ {r0}
     IN
     \E k \in [Attempts -> Keys], l \in [Attempts -> Licenses \ Trials], s \in Some(Consents, 1), op \in Some(OpIds, 1),
       subject \in [open -> {b0} \cup others] :
       LET o0 == <<k[a0], "exchange", op>>
           end == Lesser(LeaseMax, entitlements[l[a0]].until)
           digest == [subject |-> a0, arg |-> 1, actor |-> "device"]
       IN
       /\ Spread(k) /\ Granted({l[a] : a \in others \cup {a0}}) /\ entitlements[l[a0]].max > 0 /\ end >= 2
       /\ attempts = [a \in Attempts |->
            CASE a = a0 -> [ApprovedRow(k[a], l[a], s, op) EXCEPT !.status = "consumed", !.rev = 2, !.sealed = FALSE,
                              !.op = op, !.inv = r0, !.recovery = RecoveryTTL]
              [] a \in others -> ApprovedRow(k[a], l[a], s, op)
              [] OTHER -> NoAttempt]
       /\ devices = [[x \in Keys |-> NoDevice] EXCEPT
            ![k[a0]] = [status |-> "active", customer |-> entitlements[l[a0]].owner, rev |-> 0]]
       /\ bindings = [[b \in Bindings |-> NoBinding] EXCEPT
            ![b0] = [state |-> "active", license |-> l[a0], key |-> k[a0], gen |-> 1, rev |-> 1,
                     hold |-> end + Allowance]]
       /\ challenges = [c \in Challenges |->
            CASE c = c0 -> [status |-> "consumed", purpose |-> "exchange", subject |-> a0, key |-> k[a0], op |-> op,
                            expires |-> ChallengeTTL, inv |-> r0]
              [] c \in open -> OpenRow(subject[c], b0, k, k[a0], op)
              [] OTHER -> [NoChallenge EXCEPT !.status = "purged"]]
       /\ operations = [[o \in OpKeys |-> NoOperation] EXCEPT
            ![o0] = [NoOperation EXCEPT !.exists = TRUE, !.digest = digest, !.inv = r0,
                       !.customer = entitlements[l[a0]].owner, !.binding = b0, !.response = TRUE,
                       !.retain = RecoveryTTL]]
       /\ leases = [[r \in Requests |-> NoLease] EXCEPT
            ![r0] = [row |-> "stored", opKey |-> o0, subject |-> a0, license |-> l[a0], binding |-> b0,
                     gen |-> 1, entRev |-> 0, issued |-> 0, expires |-> end, accept |-> end + Allowance]]
       /\ requests = [r \in Requests |->
            CASE r = r0 -> [IdleRequest EXCEPT !.pc = "done", !.code = "temporarily_unavailable"]
              [] r \in waiting -> IdleRequest
              [] OTHER -> [IdleRequest EXCEPT !.pc = "done"]]

\* Retirements by customers who see the current revision.
RetireSteps ==
  \E t \in Retires :
    \/ RetireStep(t)
    \/ \E b \in Bindings, op \in Some(OpIds, 1) :
         ReadRetire(t, b, First(Customers), "customer", bindings[b].rev, op)

\* Every attempt waits for its approval, and nothing is enrolled.
PendingInit ==
  /\ Quiet /\ NothingEnrolled /\ Granted(Licenses)
  /\ \E k \in [Attempts -> Keys] :
       attempts = [a \in Attempts |-> [NoAttempt EXCEPT !.status = "pending", !.key = k[a], !.expires = AttemptTTL]]

ApprovalSteps ==
  \E s \in Consents :
    \/ ConsentStep(s)
    \/ \E a \in Attempts, l \in Licenses, op \in Some(OpIds, 1) : ReadApproval(s, a, First(Customers), l, 0, op)

\* A device repeats an exchange and a renewal while cleanup runs.
ReplayNext == ExchangeChallenges(OpIds) \/ RenewChallenges \/ ProvedRequests \/ HandlerSteps \/ CleanupNext \/ Tick

\* A device repeats a renewal after the answer to it is no longer kept.
RetentionNext == ProvedRequests \/ HandlerSteps \/ CleanupNext \/ Tick

\* A device presents one operation twice while its attempt is approved,
\* exchanged and the new device retired.
DenialNext ==
  \/ ExchangeChallenges(Some(OpIds, 1)) \/ ApprovalSteps \/ ProvedRequests \/ HandlerSteps \/ RetireSteps
  \/ now < AttemptTTL /\ Tick

\* Up to m approvals and denials of n attempts from their creation to their cleanup.
ConsentsInit(n, m) ==
  /\ Quiet /\ NothingEnrolled /\ Granted(Licenses) /\ OneOwner
  /\ Waiting(0, 0, m, 0)
  /\ attempts = [a \in Attempts |-> [NoAttempt EXCEPT !.status = IF a \in Some(Attempts, n) THEN "none" ELSE "purged"]]
ConsentsNext ==
  \/ \E a \in Attempts, k \in Keys : CreateAuthorization(a, k)
  \/ ConsentNext \/ CleanupNext \/ Tick

RepeatInit ==
  /\ \/ slice = "replay" /\ ApprovedInit(Licenses, All(Attempts)) /\ Waiting(2, 2, 0, 0) /\ OneOwner
     \/ slice = "retention" /\ EnrolledInit(1, 2) /\ OneOwner
     \/ slice = "denial" /\ PendingInit /\ Waiting(2, 2, 1, 1) /\ OneOwner
     \/ slice = "consents" /\ ConsentsInit(1, 2)
RepeatNext ==
  /\ UNCHANGED slice
  /\ \/ slice = "replay" /\ ReplayNext
     \/ slice = "retention" /\ RetentionNext
     \/ slice = "denial" /\ DenialNext
     \/ slice = "consents" /\ ConsentsNext
RepeatSpec == RepeatInit /\ [][RepeatNext]_<<vars, slice>>

\* Devices are retired while they renew and others wait for the slot.
RetirementNext == ProvedRequests \/ HandlerSteps \/ RetireSteps \/ Tick

\* The first two changes of a limit.
Capacities ==
  /\ \A l \in Licenses : entitlements[l].rev < 2
  /\ \E l \in Licenses \ Trials, max \in Limits, lease \in LeaseTerms : SetEntitlementCapacity(l, max, lease)

\* Devices race for the slots of a license whose limit changes.
RaceNext == ExchangeChallenges(OpIds) \/ ProvedRequests \/ HandlerSteps \/ Capacities \/ (now = 0 /\ Tick)

\* Devices race to start a trial and renew it.
TrialNext == ExchangeChallenges(OpIds) \/ RenewChallenges \/ ProvedRequests \/ HandlerSteps \/ (now < 2 /\ Tick)

\* The rows whose authority has changed.
Changed ==
  {l \in Licenses : entitlements[l].rev > 0} \cup {c \in Customers : customers[c].rev > 0}
    \cup {k \in Keys : devices[k].rev > 0}

\* Authority over a license changes twice, on one row or on two, under an
\* enrollment and its renewal; its end is not drawn nearer.
AuthorityNext ==
  \/ ExchangeChallenges(OpIds) \/ ProvedRequests \/ HandlerSteps
  \/ /\ Cardinality(Changed) < 2
     /\ \A l \in Licenses : entitlements[l].rev < 2
     /\ \A c \in Customers : customers[c].rev < 2
     /\ \A k \in Keys : devices[k].rev < 2
     /\ AdminNext
     /\ \A l \in Licenses : entitlements'[l].until >= entitlements[l].until
     /\ \A l \in Trials : UNCHANGED entitlements[l]

FencingInit ==
  \/ slice = "retirement" /\ EnrolledInit(2, 2) /\ OneOwner /\ NoRoom
  \/ slice = "authority" /\ ApprovedInit(Licenses \ Trials, 1) /\ Waiting(2, 2, 0, 0) /\ OneOwner
  \/ slice = "authority" /\ EnrolledInit(1, 1) /\ OneOwner
  \/ slice = "race" /\ ApprovedInit(Licenses \ Trials, All(Attempts)) /\ Waiting(2, 2, 0, 0) /\ OneOwner
  \/ slice = "trial" /\ ApprovedInit(Trials, All(Attempts)) /\ Waiting(2, 2, 0, 0) /\ OneOwner
FencingNext ==
  /\ UNCHANGED slice
  /\ \/ slice = "retirement" /\ RetirementNext
     \/ slice = "authority" /\ AuthorityNext
     \/ slice = "race" /\ RaceNext
     \/ slice = "trial" /\ TrialNext
FencingSpec == FencingInit /\ [][FencingNext]_<<vars, slice>>

\* What must come to an end: an enrolled device is retired while it renews and
\* its attempt runs out; two attempts are approved or denied or neither, and
\* cleaned up. Each runs under the fairness of the actions it has.
Settling == {"retirement", "consents"}
SettleInit ==
  \/ slice = "retirement" /\ EnrolledInit(1, 1)
  \/ slice = "consents" /\ ConsentsInit(2, 1)
SettleNext ==
  /\ UNCHANGED slice
  /\ \/ slice = "retirement" /\ (RetirementNext \/ PurgeConsumedAttempts)
     \/ slice = "consents" /\ ConsentsNext
SettleFairness ==
  /\ WF_vars(slice \in Settling /\ Tick)
  /\ \A r \in Requests : WF_vars(slice = "retirement" /\ IssueStep(r))
  /\ \A t \in Retires : WF_vars(slice = "retirement" /\ RetireStep(t))
  /\ \A s \in Consents : WF_vars(slice = "consents" /\ ConsentStep(s))
  /\ WF_vars(slice = "consents" /\ EraseExpiredApprovals)
  /\ WF_vars(slice = "consents" /\ PurgeUnconsumedAttempts)
  /\ WF_vars(slice = "retirement" /\ PurgeConsumedAttempts)

\* Everything at once.
WholeSpec == slice = "whole" /\ Init /\ [][UNCHANGED slice /\ Next]_<<vars, slice>>
=============================================================================
