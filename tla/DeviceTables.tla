---------------------------- MODULE DeviceTables ----------------------------
(***************************************************************************)
(* The D1 tables of device-bound licensing, the policy every handler       *)
(* shares, and the state of the handler invocations that are in flight.    *)
(*                                                                         *)
(* A table is a function from its primary key to a row; a row that is not  *)
(* in the table has status "none" (state "none", exists FALSE). Random     *)
(* identifiers (handles, challenge and binding ids, invocation ids) are    *)
(* model values, and a purged one is never handed out again. Secrets,      *)
(* signatures and digests are abstracted to whether they match. Every      *)
(* invocation is one element of Requests, Consents or Retires and runs     *)
(* once; between two of its steps, which are awaits in the code, any other *)
(* step of the system may happen.                                          *)
(***************************************************************************)
EXTENDS Integers, FiniteSets

CONSTANTS
  Customers, Licenses, Keys, Bindings, Attempts, Challenges, OpIds,
  Requests,        \* invocations of the exchange and renew routes
  Consents,        \* invocations of the approve and deny capabilities
  Retires,         \* invocations of the retire capabilities
  None,            \* SQL NULL for identifiers
  Trials,          \* licenses whose grant is a trial
  IssueTrials,     \* the trials that end at valid_until (basis from_issue)
  OnePerDevice,    \* the trials locked to the device that starts them
  TrialSeconds,    \* trial_duration_sec of the other trials
  AttemptTTL, ChallengeTTL, CodeTTL, LeaseMax, Allowance, RecoveryTTL,
  DenialWindow,
  Limits, Starts, Ends, LeaseTerms,  \* max_active_devices, valid_from,
                                     \* valid_until and lease_seconds in use
  Generations,     \* generations a renewing client may present
  MaxRevision,     \* the largest revision or generation a column may hold
  MaxTime          \* bound of a model: the clock stops here

Purposes == {"exchange", "renew", "retire"}
Actors == {"device", "customer", "operator"}
NoTime == -1                                    \* SQL NULL for times
Time == Nat \cup {NoTime}
Revisions == 0 .. MaxRevision
Horizon == MaxTime + LeaseMax + Allowance       \* nothing is held longer
OpKeys == Keys \X Purposes \X OpIds

ASSUME SetsAssumption ==
  /\ Trials \subseteq Licenses /\ IssueTrials \subseteq Trials /\ OnePerDevice \subseteq Trials
  /\ Limits \subseteq Nat /\ Starts \subseteq Nat /\ Ends \subseteq Nat /\ LeaseTerms \subseteq Nat
  /\ Generations \subseteq Nat
  /\ Limits # {} /\ Ends # {}
  /\ None \notin Customers \cup Licenses \cup Keys \cup Bindings \cup Attempts \cup Challenges \cup OpIds
  /\ None \notin Requests \cup Consents \cup Retires
  /\ Attempts \cap Bindings = {}

ASSUME TimingAssumption ==
  /\ {AttemptTTL, ChallengeTTL, CodeTTL, Allowance, RecoveryTTL, DenialWindow} \subseteq Nat \ {0}
  /\ TrialSeconds \in Nat /\ TrialSeconds >= 2
  /\ LeaseMax \in Nat /\ LeaseMax >= 2
  /\ MaxRevision \in Nat \ {0} /\ MaxTime \in Nat

ASSUME BindingsFinite == IsFiniteSet(Bindings)

VARIABLES
  now,            \* unixepoch()
  customers, entitlements, devices, bindings,
  attempts,       \* device_bound_authorizations
  challenges, operations, leases,
  denials,        \* device_bound_denials: [license, key, ts]
  denyCache,      \* the bound-deny rows of mutation_idempotency
  requests, consents, retires,
  replies         \* history: the committed answers that were returned

vars == <<now, customers, entitlements, devices, bindings, attempts, challenges, operations,
          leases, denials, denyCache, requests, consents, retires, replies>>

-----------------------------------------------------------------------------
(* Rows. *)

CustomerRow == [status: {"active", "disabled"}, rev: Revisions]

EntitlementRow ==
  [status: {"active", "disabled", "revoked"}, owner: Customers, rev: Revisions, max: Limits,
   from: Nat, until: Nat, lease: Nat, started: Time, trialKey: Keys \cup {None}]

DeviceRow == [status: {"none", "active", "disabled"}, customer: Customers \cup {None}, rev: Revisions]

BindingRow ==
  [state: {"none", "active", "retiring"}, license: Licenses \cup {None}, key: Keys \cup {None},
   gen: Revisions, rev: Revisions, hold: 0 .. Horizon]

AttemptRow ==
  [status: {"none", "pending", "approved", "denied", "consumed", "purged"},
   key: Keys \cup {None}, rev: Nat, expires: Nat,
   customer: Customers \cup {None}, license: Licenses \cup {None},
   code: Consents \cup {None}, codeExpires: Time,
   sealed: BOOLEAN, approveOp: OpIds \cup {None},
   op: OpIds \cup {None}, inv: Requests \cup {None}, recovery: Time]

ChallengeRow ==
  [status: {"none", "open", "consumed", "purged"}, purpose: {"exchange", "renew"},
   subject: Attempts \cup Bindings \cup {None}, key: Keys \cup {None},
   op: OpIds \cup {None}, expires: Nat, inv: Requests \cup {None}]

Digest == [subject: Attempts \cup Bindings \cup {None}, arg: Nat, actor: Actors]

OperationRow ==
  [exists: BOOLEAN, digest: Digest, inv: Requests \cup Retires \cup {None},
   customer: Customers \cup {None}, binding: Bindings \cup {None}, response: BOOLEAN,
   committed: Nat, retain: Nat, release: Nat, rev: Nat, gen: Nat]

LeaseRow ==
  [row: {"none", "stored", "purged"}, opKey: OpKeys \cup {None},
   subject: Attempts \cup Bindings \cup {None}, license: Licenses \cup {None},
   binding: Bindings \cup {None}, gen: Nat, entRev: Nat, issued: Nat, expires: Nat,
   accept: 0 .. Horizon]

NoDevice == [status |-> "none", customer |-> None, rev |-> 0]
NoBinding == [state |-> "none", license |-> None, key |-> None, gen |-> 0, rev |-> 0, hold |-> 0]
NoAttempt == [status |-> "none", key |-> None, rev |-> 0, expires |-> 0, customer |-> None,
              license |-> None, code |-> None, codeExpires |-> NoTime, sealed |-> FALSE,
              approveOp |-> None, op |-> None, inv |-> None, recovery |-> NoTime]
NoChallenge == [status |-> "none", purpose |-> "exchange", subject |-> None, key |-> None,
                op |-> None, expires |-> 0, inv |-> None]
NoDigest == [subject |-> None, arg |-> 0, actor |-> "device"]
NoOperation == [exists |-> FALSE, digest |-> NoDigest, inv |-> None, customer |-> None,
                binding |-> None, response |-> FALSE, committed |-> 0, retain |-> 0,
                release |-> 0, rev |-> 0, gen |-> 0]
NoLease == [row |-> "none", opKey |-> None, subject |-> None, license |-> None, binding |-> None,
            gen |-> 0, entRev |-> 0, issued |-> 0, expires |-> 0, accept |-> 0]

-----------------------------------------------------------------------------
(* Invocations in flight: the program counter, the input and what has been *)
(* read so far. A finished one keeps only its outcome code.                *)

Codes == {"none", "ok", "invalid_proof", "challenge_expired", "authorization_unavailable",
          "authorization_expired", "binding_unavailable", "idempotency_conflict", "access_denied",
          "device_retired", "revision_conflict", "device_limit_reached", "temporarily_unavailable"}

RequestState ==
  [pc: {"idle", "lookup", "reread", "license", "device", "capacity", "recheck", "commit", "recover", "done"},
   code: Codes, purpose: {"exchange", "renew"}, subject: Attempts \cup Bindings \cup {None},
   arg: Nat, op: OpIds \cup {None}, chal: Challenges \cup {None}, key: Keys \cup {None},
   customer: Customers \cup {None}, license: Licenses \cup {None},
   status: {"none", "pending", "approved", "denied", "consumed", "purged"}, live: BOOLEAN, attRev: Nat,
   attOp: OpIds \cup {None}, attInv: Requests \cup {None},
   prior: Requests \cup Retires \cup {None}, priorBinding: Bindings \cup {None},
   custRev: Nat, entRev: Nat, limit: Nat, issued: Nat, expires: 0 .. MaxTime + LeaseMax, stamp: BOOLEAN,
   known: BOOLEAN, devRev: Nat, binding: Bindings \cup {None}, bindRev: Nat, gen: Nat]

IdleRequest ==
  [pc |-> "idle", code |-> "none", purpose |-> "exchange", subject |-> None, arg |-> 0, op |-> None,
   chal |-> None, key |-> None, customer |-> None, license |-> None, status |-> "none", live |-> FALSE,
   attRev |-> 0, attOp |-> None, attInv |-> None, prior |-> None, priorBinding |-> None,
   custRev |-> 0, entRev |-> 0, limit |-> 0, issued |-> 0, expires |-> 0, stamp |-> FALSE,
   known |-> FALSE, devRev |-> 0, binding |-> None, bindRev |-> 0, gen |-> 0]

ConsentState ==
  [pc: {"idle", "approve", "reread", "open", "deny", "reconcile", "done"}, code: Codes,
   attempt: Attempts \cup {None}, customer: Customers \cup {None}, license: Licenses \cup {None},
   expected: Nat, op: OpIds \cup {None}, attRev: Nat, pending: BOOLEAN,
   custRev: Nat, entRev: Nat, expires: Nat, answer: Consents \cup {None}]

IdleConsent ==
  [pc |-> "idle", code |-> "none", attempt |-> None, customer |-> None, license |-> None,
   expected |-> 0, op |-> None, attRev |-> 0, pending |-> FALSE, custRev |-> 0, entRev |-> 0,
   expires |-> 0, answer |-> None]

RetireState ==
  [pc: {"idle", "batch", "cached", "current", "done"}, code: Codes, binding: Bindings \cup {None},
   customer: Customers \cup {None}, actor: Actors, expected: Nat, op: OpIds \cup {None},
   key: Keys \cup {None}, gen: Nat, custRev: Nat, devRev: Nat, entRev: Nat]

IdleRetire ==
  [pc |-> "idle", code |-> "none", binding |-> None, customer |-> None, actor |-> "customer",
   expected |-> 0, op |-> None, key |-> None, gen |-> 0, custRev |-> 0, devRev |-> 0, entRev |-> 0]

-----------------------------------------------------------------------------
(* Shared policy. *)

Lesser(a, b) == IF a <= b THEN a ELSE b
Later(a, b) == IF a >= b THEN a ELSE b

\* Slip: the generation is not advanced.
RetiredUnfenced(row) == [row EXCEPT !.state = "retiring", !.rev = @ + 1]

\* Slip: the slot is released at once.
RetiredAtOnce(row) == [row EXCEPT !.state = "retiring", !.gen = @ + 1, !.rev = @ + 1, !.hold = now]

\* A binding once retired: fenced by its generation, still held.
Retired(row) == [row EXCEPT !.state = "retiring", !.gen = @ + 1, !.rev = @ + 1]

\* Slip: a retired binding never gives its slot back.
OccupiesForever(b) == bindings[b].state \in {"active", "retiring"}

\* boundOccupiedSql, bindingOccupiesSlot: a retiring binding keeps its slot
\* until its hold has ended.
Occupies(b) ==
  bindings[b].state = "active" \/ (bindings[b].state = "retiring" /\ bindings[b].hold > now)

Occupied(l) == {b \in Bindings : bindings[b].license = l /\ Occupies(b)}

InWindow(e) == e.from <= now /\ e.until > now

\* boundTrialDeadlineSql: when the trial of row e of license l ends if it starts at t.
TrialEnd(l, e, t) ==
  IF l \in IssueTrials THEN e.until
  ELSE (IF e.started = NoTime THEN t ELSE e.started) + TrialSeconds

\* Slip: the lock of a one-device trial is forgotten.
TrialOpenToAll(l, e, k, allowUnstarted) ==
  l \notin Trials \/
    /\ e.started = NoTime => allowUnstarted
    /\ e.started # NoTime => e.started <= now
    /\ TrialEnd(l, e, now) > now

\* boundTrialState, boundTrialSql: key k may use the trial now.
TrialOpen(l, e, k, allowUnstarted) ==
  l \notin Trials \/
    /\ \/ e.started = NoTime /\ allowUnstarted
       \/ e.started # NoTime /\ e.started <= now /\ (l \in OnePerDevice => e.trialKey = k)
    /\ TrialEnd(l, e, now) > now

\* The grant l is usable by customer c: joined entitlement and customer rows.
Usable(l, c) ==
  /\ entitlements[l].owner = c /\ entitlements[l].status = "active" /\ InWindow(entitlements[l])
  /\ customers[c].status = "active"

\* The end of a lease issued now on row e of license l (issueBoundLease's
\* arguments of deviceLeaseWindow); a lease shorter than 2 is refused.
LeaseEnd(l, e) ==
  LET paid == Lesser(e.until, IF e.lease > 0 THEN now + e.lease ELSE now + LeaseMax)
      open == IF l \in Trials THEN Lesser(paid, TrialEnd(l, e, now)) ELSE paid
  IN  Lesser(open, now + LeaseMax)

-----------------------------------------------------------------------------
Init ==
  /\ now = 0
  /\ customers = [c \in Customers |-> [status |-> "active", rev |-> 0]]
  /\ entitlements \in [Licenses ->
       {[status |-> "active", owner |-> c, rev |-> 0, max |-> m, from |-> 0, until |-> u,
         lease |-> LeaseMax, started |-> NoTime, trialKey |-> None] : c \in Customers, m \in Limits, u \in Ends}]
  /\ devices = [k \in Keys |-> NoDevice]
  /\ bindings = [b \in Bindings |-> NoBinding]
  /\ attempts = [a \in Attempts |-> NoAttempt]
  /\ challenges = [c \in Challenges |-> NoChallenge]
  /\ operations = [o \in OpKeys |-> NoOperation]
  /\ leases = [r \in Requests |-> NoLease]
  /\ denials = {}
  /\ denyCache = {}
  /\ requests = [r \in Requests |-> IdleRequest]
  /\ consents = [s \in Consents |-> IdleConsent]
  /\ retires = [t \in Retires |-> IdleRetire]
  /\ replies = {}

\* What exists names a device key, and an operation its invocation, as the NOT
\* NULL columns and foreign keys of the schema demand.
KeysKnown ==
  /\ \A a \in Attempts : attempts[a].status \notin {"none", "purged"} => attempts[a].key \in Keys
  /\ \A b \in Bindings : bindings[b].state # "none" => bindings[b].key \in Keys /\ bindings[b].license \in Licenses
  /\ \A r \in Requests : requests[r].pc \notin {"idle", "done"} => requests[r].key \in Keys
  /\ \A t \in Retires : retires[t].pc \in {"batch", "cached", "current"} => retires[t].key \in Keys /\ retires[t].op \in OpIds
  /\ \A o \in OpKeys : operations[o].exists => operations[o].inv \in Requests \cup Retires

\* Every table, cache, invocation and answer has its declared shape, revisions
\* and holds stay in their bounds, and existing rows name existing keys.
TypeOK ==
  /\ now \in 0 .. MaxTime
  /\ customers \in [Customers -> CustomerRow]
  /\ entitlements \in [Licenses -> EntitlementRow]
  /\ devices \in [Keys -> DeviceRow]
  /\ bindings \in [Bindings -> BindingRow]
  /\ attempts \in [Attempts -> AttemptRow]
  /\ challenges \in [Challenges -> ChallengeRow]
  /\ operations \in [OpKeys -> OperationRow]
  /\ leases \in [Requests -> LeaseRow]
  /\ denials \subseteq [license: Licenses, key: Keys, ts: Nat]
  /\ denyCache \subseteq [customer: Customers, attempt: Attempts, op: OpIds \cup {None}, expected: Nat]
  /\ requests \in [Requests -> RequestState]
  /\ consents \in [Consents -> ConsentState]
  /\ retires \in [Retires -> RetireState]
  /\ replies \subseteq [opKey: OpKeys, answer: Requests \cup Retires]
  /\ KeysKnown
=============================================================================
