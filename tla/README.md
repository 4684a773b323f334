# licensecc in TLA+

A verification project for the licensing services of licensecc. This document
is its table of contents: the parts of the system, what is modelled and how the
models correspond to the code, what every run of TLC shows, what TLAPS proves,
and what is left out.

## 1. Inventory

licensecc is a C++ license verifier that works offline, and a set of Cloudflare
Workers that sell, issue and administer licenses over one D1 (SQLite) database.
A Worker handles each request in an isolate of its own. Between two `await`s
anything else may happen; one statement, and one `db.batch`, is atomic. What
several requests may assume of each other is therefore decided by guards inside
batches, by unique keys and by triggers of the schema.

In this section `backend`, `admin`, `portal` and `backup` stand for
`services/cloudflare-licensing-backend`, `-license-admin`, `-customer-portal` and
`-d1-backup`, and `runtime` for `packages/cloudflare-runtime/src`.

### Device-bound licensing

| Part | Code | State | Operations |
|---|---|---|---|
| Tables and schema rules | `backend/migrations/0001_baseline.sql`, `runtime/device/bound_capacity.mjs`, `bound_trial.mjs` | customers, entitlements, devices, bindings, authorizations, challenges, operations, leases, denials | revision counting, refusal of a limit below the occupied slots or of a new owner, retirement of the bindings of a disabled device |
| Enrollment | `backend/src/device/bound_enrollment.mjs` | authorizations, challenges | open an authorization, ask for a challenge |
| Consent | `.../bound_consent.mjs` | authorizations, `mutation_idempotency` | approve, deny |
| Issue and recovery | `.../bound_issue.mjs`, `bound_store.mjs`, `bound_recovery.mjs` | operations, leases, bindings, devices, trial columns | exchange an approved authorization for a lease, renew a lease, return a stored answer |
| Retirement | `.../bound_retire.mjs` | bindings, operations | disconnect a device, as customer or operator |
| Rate limiter | `.../bound_rate.mjs` | counters by minute | charge a source, a device, everybody |
| Cleanup | `.../bound_cleanup.mjs`, `backend/src/maintenance/device_cleanup.ts` | all ephemeral rows | six bounded statements |

A native client opens an *authorization* for its device key
and sends its user to the portal. A signed-in customer *approves* it for one of
his licenses; the approval yields a code. The client *exchanges* the code, with a
signature over a single-use *challenge*, for a *binding* of its key to the
license and a first *lease*; it *renews* the lease with further challenges. A
license has `max_active_devices` slots. A binding occupies one until it has been
retired **and** every lease it ever carried has ceased to be acceptable
(`hold_until`), because a signed lease cannot be called back. Answers are lost,
so every mutation has an operation id under which it can be repeated.

Hard: every handler reads in several awaits and writes in one batch;
the batch may commit and its result be lost; retries come with a fresh challenge
and race the first call, cleanup, a retirement, or an administrator; an attempt is
approved, denied and exchanged by different people at once; two devices want the
last slot; the trial of a license is started by whoever comes first.

Correct when: slots never exceed the limit, nor do devices with an
acceptable lease; an approval is spent once, an operation executed once and
answered consistently; retirement fences renewals in flight and keeps its
promised release time; a denial is final; an unchanged revision stands for
unchanged authority; a trial starts once; a client is never told from mixed reads
that its committed enrollment failed; slots come back, cleanup catches up; one
source cannot spend the budget of all.

### Writers of grants and catalog

| Part | Code | State | Operations | Hard | Correct when |
|---|---|---|---|---|---|
| Order ingest | `backend/src/fulfillment/order_*.mjs` | order events, one row per subscription with its cursor, the floor of each grant, nonces | receive, accept, apply, redrive, end | crash between accept and apply, duplicates, order by (epoch, seq), two calls for one event, an owner that changes meanwhile | an order takes effect at most once and in order, on a grant of its customer; its stored result is true; it ends |
| Entitlement mutations, idempotency, plan projections | `runtime/d1/`, `admin/src/worker/` | entitlements, `entitlement_events`, `mutation_idempotency`, previews, generations | create, patch, limit, disable, reenable, revoke, sync; preview, apply | same key twice, grants that change after the read or after the preview | a key is spent once, the audit trail has no gap, an applied preview is what was shown |
| Catalog and its import | `admin/src/worker/groups/catalog`, `groups/policies`, `transitions.ts` | policies, features, plans, plan features, their events, import previews | create, patch, save, disable, reenable; preview, apply | rows that change after the preview; two applications | an import does what its preview showed, whole and once |
| Audit digest | `runtime/d1/audit_digest.mjs` | segments of a hash chain | seal, verify | a tick that fails half way, ticks that overlap | the verdict is true, every event is sealed |
| Webhook outbox | `runtime/webhooks/`, `admin/src/worker/groups/webhooks` | cursor, deliveries with leases and counts, endpoints | queue, claim, send, record; move, disable, redrive | ticks that overlap or stop, a lease that ends in flight, an endpoint that moves | no wanted event is lost, one sender per lease, nothing goes to a new place, deliveries end |

### Customers, machines and operators

| Part | Code | State | Operations | Hard | Correct when |
|---|---|---|---|---|---|
| Portal sign-in | `portal/src/auth/` | codes, passwords, reset links, identities, sessions | ask, check, sign in, change, reset, link, unlink | a code guessed from several tabs, a password that changes while it is used, two unlinks at once | a code works once, old passwords open nothing, a way in is left |
| Native client | `src/library/device_identity/` | sessions with a revision floor, two checkpoint files | open, renew, save, authorize, abandon, cancel | processes that save older statements, a power loss between two copies | nothing older than what was learned or saved is accepted |
| D1 backup | `backup/src/` | workflow steps, dumps and manifests in a bucket | start, save, prune | repeated, evicted and late attempts, uploads with unknown outcome | what a manifest covers stays for its retention, failed saves leave nothing |
| Administration console, sign-in and pages | `admin/src/worker`, `admin/src/ui` | operator sessions at the provider | route, list, export | none beyond the mutations above | it writes only through them |
| Offline verifier | `src/library/` | none: pure parsing and checking | verify | none | left to its unit and fuzz tests |
| Wire formats, cryptography | `backend/src/device/bound_request.mjs`, `bound_crypto.mjs`, ... | none | none | none | abstracted to whether a value matches |

`PROJECT.json` lists every component with its sources, and under `hazards`
each hard point at its line, with the property that covers it.

## 2. Modules

    DeviceTables --+-- Enrollment, Issue,   --+-- DeviceLicensing --+-- MCDevice
     (state,       |   Consent, Retire,       |    (Spec,           |
      policy)      +-- DeviceAdmin, Cleanup --+     properties)   DeviceLicensing_proofs
                                                    |              |        |
                                                    | refines      | uses   DeviceInvariants_proofs
                                                    v              v
                                               SeatLedger ---- SeatLedger_proofs

    OrderIngest -- refines --> OrderBook        OrderIngest  ---- OrderIngest_proofs
    WebhookOutbox -- MCWebhooks -- WebhookOutbox_proofs
    PortalSignIn, NativeClient ---------------- Clients_proofs
    Console ----------------------------------- Console_proofs
    OrderBook, OrderSignature, BoundRate,
      D1Backup, AuditChain, Catalog ----------- Parts_proofs

    MCOrders   extends  OrderIngest
    MCClients  extends  MCOrders, PortalSignIn, NativeClient
    MCLiveness extends  MCOrders; instances WebhookOutbox, AuditChain, MCDevice
    MCWebhooks extends  WebhookOutbox
    MCParts    extends  SeatLedger, OrderBook, OrderSignature, BoundRate,
               AuditChain, Console, D1Backup; instances Catalog

| Module | Models |
|---|---|
| `DeviceTables` | the tables as functions from primary keys to rows; the local variables of the handler invocations in flight; slot occupancy (`boundOccupiedSql`), trial policy (`boundTrialSql`), the lease window; initial state; `TypeOK` |
| `Enrollment` | `createBoundAuthorization`, `createBoundChallenge`: one guarded statement each |
| `Issue` | `issueBoundLease`: `Prove`, `LookUp`, `Reread`, `ReadLicense`, `ReadDevice`, `CheckCapacity`, `Recheck`, then `Commit` (all of `BOUND_LEASE_COMMIT_SQL`) or `Recover` (`BOUND_RECOVERY_SQL`), their aborts, and `Fail` |
| `Consent` | `approveBoundAuthorization` (`ReadApproval`, `Approve`, `ApproveLoses`, `RereadApproval`, `OpenApproval`) and `denyBoundAuthorization` (`ReadDenial`, `DenyBatch`, `ReconcileDenial`) |
| `Retire` | `retireWithActor`: `ReadRetire`, `RetireBatch` or `RetireAborts`, then `RetireCached` and `RetireCurrent` when the batch did not answer |
| `DeviceAdmin` | what the administration and order fulfilment write into the columns that device handlers compare, with the triggers those writes fire |
| `DeviceCleanup` | the six statements of `drainBoundCleanup` |
| `DeviceLicensing` | the composition with a clock, fairness, every property, and the refinement mapping |
| `SeatLedger` | the abstract specification: seats that are free, open or closed, held at least as long as what was granted on them |
| `BoundRate` | `limitBoundRequest`, `limitBoundVerified` and the sweep of old windows; a batch may span two minutes |
| `OrderSignature` | the signed door of order ingest, await by await: `verifyOrderHmac` (`Verify`), the clock of the order (`ReadNow`), and the two statements of `spendOrderNonce` (`SpendNonce`, `Purge`), with any number of deliveries of one request under way |
| `OrderIngest` | `runExactlyOnce` await by await: dedup, gate, identity, the accept batch, stale claims, auxiliary identities, the apply batch with its marks, the terminal ends; calls that stop; senders that repeat |
| `OrderBook` | the abstract specification: an order takes effect at most once, and per grant in the order of (epoch, seq) |
| `Console` | `mutationResponse` with every mutation of a grant, `previewPlanProjection` and `applyPlanProjection`; order ingest, the stamp that starts a trial and catalog changes beside them |
| `Catalog` | the same for policies, features, plans and plan features, `transitionWithGuard`, `previewCatalogImport` and `applyCatalogImport` |
| `AuditChain` | `appendAuditDigest` in its three statements, `verifyAuditChain` as an operator |
| `WebhookOutbox` | `enqueueWebhooks`, `deliverWebhooks`, the claims and outcomes of the delivery store, and what operators do to endpoints and deliveries |
| `PortalSignIn` | codes and links, passwords and resets, providers, and the sessions they open |
| `NativeClient` | `BoundRenewalSession`, `BoundCheckpointStore` and the calls of the public interface on one machine |
| `D1Backup` | the workflow `start`, `save`, `prune` over the bucket, with an engine that repeats |
| `MCDevice`, `MCOrders`, `MCClients`, `MCParts`, `MCWebhooks`, `MCLiveness` | initial states further on, inputs and next-state relations restricted to some handlers, used by the runs |
| `*_proofs` | the theorems of section 5 with their inductive invariants and lemmas; each extends what it is about |

`PROJECT.json` maps every definition to the lines it stands for.

### State and code

* A **table** is a function from the primary key; a missing row has status
  `"none"`. Random identifiers are model values, and one that has been purged is
  not handed out again. In the device modules `mutation_idempotency` appears as
  `denyCache`, the rows that a denial writes; in `Console` and `Catalog` as the
  answers, or the keys, that are stored.
* An **invocation** (`Requests`, `Consents`, `Retires`, `Calls`, `Tabs`, `Ticks`,
  a process, an attempt of a flow) has a `pc` that names the await it waits for.
  Its other fields are exactly the locals the code still uses after that await. A
  retry is another invocation with the same operation id, event id or key.
* A **batch** is one step. Its guard is the conjunction of the code's guard
  statements; if it does not hold the step is the abort, which changes nothing.
  `unixepoch()` can advance inside a transaction; where a later statement can then
  only fail the closing check that is the abort again, and where it decides
  which row is charged (`BoundRate`) the statements take their minutes separately.
* A **lost answer** is a disjunct of every committing step of a device handler
  (`Reply`, `ReturnRetired`, `ReturnCode`): the state changes and the client sees a
  503. Elsewhere an invocation may stop at every await (`Crash`, `Stop`, `Fail`,
  `Die`, `Evict`), and its client or the schedule repeats it.
* **Time** is `unixepoch()` (`now`, moved by `Tick`) where deadlines are compared
  with each other; an event that may happen at any moment (`Lapse`, `ExpireCode`,
  `Age`) where only one deadline matters; and what remains until the next attempt
  in `WebhookOutbox`.
* **History variables** (`replies` of the device handlers, `landed`, `answers`,
  `sealed`, `acked`, `failures`, `learned`, `covered`, `through`) are what a
  property has to remember; no guard reads them.

### What is abstracted

In the device modules:

* Secrets, digests, signatures, PKCE and attestation evidence are reduced to
  whether they match (`arg`, `ChallengeFits`, `Digest`).
* One project, feature and environment: the equalities on them hold.
  `valid_until IS NULL` is an end later than the clock's bound.
* Audit events, `last_proof_at` and device metadata, which no guard reads, are
  left out.
* Some consecutive reads are one step (`Prove`, `ReadLicense` with the binding's
  state, `ReadDevice`, `ReadRetire`, `ReadApproval`). The batch compares the
  revisions of all of them, so a state change between two of these reads ends in
  an abort; only refusals that the code would give earlier are lost.
* No handler stores the binding state `released`; the schema only admits it. A
  retiring binding past its hold no longer occupies a slot and stays in place.
* No service of the repository disables a device. It is an operator's statement,
  which is why `TransitionDevice` is modelled from the trigger it fires.
* The start of a trial (`trial_started_at`, `trial_device_key_id`) is written by
  the device handlers only. Policies and plan projections stamp the other trial
  columns (`is_trial`, basis, duration, one per device); here the kind of trial
  that a license is stays constant.
* Rows of `device_bound_denials` are inserted but their purge after 90 days
  (`backend/src/maintenance/index.ts`) is left out: they only decide whether
  another denial is recorded.
* Immutability triggers (`tr_bound_*` of the baseline schema) abort statements
  that no handler issues. They are not modelled as aborts; `DeviceAdmin` has those
  that refuse a change an operator may well ask for.

In the others:

* `OrderIngest` starts behind normalization, the signer's scope and the nonce
  (`OrderSignature` has the last). One project and feature; whether an e-mail address is
  taken is a free choice; 0 is a NULL `valid_until`; the period gate is a set of
  events that have lapsed.
* `Console` reduces customers, licenses and policies to refusals. A projection
  reads and writes whole grants. Other writers of the same tables are `Renew` (an
  order), `StampTrial` (the first device of a trial) and `Touch` (a catalog change,
  another assignment). Of the three columns of a stamp only whether the trial has
  started is kept. An order's event has no `prev_json` and tells only some columns
  (`Told`), the start of a trial not among them.
* `OrderSignature` starts at the check of the timestamp; deliveries that it refuses
  stay where they are. What is parsed and checked between `Verify` and `SpendNonce`
  can only end a delivery, which is one that never goes on.
* In `Catalog` rows are never deleted, as in the code, which makes the reads of
  dependencies one step: what the last of them sees was there at the others, and
  the status of a policy is read once. Clocks are read once per request (`over`).
  `Stop` also stands for a statement that fails, on a unique add-on key for example.
* `AuditChain` takes the hash to be free of collisions: a digest *is* the sequence
  it commits to.
* `WebhookOutbox` has one event source and neither event types nor the limit
  of due rows per tick; payloads and signatures carry no state. The operator's test
  send touches no delivery.
* `PortalSignIn` is about one customer. Both providers are configured, password
  sign-in is enabled, rate limits only refuse. A code already proved when a
  password changes still opens its session, as does a provider's answer in flight
  when the provider is disconnected: this is what the code does, and the
  properties are stated accordingly.
* `NativeClient` does not tell two statements of the same revision and second
  apart, so the conflict of two signers is left out; storage is the Linux one
  (rename, then flush of the directory).
* `D1Backup` takes a dump to be a function of the bookmark it was exported at. Its
  clock assumes that 41 attempts of 15 minutes end within one day, the shortest
  retention.

## 3. Properties

Each is stated with a comment that names the code, and has a mutant in
`PROJECT.json` for every run that checks it: a slip that a change of this code
could make, under which the run finds the property violated. The mutated forms
are the definitions commented `Slip:`, each beside the one it stands in for.

| Property | Module | Kind | Says |
|---|---|---|---|
| `ImplementsLedger` | DeviceLicensing | refinement | every step takes, extends, closes, resizes or passes, as `SeatLedger` allows |
| `WithinCapacity` | | invariant | occupied slots never exceed `max_active_devices` |
| `LiveDevicesWithinLimit` | | invariant | nor do the devices whose lease is still acceptable |
| `OneAnswerPerOperation` | | invariant | an operation issues one lease, and has one answer |
| `ApprovalSpentOnce` | | invariant | an approval enrolls once |
| `RevisionStandsForAuthority` | | invariant | an unchanged revision means that limit, window, owner and status are what the invocation read |
| `RecoverableWhileRetained` | | invariant | a committed exchange keeps both the response and the consumed attempt for its retention |
| `RetirementFencesLeases` | | invariant | leases of a retired binding carry an older generation |
| `RetirementPromiseKept` | | invariant | the answered release time stays right |
| `ReturnedCodeIsCommitted` | | invariant | the code a customer returns with is the one the exchange accepts |
| `DenialIsFinal` | | invariant | an answered denial excludes any approval and lease |
| `TrialStartsOnce` | | invariant | one start and, for one-device trials, one device |
| `NoFalseDenial` | | action | a committed operation is never denied from mixed reads |
| `RetiredSlotComesBack` | | liveness | a retired slot is given back |
| `CleanupCatchesUp` | | liveness | once something has expired there comes a time when neither an expired attempt nor an expired sealed code is left |
| `LiveHoldersWithinCap` | SeatLedger | invariant | the ledger's rules imply that live holders are never more than seats |
| `AdmittedWithinFuse` | BoundRate | invariant | a minute lets no more through than the fuse |
| `NoSourceTripsAlone` | | invariant | a fuse that has tripped was tripped by two sources or more; violated where the fuse is not above the budgets of one, see the findings |
| `ImplementsOrderBook` | OrderIngest | refinement | writes that land are steps of `OrderBook` |
| `StoredResultTrue` | | invariant | "applied" is stored only for a write that landed and was audited, "superseded" only for one that did not |
| `NewerNotDiscarded` | | invariant | an order ended for want of a grant was not waiting for an older one that creates it |
| `OrdersRespectGrant` | | action | an order writes only a new grant or one its customer holds at that moment, and revives none |
| `AcceptedEventsEnd` | | liveness | what was accepted ends, whatever stopped or came late |
| `WindowNeverRegresses` | | action | violated, see the findings |
| `OnceAndInOrder` | OrderBook | invariant | once per order, in order per grant |
| `AdmittedOnce` | OrderSignature | action | while the timestamp of a signed request is accepted, an exact repetition of it is not let in, at either end of the skew and however many deliveries are between their awaits |
| `AuditUnbroken` | Console | invariant | what an event says a grant was is what the event before it left, and the row is what the last one says, but for the start of a trial, which has no event (`EventsChain`); a start that an event told is undone by no event and no write (`StartsKept`) |
| `KeySpentOnce` | Console | invariant | one effect and one answer for a key |
| `AppliedAsPreviewed` | Console, Catalog | action | a projection, and an import (`ImportedAsPreviewed`), does exactly what its preview showed, once; its half for projections is `ProjectedAsPreviewed` |
| `VerdictTrue` | AuditChain | invariant | the verifier accepts exactly the untouched logs |
| `AllSealed` | | liveness | every event is sealed although ticks fail |
| `ChainVerifies` | | invariant | violated when ticks overlap, see the findings |
| `NoSteadyEventSkipped` | WebhookOutbox | invariant | no event is lost behind the cursor |
| `OneSenderPerLease` | | invariant | two ticks never hold one delivery while both leases last |
| `DestinationKept` | | invariant | requests go only where the event was bound to |
| `DeliveredIsFinal` | | action | a late outcome changes nothing of a delivered row |
| `EventsSettle` | | liveness | a wanted event is delivered or given up |
| `RetriesEnd` | | invariant | violated, see the findings |
| `CodeSpentOnce` | PortalSignIn | invariant | a code works once, within its attempts, until replaced |
| `StaysWithItsOwner` | | invariant | old passwords open nothing, and a way in is left |
| `RevisionsStand` | NativeClient | invariant | no process works under less than it learned, or than was saved before it started |
| `BackupsWhole` | D1Backup | invariant | a dump with a manifest stays, one without goes |

The type invariants are proved and not run: `TypeOK` of the device tables and those
of the ledger, the order book, the signed door and the rate limiter, and in the
proof modules those of order ingest, the outbox, the portal, the native client,
the console, the backups and the audit chain.

## 4. Runs

A run puts side by side what shares nothing: a variable (`slice`, `part`, `about`,
`operated`, `feed`) says which question a behaviour is about, and what it is not
about stands still in one of its initial states (`Rest`). A slice starts from a
state the program reaches and runs the handlers its question is about; `whole`
runs every action of device licensing from the empty database. Proof refusals
change nothing and are left out of the device slices.

| Run | Specification | Shows |
|---|---|---|
| `replay` | `MCDevice!RepeatSpec` | slices: one device repeats exchange and renewal, with the same and another operation id, while cleanup runs and answers are lost; repeats a renewal across the end of its retention; presents an exchange twice while its attempt is approved, exchanged, expired and the device retired; two customers approve and deny one attempt until it is purged |
| `retirement` | `MCDevice!FencingSpec` | slices: an enrolled device renews while it is retired and another waits for its slot; every authority writer between the reads of an exchange and a renewal; two devices and a limit that moves between 1 and 2; two devices race to start two one-device trials |
| `whole` | `MCDevice!WholeSpec` | all actions from the empty database refine the seat ledger |
| `clients` | `MCClients!ClientsSpec` | orders of one subscription, sent twice and out of order by calls that may stop; orders of two customers that clash while the administration reassigns, revokes and devices occupy slots; one customer in two tabs, with four kinds of account; two processes on a machine that loses power |
| `parts` | `MCParts!PartsSpec` | the ledger, the order book, the signed door, the rate limiter, the audit chain, three requests to the console (mutations and repetitions; projections; catalog and imports), two backup flows |
| `outbox` | `MCWebhooks!OutboxSpec` | two ticks that overlap and one that stops, with a steady endpoint, or operators who move, disable, enable and redrive |
| `liveness` | `MCLiveness!LivenessSpec` | under fairness orders end, webhook events settle, audit events are sealed; the slot of a device that renews while it is retired comes back, and cleanup in batches of one row catches up with two attempts that are approved, denied or neither (`MCDevice!SettleInit`, `SettleNext`) |
| `overlap` | `AuditChain!ChainSpec` | a violation, finding 1 |
| `window` | `MCOrders!WindowSpec` | a violation, finding 2 |
| `retries` | `MCWebhooks!OutboxSpec` | a violation, finding 3 |
| `fuse` | `BoundRate!RateSpec` | a violation, finding 4 |
| `single` | `BoundRate!RateSpec` | a violation, finding 5 |

**Findings.**

1. Two ticks of the audit digest that overlap read the same last segment and both
   append; the verifier then reports `prev_digest_mismatch` for ever on an untouched
   log (`audit_digest.mjs:31`). The comment at lines 27-28 says that each tick reads
   a disjoint id range.
2. A renewal computes its clamp from the grant read before the batch, and the
   batch stores it unconditionally (`order_ingest.mjs:564`), so an earlier accepted
   renewal that is applied in between is shortened. `order_mutation.mjs:28` says that
   a granted window is never regressed.
3. The attempt count of a delivery is the one read with the due rows
   (`webhook.mjs:572`); a tick that claims after another recorded a failure writes
   the older count, and the delivery gets more attempts than `MAX_ATTEMPTS`.
4. A counter row stops at 10001, but `BOUND_GLOBAL_RATE_LIMIT` may be up to 1000000:
   above 10000 the fuse never trips (`bound_rate.mjs:9`). `AdmittedWithinFuse` is
   proved for every fuse up to that cap.
5. One source may send 600 session requests and 20 registrations a minute, all of
   them within its budgets and so counted by the global fuse, while
   `BOUND_GLOBAL_RATE_LIMIT` may be as low as 100 (`bound_rate.mjs:32`): with a fuse of
   100 to 620 one source trips it alone. The comment at lines 15-16, the backend's
   README (692-694) and the threat model (TM-20) say that it cannot.
   `NoSourceTripsAlone` is checked, and proved, for a fuse above the two budgets together.

What was observed beside them, without a run of its own:

* The skew of a signed order is checked before other awaits than the INSERT of its
  nonce (`order_ingest.mjs:762`, `819`). A repetition verified at the end of the
  window, whose INSERT comes after it and after another request removed the expired
  row, is let in a second time. `AdmittedOnce` claims nothing about that moment; the
  order is then served by its event id (`runExactlyOnce`), so it takes effect once
  (`ImplementsOrderBook`), and no document says more.
* The stamp that starts a trial (`bound_store.mjs:71-79`) writes three columns that
  console events record, but has no event of its own and does not count in
  `revocation_seq`, which the console's claim compares. So the `prev_json` of an event
  may lack a start that came between its read and its batch, and a row may have a
  start that no event tells yet. `AuditUnbroken` says what holds all the same.
* Of two requests that disable the same catalog entry or policy at once, the loser
  is answered 409, but its audit event is written: the event statements of
  `catalog/operations.ts:82-139` and `policies/operations.ts:64-79` ask only for
  the row's id, whereas `transitions.ts:7-8` says that "a lost race never
  half-writes". `Catalog!WriteEntry` does what the code does. Catalog writes are
  not bound to their idempotency key either: two concurrent patches with one key
  write two events, and the earlier state in the second's event is the one it read.
* Two attempts at saving the same dump may overlap after a timeout; one that
  found no manifest removes the dump although the other has stored its manifest
  meanwhile (`backup/src/core.ts:457`). `BackupsWhole` excludes the dumps of such a
  contention. An upload whose outcome is unknown may leave a dump without a manifest,
  and the retention may remove a dump one pass before its manifest.
* An import that is repeated with its key after the consumed preview was cleaned
  up is refused as stale instead of being answered, when its stored answer has gone too.

**Bounds.** Each slice has two of whatever its question races: two invocations for
the last slot, two customers for an attempt, two keys for a trial, two calls for an
event, two ticks, two processes, two flows. Where a third actor is the point (the
device waiting for a slot, a replay after a replay, the repetition of a console
request beside a competitor) there are three. `MaxTime` bounds the clock: it is
past every deadline the slice is about, and the deadlines it is not about are set
beyond it (9 or 20). `MaxRevision` bounds revisions and generations, as the columns
of the schema do with a much larger number; the abort at the bound is that of the
schema. Authority changes at most twice in the `authority` and `race` slices: a second
change can undo the first, which is what a compare of values would miss. `Spread`
fixes which attempt is for which key; which one it is does not matter.
`MaxCrashes` is 1: a second stop finds what the first one left. `MaxActions`,
`MaxTouches`, `MaxElsewhere`, `MaxSeq`, `MaxVerified`, `MaxTries`, `MaxOps`, `MaxClock` and the
`room` of a portal account bound how often a thing is done, each above what one
behaviour of its question needs. The limiter of `parts` has the session route only; `single`
has both. In `parts` a flow that has a late attempt runs
alone (`OneAtATime`). The set of model values a table is indexed by bounds its
number of rows. Identifiers are interchangeable, so the safety runs use symmetry
for requests, bindings, challenges, calls and ticks; the liveness runs use none.
`CleanupRows` is 1, the hardest batch.

**Deadlock** is not checked where invocations are finite in number and the clock
stops: a slice may really end. What must not stop half way is in the properties of
the run `liveness`.

**Fairness.** Of the devices: time passes (`WF(Tick)`, up to its bound), a Worker runs an
admitted invocation to its end (`WF` of the steps of each invocation; failures are not
forced), and each cleanup statement is executed again and again, because the
scheduled maintenance runs all six on every tick (`WF` of each). Of orders: `WF` of
the steps of a call, and `SF` that an accepted event is received once more, because
the sender repeats what it got no final answer for, until it gets one. Of
the outbox: the cron starts ticks (`WF(Start)`), a tick that is not stopped goes on
(`WF(Step)`), and time passes while no request outlives its lease
(`WEBHOOK_DELIVER_TIMEOUT_MS` is far below `WEBHOOK_CLAIM_TTL_SECONDS`). Of the audit
digest: `WF(ReadLast)`, and `SF` of the two statements that may fail, for one of the ticks
that come again and again gets through. Nothing is assumed of clients, customers or
administrators. A slice assumes fairness only of actions it contains: a fair action
that the next-state relation never takes would leave no fair behaviour at all, and
every liveness property true for nothing. In `liveness` the weak fairness of the outbox
and of the devices is that of actions that also ask for their part (`OutboxFairness`,
`SettleFairness`): elsewhere they are disabled, which is fair.

## 5. Proofs

TLAPS checks these for any values of the constants under the named assumptions of
the modules, which TLC evaluates in the runs.

| Theorems | Module | Statement |
|---|---|---|
| `TypeCorrect` | `DeviceLicensing_proofs` | `Spec => []TypeOK` |
| `ImplementsLedgerHolds` | | `Spec => ImplementsLedger` |
| `WithinCapacityHolds`, `LiveDevicesWithinLimitHolds` | | `Spec => []P` for the limits on slots and devices |
| `OneAnswerPerOperationHolds`, `ApprovalSpentOnceHolds`, `ReturnedCodeIsCommittedHolds`, `DenialIsFinalHolds`, `RetirementFencesLeasesHolds`, `RetirementPromiseKeptHolds`, `RevisionStandsForAuthorityHolds`, `TrialStartsOnceHolds`, `RecoverableWhileRetainedHolds` | `DeviceInvariants_proofs` | `Spec => []P` for every other invariant of device licensing |
| `NoFalseDenialHolds` | | `Spec => NoFalseDenial`, the action property |
| `LedgerTypeCorrect`, `SeatsWithinCapHolds`, `GrantsHeldHolds`, `LiveHoldersWithinCapHolds` | `SeatLedger_proofs` | the ledger's invariants |
| `TypeCorrect` | `OrderIngest_proofs` | the rows and calls of order ingest keep their types |
| `ImplementsOrderBookHolds` | | `Spec => ImplementsOrderBook` |
| `StoredResultTrueHolds`, `NewerNotDiscardedHolds` | | `Spec => []P` |
| `OrdersRespectGrantHolds` | | `Spec => OrdersRespectGrant`, an action property |
| `TypeCorrect` | `WebhookOutbox_proofs` | the outbox keeps its types |
| `DestinationKeptHolds`, `OneSenderPerLeaseHolds` | | `Spec => []P` |
| `DeliveredIsFinalHolds` | | `Spec => DeliveredIsFinal`, an action property |
| `NoSteadyEventSkippedHolds` | | `MCWebhooks!OutboxSpec => []NoSteadyEventSkipped`, whose `operated` tells steady endpoints from others |
| `PortalTypeCorrect`, `CodeSpentOnceHolds`, `StaysWithItsOwnerHolds` | `Clients_proofs` | the portal |
| `NativeTypeCorrect`, `RevisionsStandHolds` | | the native client |
| `AuditUnbrokenHolds`, `KeySpentOnceHolds` | `Console_proofs` | `ConsoleSpec => []P` |
| `ProjectedAsPreviewedHolds` | | `ConsoleSpec => ProjectedAsPreviewed`, an action property |
| `BookTypeCorrect`, `OnceAndInOrderHolds` | `Parts_proofs` | the order book: once, and in order |
| `DoorTypeCorrect`, `AdmittedOnceHolds` | | the door of order ingest admits a signed request at most once while its timestamp is accepted, an action property |
| `RateTypeCorrect`, `AdmittedWithinFuseHolds` | | no minute lets more through than the fuse, if `Fuse <= CountCap` |
| `NoSourceTripsAloneHolds` | | one source does not trip the fuse, if this is above its two budgets together and both are below `CountCap` |
| `BackupsWholeHolds` | | `BackupSpec => []BackupsWhole` |
| `VerdictTrueHolds` | | the verifier's verdict is true, if there is one tick at a time |
| `ImportedAsPreviewedHolds` | | `CatalogSpec => ImportedAsPreviewed`, an action property, under `CatalogAssumption` |

So every invariant and every action property that a passing run checks is proved:
`AppliedAsPreviewed` as its two halves, `ProjectedAsPreviewed` for the console and
`ImportedAsPreviewed` for the catalog.

**Assumptions.** Those on constants say what the code's own limits and keys say:
durations and bounds are natural numbers, positive where the code's are; NULL is
none of the values it stands beside (`SetsAssumption`, `OrdersAssumption`,
`OutboxAssumption`, `ChainAssumption`, `BackupAssumption`, `NoneIsNoKey`); tables
over which something is counted have finitely many keys (`BindingsFinite`,
`SourcesFinite`, `LedgerAssumption`); the ids of webhook events are consecutive from
1; an order's (epoch, seq) comes after (0, -1), the mark of a grant without orders;
requests to the console have the shape its routes parse (`ConsoleAssumption`), those
to the catalog too (`CatalogAssumption`; a manifest nests its plan features in its
plans), and the accounts of the portal that of its tables (`PortalAssumption`).
`CatalogAssumption` is a hypothesis of its theorem rather than an ASSUME of `Catalog`,
which `MCParts` takes by INSTANCE; `ShopAssumption` there has TLC evaluate it. Attempt ids and
binding ids differ (`SetsAssumption`): both are random, and the key of an operation
is one or the other.

Three theorems have a hypothesis besides, and each is needed. `Fuse <= CountCap` is
what the run `fuse` violates. For `NoSourceTripsAlone` the fuse is above the budgets of
the two routes together, which is what the run `single` violates; and the budgets are below
`CountCap`, as in the code (20 and 600 against 10001), for a count that stops at the
budget would never exceed it. One tick of the digest at a time is what the run
`overlap` violates.

### Device licensing

`TypeOK` is inductive because it includes `KeysKnown`: an existing row names an
existing key, as NOT NULL columns and foreign keys demand; without it a step could
copy NULL into a key column. It also bounds holds by `Horizon`, which follows from
the lease window.

In the ledger, `SeatsWithinCap` is inductive with the types: taking a seat
adds one to those in use, and everything else removes some or is guarded by
`Fits`. `GrantsHeld` is inductive because holds only grow (`LatestHold`). Together
they give `LiveHoldersWithinCap`: a live grant's seat is still in use, so mapping
live holders to seats is an injection into `InUse`.

The handlers implement the ledger: a binding is a seat and a lease row, stored or
purged, is a grant. A commit is `Take` or `Extend`, a retirement or a disabled
device is `Close`, a change of limit is `Resize`, `Tick` is `Pass`, and every
other step stutters. Two invariants carry the refinement: `TypeOK`, and
`LeasesAnswered`, that only an invocation that has answered has a lease; without it
a commit could overwrite an earlier grant of the same invocation. The promises
about devices are then the ledger's, read through the mapping.

The other invariants are proved in two stages. The first lemmas of
`DeviceInvariants_proofs` say which steps write a table at all, and how its rows may
change: an operation is written once and its response is only ever sealed or
purged, an attempt moves from pending to approved, denied or consumed and not back,
a generation only grows. Each invariant then needs what the code relies on:

| To prove | Also invariant | That is |
|---|---|---|
| `OneAnswerPerOperation` | `AnswersCommitted` | every lease and every answer names an operation that is stored, with the invocation that committed it |
| `ApprovalSpentOnce`, `DenialIsFinal` | `ApprovalsSpent`, `CodesCommitted` | an attempt that was exchanged is consumed or purged; a code that a consent holds is the one its attempt carries |
| `RetirementFencesLeases` | `FreshGeneration`, `LeasesCarried` | a binding is held as long as its leases are acceptable, and has their generation until it is retired; whoever found no binding commits the first generation |
| `RetirementPromiseKept` | `RetirementsStored` | a stored retirement names a retiring binding, whose hold gives the release time it answered |
| `RevisionStandsForAuthority` | `AuthorityKnown` | a revision that an invocation read is not ahead of the license's, and at the same revision what it read stands |
| `TrialStartsOnce` | `TrialsStarted` | the license's trial columns say since when, and for which device, for every lease there is |
| `RecoverableWhileRetained` | `ExchangesProved` | a stored exchange and the attempt it consumed name each other and end together |
| `NoFalseDenial` | `OperationsBound`, `ReplaysKnown` | a stored operation has a binding and a device; what a replay knows of it is what is stored |

### Orders

`OrdersTyped` and then `Grows`: an event that ended stays ended, a floor and a cursor
only move up, and what landed has landed. `Known` says for every call what it may still rely on
after the rows changed under it (`CallsKnown`), for every stored result what
produced it (`EventsKnown`), and that whatever landed was recorded and is not above
its grant's floor (`LandedKnown`). With it an
apply batch is a `TakeEffect` of the book, as its compare of the floor is the
book's guard, and every other step leaves the book alone; `StoredResultTrue` is a part of it.
`NewerNotDiscarded` needs `DiscardKnown` besides: of two events of a subscription of which the newer
ended for want of a grant, no call has an applied result of the older one still to
store. `OrdersRespectGrant` follows from the guards of the apply batch, which reads
the owner again.

In the book `InOrder` is inductive by the guard of `TakeEffect`; `OncePerOrder` because
an event that was taken is not taken again. `AdmittedOnce` of the signed door needs
`NowWithinSkew`: what a delivery read of the clock is not past, and the stamp of a verified
one is at most one skew ahead of it. With it `RowOutlivesSkew`: the nonce row of what was
let in is there as long as its timestamp is accepted, because it lives for twice the
skew from a moment at most one skew before the stamp, and a delivery removes only
rows that had expired when it read the clock.

### Webhook outbox

Lemmas say how one row moves in each step and what a tick then holds (`RowMoves`,
`TickMoves`). `Bound`: what a tick has in hand was read from the row and is what the
row was queued with. `Acknowledged`: a row is stored as delivered only from an
acknowledged request, and no outcome applies to it. `Leases`: a row whose lease lasts is due again
when that lease ends, so the next claim, which compares the due time, finds it
changed. `Passed`: what the cursor has passed, for each tick
also the cursor it has still to write back, is queued for every endpoint that
wanted it. An enqueue takes a prefix of what lies behind the cursor, so this stays
so although ticks overlap and write the cursor back.

### Customers and machines

*Portal.* `CodesKept`: a code that signed in or was replaced is consumed, and one that is
still good has counted every check. `StaysWithItsOwner` is inductive with the types: the
statement that unlinks counts the ways in, and a new password ends what the old
one opened, each within its batch.

*Native client.* `SavesStand`: at least one of the two copies outlives a power loss and is
no older than any acknowledged save (`Durable`); the lock is one process's, which
saves nothing older than that (`Locked`); the floor of a session is not below what it
has learned (`Sound`). A process therefore starts from no less than what was
acknowledged.

*Backups.* `BackupKept` says bucket by bucket what each attempt may still do
(`BucketKept`): an attempt is over within the retention of its dump, a manifest is
written where the dump is, and whoever is about to remove a dump either removes one
without a manifest or is at it together with another attempt.

*Audit chain.* `ChainKept`: the segments tile the ids from 1 to their end without a
gap; each commits to the events of its range, in the order of their ids, as they
were when it was sealed; an id behind the end that has no event never gets one,
because ids are given out in order; and a tick knows the last segment, since it
is alone. The verifier recomputes the same sequences, so it fails exactly when one
of them changed. That a finite set of ids has such an order comes from the ranks of
its members (`Rank`).

*Rate limiter.* `AdmittedWithinFuse` needs `FuseCounts`: as long as a minute's row
has not been swept, it counts at least what was let through in that minute, up to
the cap of a row; a swept minute is over, so nothing more is let through in it.
`NoSourceTripsAlone` needs `BudgetsCover`: a minute's row counts no more than the
requests that the rows of the sources show to be within their budgets, or these
are already as many as the fuse allows. If only one source sent anything, these are
at most its two budgets together (`OthersWithin`), which is less than the fuse.

### Console

`ConsoleKept` carries the optimistic claim: the row that a call has read is, unless
its `revocation_seq` went on, the row that is there, but for the start of a trial
(`SeenOf`, `Fresh`), and it has every start that an event tells (`Knows`); and the snapshot of a
projection is what is there unless the generation went on (`Current`). With `AuditOf`, that
a grant's events form one chain from no row to its row and keep the starts they
tell, a write extends the chain. `RepliesKept` and `SpentOnce`:
a key's row is inserted in the batch that writes, so its effect and its
answer come together, and whoever loses reads that answer. A preview is consumed
by the batch that compares the generations it was made on, which gives
`ProjectedAsPreviewed`.

### Catalog

Nothing in the batch that applies an import compares rows: it compares the
generation, and triggers count that up. So the proof starts from `Ahead`: a step that
leaves the generation alone leaves every row as it is. `CatalogKept` then says that
an open preview shows the rows its manifest names as they are, and that whatever these depend on is
usable, unless the generation went on since (`ShownKept`), and the same of a request
that has read its snapshot and not stored it yet (`PostKept`). An apply that passes
the claim finds the generation of its preview, so the rows it writes are those that were shown
(`ClaimShows`), and their events tell them truly. It closes its preview, so it happens
once. That a plan feature finds its plan afterwards uses that
manifests nest.

### Only model-checked

* Liveness: `RetiredSlotComesBack`, `CleanupCatchesUp`, `AcceptedEventsEnd`,
  `EventsSettle`, `AllSealed`. Each rests on fairness, that is on ENABLED, which the prover does not handle.
* What the violation runs exhibit, by its nature.

No recursive operator is used anywhere.

## 6. Not modelled

* **Offline verifier**, **wire formats** and **cryptography**: sequential, without
  state; unit and fuzz tests reach them. The models reduce them to whether a value
  matches.
* **Administration pages and their mutation guards** (`admin/src/ui`): they check the
  shape of responses and keep nothing that another actor could change.
* **Release and architecture scripts** (`scripts/`), **restore and drill scripts** of the
  backup: one sequential process that an operator runs and reads.
* **Registration of portal customers, rate limits of the portal**: the first makes the
  accounts that `Accounts` enumerates; the second only refuses.
* **Native client**: enrollment with its browser is what `Enrollment` and `Consent`
  see of it; the arithmetic of lease anchors is about clocks that one process reads;
  the Windows storage has other primitives for the same steps.
* **Sign-in and lists of the console**: delegated to the identity provider, and reads.
* **Schema**: immutability triggers as aborts (no handler attempts what they
  forbid), and tables that only keep text.

What could be added next: the composition of order ingest with the device handlers
over one table of grants (each sees the other as free writers now), and a
refinement of the console's mutations by an abstract log of keys, which
`KeySpentOnce` states as an invariant.
