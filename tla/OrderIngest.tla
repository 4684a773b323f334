----------------------------- MODULE OrderIngest -----------------------------
(***************************************************************************)
(* POST /v1/orders after authentication: dedup, identity and ownership,    *)
(* the atomic accept batch, the apply batch behind the grant's floor, and  *)
(* the terminal outcomes. A call is one request; every await is a step, a  *)
(* call may stop at any of them, and the sender repeats what it got no     *)
(* final answer for. One project and feature; 0 stands for a NULL          *)
(* valid_until; a derived fingerprint is one the order supplies.           *)
(***************************************************************************)
EXTENDS Integers, Sequences

CONSTANTS Orders,         \* the order payloads that may be sent
          EventIds, Fingerprints, Subscriptions, Customers, Licenses,
          Calls,          \* requests in flight at once
          None,
          MaxDevices,     \* bound: devices and device limits
          MaxCrashes      \* bound: calls that stop half way

VARIABLES subs,           \* orders: one row for each subscription
          events,         \* order_events
          grants,         \* entitlements
          audit,          \* events for which entitlement_events has a row
          landed,         \* history: orders whose guarded write changed a grant, in turn
          licenses,       \* the customer of a license row, if it has one
          customers,      \* customer rows
          devices,        \* slots occupied on a grant
          lapsed,         \* events whose period ended before the grace window
          calls, crashes

vars == <<subs, events, grants, audit, landed, licenses, customers, devices, lapsed, calls, crashes>>
tables == <<subs, events, grants, audit, landed, licenses, customers>>

Ranks == Nat \X (Nat \cup {-1})

\* FLOOR_PREDICATE: by epoch, then by sequence number.
Before(x, y) == x[1] < y[1] \/ (x[1] = y[1] /\ x[2] < y[2])

Creates == {"active"}
Withdrawals == {"canceled", "disabled", "revoked"}
Intents == Creates \cup Withdrawals \cup {"renewed", "resumed", "quantity"}

Payload == [id : EventIds, sub : Subscriptions, at : Ranks, intent : Intents, fp : Fingerprints,
            customer : Customers, license : Licenses \cup {None}, until : Nat, limit : Nat \cup {None}]

ASSUME OrdersAssumption ==
  /\ Orders \subseteq Payload
  /\ \A o \in Orders : Before(<<0, -1>>, o.at)
  /\ None \notin Customers \cup Licenses \cup Fingerprints \cup Orders \cup Nat
  /\ MaxDevices \in Nat /\ MaxCrashes \in Nat

Statuses == {"none", "accepted", "processed", "superseded", "rejected"}
Terminal == {"processed", "superseded", "rejected"}

NoSub == [fp |-> None, customer |-> None, license |-> None, cursor |-> <<0, -1>>]
NoEvent == [status |-> "none", order |-> None, code |-> ""]
NoGrant == [status |-> "none", owner |-> None, until |-> 0, limit |-> 1, license |-> None, floor |-> <<0, -1>>]
Idle == [pc |-> "idle", order |-> None, prev |-> NoGrant, code |-> ""]

Init ==
  /\ subs = [s \in Subscriptions |-> NoSub]
  /\ events = [e \in EventIds |-> NoEvent]
  /\ grants \in [Fingerprints -> {NoGrant} \cup {[NoGrant EXCEPT !.status = "active", !.owner = u] : u \in Customers}]
  /\ audit = {}
  /\ landed = [f \in Fingerprints |-> <<>>]
  /\ licenses = [l \in Licenses |-> None]
  /\ customers = {}
  /\ devices = [f \in Fingerprints |-> 0]
  /\ lapsed = {}
  /\ calls = [c \in Calls |-> Idle]
  /\ crashes = 0

-----------------------------------------------------------------------------
\* What the reads and guards compare.

Agree(x, y) == x = None \/ y = None \/ x = y

OwnedElsewhere(o) == \E s \in Subscriptions \ {o.sub} : subs[s].fp = o.fp

SubFits(o) ==
  /\ Agree(subs[o.sub].customer, o.customer)
  /\ Agree(subs[o.sub].license, o.license)

LicenseFits(o) == o.license # None => Agree(licenses[o.license], o.customer)

\* The upsert of a license row never replaces the customer it names.
NameLicense(o) ==
  IF o.license # None /\ licenses[o.license] = None
  THEN [licenses EXCEPT ![o.license] = o.customer] ELSE licenses

Greater(x, y) == IF x >= y THEN x ELSE y

\* clampValidUntil
Clamp(o, prev) == Greater(o.until, prev.until)

Or(x, y) == IF x = None THEN y ELSE x

\* The columns the mutation writes: some from the row that ReadGrant saw.
Written(o, prev, g) ==
  LET g1 == [g EXCEPT !.floor = o.at]
  IN CASE o.intent = "active" ->
            [g1 EXCEPT !.status = "active", !.owner = o.customer, !.until = Clamp(o, prev),
                       !.limit = Or(o.limit, prev.limit), !.license = Or(o.license, prev.license)]
       [] o.intent = "renewed" -> [g1 EXCEPT !.until = Clamp(o, prev), !.license = Or(o.license, prev.license)]
       [] o.intent = "canceled" -> [g1 EXCEPT !.until = Clamp(o, prev), !.license = prev.license]
       [] o.intent = "quantity" -> [g1 EXCEPT !.limit = o.limit]
       [] o.intent = "resumed" -> [g1 EXCEPT !.status = "active"]
       [] OTHER -> [g1 EXCEPT !.status = o.intent]

\* Slip: the floor compares sequence numbers without the epoch.
SlipLands(o, g) ==
  IF g.status = "none" THEN o.intent \in Creates
  ELSE /\ g.owner = o.customer
       /\ g.status = "revoked" => o.intent = "revoked"
       /\ g.floor[2] < o.at[2]

\* Slip: the guarded write trusts the owner that was read before the batch.
SlipLandsOwner(o, g) ==
  IF g.status = "none" THEN o.intent \in Creates
  ELSE /\ g.status = "revoked" => o.intent = "revoked"
       /\ Before(g.floor, o.at)

\* The WHERE clause of the guarded write, the floor included.
Lands(o, g) ==
  IF g.status = "none" THEN o.intent \in Creates
  ELSE /\ g.owner = o.customer
       /\ g.status = "revoked" => o.intent = "revoked"
       /\ Before(g.floor, o.at)

-----------------------------------------------------------------------------
\* The steps of a call.

Goto(c, pc) == calls' = [calls EXCEPT ![c].pc = pc]

Answer(c) == calls' = [calls EXCEPT ![c] = Idle]

At(c, pc) == calls[c].pc = pc
Mark(o, status, code) == events' = [events EXCEPT ![o.id].status = status, ![o.id].code = code]

\* A signed request passed verifyOrderHmac, normalization, the signer's scope
\* and the nonce; any other is refused before this module's first step.
Receive(c, o) ==
  /\ At(c, "idle")
  /\ calls' = [calls EXCEPT ![c].pc = "dedup", ![c].order = o]
  /\ UNCHANGED <<tables, devices, lapsed, crashes>>

\* Answered from order_events, or a redrive of what was accepted.
Replay(c, o) ==
  LET e == events[o.id]
  IN /\ e.status # "none"
     /\ IF e.order = o /\ e.status = "accepted" THEN Goto(c, "auxiliary") ELSE Answer(c)
     /\ UNCHANGED <<tables, devices, lapsed, crashes>>

\* The period gate holds only for a new event.
Dedup(c) ==
  LET o == calls[c].order
  IN /\ At(c, "dedup")
     /\ \/ Replay(c, o)
        \/ /\ events[o.id].status = "none"
           /\ IF o.id \in lapsed /\ o.intent \notin Withdrawals THEN Answer(c) ELSE Goto(c, "gate")
           /\ UNCHANGED <<tables, devices, lapsed, crashes>>

\* The reads of establishOrderIdentity before it writes; no guard below
\* relies on their staying true, so they are one step.
Gate(c) ==
  LET o == calls[c].order
      s == subs[o.sub]
      g == grants[o.fp]
  IN /\ At(c, "gate")
     /\ IF \/ OwnedElsewhere(o) \/ ~Agree(s.fp, o.fp) \/ ~SubFits(o) \/ ~LicenseFits(o)
           \/ g.status # "none" /\ g.owner # o.customer
        THEN Answer(c) ELSE Goto(c, "establish")
     /\ UNCHANGED <<tables, devices, lapsed, crashes>>

\* INSERT ... ON CONFLICT DO NOTHING; the read after it classifies the row.
Establish(c) ==
  LET o == calls[c].order
      s == [subs EXCEPT ![o.sub].fp = IF @ = None /\ ~OwnedElsewhere(o) THEN o.fp ELSE @]
  IN /\ At(c, "establish")
     /\ subs' = s
     /\ IF s[o.sub].fp = o.fp /\ SubFits(o) THEN Goto(c, "accept") ELSE Answer(c)
     /\ UNCHANGED <<events, grants, audit, landed, licenses, customers, devices, lapsed, crashes>>

CursorAdvances(o) ==
  /\ subs[o.sub].fp = o.fp /\ SubFits(o) /\ LicenseFits(o)
  /\ Before(subs[o.sub].cursor, o.at)

\* One batch: license reservation, cursor advance, claim of the event. An
\* event id that is taken aborts it.
Accept(c) ==
  LET o == calls[c].order
  IN /\ At(c, "accept")
     /\ \/ /\ CursorAdvances(o) /\ events[o.id].status = "none"
           /\ subs' = [subs EXCEPT ![o.sub].cursor = o.at, ![o.sub].customer = Or(@, o.customer),
                                   ![o.sub].license = Or(@, o.license)]
           /\ licenses' = NameLicense(o)
           /\ events' = [events EXCEPT ![o.id] = [status |-> "accepted", order |-> o, code |-> ""]]
           /\ Goto(c, "auxiliary")
        \/ /\ CursorAdvances(o) /\ events[o.id].status # "none"
           /\ Answer(c)
           /\ UNCHANGED <<subs, licenses, events>>
        \/ /\ ~CursorAdvances(o)
           /\ Goto(c, "failed")
           /\ UNCHANGED <<subs, licenses, events>>
     /\ UNCHANGED <<grants, audit, landed, customers, devices, lapsed, crashes>>

\* failedAcceptDisposition, up to the claim of a stale outcome.
FailedAccept(c) ==
  LET o == calls[c].order
  IN /\ At(c, "failed")
     /\ \/ Replay(c, o)
        \/ /\ events[o.id].status = "none"
           /\ IF SubFits(o) /\ LicenseFits(o) THEN Goto(c, "stale") ELSE Answer(c)
           /\ UNCHANGED <<tables, devices, lapsed, crashes>>

\* claimStaleOrderOutcome: nothing else was recorded at this (epoch, seq).
ClaimStale(c) ==
  LET o == calls[c].order
  IN /\ At(c, "stale")
     /\ IF /\ events[o.id].status = "none"
           /\ ~\E e \in EventIds : /\ events[e].status # "none"
                                   /\ events[e].order.sub = o.sub /\ events[e].order.at = o.at
        THEN events' = [events EXCEPT ![o.id] = [status |-> "superseded", order |-> o, code |-> "stale_ignored"]]
        ELSE UNCHANGED events
     /\ Answer(c)
     /\ UNCHANGED <<subs, grants, audit, landed, licenses, customers, devices, lapsed, crashes>>

\* materializeOrderAuxiliaryIdentities: license and customer rows, or a
\* refusal. Whether an address is taken is not modelled: a new customer may
\* be refused, unless the order is a withdrawal.
Auxiliary(c) ==
  LET o == calls[c].order
  IN /\ At(c, "auxiliary")
     /\ \/ /\ LicenseFits(o)
           /\ licenses' = NameLicense(o)
           /\ \/ customers' = customers \cup {o.customer} /\ Goto(c, "read")
              \/ /\ o.customer \notin customers /\ o.intent \notin Withdrawals
                 /\ calls' = [calls EXCEPT ![c].pc = "reject", ![c].code = "customer_email_conflict"]
                 /\ UNCHANGED customers
        \/ /\ ~LicenseFits(o)
           /\ calls' = [calls EXCEPT ![c].pc = "reject", ![c].code = "invalid_order"]
           /\ UNCHANGED <<licenses, customers>>
     /\ UNCHANGED <<subs, events, grants, audit, landed, devices, lapsed, crashes>>

\* terminalizeRejectedOrderEvent; without effect if the event has ended.
Reject(c) ==
  LET o == calls[c].order
  IN /\ At(c, "reject")
     /\ IF events[o.id].status = "accepted" THEN Mark(o, "rejected", calls[c].code) ELSE UNCHANGED events
     /\ Answer(c)
     /\ UNCHANGED <<subs, grants, audit, landed, licenses, customers, devices, lapsed, crashes>>

\* applyOrderEvent reads the grant and maps the intent.
Route(o, prev) ==
  CASE prev.status # "none" /\ prev.owner # o.customer -> "endForeign"
    [] prev.status = "revoked" /\ o.intent # "revoked" -> "endRevoked"
    [] prev.status = "none" /\ o.intent \notin Creates -> "endMissing"
    [] OTHER -> "apply"

ReadGrant(c) ==
  LET o == calls[c].order
  IN /\ At(c, "read")
     /\ calls' = [calls EXCEPT ![c].pc = Route(o, grants[o.fp]), ![c].prev = IF Route(o, grants[o.fp]) = "apply" THEN grants[o.fp] ELSE @]
     /\ UNCHANGED <<tables, devices, lapsed, crashes>>

\* The grant belongs to someone else, or is revoked: ended if that still holds.
EndRefused(c) ==
  LET o == calls[c].order
      g == grants[o.fp]
  IN /\ calls[c].pc \in {"endForeign", "endRevoked"}
     /\ IF events[o.id].status = "accepted" /\ g.status # "none"
           /\ (IF At(c, "endForeign") THEN g.owner # o.customer ELSE g.status = "revoked")
        THEN Mark(o, "rejected", IF At(c, "endForeign") THEN "entitlement_owner_mismatch" ELSE "entitlement_revoked")
        ELSE UNCHANGED events
     /\ Answer(c)
     /\ UNCHANGED <<subs, grants, audit, landed, licenses, customers, devices, lapsed, crashes>>

\* Slip: the end does not wait for earlier orders.
SlipNoneEarlier(o) == FALSE

\* Slip: any other accepted order holds up the end of this one.
SlipEarlierAccepted(o) ==
  \E e \in EventIds \ {o.id} : events[e].status = "accepted" /\ events[e].order.sub = o.sub

\* An earlier order that may still create the grant.
EarlierAccepted(o) ==
  \E e \in EventIds \ {o.id} :
    /\ events[e].status = "accepted" /\ events[e].order.sub = o.sub
    /\ Before(events[e].order.at, o.at)

\* terminalizeMissingEntitlementOrderEvent
EndMissing(c) ==
  LET o == calls[c].order
  IN /\ At(c, "endMissing")
     /\ IF events[o.id].status = "accepted" /\ grants[o.fp].status = "none" /\ ~EarlierAccepted(o)
        THEN Mark(o, "processed", "no_entitlement")
        ELSE UNCHANGED events
     /\ Answer(c)
     /\ UNCHANGED <<subs, grants, audit, landed, licenses, customers, devices, lapsed, crashes>>

\* Slip: the cached result says "applied" before the batch has decided.
SlipMarkOf(o, g) ==
  CASE g.status # "none" /\ g.owner # o.customer -> [status |-> "rejected", code |-> "entitlement_owner_mismatch"]
    [] g.status = "revoked" /\ o.intent # "revoked" -> [status |-> "rejected", code |-> "entitlement_revoked"]
    [] OTHER -> [status |-> "processed", code |-> "applied"]

\* The mark that the batch puts on the event after the guarded write: by the
\* owner mark, else by the revoked mark, else processed.
MarkOf(o, g) ==
  CASE g.status # "none" /\ g.owner # o.customer -> [status |-> "rejected", code |-> "entitlement_owner_mismatch"]
    [] g.status = "revoked" /\ o.intent # "revoked" -> [status |-> "rejected", code |-> "entitlement_revoked"]
    [] OTHER -> [status |-> "processed", code |-> "cached"]

\* One batch: guarded write, audit row, the marks. A limit below the occupied
\* slots aborts it. The audit row needs the event to be accepted still.
ApplyBatch(c) ==
  LET o == calls[c].order
      g == grants[o.fp]
      w == Written(o, calls[c].prev, g)
      lands == Lands(o, g)
      after == IF lands THEN w ELSE g
      mine == events[o.id].status = "accepted"
      mark == MarkOf(o, after)
  IN /\ At(c, "apply")
     /\ IF lands /\ w.limit < devices[o.fp] /\ w.limit # g.limit
        THEN /\ calls' = [calls EXCEPT ![c].pc = "reject", ![c].code = "capacity_in_use"]
             /\ UNCHANGED <<grants, audit, landed, events>>
        ELSE /\ grants' = [grants EXCEPT ![o.fp] = after]
             /\ audit' = IF lands /\ mine THEN audit \cup {o.id} ELSE audit
             /\ landed' = IF lands THEN [landed EXCEPT ![o.fp] = Append(@, [id |-> o.id, at |-> o.at])] ELSE landed
             /\ IF mine THEN Mark(o, mark.status, mark.code) ELSE UNCHANGED events
             /\ IF mine /\ mark.status = "processed"
                THEN calls' = [calls EXCEPT ![c].pc = "finalize", ![c].code = IF lands THEN "applied" ELSE "superseded"]
                ELSE Answer(c)
     /\ UNCHANGED <<subs, licenses, customers, devices, lapsed, crashes>>

\* Whose batch marked the event stores what became of it.
Finalize(c) ==
  LET o == calls[c].order
  IN /\ At(c, "finalize")
     /\ IF events[o.id].status = "processed" THEN Mark(o, "processed", calls[c].code) ELSE UNCHANGED events
     /\ Answer(c)
     /\ UNCHANGED <<subs, grants, audit, landed, licenses, customers, devices, lapsed, crashes>>

Step(c) ==
  \/ Dedup(c) \/ Gate(c) \/ Establish(c) \/ Accept(c) \/ FailedAccept(c) \/ ClaimStale(c)
  \/ Auxiliary(c) \/ Reject(c) \/ ReadGrant(c) \/ EndRefused(c) \/ EndMissing(c) \/ ApplyBatch(c) \/ Finalize(c)

\* A D1 error, or the Worker is gone: nothing more of this call happens.
Crash(c) ==
  /\ calls[c].pc # "idle" /\ crashes < MaxCrashes
  /\ crashes' = crashes + 1
  /\ Answer(c)
  /\ UNCHANGED <<tables, devices, lapsed>>

-----------------------------------------------------------------------------
\* What others do to the same rows.

Lapse(e) ==
  /\ e \notin lapsed
  /\ lapsed' = lapsed \cup {e}
  /\ UNCHANGED <<tables, devices, calls, crashes>>

\* The administration creates a grant or changes its status or owner; a
\* revocation is final, and the owner of a grant with devices stays.
Administer(f) ==
  /\ grants[f].status # "revoked"
  /\ \E s \in {"active", "disabled", "revoked"}, u \in Customers :
       /\ u = grants[f].owner \/ devices[f] = 0
       /\ grants' = [grants EXCEPT ![f].status = s, ![f].owner = u]
  /\ UNCHANGED <<subs, events, audit, landed, licenses, customers, devices, lapsed, calls, crashes>>

Occupy(f) ==
  /\ grants[f].status = "active"
  /\ \E n \in 0..MaxDevices : n <= grants[f].limit /\ devices' = [devices EXCEPT ![f] = n]
  /\ UNCHANGED <<tables, lapsed, calls, crashes>>

Ingest ==
  \/ \E c \in Calls, o \in Orders : Receive(c, o)
  \/ \E c \in Calls : Step(c) \/ Crash(c)

Next ==
  \/ Ingest
  \/ \E e \in EventIds : Lapse(e)
  \/ \E f \in Fingerprints : Administer(f) \/ Occupy(f)

Spec == Init /\ [][Next]_vars

\* A Worker finishes the call it took, and a sender repeats an order whose
\* end it was not told.
Fairness ==
  /\ \A c \in Calls : WF_vars(Step(c))
  /\ \A o \in Orders : SF_vars(events[o.id].status = "accepted" /\ events[o.id].order = o
                               /\ \E c \in Calls : Receive(c, o))

FairSpec == Spec /\ Fairness

-----------------------------------------------------------------------------
\* Orders take effect once and in (epoch, seq) order: the exactly-once claim
\* at the head of order_ingest.mjs, for the write that lands.
Book == INSTANCE OrderBook WITH book <- landed
ImplementsOrderBook == Book!BookSpec

\* The stored result of an event is what its order did (runExactlyOnce answers
\* every later sending from it): "applied" only for a write that landed and was
\* audited, "superseded" and "stale_ignored" only for one that did not land.
Landed(e) == \E f \in Fingerprints : \E i \in 1..Len(landed[f]) : landed[f][i].id = e
StoredResultTrue ==
  \A e \in EventIds :
    /\ events[e].code = "applied" => Landed(e) /\ e \in audit
    /\ events[e].code \in {"superseded", "stale_ignored"} => ~Landed(e)
    /\ e \in audit => Landed(e) /\ events[e].status = "processed"

\* An event that ended for want of a grant (no_entitlement) was not waiting for
\* an older one to create it: no older order of its subscription is applied
\* afterwards, nor accepted still.
NewerNotDiscarded ==
  \A e, d \in EventIds :
    /\ events[e].code = "no_entitlement"
    /\ events[d].status # "none" /\ events[d].order.sub = events[e].order.sub
    /\ Before(events[d].order.at, events[e].order.at)
    => events[d].status # "accepted" /\ events[d].code # "applied"

\* An order writes a new grant or one that its own customer holds at that
\* moment, and brings no revoked one back (establishOrderIdentity reads the
\* owner long before the batch).
OrdersRespectGrant ==
  [][\A f \in Fingerprints : landed'[f] # landed[f] =>
       \E c \in Calls :
         /\ At(c, "apply") /\ calls'[c] # calls[c]
         /\ grants[f].status # "none" => grants[f].owner = calls[c].order.customer
         /\ grants[f].status = "revoked" => grants'[f].status = "revoked"]_vars

\* What was accepted is ended, whatever stopped half way, came late or was
\* overtaken: an order that waits for an earlier one does not wait for ever.
AcceptedEventsEnd == \A e \in EventIds : events[e].status = "accepted" ~> events[e].status \in Terminal

\* clampValidUntil (order_mutation.mjs): a stale or backdated period end never
\* regresses an already-granted window.
WindowNeverRegresses ==
  [][\A f \in Fingerprints : landed'[f] # landed[f] => grants'[f].until >= grants[f].until]_vars
=============================================================================
