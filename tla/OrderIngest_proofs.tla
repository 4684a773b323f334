------------------------- MODULE OrderIngest_proofs -------------------------
(***************************************************************************)
(* Order ingest for every set of payloads, every number of calls and every *)
(* crash: it implements the order book, the result stored for an event is  *)
(* what its order did, and no event is ended for want of a grant that an   *)
(* older order was still to create. First the shape of the tables, then    *)
(* what one step may do to each, then the invariants.                      *)
(***************************************************************************)
EXTENDS OrderIngest, TLAPS

SubRow == [fp: Fingerprints \cup {None}, customer: Customers \cup {None}, license: Licenses \cup {None}, cursor: Ranks]

\* The results stored for an event, and what a call carries to store.
Refusals == {"customer_email_conflict", "invalid_order", "capacity_in_use"}
Ends == {"applied", "superseded"}
Codes == {"", "stale_ignored", "cached", "no_entitlement", "entitlement_owner_mismatch", "entitlement_revoked"}
         \cup Refusals \cup Ends

EventRow == [status: Statuses, order: Orders \cup {None}, code: Codes]

GrantRow == [status: {"none", "active", "disabled", "revoked"}, owner: Customers \cup {None}, until: Nat,
             limit: Nat \cup {None}, license: Licenses \cup {None}, floor: Ranks]

\* The steps of a call: before its event is recorded, and afterwards.
Fresh == {"dedup", "gate", "establish", "accept", "failed", "stale"}
Admitted == {"auxiliary", "reject", "read", "endForeign", "endRevoked", "endMissing", "apply", "finalize"}

CallRow == [pc: {"idle"} \cup Fresh \cup Admitted, order: Orders \cup {None}, prev: GrantRow, code: Codes]

OrdersTyped ==
  /\ subs \in [Subscriptions -> SubRow]
  /\ events \in [EventIds -> EventRow]
  /\ grants \in [Fingerprints -> GrantRow]
  /\ landed \in [Fingerprints -> Seq([id: EventIds, at: Ranks])]
  /\ calls \in [Calls -> CallRow]
  /\ \A c \in Calls : calls[c].pc # "idle" => calls[c].order \in Orders

\* The fields of a payload.
LEMMA OrderFields ==
  ASSUME NEW o \in Orders
  PROVE  /\ o.id \in EventIds /\ o.sub \in Subscriptions /\ o.at \in Ranks /\ o.fp \in Fingerprints
         /\ o.customer \in Customers /\ o.intent \in Intents /\ o.license \in Licenses \cup {None}
         /\ o.until \in Nat /\ o.limit \in Nat \cup {None} /\ o # None
BY OrdersAssumption DEF Payload

\* The order of commerce events is total.
LEMMA BeforeOrders ==
  ASSUME NEW x \in Ranks, NEW y \in Ranks, NEW z \in Ranks
  PROVE  /\ ~Before(x, x)
         /\ Before(x, y) => ~Before(y, x)
         /\ Before(x, y) /\ Before(y, z) => Before(x, z)
         /\ Before(x, y) /\ ~Before(z, y) => ~Before(z, x)
         /\ ~Before(x, y) /\ ~Before(y, z) => ~Before(x, z)
         /\ ~Before(x, y) => y = x \/ Before(y, x)
<1>1. /\ x[1] \in Int /\ x[2] \in Int /\ y[1] \in Int /\ y[2] \in Int /\ z[1] \in Int /\ z[2] \in Int
      /\ x = <<x[1], x[2]>> /\ y = <<y[1], y[2]>>
  BY DEF Ranks
<1> QED BY <1>1 DEF Before

\* The guarded write gives a row with the order's floor, that its customer
\* owns, and revokes only what it is asked to.
LEMMA WrittenRow ==
  ASSUME NEW o \in Orders, NEW prev \in GrantRow, NEW g \in GrantRow, Lands(o, g)
  PROVE  /\ Written(o, prev, g) \in GrantRow
         /\ Written(o, prev, g).floor = o.at
         /\ Written(o, prev, g).owner = o.customer
         /\ Written(o, prev, g).status # "none"
         /\ Written(o, prev, g).status = "revoked" => o.intent = "revoked"
<1> DEFINE g1 == [g EXCEPT !.floor = o.at]
           Kept(w) == /\ w \in GrantRow /\ w.floor = o.at /\ w.owner = o.customer /\ w.status # "none"
                      /\ w.status = "revoked" => o.intent = "revoked"
<1>1. /\ o.at \in Ranks /\ o.customer \in Customers /\ o.intent \in Intents /\ o.license \in Licenses \cup {None}
      /\ o.until \in Nat /\ o.limit \in Nat \cup {None}
  BY OrderFields
<1>2. Clamp(o, prev) \in Nat /\ Or(o.limit, prev.limit) \in Nat \cup {None}
      /\ Or(o.license, prev.license) \in Licenses \cup {None} /\ prev.license \in Licenses \cup {None}
  BY <1>1 DEF Clamp, Greater, Or, GrantRow
<1>3. g1 \in GrantRow /\ g1.floor = o.at /\ g1.owner = g.owner /\ g1.status = g.status
  BY <1>1 DEF GrantRow
<1>4. /\ g.status = "none" => o.intent = "active"
      /\ g.status # "none" => g.owner = o.customer
      /\ g.status = "revoked" => o.intent = "revoked"
  BY DEF Lands, Creates
<1> HIDE DEF g1
<1>5. CASE o.intent = "active"
  <2>1. Kept([g1 EXCEPT !.status = "active", !.owner = o.customer, !.until = Clamp(o, prev),
                        !.limit = Or(o.limit, prev.limit), !.license = Or(o.license, prev.license)])
    BY <1>1, <1>2, <1>3 DEF GrantRow
  <2> QED BY <1>5, <2>1 DEF Written, g1
<1>6. CASE o.intent = "renewed"
  <2>1. Kept([g1 EXCEPT !.until = Clamp(o, prev), !.license = Or(o.license, prev.license)])
    BY <1>1, <1>2, <1>3, <1>4, <1>6 DEF GrantRow
  <2> QED BY <1>6, <2>1 DEF Written, g1
<1>7. CASE o.intent = "canceled"
  <2>1. Kept([g1 EXCEPT !.until = Clamp(o, prev), !.license = prev.license])
    BY <1>1, <1>2, <1>3, <1>4, <1>7 DEF GrantRow
  <2> QED BY <1>7, <2>1 DEF Written, g1
<1>8. CASE o.intent = "quantity"
  <2>1. Kept([g1 EXCEPT !.limit = o.limit])
    BY <1>1, <1>2, <1>3, <1>4, <1>8 DEF GrantRow
  <2> QED BY <1>8, <2>1 DEF Written, g1
<1>9. CASE o.intent = "resumed"
  <2>1. Kept([g1 EXCEPT !.status = "active"])
    BY <1>1, <1>3, <1>4, <1>9 DEF GrantRow
  <2> QED BY <1>9, <2>1 DEF Written, g1
<1>10. CASE o.intent \in {"disabled", "revoked"}
  <2>1. Kept([g1 EXCEPT !.status = o.intent])
    BY <1>1, <1>3, <1>4, <1>10 DEF GrantRow
  <2> QED BY <1>10, <2>1 DEF Written, g1
<1> QED BY <1>1, <1>5, <1>6, <1>7, <1>8, <1>9, <1>10 DEF Intents, Creates, Withdrawals

-----------------------------------------------------------------------------
\* The write of Written, for a revocation: order_mutation.mjs sets the status it names.
LEMMA WrittenRevokes ==
  ASSUME NEW o \in Orders, NEW prev \in GrantRow, NEW g \in GrantRow, o.intent = "revoked"
  PROVE  Written(o, prev, g).status = "revoked"
BY DEF Written, GrantRow

\* A step of a call replaces its own row and no other (one request, one Worker).
LEMMA TypedMove ==
  ASSUME OrdersTyped, NEW c \in Calls, NEW r \in CallRow, calls' = [calls EXCEPT ![c] = r],
         r.pc # "idle" => r.order \in Orders
  PROVE  calls' \in [Calls -> CallRow] /\ \A d \in Calls : calls'[d].pc # "idle" => calls'[d].order \in Orders
BY DEF OrdersTyped

\* The empty rows of the schema are rows.
LEMMA EmptyRows ==
  /\ NoSub \in SubRow /\ NoEvent \in EventRow /\ NoGrant \in GrantRow /\ Idle \in CallRow
  /\ Idle.pc = "idle" /\ NoGrant.status = "none" /\ NoEvent.status = "none" /\ NoEvent.code = ""
<1>1. <<0, -1>> \in Ranks
  BY DEF Ranks
<1>2. NoGrant \in GrantRow
  BY <1>1 DEF NoGrant, GrantRow
<1>3. NoSub \in SubRow
  BY <1>1 DEF NoSub, SubRow
<1>4. NoEvent \in EventRow
  BY DEF NoEvent, EventRow, Statuses, Codes
<1>5. Idle \in CallRow
  BY <1>2 DEF Idle, CallRow, Codes
<1> QED BY <1>2, <1>3, <1>4, <1>5 DEF NoEvent, NoGrant, Idle

\* What a step of one call may do to its own row (r before it, q after it).
Move(r, q) ==
  \/ q = Idle
  \/ \E pc \in Fresh \cup Admitted :
       \/ q = [r EXCEPT !.pc = pc]
       \/ q = [r EXCEPT !.pc = pc, !.code = q.code] /\ q.code \in Codes
       \/ q = [r EXCEPT !.pc = pc, !.prev = q.prev] /\ q.prev \in GrantRow

\* A step of a call moves its own row (the handlers of order_ingest.mjs).
LEMMA StepMoves ==
  ASSUME OrdersTyped, NEW c \in Calls, Step(c) \/ Crash(c)
  PROVE  /\ calls' = [calls EXCEPT ![c] = calls'[c]]
         /\ Move(calls[c], calls'[c])
         /\ calls[c].pc # "idle"
<1> DEFINE r == calls[c]
           Moves == calls' = [calls EXCEPT ![c] = calls'[c]] /\ Move(r, calls'[c])
<1> SUFFICES Moves /\ r.pc # "idle"
  OBVIOUS
<1>1. calls \in [Calls -> CallRow] /\ r \in CallRow
  BY DEF OrdersTyped
<1>2. ASSUME Answer(c) PROVE Moves
  BY <1>1, <1>2 DEF Answer, Move
<1>3. ASSUME NEW pc \in Fresh \cup Admitted, Goto(c, pc) PROVE Moves
  <2>1. calls' = [calls EXCEPT ![c] = [r EXCEPT !.pc = pc]]
    BY <1>3 DEF Goto
  <2>2. calls'[c] = [r EXCEPT !.pc = pc]
    BY <1>1, <2>1
  <2> QED BY <2>1, <2>2, <1>1 DEF Move
<1>4. ASSUME NEW pc \in Fresh \cup Admitted, NEW code \in Codes,
             calls' = [calls EXCEPT ![c].pc = pc, ![c].code = code] PROVE Moves
  <2>1. calls' = [calls EXCEPT ![c] = [r EXCEPT !.pc = pc, !.code = code]]
    BY <1>1, <1>4
  <2>2. calls'[c] = [r EXCEPT !.pc = pc, !.code = code]
    BY <1>1, <2>1
  <2>3. calls'[c].code = code
    BY <2>2, <1>1 DEF CallRow
  <2> QED BY <2>1, <2>2, <2>3, <1>1 DEF Move
<1>5. /\ {"accept", "auxiliary", "gate", "establish", "failed", "stale", "read", "reject", "finalize",
          "endForeign", "endRevoked", "endMissing", "apply"} \subseteq Fresh \cup Admitted
      /\ "idle" \notin Fresh \cup Admitted
      /\ {"customer_email_conflict", "invalid_order", "capacity_in_use", "applied", "superseded"} \subseteq Codes
  BY DEF Fresh, Admitted, Codes, Refusals, Ends
<1> HIDE DEF Moves
<1>6. CASE Dedup(c)
  BY <1>2, <1>3, <1>5, <1>6 DEF Dedup, Replay, At
<1>7. CASE Gate(c)
  BY <1>2, <1>3, <1>5, <1>7 DEF Gate, At
<1>8. CASE Establish(c)
  <2>1. At(c, "establish") /\ (Answer(c) \/ Goto(c, "accept"))
    BY <1>8, Zenon DEF Establish
  <2> QED BY <1>2, <1>3, <1>5, <2>1 DEF At
<1>9. CASE Accept(c)
  <2>1. At(c, "accept") /\ (Answer(c) \/ Goto(c, "auxiliary") \/ Goto(c, "failed"))
    BY <1>9, Zenon DEF Accept
  <2> QED BY <1>2, <1>3, <1>5, <2>1 DEF At
<1>10. CASE FailedAccept(c)
  BY <1>2, <1>3, <1>5, <1>10 DEF FailedAccept, Replay, At
<1>11. CASE ClaimStale(c)
  <2>1. At(c, "stale") /\ Answer(c)
    BY <1>11, Zenon DEF ClaimStale
  <2> QED BY <1>2, <2>1 DEF At
<1>12. CASE Auxiliary(c)
  BY <1>3, <1>4, <1>5, <1>12 DEF Auxiliary, At
<1>13. CASE Reject(c)
  BY <1>2, <1>13 DEF Reject, At
<1>14. CASE ReadGrant(c)
  <2> DEFINE o == r.order
             route == Route(o, grants[o.fp])
             p == IF route = "apply" THEN grants[o.fp] ELSE r.prev
  <2>1. r.pc = "read"
    BY <1>14 DEF ReadGrant, At
  <2>2. calls' = [calls EXCEPT ![c] = [r EXCEPT !.pc = route, !.prev = p]]
    BY <1>1, <1>14 DEF ReadGrant
  <2>3. route \in Fresh \cup Admitted
    BY <1>5 DEF Route
  <2>4. o.fp \in Fingerprints
    BY <2>1, OrderFields DEF OrdersTyped
  <2>5. p \in GrantRow
    BY <1>1, <2>4 DEF OrdersTyped, CallRow
  <2> HIDE DEF route, p
  <2>6. calls'[c] = [r EXCEPT !.pc = route, !.prev = p]
    BY <1>1, <2>2
  <2>7. calls'[c].prev = p
    BY <2>6, <1>1 DEF CallRow
  <2> QED BY <2>1, <2>2, <2>3, <2>5, <2>6, <2>7 DEF Move, Moves
<1>15. CASE EndRefused(c)
  BY <1>2, <1>15 DEF EndRefused
<1>16. CASE EndMissing(c)
  BY <1>2, <1>16 DEF EndMissing, At
<1>17. CASE ApplyBatch(c)
  <2>1. At(c, "apply") /\ \/ Answer(c)
                          \/ calls' = [calls EXCEPT ![c].pc = "reject", ![c].code = "capacity_in_use"]
                          \/ calls' = [calls EXCEPT ![c].pc = "finalize", ![c].code = "applied"]
                          \/ calls' = [calls EXCEPT ![c].pc = "finalize", ![c].code = "superseded"]
    BY <1>17 DEF ApplyBatch
  <2> QED BY <1>2, <1>4, <1>5, <2>1 DEF At
<1>18. CASE Finalize(c)
  BY <1>2, <1>18 DEF Finalize, At
<1>19. CASE Crash(c)
  BY <1>2, <1>19 DEF Crash
<1> QED BY <1>6, <1>7, <1>8, <1>9, <1>10, <1>11, <1>12, <1>13, <1>14, <1>15, <1>16, <1>17, <1>18, <1>19, Zenon DEF Step, Moves

-----------------------------------------------------------------------------
\* A mark keeps the order that the event row names (order_events).
LEMMA MarkWrites ==
  ASSUME OrdersTyped, NEW o \in Orders, NEW status \in Statuses, NEW code \in Codes, Mark(o, status, code)
  PROVE  events' = [events EXCEPT ![o.id] = [status |-> status, order |-> events[o.id].order, code |-> code]]
<1>1. o.id \in EventIds /\ events \in [EventIds -> EventRow] /\ events[o.id] \in EventRow
  BY OrderFields DEF OrdersTyped
<1> DEFINE r == events[o.id]
<1>0. r = [status |-> r.status, order |-> r.order, code |-> r.code]
  BY <1>1 DEF EventRow
<1>2. [[events[o.id] EXCEPT !.status = status] EXCEPT !.code = code]
        = [status |-> status, order |-> events[o.id].order, code |-> code]
  <2>1. [r EXCEPT !.status = status] = [status |-> status, order |-> r.order, code |-> r.code]
    BY <1>0
  <2>2. [[status |-> status, order |-> r.order, code |-> r.code] EXCEPT !.code = code]
          = [status |-> status, order |-> r.order, code |-> code]
    OBVIOUS
  <2> QED BY <2>1, <2>2
<1> QED BY <1>1, <1>2 DEF Mark

\* The rows a step of a call may write for its event o.id, found in row e.
Accepts(c, o, e, row) ==
  /\ calls[c].pc = "accept" /\ CursorAdvances(o) /\ e.status = "none"
  /\ subs'[o.sub].fp = o.fp /\ subs'[o.sub].cursor = o.at
  /\ row = [status |-> "accepted", order |-> o, code |-> ""]
GoesStale(c, o, e, row) ==
  /\ calls[c].pc = "stale" /\ e.status = "none"
  /\ row = [status |-> "superseded", order |-> o, code |-> "stale_ignored"]
IsRefused(c, o, e, row) ==
  /\ e.status = "accepted"
  /\ \E code \in Refusals \cup {"entitlement_owner_mismatch", "entitlement_revoked", calls[c].code} :
       row = [status |-> "rejected", order |-> e.order, code |-> code]
  /\ calls[c].pc = "reject" => row.code = calls[c].code
  /\ calls[c].pc # "reject" => row.code \in {"entitlement_owner_mismatch", "entitlement_revoked"}
  /\ calls[c].pc \in {"reject", "endForeign", "endRevoked", "apply"}
LacksGrant(c, o, e, row) ==
  /\ calls[c].pc = "endMissing" /\ e.status = "accepted" /\ grants[o.fp].status = "none" /\ ~EarlierAccepted(o)
  /\ row = [status |-> "processed", order |-> e.order, code |-> "no_entitlement"]
IsCached(c, o, e, row) ==
  /\ calls[c].pc = "apply" /\ e.status = "accepted"
  /\ row = [status |-> "processed", order |-> e.order, code |-> "cached"]
  /\ calls'[c].pc = "finalize" /\ calls'[c].order = o
IsFinal(c, o, e, row) ==
  /\ calls[c].pc = "finalize" /\ e.status = "processed"
  /\ row = [status |-> "processed", order |-> e.order, code |-> calls[c].code]

EventWritten(c, o, e, row) ==
  \/ Accepts(c, o, e, row) \/ GoesStale(c, o, e, row) \/ IsRefused(c, o, e, row)
  \/ LacksGrant(c, o, e, row) \/ IsCached(c, o, e, row) \/ IsFinal(c, o, e, row)

\* What the apply batch does: a limit aborts it, its guarded write lands, or it misses.
BatchAborts(c) ==
  /\ calls' = [calls EXCEPT ![c].pc = "reject", ![c].code = "capacity_in_use"]
  /\ UNCHANGED <<grants, landed, audit, events>>

BatchLands(c, o) ==
  /\ Lands(o, grants[o.fp])
  /\ grants' = [grants EXCEPT ![o.fp] = Written(o, calls[c].prev, grants[o.fp])]
  /\ landed' = [landed EXCEPT ![o.fp] = Append(landed[o.fp], [id |-> o.id, at |-> o.at])]
  /\ \/ /\ events[o.id].status = "accepted"
        /\ audit' = audit \cup {o.id}
        /\ events' = [events EXCEPT ![o.id] = [status |-> "processed", order |-> events[o.id].order, code |-> "cached"]]
        /\ calls' = [calls EXCEPT ![c].pc = "finalize", ![c].code = "applied"]
     \/ /\ events[o.id].status # "accepted"
        /\ UNCHANGED <<audit, events>>
        /\ Answer(c)

BatchMisses(c, o) ==
  /\ ~Lands(o, grants[o.fp])
  /\ UNCHANGED <<grants, landed, audit>>
  /\ \/ UNCHANGED events /\ Answer(c)
     \/ /\ events[o.id].status = "accepted"
        /\ \E code \in {"entitlement_owner_mismatch", "entitlement_revoked"} :
             events' = [events EXCEPT ![o.id] = [status |-> "rejected", order |-> events[o.id].order, code |-> code]]
        /\ Answer(c)
     \/ /\ events[o.id].status = "accepted"
        /\ MarkOf(o, grants[o.fp]).status = "processed"
        /\ events' = [events EXCEPT ![o.id] = [status |-> "processed", order |-> events[o.id].order, code |-> "cached"]]
        /\ calls' = [calls EXCEPT ![c].pc = "finalize", ![c].code = "superseded"]

\* A mark is one of three (buildOwnerMarkStatement, buildRevokedMarkStatement,
\* buildProcessedMarkStatement).
LEMMA MarkKinds ==
  ASSUME NEW o \in Orders, NEW g \in GrantRow
  PROVE  /\ MarkOf(o, g).status \in Statuses /\ MarkOf(o, g).code \in Codes
         /\ \/ MarkOf(o, g).status = "rejected" /\ MarkOf(o, g).code \in {"entitlement_owner_mismatch", "entitlement_revoked"}
            \/ MarkOf(o, g).status = "processed" /\ MarkOf(o, g).code = "cached"
         /\ g.owner = o.customer /\ (g.status = "revoked" => o.intent = "revoked") => MarkOf(o, g).status = "processed"
         /\ MarkOf(o, g).status = "processed" =>
              (g.status # "none" => g.owner = o.customer) /\ (g.status = "revoked" => o.intent = "revoked")
BY DEF MarkOf, Statuses, Codes

\* The batch of the apply step, statement by statement (buildApplyBatch).
LEMMA BatchWrites ==
  ASSUME OrdersTyped, NEW c \in Calls, ApplyBatch(c), NEW o, o = calls[c].order
  PROVE  /\ calls[c].pc = "apply" /\ o \in Orders /\ grants[o.fp] \in GrantRow /\ calls[c].prev \in GrantRow
         /\ BatchAborts(c) \/ BatchLands(c, o) \/ BatchMisses(c, o)
<1> DEFINE g == grants[o.fp]
           w == Written(o, calls[c].prev, g)
           after == IF Lands(o, g) THEN w ELSE g
           mark == MarkOf(o, after)
           mine == events[o.id].status = "accepted"
<1>1. calls[c].pc = "apply" /\ o \in Orders /\ o.fp \in Fingerprints /\ g \in GrantRow /\ calls[c].prev \in GrantRow
  <2>1. calls[c].pc = "apply"
    BY DEF ApplyBatch, At
  <2>2. o \in Orders
    BY <2>1 DEF OrdersTyped
  <2> QED BY <2>1, <2>2, OrderFields DEF OrdersTyped, CallRow
<1>2. \/ BatchAborts(c)
      \/ /\ grants' = [grants EXCEPT ![o.fp] = after]
         /\ audit' = IF Lands(o, g) /\ mine THEN audit \cup {o.id} ELSE audit
         /\ landed' = IF Lands(o, g) THEN [landed EXCEPT ![o.fp] = Append(landed[o.fp], [id |-> o.id, at |-> o.at])] ELSE landed
         /\ IF mine THEN Mark(o, mark.status, mark.code) ELSE UNCHANGED events
         /\ IF mine /\ mark.status = "processed"
            THEN calls' = [calls EXCEPT ![c].pc = "finalize", ![c].code = IF Lands(o, g) THEN "applied" ELSE "superseded"]
            ELSE Answer(c)
  BY DEF ApplyBatch, BatchAborts
<1>3. Lands(o, g) => w \in GrantRow /\ w.owner = o.customer /\ (w.status = "revoked" => o.intent = "revoked")
  BY <1>1, WrittenRow
<1>4. after \in GrantRow
  BY <1>1, <1>3
<1>5. /\ mark.status \in Statuses /\ mark.code \in Codes
      /\ \/ mark.status = "rejected" /\ mark.code \in {"entitlement_owner_mismatch", "entitlement_revoked"}
         \/ mark.status = "processed" /\ mark.code = "cached"
      /\ Lands(o, g) => mark.status = "processed"
  <2> HIDE DEF w
  <2> QED BY <1>1, <1>3, <1>4, MarkKinds
<1> HIDE DEF mark, w
<1>6. Mark(o, mark.status, mark.code)
        => events' = [events EXCEPT ![o.id] = [status |-> mark.status, order |-> events[o.id].order, code |-> mark.code]]
  BY <1>1, <1>5, MarkWrites
<1>7. CASE BatchAborts(c)
  BY <1>1, <1>7
<1>8. CASE Lands(o, g) /\ ~BatchAborts(c)
  BY <1>1, <1>2, <1>5, <1>6, <1>8 DEF BatchLands, w
<1>9. CASE ~Lands(o, g) /\ ~BatchAborts(c)
  <2>1. UNCHANGED <<grants, landed, audit>>
    BY <1>1, <1>2, <1>9 DEF OrdersTyped
  <2>2. after = g
    BY <1>9
  <2> QED BY <1>1, <1>2, <1>5, <1>6, <1>9, <2>1, <2>2 DEF BatchMisses, mark
<1> QED BY <1>7, <1>8, <1>9

\* What a step of a call writes in orders (rows of subscriptions): the grant it
\* binds a new subscription to, or a later cursor.
Binds(o, s, row) == s.fp = None /\ row.fp = o.fp /\ row.cursor = s.cursor
Advances(o, s, row) == s.fp = o.fp /\ row.fp = s.fp /\ Before(s.cursor, o.at) /\ row.cursor = o.at

\* The batch of the accept step and the insert before it (buildAcceptBatch, establishOrderIdentity).
LEMMA SubWrites ==
  ASSUME OrdersTyped, NEW c \in Calls, Step(c), NEW o, o = calls[c].order
  PROVE  \/ UNCHANGED subs
         \/ /\ o \in Orders
            /\ \E row \in SubRow : /\ subs' = [subs EXCEPT ![o.sub] = row]
                                   /\ Binds(o, subs[o.sub], row) \/ Advances(o, subs[o.sub], row)
<1> DEFINE s == subs[o.sub]
           Wrote == o \in Orders /\ \E row \in SubRow : /\ subs' = [subs EXCEPT ![o.sub] = row]
                                                        /\ Binds(o, s, row) \/ Advances(o, s, row)
<1> SUFFICES UNCHANGED subs \/ Wrote
  OBVIOUS
<1>1. subs \in [Subscriptions -> SubRow]
  BY DEF OrdersTyped
<1>2. calls[c].pc # "idle" => o \in Orders /\ o.sub \in Subscriptions /\ s \in SubRow /\ o.fp \in Fingerprints
                              /\ o.at \in Ranks /\ o.customer \in Customers /\ o.license \in Licenses \cup {None}
  BY <1>1, OrderFields DEF OrdersTyped
<1>3. CASE Establish(c)
  <2>1. calls[c].pc = "establish"
    BY <1>3 DEF Establish, At
  <2> DEFINE fp == IF s.fp = None /\ ~OwnedElsewhere(o) THEN o.fp ELSE s.fp
             row == [s EXCEPT !.fp = fp]
  <2>2. subs' = [subs EXCEPT ![o.sub] = row]
    BY <1>3 DEF Establish
  <2>3. row \in SubRow /\ row.fp = fp /\ row.cursor = s.cursor
    BY <1>2, <2>1 DEF SubRow
  <2>4. CASE s.fp = None /\ ~OwnedElsewhere(o)
    <3>1. Binds(o, s, row)
      BY <2>3, <2>4 DEF Binds
    <3> QED BY <1>2, <2>1, <2>2, <2>3, <3>1
  <2>5. CASE ~(s.fp = None /\ ~OwnedElsewhere(o))
    <3>1. row = s
      BY <1>2, <2>1, <2>5 DEF SubRow
    <3> QED BY <1>1, <1>2, <2>1, <2>2, <3>1
  <2> QED BY <2>4, <2>5
<1>4. CASE Accept(c)
  <2>1. calls[c].pc = "accept"
    BY <1>4 DEF Accept, At
  <2> DEFINE row == [s EXCEPT !.cursor = o.at, !.customer = Or(@, o.customer), !.license = Or(@, o.license)]
  <2>2. \/ UNCHANGED subs
        \/ /\ CursorAdvances(o)
           /\ subs' = [subs EXCEPT ![o.sub].cursor = o.at, ![o.sub].customer = Or(@, o.customer),
                                   ![o.sub].license = Or(@, o.license)]
    BY <1>4, Zenon DEF Accept
  <2>3. row \in SubRow /\ row.fp = s.fp /\ row.cursor = o.at
    BY <1>2, <2>1 DEF SubRow, Or
  <2>4. CASE UNCHANGED subs
    BY <2>4
  <2>5. CASE /\ CursorAdvances(o)
             /\ subs' = [subs EXCEPT ![o.sub].cursor = o.at, ![o.sub].customer = Or(@, o.customer),
                                     ![o.sub].license = Or(@, o.license)]
    <3>1. subs' = [subs EXCEPT ![o.sub] = row]
      BY <1>1, <1>2, <2>1, <2>5
    <3>2. Advances(o, s, row)
      BY <2>3, <2>5 DEF Advances, CursorAdvances
    <3> HIDE DEF row
    <3> QED BY <1>2, <2>1, <2>3, <3>1, <3>2
  <2> QED BY <2>2, <2>4, <2>5
<1>5. CASE \/ Dedup(c) \/ Gate(c) \/ FailedAccept(c) \/ Auxiliary(c) \/ ReadGrant(c) \/ ClaimStale(c) \/ Reject(c)
           \/ EndRefused(c) \/ EndMissing(c) \/ ApplyBatch(c) \/ Finalize(c)
  <2>1. UNCHANGED subs
    BY <1>5, Zenon DEF Dedup, Replay, Gate, FailedAccept, Auxiliary, ReadGrant, ClaimStale, Reject, EndRefused,
                       EndMissing, ApplyBatch, Finalize, tables
  <2> QED BY <2>1
<1> HIDE DEF Wrote
<1> QED BY <1>3, <1>4, <1>5, Zenon DEF Step

\* Every write that a step of a call makes in order_events is one of these.
LEMMA EventWrites ==
  ASSUME OrdersTyped, NEW c \in Calls, Step(c), NEW o, o = calls[c].order
  PROVE  \/ UNCHANGED events
         \/ /\ o \in Orders
            /\ \E row \in EventRow : events' = [events EXCEPT ![o.id] = row] /\ EventWritten(c, o, events[o.id], row)
<1> DEFINE e == events[o.id]
           Written1(row) == events' = [events EXCEPT ![o.id] = row] /\ EventWritten(c, o, e, row)
           Wrote == o \in Orders /\ \E row \in EventRow : Written1(row)
<1> SUFFICES UNCHANGED events \/ Wrote
  OBVIOUS
<1>1. calls \in [Calls -> CallRow] /\ calls[c] \in CallRow
  BY DEF OrdersTyped
<1>2. calls[c].pc # "idle" => o \in Orders /\ o # None /\ o.id \in EventIds /\ e \in EventRow
  BY OrderFields DEF OrdersTyped
<1>3. ASSUME NEW status \in Statuses, NEW code \in Codes, calls[c].pc # "idle"
      PROVE  /\ [status |-> status, order |-> o, code |-> code] \in EventRow
             /\ [status |-> status, order |-> e.order, code |-> code] \in EventRow
  BY <1>2, <1>3 DEF EventRow
<1>4. ASSUME NEW status \in Statuses, NEW code \in Codes, calls[c].pc # "idle", Mark(o, status, code)
      PROVE  events' = [events EXCEPT ![o.id] = [status |-> status, order |-> e.order, code |-> code]]
  BY <1>2, <1>4, MarkWrites
<1>5. {"accepted", "processed", "superseded", "rejected"} \subseteq Statuses
      /\ {"", "stale_ignored", "cached", "no_entitlement", "entitlement_owner_mismatch", "entitlement_revoked",
          "customer_email_conflict", "invalid_order", "capacity_in_use", "applied", "superseded"} \subseteq Codes
  BY DEF Statuses, Codes, Refusals, Ends
<1>6. calls[c].code \in Codes
  BY <1>1 DEF CallRow
<1> HIDE DEF e
<1>7. CASE Accept(c)
  <2> DEFINE row == [status |-> "accepted", order |-> o, code |-> ""]
  <2>1. calls[c].pc = "accept"
    BY <1>7 DEF Accept, At
  <2> DEFINE advanced == subs' = [subs EXCEPT ![o.sub].cursor = o.at, ![o.sub].customer = Or(@, o.customer),
                                              ![o.sub].license = Or(@, o.license)]
  <2>2. CASE CursorAdvances(o) /\ e.status = "none" /\ advanced /\ events' = [events EXCEPT ![o.id] = row]
    <3>1. row \in EventRow
      BY <1>3, <1>5, <2>1
    <3>0. subs'[o.sub].fp = o.fp /\ subs'[o.sub].cursor = o.at
      <4>1. o.sub \in Subscriptions /\ subs \in [Subscriptions -> SubRow] /\ subs[o.sub] \in SubRow
        BY <1>2, <2>1, OrderFields DEF OrdersTyped
      <4> QED BY <2>2, <4>1 DEF CursorAdvances, SubRow
    <3>2. Accepts(c, o, e, row)
      BY <2>1, <2>2, <3>0 DEF Accepts
    <3> QED BY <1>2, <2>1, <2>2, <3>1, <3>2 DEF EventWritten
  <2>3. (CursorAdvances(o) /\ e.status = "none" /\ advanced /\ events' = [events EXCEPT ![o.id] = row]) \/ UNCHANGED events
    BY <1>7, Zenon DEF Accept, e
  <2> QED BY <2>2, <2>3
<1>8. CASE ClaimStale(c)
  <2> DEFINE row == [status |-> "superseded", order |-> o, code |-> "stale_ignored"]
  <2>1. calls[c].pc = "stale"
    BY <1>8 DEF ClaimStale, At
  <2>2. (e.status = "none" /\ events' = [events EXCEPT ![o.id] = row]) \/ UNCHANGED events
    BY <1>8, Zenon DEF ClaimStale, e
  <2>3. row \in EventRow
    BY <1>3, <1>5, <2>1
  <2>4. e.status = "none" => GoesStale(c, o, e, row)
    BY <2>1 DEF GoesStale
  <2> HIDE DEF row
  <2> QED BY <1>2, <2>1, <2>2, <2>3, <2>4 DEF EventWritten
<1>9. CASE Reject(c)
  <2> DEFINE row == [status |-> "rejected", order |-> e.order, code |-> calls[c].code]
  <2>1. calls[c].pc = "reject"
    BY <1>9 DEF Reject, At
  <2>2. (e.status = "accepted" /\ events' = [events EXCEPT ![o.id] = row]) \/ UNCHANGED events
    BY <1>4, <1>5, <1>6, <1>9, <2>1 DEF Reject, e
  <2>3. row \in EventRow
    BY <1>3, <1>5, <1>6, <2>1
  <2>4. e.status = "accepted" => IsRefused(c, o, e, row)
    BY <2>1 DEF IsRefused
  <2> HIDE DEF row
  <2> QED BY <1>2, <2>1, <2>2, <2>3, <2>4 DEF EventWritten
<1>10. CASE EndRefused(c)
  <2> DEFINE code == IF At(c, "endForeign") THEN "entitlement_owner_mismatch" ELSE "entitlement_revoked"
             row == [status |-> "rejected", order |-> e.order, code |-> code]
  <2>1. calls[c].pc \in {"endForeign", "endRevoked"}
    BY <1>10 DEF EndRefused
  <2>2. (e.status = "accepted" /\ events' = [events EXCEPT ![o.id] = row]) \/ UNCHANGED events
    BY <1>4, <1>5, <1>10, <2>1 DEF EndRefused, e
  <2>3. row \in EventRow
    BY <1>3, <1>5, <2>1
  <2>4. e.status = "accepted" => IsRefused(c, o, e, row)
    BY <2>1 DEF IsRefused
  <2> HIDE DEF row
  <2> QED BY <1>2, <2>1, <2>2, <2>3, <2>4 DEF EventWritten
<1>11. CASE EndMissing(c)
  <2> DEFINE row == [status |-> "processed", order |-> e.order, code |-> "no_entitlement"]
  <2>1. calls[c].pc = "endMissing"
    BY <1>11 DEF EndMissing, At
  <2>2. \/ /\ e.status = "accepted" /\ grants[o.fp].status = "none" /\ ~EarlierAccepted(o)
           /\ events' = [events EXCEPT ![o.id] = row]
        \/ UNCHANGED events
    BY <1>4, <1>5, <1>11, <2>1 DEF EndMissing, e
  <2>3. row \in EventRow
    BY <1>3, <1>5, <2>1
  <2> HIDE DEF row
  <2>4. CASE UNCHANGED events
    BY <2>4
  <2>5. CASE /\ e.status = "accepted" /\ grants[o.fp].status = "none" /\ ~EarlierAccepted(o)
             /\ events' = [events EXCEPT ![o.id] = row]
    <3>1. LacksGrant(c, o, e, row)
      BY <2>1, <2>5 DEF LacksGrant, row
    <3> QED BY <1>2, <2>1, <2>3, <2>5, <3>1 DEF EventWritten
  <2> QED BY <2>2, <2>4, <2>5
<1>12. CASE ApplyBatch(c)
  <2>1. calls[c].pc = "apply" /\ (BatchAborts(c) \/ BatchLands(c, o) \/ BatchMisses(c, o))
    BY <1>12, BatchWrites
  <2> DEFINE cached == [status |-> "processed", order |-> e.order, code |-> "cached"]
             refused(code) == [status |-> "rejected", order |-> e.order, code |-> code]
  <2>2. \/ UNCHANGED events
        \/ /\ e.status = "accepted" /\ events' = [events EXCEPT ![o.id] = cached]
           /\ \E code : calls' = [calls EXCEPT ![c].pc = "finalize", ![c].code = code]
        \/ /\ e.status = "accepted"
           /\ \E code \in {"entitlement_owner_mismatch", "entitlement_revoked"} :
                events' = [events EXCEPT ![o.id] = refused(code)]
    <3>1. BatchAborts(c) => UNCHANGED events
      BY DEF BatchAborts
    <3>2. CASE BatchLands(c, o)
      BY <3>2, Zenon DEF BatchLands, e
    <3>3. CASE BatchMisses(c, o)
      BY <3>3, Zenon DEF BatchMisses, e
    <3> QED BY <2>1, <3>1, <3>2, <3>3
  <2>3. cached \in EventRow /\ \A code \in {"entitlement_owner_mismatch", "entitlement_revoked"} : refused(code) \in EventRow
    BY <1>3, <1>5, <2>1
  <2>4. CASE UNCHANGED events
    BY <2>4
  <2>5. CASE /\ e.status = "accepted" /\ events' = [events EXCEPT ![o.id] = cached]
             /\ \E code : calls' = [calls EXCEPT ![c].pc = "finalize", ![c].code = code]
    <3>1. calls'[c].pc = "finalize" /\ calls'[c].order = o
      BY <1>1, <2>5 DEF CallRow
    <3>2. IsCached(c, o, e, cached)
      BY <2>1, <2>5, <3>1 DEF IsCached
    <3> HIDE DEF cached
    <3> QED BY <1>2, <2>1, <2>3, <2>5, <3>2 DEF EventWritten
  <2>6. ASSUME e.status = "accepted", NEW code \in {"entitlement_owner_mismatch", "entitlement_revoked"},
               events' = [events EXCEPT ![o.id] = refused(code)]
        PROVE  Wrote
    <3>1. IsRefused(c, o, e, refused(code))
      BY <2>1, <2>6 DEF IsRefused
    <3>2. refused(code) \in EventRow
      BY <2>3
    <3> HIDE DEF refused
    <3> QED BY <1>2, <2>1, <2>6, <3>1, <3>2 DEF EventWritten
  <2> QED BY <2>2, <2>4, <2>5, <2>6
<1>13. CASE Finalize(c)
  <2> DEFINE row == [status |-> "processed", order |-> e.order, code |-> calls[c].code]
  <2>1. calls[c].pc = "finalize"
    BY <1>13 DEF Finalize, At
  <2>2. (e.status = "processed" /\ events' = [events EXCEPT ![o.id] = row]) \/ UNCHANGED events
    BY <1>4, <1>5, <1>6, <1>13, <2>1 DEF Finalize, e
  <2>3. row \in EventRow
    BY <1>3, <1>5, <1>6, <2>1
  <2>4. e.status = "processed" => IsFinal(c, o, e, row)
    BY <2>1 DEF IsFinal
  <2> HIDE DEF row
  <2> QED BY <1>2, <2>1, <2>2, <2>3, <2>4 DEF EventWritten
<1>14. CASE Dedup(c) \/ Gate(c) \/ Establish(c) \/ FailedAccept(c) \/ Auxiliary(c) \/ ReadGrant(c)
  <2>1. UNCHANGED events
    BY <1>14, Zenon DEF Dedup, Replay, Gate, Establish, FailedAccept, Auxiliary, ReadGrant, tables
  <2> QED BY <2>1
<1> HIDE DEF Wrote
<1> QED BY <1>7, <1>8, <1>9, <1>10, <1>11, <1>12, <1>13, <1>14, Zenon DEF Step

-----------------------------------------------------------------------------
\* What the administration does to a grant row (license_admin's entitlement writers).
LEMMA AdministerWrites ==
  ASSUME OrdersTyped, NEW f \in Fingerprints, Administer(f)
  PROVE  /\ \E row \in GrantRow : /\ grants' = [grants EXCEPT ![f] = row]
                                  /\ row.status # "none" /\ row.floor = grants[f].floor
         /\ UNCHANGED <<subs, events, audit, landed, calls>>
<1>1. PICK s \in {"active", "disabled", "revoked"}, u \in Customers :
        grants' = [grants EXCEPT ![f].status = s, ![f].owner = u]
  BY Zenon DEF Administer
<1>2. grants \in [Fingerprints -> GrantRow] /\ grants[f] \in GrantRow
  BY DEF OrdersTyped
<1> DEFINE row == [grants[f] EXCEPT !.status = s, !.owner = u]
<1>3. row \in GrantRow /\ row.status = s /\ row.floor = grants[f].floor
  BY <1>2 DEF GrantRow
<1>4. grants' = [grants EXCEPT ![f] = row]
  BY <1>1, <1>2
<1>5. UNCHANGED <<subs, events, audit, landed, calls>>
  BY DEF Administer
<1> HIDE DEF row
<1> QED BY <1>3, <1>4, <1>5

\* The steps of a call that leave the grants, the history and the audit trail alone.
LEMMA OthersLeaveGrants ==
  ASSUME NEW c \in Calls, Step(c), calls[c].pc # "apply"
  PROVE  UNCHANGED <<grants, landed, audit>>
BY DEF Step, Dedup, Replay, Gate, Establish, Accept, FailedAccept, ClaimStale, Auxiliary, Reject, ReadGrant,
       EndRefused, EndMissing, ApplyBatch, Finalize, tables, At

\* The steps of a call that apply a batch are one action.
LEMMA ApplyStep ==
  ASSUME NEW c \in Calls, Step(c), calls[c].pc = "apply"
  PROVE  ApplyBatch(c)
BY DEF Step, Dedup, Gate, Establish, Accept, FailedAccept, ClaimStale, Auxiliary, Reject, ReadGrant,
       EndRefused, EndMissing, ApplyBatch, Finalize, At

\* Every step of the system: of a call, of the sender, a crash, or of others.
LEMMA NextCases ==
  ASSUME [Next]_vars
  PROVE  \/ \E c \in Calls : Step(c)
         \/ \E c \in Calls, o \in Orders : Receive(c, o)
         \/ \E c \in Calls : Crash(c)
         \/ \E f \in Fingerprints : Administer(f)
         \/ UNCHANGED <<subs, events, grants, audit, landed, calls>>
BY DEF Next, Ingest, Lapse, Occupy, vars, tables

\* Type correctness is kept by every step of a call.
LEMMA StepTyped ==
  ASSUME OrdersTyped, NEW c \in Calls, Step(c)
  PROVE  OrdersTyped'
<1> DEFINE o == calls[c].order
<1>0. calls[c].pc # "idle" /\ o \in Orders /\ calls[c] \in CallRow
  BY StepMoves DEF OrdersTyped
<1>1. o.id \in EventIds /\ o.sub \in Subscriptions /\ o.at \in Ranks /\ o.fp \in Fingerprints
  BY <1>0, OrderFields
<1>2. subs' \in [Subscriptions -> SubRow]
  BY <1>1, SubWrites DEF OrdersTyped
<1>3. events' \in [EventIds -> EventRow]
  BY <1>1, EventWrites DEF OrdersTyped
<1>4. grants' \in [Fingerprints -> GrantRow] /\ landed' \in [Fingerprints -> Seq([id: EventIds, at: Ranks])]
  <2>1. CASE calls[c].pc # "apply"
    BY <2>1, OthersLeaveGrants DEF OrdersTyped
  <2>2. CASE BatchAborts(c) \/ BatchMisses(c, o)
    BY <2>2 DEF OrdersTyped, BatchAborts, BatchMisses
  <2>3. CASE calls[c].pc = "apply" /\ BatchLands(c, o)
    <3>1. Written(o, calls[c].prev, grants[o.fp]) \in GrantRow
      BY <1>0, <1>1, <2>3, WrittenRow DEF BatchLands, OrdersTyped, CallRow
    <3>2. Append(landed[o.fp], [id |-> o.id, at |-> o.at]) \in Seq([id: EventIds, at: Ranks])
      <4> DEFINE R == [id: EventIds, at: Ranks]
      <4>1. landed[o.fp] \in Seq(R) /\ [id |-> o.id, at |-> o.at] \in R
        BY <1>1 DEF OrdersTyped
      <4> HIDE DEF R
      <4>2. Append(landed[o.fp], [id |-> o.id, at |-> o.at]) \in Seq(R)
        BY <4>1
      <4> QED BY <4>2 DEF R
    <3> QED BY <1>1, <2>3, <3>1, <3>2 DEF BatchLands, OrdersTyped
  <2> QED BY <2>1, <2>2, <2>3, ApplyStep, BatchWrites
<1>5. calls' \in [Calls -> CallRow] /\ \A d \in Calls : calls'[d].pc # "idle" => calls'[d].order \in Orders
  <2> DEFINE q == calls'[c]
  <2>1. calls' = [calls EXCEPT ![c] = q] /\ Move(calls[c], q)
    BY StepMoves
  <2>2. q \in CallRow /\ (q.pc # "idle" => q.order \in Orders)
    <3> HIDE DEF q
    <3>1. CASE q = Idle
      BY <3>1, EmptyRows
    <3>3. \/ q = Idle
          \/ \E pc \in Fresh \cup Admitted, code \in Codes, p \in GrantRow :
               q \in {[calls[c] EXCEPT !.pc = pc], [calls[c] EXCEPT !.pc = pc, !.code = code],
                      [calls[c] EXCEPT !.pc = pc, !.prev = p]}
      <4>1. "" \in Codes /\ NoGrant \in GrantRow
        BY EmptyRows DEF Codes
      <4> QED BY <2>1, <4>1 DEF Move
    <3>4. ASSUME NEW pc \in Fresh \cup Admitted, NEW code \in Codes, NEW p \in GrantRow,
                 q \in {[calls[c] EXCEPT !.pc = pc], [calls[c] EXCEPT !.pc = pc, !.code = code],
                        [calls[c] EXCEPT !.pc = pc, !.prev = p]}
          PROVE  q \in CallRow /\ q.order = o
      <4>1. calls[c] \in CallRow /\ pc \in {"idle"} \cup Fresh \cup Admitted
        BY <1>0
      <4>2. CASE q = [calls[c] EXCEPT !.pc = pc]
        BY <4>1, <4>2 DEF CallRow
      <4>3. CASE q = [calls[c] EXCEPT !.pc = pc, !.code = code]
        BY <4>1, <4>3 DEF CallRow
      <4>4. CASE q = [calls[c] EXCEPT !.pc = pc, !.prev = p]
        BY <4>1, <4>4 DEF CallRow
      <4> QED BY <3>4, <4>2, <4>3, <4>4
    <3> QED BY <1>0, <3>1, <3>3, <3>4
  <2> HIDE DEF q
  <2> QED BY <2>1, <2>2, TypedMove
<1> QED BY <1>2, <1>3, <1>4, <1>5 DEF OrdersTyped

\* Type correctness: the rows of orders, order_events and entitlements, and the
\* requests in flight.
THEOREM TypeCorrect == Spec => []OrdersTyped
<1>1. Init => OrdersTyped
  <2> SUFFICES ASSUME Init PROVE OrdersTyped
    OBVIOUS
  <2>1. grants \in [Fingerprints -> GrantRow]
    <3>1. \A u \in Customers : [NoGrant EXCEPT !.status = "active", !.owner = u] \in GrantRow
      BY EmptyRows DEF GrantRow
    <3>2. grants \in [Fingerprints -> {NoGrant} \cup {[NoGrant EXCEPT !.status = "active", !.owner = u] : u \in Customers}]
      BY DEF Init
    <3>3. {NoGrant} \cup {[NoGrant EXCEPT !.status = "active", !.owner = u] : u \in Customers} \subseteq GrantRow
      BY <3>1, EmptyRows
    <3> QED BY <3>2, <3>3
  <2>2. /\ subs = [s \in Subscriptions |-> NoSub] /\ events = [e \in EventIds |-> NoEvent]
        /\ landed = [f \in Fingerprints |-> <<>>] /\ calls = [c \in Calls |-> Idle]
    BY DEF Init
  <2>3. landed \in [Fingerprints -> Seq([id: EventIds, at: Ranks])]
    BY <2>2
  <2> QED BY <2>1, <2>2, <2>3, EmptyRows DEF OrdersTyped
<1>2. OrdersTyped /\ [Next]_vars => OrdersTyped'
  <2> SUFFICES ASSUME OrdersTyped, [Next]_vars PROVE OrdersTyped'
    OBVIOUS
  <2>1. ASSUME NEW c \in Calls, NEW o \in Orders, Receive(c, o) PROVE OrdersTyped'
    <3>1. calls \in [Calls -> CallRow] /\ calls[c] \in CallRow
      BY DEF OrdersTyped
    <3> DEFINE q == [calls[c] EXCEPT !.pc = "dedup", !.order = o]
    <3>2. calls' = [calls EXCEPT ![c] = q] /\ UNCHANGED <<subs, events, grants, landed>>
      BY <2>1, <3>1 DEF Receive, tables
    <3>3. q \in CallRow /\ q.order = o
      BY <3>1 DEF CallRow, Fresh
    <3> HIDE DEF q
    <3>4. calls' \in [Calls -> CallRow] /\ \A d \in Calls : calls'[d].pc # "idle" => calls'[d].order \in Orders
      BY <3>2, <3>3, TypedMove
    <3> QED BY <3>2, <3>4 DEF OrdersTyped
  <2>2. ASSUME NEW c \in Calls, Crash(c) PROVE OrdersTyped'
    <3>1. calls' = [calls EXCEPT ![c] = Idle] /\ UNCHANGED <<subs, events, grants, landed>>
      BY <2>2 DEF Crash, Answer, tables
    <3>2. calls' \in [Calls -> CallRow] /\ \A d \in Calls : calls'[d].pc # "idle" => calls'[d].order \in Orders
      BY <3>1, EmptyRows, TypedMove
    <3> QED BY <3>1, <3>2 DEF OrdersTyped
  <2>3. ASSUME NEW f \in Fingerprints, Administer(f) PROVE OrdersTyped'
    BY <2>3, AdministerWrites DEF OrdersTyped
  <2>4. CASE UNCHANGED <<subs, events, grants, audit, landed, calls>>
    BY <2>4 DEF OrdersTyped
  <2> QED BY <2>1, <2>2, <2>3, <2>4, StepTyped, NextCases
<1> QED BY <1>1, <1>2, PTL DEF Spec

-----------------------------------------------------------------------------
\* The grant exists, and its floor keeps the order out.
Passed(o) == grants[o.fp].status # "none" /\ ~Before(grants[o.fp].floor, o.at)

Admissible == {"accepted", "processed", "rejected"}

\* What a call has to store once its batch is through.
FinalKnown(o, code) ==
  /\ events[o.id].status = "processed"
  /\ code \in Ends
  /\ code = "applied" => Landed(o.id) /\ o.id \in audit
  /\ code = "superseded" => Passed(o) /\ ~Landed(o.id)

\* What a call may rely on: its event is recorded, as its own order; it applies
\* an order that has a grant or creates one.
CallKnown(r) ==
  /\ r.pc \in Admitted => events[r.order.id].order = r.order /\ events[r.order.id].status \in Admissible
  /\ r.pc = "apply" => grants[r.order.fp].status # "none" \/ r.order.intent \in Creates
  /\ r.pc = "reject" => r.code \in Refusals
  /\ r.pc = "finalize" => FinalKnown(r.order, r.code)

CallsKnown == \A c \in Calls : CallKnown(calls[c])

\* A recorded event: its subscription has its grant, and no earlier order can
\* follow it; its code is what became of it.
EventKnown(e, r) ==
  /\ r.status # "none" => r.order \in Orders /\ r.order.id = e
  /\ r.status \in {"none", "accepted"} => r.code = ""
  /\ r.status \in Admissible =>
       subs[r.order.sub].fp = r.order.fp /\ ~Before(subs[r.order.sub].cursor, r.order.at)
  /\ r.status = "superseded" <=> r.code = "stale_ignored"
  /\ r.code \in {"cached", "no_entitlement"} \cup Ends => r.status = "processed"
  /\ r.code = "applied" => Landed(e) /\ e \in audit
  /\ r.code = "superseded" => Passed(r.order) /\ ~Landed(e)
  /\ e \in audit => Landed(e) /\ r.status = "processed"

EventsKnown == \A e \in EventIds : EventKnown(e, events[e])

\* An order that landed was recorded, and the floor of its grant has it.
EntryKnown(f, x) ==
  /\ events[x.id].status \in {"processed", "rejected"}
  /\ events[x.id].order.fp = f /\ events[x.id].order.at = x.at
  /\ grants[f].status # "none" /\ ~Before(grants[f].floor, x.at)

LandedKnown == \A f \in Fingerprints : \A i \in 1..Len(landed[f]) : EntryKnown(f, landed[f][i])

Known == CallsKnown /\ EventsKnown /\ LandedKnown

\* NewerNotDiscarded, of results that a call has still to store as well.
Outrun(e, d) ==
  /\ events[e].code = "no_entitlement"
  /\ events[d].status # "none" /\ events[d].order.sub = events[e].order.sub
  /\ Before(events[d].order.at, events[e].order.at)

DiscardKnown ==
  \A e, d \in EventIds :
    Outrun(e, d) =>
      /\ events[d].status # "accepted" /\ events[d].code # "applied"
      /\ \A c \in Calls : calls[c].pc = "finalize" /\ calls[c].order.id = d => calls[c].code # "applied"

-----------------------------------------------------------------------------
\* The history of a landing: one entry more, for this order alone.
LEMMA LandingAppends ==
  ASSUME OrdersTyped, NEW o \in Orders,
         landed' = [landed EXCEPT ![o.fp] = Append(landed[o.fp], [id |-> o.id, at |-> o.at])]
  PROVE  /\ \A f \in Fingerprints \ {o.fp} : landed'[f] = landed[f]
         /\ Len(landed[o.fp]) \in Nat
         /\ Len(landed'[o.fp]) = Len(landed[o.fp]) + 1
         /\ \A i \in 1..Len(landed[o.fp]) : landed'[o.fp][i] = landed[o.fp][i]
         /\ landed'[o.fp][Len(landed[o.fp]) + 1] = [id |-> o.id, at |-> o.at]
<1> DEFINE R == [id: EventIds, at: Ranks]
           x == [id |-> o.id, at |-> o.at]
           q == landed[o.fp]
<1>1. o.fp \in Fingerprints /\ q \in Seq(R) /\ x \in R
  BY OrderFields DEF OrdersTyped
<1>2. landed'[o.fp] = Append(q, x) /\ \A f \in Fingerprints \ {o.fp} : landed'[f] = landed[f]
  BY <1>1 DEF OrdersTyped
<1> HIDE DEF R, x
<1>3. /\ Len(q) \in Nat /\ Len(Append(q, x)) = Len(q) + 1
      /\ \A i \in 1..Len(q) : Append(q, x)[i] = q[i]
      /\ Append(q, x)[Len(q) + 1] = x
  BY <1>1
<1> QED BY <1>2, <1>3, Zenon DEF x

\* Which orders have landed after a landing.
LEMMA LandingLands ==
  ASSUME OrdersTyped, NEW o \in Orders,
         landed' = [landed EXCEPT ![o.fp] = Append(landed[o.fp], [id |-> o.id, at |-> o.at])],
         NEW e \in EventIds
  PROVE  Landed(e)' <=> Landed(e) \/ e = o.id
<1> DEFINE n == Len(landed[o.fp])
<1>1. /\ \A f \in Fingerprints \ {o.fp} : landed'[f] = landed[f]
      /\ n \in Nat /\ Len(landed'[o.fp]) = n + 1
      /\ \A i \in 1..n : landed'[o.fp][i] = landed[o.fp][i]
      /\ landed'[o.fp][n + 1] = [id |-> o.id, at |-> o.at]
  BY LandingAppends
<1>2. o.fp \in Fingerprints /\ 1..(n + 1) = 1..n \cup {n + 1}
  BY <1>1, OrderFields
<1>3. Landed(e)' <=> \E f \in Fingerprints : \E i \in 1..Len(landed'[f]) : landed'[f][i].id = e
  BY DEF Landed
<1>4. ASSUME Landed(e) PROVE Landed(e)'
  <2>0. PICK f \in Fingerprints : \E i \in 1..Len(landed[f]) : landed[f][i].id = e
    BY <1>4 DEF Landed
  <2>1. PICK i \in 1..Len(landed[f]) : landed[f][i].id = e
    BY <2>0
  <2>2. i \in 1..Len(landed'[f]) /\ landed'[f][i].id = e
    BY <1>1, <1>2, <2>1
  <2> QED BY <1>3, <2>2
<1>5. Landed(o.id)'
  <2>1. n + 1 \in 1..Len(landed'[o.fp]) /\ landed'[o.fp][n + 1].id = o.id
    BY <1>1
  <2> QED BY <1>2, <2>1 DEF Landed
<1>6. ASSUME Landed(e)' PROVE Landed(e) \/ e = o.id
  <2>0. PICK f \in Fingerprints : \E i \in 1..Len(landed'[f]) : landed'[f][i].id = e
    BY <1>3, <1>6
  <2>1. PICK i \in 1..Len(landed'[f]) : landed'[f][i].id = e
    BY <2>0
  <2>2. CASE f = o.fp /\ i = n + 1
    BY <1>1, <2>1, <2>2
  <2>3. CASE ~(f = o.fp /\ i = n + 1)
    <3>1. i \in 1..Len(landed[f]) /\ landed[f][i].id = e
      BY <1>1, <1>2, <2>1, <2>3
    <3> QED BY <3>1 DEF Landed
  <2> QED BY <2>2, <2>3
<1> QED BY <1>4, <1>5, <1>6

\* An order that landed is recorded as processed or rejected, and its grant's
\* floor has passed it.
LEMMA LandedIsPassed ==
  ASSUME OrdersTyped, Known, NEW e \in EventIds, Landed(e)
  PROVE  /\ events[e].status \in {"processed", "rejected"}
         /\ events[e].order \in Orders
         /\ Passed(events[e].order)
<1>0. PICK f \in Fingerprints : \E i \in 1..Len(landed[f]) : landed[f][i].id = e
  BY DEF Landed
<1>1. PICK i \in 1..Len(landed[f]) : landed[f][i].id = e
  BY <1>0
<1>2. EntryKnown(f, landed[f][i])
  BY DEF Known, LandedKnown
<1>3. EventKnown(e, events[e])
  BY DEF Known, EventsKnown
<1> QED BY <1>1, <1>2, <1>3 DEF EntryKnown, EventKnown, Passed

\* A batch that lands does so for an order that the floor has not passed, that
\* has not landed before, and after older orders only (FLOOR_PREDICATE_UPDATE).
LEMMA LandingIsNew ==
  ASSUME OrdersTyped, Known, NEW c \in Calls, NEW o \in Orders, o = calls[c].order, calls[c].pc = "apply",
         Lands(o, grants[o.fp])
  PROVE  /\ events[o.id].order = o /\ events[o.id].status \in Admissible
         /\ ~Passed(o)
         /\ ~Landed(o.id)
         /\ \A i \in 1..Len(landed[o.fp]) : Before(landed[o.fp][i].at, o.at)
<1>1. o.id \in EventIds /\ o.fp \in Fingerprints /\ o.at \in Ranks
  BY OrderFields
<1>2. events[o.id].order = o /\ events[o.id].status \in Admissible
  BY DEF Known, CallsKnown, CallKnown, Admitted
<1>3. ~Passed(o)
  BY DEF Passed, Lands
<1>4. ~Landed(o.id)
  BY <1>1, <1>2, <1>3, LandedIsPassed
<1>5. ASSUME NEW i \in 1..Len(landed[o.fp]) PROVE Before(landed[o.fp][i].at, o.at)
  <2> DEFINE x == landed[o.fp][i]
  <2>1. grants[o.fp].status # "none" /\ ~Before(grants[o.fp].floor, x.at)
    BY <1>1, <1>5 DEF Known, LandedKnown, EntryKnown
  <2>2. Before(grants[o.fp].floor, o.at)
    BY <2>1 DEF Lands
  <2>3. grants[o.fp].floor \in Ranks /\ x.at \in Ranks
    <3>1. landed[o.fp] \in Seq([id: EventIds, at: Ranks])
      BY <1>1 DEF OrdersTyped
    <3>2. x \in [id: EventIds, at: Ranks]
      <4> DEFINE R == [id: EventIds, at: Ranks]
      <4>1. landed[o.fp] \in Seq(R)
        BY <3>1
      <4> HIDE DEF R
      <4>2. x \in R
        BY <1>5, <4>1
      <4> QED BY <4>2 DEF R
    <3> QED BY <1>1, <3>2 DEF OrdersTyped, GrantRow
  <2> SUFFICES Before(x.at, o.at)
    OBVIOUS
  <2> HIDE DEF x
  <2>4. CASE x.at = o.at
    BY <2>1, <2>2, <2>4
  <2>5. CASE x.at # o.at
    <3>1. Before(x.at, o.at) \/ Before(o.at, x.at)
      BY <1>1, <2>3, <2>5, BeforeOrders
    <3>2. Before(o.at, x.at) => Before(grants[o.fp].floor, x.at)
      BY <1>1, <2>2, <2>3, BeforeOrders
    <3> QED BY <2>1, <3>1, <3>2
  <2> QED BY <2>4, <2>5
<1> QED BY <1>2, <1>3, <1>4, <1>5

-----------------------------------------------------------------------------
\* What no step takes back. An order that lands was recorded, and not passed.
Grows ==
  /\ \A f \in Fingerprints : grants[f].status # "none" =>
       /\ grants'[f].status # "none"
       /\ \A at \in Ranks : ~Before(grants[f].floor, at) => ~Before(grants'[f].floor, at)
  /\ \A s \in Subscriptions :
       /\ subs[s].fp # None => subs'[s].fp = subs[s].fp
       /\ \A at \in Ranks : ~Before(subs[s].cursor, at) => ~Before(subs'[s].cursor, at)
  /\ \A e \in EventIds :
       /\ events[e].status # "none" => events'[e].order = events[e].order
       /\ events[e].status \in Admissible => events'[e].status \in Admissible
       /\ events[e].status \in Terminal => events'[e].status = events[e].status
       /\ Landed(e) => Landed(e)'
       /\ Landed(e)' => \/ Landed(e)
                        \/ /\ events[e].status \in Admissible
                           /\ ~Passed(events[e].order)
       /\ e \in audit => e \in audit'
       /\ e \in audit' => e \in audit \/ (events'[e] # events[e] /\ events'[e].status = "processed" /\ Landed(e)')

\* Subscriptions keep their grant and their cursor never goes back (buildAcceptBatch).
LEMMA SubsGrow ==
  ASSUME OrdersTyped, NEW c \in Calls, Step(c), NEW s \in Subscriptions
  PROVE  /\ subs[s].fp # None => subs'[s].fp = subs[s].fp
         /\ \A at \in Ranks : ~Before(subs[s].cursor, at) => ~Before(subs'[s].cursor, at)
<1> DEFINE o == calls[c].order
<1>1. CASE UNCHANGED subs
  BY <1>1
<1>2. ASSUME o \in Orders, NEW row \in SubRow, subs' = [subs EXCEPT ![o.sub] = row],
             Binds(o, subs[o.sub], row) \/ Advances(o, subs[o.sub], row)
      PROVE  /\ subs[s].fp # None => subs'[s].fp = subs[s].fp
             /\ \A at \in Ranks : ~Before(subs[s].cursor, at) => ~Before(subs'[s].cursor, at)
  <2>1. subs[s] \in SubRow /\ o.at \in Ranks /\ subs[s].cursor \in Ranks /\ subs \in [Subscriptions -> SubRow]
    BY <1>2, OrderFields DEF OrdersTyped, SubRow
  <2>2. CASE s # o.sub
    BY <1>2, <2>1, <2>2
  <2>3. CASE s = o.sub /\ Binds(o, subs[o.sub], row)
    BY <1>2, <2>1, <2>3 DEF Binds
  <2>4. CASE s = o.sub /\ Advances(o, subs[o.sub], row)
    <3>1. subs'[s].fp = subs[s].fp /\ subs'[s].cursor = o.at /\ Before(subs[s].cursor, o.at)
      BY <1>2, <2>1, <2>4 DEF Advances
    <3>2. \A at \in Ranks : ~Before(subs[s].cursor, at) => ~Before(o.at, at)
      BY <2>1, <3>1, BeforeOrders
    <3> QED BY <3>1, <3>2
  <2> QED BY <1>2, <2>2, <2>3, <2>4
<1> QED BY <1>1, <1>2, SubWrites

\* Events keep their order and their end (the marks all ask for accepted).
LEMMA EventsGrow ==
  ASSUME OrdersTyped, NEW c \in Calls, Step(c), NEW e \in EventIds
  PROVE  /\ events[e].status # "none" => events'[e].order = events[e].order
         /\ events[e].status \in Admissible => events'[e].status \in Admissible
         /\ events[e].status \in Terminal => events'[e].status = events[e].status
<1> DEFINE o == calls[c].order
<1>1. CASE UNCHANGED events
  BY <1>1
<1>2. ASSUME o \in Orders, NEW row \in EventRow, events' = [events EXCEPT ![o.id] = row],
             EventWritten(c, o, events[o.id], row)
      PROVE  /\ events[e].status # "none" => events'[e].order = events[e].order
             /\ events[e].status \in Admissible => events'[e].status \in Admissible
             /\ events[e].status \in Terminal => events'[e].status = events[e].status
  <2>1. events'[e] = IF e = o.id THEN row ELSE events[e]
    BY <1>2, OrderFields DEF OrdersTyped
  <2>2. /\ events[o.id].status # "none" => row.order = events[o.id].order
        /\ events[o.id].status \in Admissible => row.status \in Admissible
        /\ events[o.id].status \in Terminal => row.status = events[o.id].status
    <3> DEFINE v == events[o.id]
    <3>1. Accepts(c, o, v, row) \/ GoesStale(c, o, v, row) => v.status = "none"
      BY DEF Accepts, GoesStale
    <3>2. IsRefused(c, o, v, row) => v.status = "accepted" /\ row.order = v.order /\ row.status = "rejected"
      BY DEF IsRefused
    <3>3. LacksGrant(c, o, v, row) \/ IsCached(c, o, v, row)
            => v.status = "accepted" /\ row.order = v.order /\ row.status = "processed"
      BY DEF LacksGrant, IsCached
    <3>4. IsFinal(c, o, v, row) => v.status = "processed" /\ row.order = v.order /\ row.status = "processed"
      BY DEF IsFinal
    <3> HIDE DEF v
    <3> QED BY <1>2, <3>1, <3>2, <3>3, <3>4 DEF v, EventWritten, Admissible, Terminal
  <2> QED BY <2>1, <2>2
<1> QED BY <1>1, <1>2, EventWrites

\* A grant stays and its floor never goes back (FLOOR_PREDICATE_UPDATE).
LEMMA GrantsGrow ==
  ASSUME OrdersTyped, Known, NEW c \in Calls, Step(c), NEW f \in Fingerprints, grants[f].status # "none"
  PROVE  /\ grants'[f].status # "none"
         /\ \A at \in Ranks : ~Before(grants[f].floor, at) => ~Before(grants'[f].floor, at)
<1> DEFINE o == calls[c].order
           w == Written(o, calls[c].prev, grants[o.fp])
<1>1. CASE UNCHANGED grants
  BY <1>1
<1>2. CASE calls[c].pc = "apply" /\ BatchLands(c, o)
  <2>1. o \in Orders /\ grants[o.fp] \in GrantRow /\ calls[c].prev \in GrantRow
    BY <1>2, ApplyStep, BatchWrites
  <2>2. Lands(o, grants[o.fp]) /\ grants' = [grants EXCEPT ![o.fp] = w]
    BY <1>2 DEF BatchLands
  <2>3. w.floor = o.at /\ w.status # "none"
    BY <2>1, <2>2, WrittenRow
  <2> HIDE DEF w
  <2>4. CASE f # o.fp
    BY <2>2, <2>4 DEF OrdersTyped
  <2>5. CASE f = o.fp
    <3>1. grants'[f] = w
      BY <2>2, <2>5 DEF OrdersTyped
    <3>2. Before(grants[f].floor, o.at) /\ grants[f].floor \in Ranks /\ o.at \in Ranks
      BY <2>1, <2>2, <2>5, OrderFields DEF Lands, GrantRow
    <3>3. \A at \in Ranks : ~Before(grants[f].floor, at) => ~Before(o.at, at)
      BY <3>2, BeforeOrders
    <3> QED BY <2>3, <3>1, <3>3
  <2> QED BY <2>4, <2>5
<1>3. calls[c].pc # "apply" => UNCHANGED grants
  BY OthersLeaveGrants
<1>4. calls[c].pc = "apply" => UNCHANGED grants \/ BatchLands(c, o)
  BY ApplyStep, BatchWrites DEF BatchAborts, BatchMisses
<1> QED BY <1>1, <1>2, <1>3, <1>4

\* Orders land once they are recorded, and never stop having landed; the audit
\* row comes with the mark (buildApplyBatch).
LEMMA LandedGrows ==
  ASSUME OrdersTyped, Known, NEW c \in Calls, Step(c), NEW e \in EventIds
  PROVE  /\ Landed(e) => Landed(e)'
         /\ Landed(e)' => \/ Landed(e)
                          \/ /\ events[e].status \in Admissible
                             /\ ~Passed(events[e].order)
         /\ e \in audit => e \in audit'
         /\ e \in audit' => e \in audit \/ (events'[e] # events[e] /\ events'[e].status = "processed" /\ Landed(e)')
<1> DEFINE o == calls[c].order
<1>1. CASE UNCHANGED <<landed, audit>>
  BY <1>1 DEF Landed
<1>2. CASE calls[c].pc = "apply" /\ BatchLands(c, o)
  <2>1. o \in Orders /\ o.id \in EventIds
    BY <1>2, ApplyStep, BatchWrites, OrderFields
  <2>2. Landed(e)' <=> Landed(e) \/ e = o.id
    BY <1>2, <2>1, LandingLands DEF BatchLands
  <2>3. events[o.id].order = o /\ events[o.id].status \in Admissible /\ ~Passed(o)
    BY <1>2, <2>1, LandingIsNew DEF BatchLands
  <2>4. CASE UNCHANGED <<audit, events>>
    BY <2>2, <2>3, <2>4
  <2>5. CASE /\ events[o.id].status = "accepted"
             /\ audit' = audit \cup {o.id}
             /\ events' = [events EXCEPT ![o.id] = [status |-> "processed", order |-> events[o.id].order, code |-> "cached"]]
    <3>1. events'[o.id].status = "processed"
      BY <2>1, <2>5 DEF OrdersTyped
    <3> QED BY <2>2, <2>3, <2>5, <3>1
  <2> QED BY <1>2, <2>4, <2>5 DEF BatchLands
<1>3. calls[c].pc # "apply" => UNCHANGED <<landed, audit>>
  BY OthersLeaveGrants
<1>4. calls[c].pc = "apply" => UNCHANGED <<landed, audit>> \/ BatchLands(c, o)
  BY ApplyStep, BatchWrites DEF BatchAborts, BatchMisses
<1> QED BY <1>1, <1>2, <1>3, <1>4

\* No step of the system takes anything back.
LEMMA NextGrows ==
  ASSUME OrdersTyped, Known, [Next]_vars
  PROVE  Grows
<1>1. ASSUME NEW c \in Calls, Step(c) PROVE Grows
  BY <1>1, SubsGrow, EventsGrow, GrantsGrow, LandedGrows DEF Grows
<1>2. CASE UNCHANGED <<subs, events, grants, audit, landed>>
  BY <1>2 DEF Grows, Landed
<1>3. ASSUME NEW f \in Fingerprints, Administer(f) PROVE Grows
  <2>1. /\ \E row \in GrantRow : /\ grants' = [grants EXCEPT ![f] = row]
                                 /\ row.status # "none" /\ row.floor = grants[f].floor
        /\ UNCHANGED <<subs, events, audit, landed>>
    BY <1>3, AdministerWrites
  <2>2. \A g \in Fingerprints : grants'[g].floor = grants[g].floor
                                /\ (grants[g].status # "none" => grants'[g].status # "none")
    BY <2>1 DEF OrdersTyped
  <2> QED BY <2>1, <2>2 DEF Grows, Landed
<1>4. (\E c \in Calls, o \in Orders : Receive(c, o)) \/ (\E c \in Calls : Crash(c))
        => UNCHANGED <<subs, events, grants, audit, landed>>
  BY DEF Receive, Crash, tables
<1> QED BY <1>1, <1>2, <1>3, <1>4, NextCases

-----------------------------------------------------------------------------
\* What a call may rely on stays so while others step.
LEMMA CallStays ==
  ASSUME OrdersTyped, Grows, NEW r \in CallRow, r.pc # "idle" => r.order \in Orders, CallKnown(r)
  PROVE  CallKnown(r)'
<1> DEFINE o == r.order
<1>1. CASE r.pc \notin Admitted
  <2>1. r.pc # "apply" /\ r.pc # "reject" /\ r.pc # "finalize"
    BY <1>1 DEF Admitted
  <2> QED BY <1>1, <2>1 DEF CallKnown
<1>2. CASE r.pc \in Admitted
  <2>1. o.id \in EventIds /\ o.fp \in Fingerprints /\ o.at \in Ranks
    BY <1>2, OrderFields DEF Admitted
  <2>2. events[o.id].order = o /\ events[o.id].status \in Admissible
    BY <1>2 DEF CallKnown
  <2>3. events'[o.id].order = o /\ events'[o.id].status \in Admissible
    BY <2>1, <2>2 DEF Grows, Admissible
  <2>4. grants[o.fp].status # "none" => grants'[o.fp].status # "none"
    BY <2>1 DEF Grows
  <2>5. Passed(o) => Passed(o)'
    BY <2>1 DEF Grows, Passed
  <2>6. r.pc = "finalize" => FinalKnown(o, r.code)'
    <3> SUFFICES ASSUME FinalKnown(o, r.code) PROVE FinalKnown(o, r.code)'
      BY DEF CallKnown
    <3>1. events'[o.id].status = "processed"
      BY <2>1 DEF Grows, FinalKnown, Terminal
    <3>2. Landed(o.id) /\ o.id \in audit => Landed(o.id)' /\ o.id \in audit'
      BY <2>1 DEF Grows
    <3>3. Passed(o) /\ ~Landed(o.id) => ~Landed(o.id)'
      BY <2>1, <2>2, Zenon DEF Grows
    <3> QED BY <2>5, <3>1, <3>2, <3>3 DEF FinalKnown
  <2> QED BY <2>3, <2>4, <2>6 DEF CallKnown
<1> QED BY <1>1, <1>2

\* What an event row says stays true while the row stays.
LEMMA EventStays ==
  ASSUME OrdersTyped, Grows, NEW e \in EventIds, NEW r \in EventRow, events[e] = r, events'[e] = r, EventKnown(e, r)
  PROVE  EventKnown(e, r)'
<1>1. r.status # "none" => r.order \in Orders /\ r.order.id = e /\ r.order.sub \in Subscriptions
                           /\ r.order.fp \in Fingerprints /\ r.order.at \in Ranks /\ r.order.fp # None
  BY OrderFields, OrdersAssumption DEF EventKnown
<1>2. r.status \in Admissible =>
        subs'[r.order.sub].fp = r.order.fp /\ ~Before(subs'[r.order.sub].cursor, r.order.at)
  BY <1>1 DEF EventKnown, Grows, Admissible
<1>3. r.code = "applied" => Landed(e)' /\ e \in audit'
  BY DEF EventKnown, Grows
<1>4. r.code = "superseded" => Passed(r.order)' /\ ~Landed(e)'
  <2> SUFFICES ASSUME r.code = "superseded" PROVE Passed(r.order)' /\ ~Landed(e)'
    OBVIOUS
  <2>1. Passed(r.order) /\ ~Landed(e) /\ r.status = "processed"
    BY DEF EventKnown, Ends
  <2>2. Passed(r.order)'
    BY <1>1, <2>1 DEF Passed, Grows
  <2> QED BY <2>1, <2>2, Zenon DEF Grows
<1>5. e \in audit' => Landed(e)' /\ r.status = "processed"
  BY DEF EventKnown, Grows
<1> QED BY <1>1, <1>2, <1>3, <1>4, <1>5 DEF EventKnown

\* What an entry of the history says stays true.
LEMMA EntryStays ==
  ASSUME OrdersTyped, Grows, NEW f \in Fingerprints, NEW x \in [id: EventIds, at: Ranks], EntryKnown(f, x)
  PROVE  EntryKnown(f, x)'
<1>1. x.id \in EventIds /\ x.at \in Ranks
  OBVIOUS
<1> QED BY <1>1 DEF EntryKnown, Grows, Terminal

\* The steps after which a call relies on more than it did before.
LEMMA CallMoves ==
  ASSUME OrdersTyped, Known, Grows, NEW c \in Calls, Step(c),
         NEW r, r = calls[c], NEW q, q = calls'[c], NEW o, o = r.order
  PROVE  CallKnown(q)'
<1>0. /\ r \in CallRow /\ r.pc # "idle" /\ o \in Orders /\ calls \in [Calls -> CallRow] /\ CallKnown(r)
      /\ o.id \in EventIds /\ o.fp \in Fingerprints /\ events[o.id] \in EventRow /\ events \in [EventIds -> EventRow]
  BY StepMoves, OrderFields DEF OrdersTyped, Known, CallsKnown
<1>1. q.pc \notin Admitted => CallKnown(q)'
  BY DEF CallKnown, Admitted
<1>2. CallKnown(r)'
  BY <1>0, CallStays
<1>3. ASSUME Answer(c) PROVE q.pc \notin Admitted
  BY <1>0, <1>3 DEF Answer, Idle, Admitted
<1>4. ASSUME NEW pc, Goto(c, pc) PROVE q.pc = pc /\ q.order = o /\ q.code = r.code
  BY <1>0, <1>4 DEF Goto, CallRow
<1>5. ASSUME NEW pc, NEW code, calls' = [calls EXCEPT ![c].pc = pc, ![c].code = code]
      PROVE  q.pc = pc /\ q.order = o /\ q.code = code
  BY <1>0, <1>5 DEF CallRow
<1>6. ASSUME q.order = o, q.pc \in {"auxiliary", "read", "endForeign", "endRevoked", "endMissing"},
             events'[o.id].order = o, events'[o.id].status \in Admissible
      PROVE  CallKnown(q)'
  BY <1>6 DEF CallKnown
<1>7. r.pc \in Admitted => events'[o.id].order = o /\ events'[o.id].status \in Admissible
  BY <1>2 DEF CallKnown
<1>8. CASE Dedup(c)
  <2>1. CASE Replay(c, o)
    <3>1. (events[o.id].order = o /\ events[o.id].status = "accepted" /\ Goto(c, "auxiliary")) \/ Answer(c)
      BY <2>1 DEF Replay
    <3>2. events[o.id].order = o /\ events[o.id].status = "accepted"
            => events'[o.id].order = o /\ events'[o.id].status \in Admissible
      BY <1>0 DEF Grows, Admissible
    <3> QED BY <1>1, <1>3, <1>4, <1>6, <3>1, <3>2
  <2>2. CASE Answer(c) \/ Goto(c, "gate")
    BY <1>1, <1>3, <1>4, <2>2 DEF Admitted
  <2> QED BY <1>8, <2>1, <2>2 DEF Dedup
<1>9. CASE Gate(c)
  <2>1. Answer(c) \/ Goto(c, "establish")
    BY <1>9 DEF Gate
  <2> QED BY <1>1, <1>3, <1>4, <2>1 DEF Admitted
<1>10. CASE Establish(c)
  <2>1. Answer(c) \/ Goto(c, "accept")
    BY <1>10, Zenon DEF Establish
  <2> QED BY <1>1, <1>3, <1>4, <2>1 DEF Admitted
<1>11. CASE Accept(c)
  <2>1. \/ Answer(c)
        \/ Goto(c, "failed")
        \/ Goto(c, "auxiliary") /\ events' = [events EXCEPT ![o.id] = [status |-> "accepted", order |-> o, code |-> ""]]
    BY <1>11, Zenon DEF Accept
  <2>2. CASE Goto(c, "auxiliary") /\ events' = [events EXCEPT ![o.id] = [status |-> "accepted", order |-> o, code |-> ""]]
    <3>1. events'[o.id].order = o /\ events'[o.id].status \in Admissible
      BY <1>0, <2>2 DEF Admissible
    <3> QED BY <1>4, <1>6, <2>2, <3>1
  <2>3. CASE Answer(c) \/ Goto(c, "failed")
    BY <1>1, <1>3, <1>4, <2>3 DEF Admitted
  <2> QED BY <2>1, <2>2, <2>3, Zenon
<1>12. CASE FailedAccept(c)
  <2>1. CASE Replay(c, o)
    <3>1. (events[o.id].order = o /\ events[o.id].status = "accepted" /\ Goto(c, "auxiliary")) \/ Answer(c)
      BY <2>1 DEF Replay
    <3>2. events[o.id].order = o /\ events[o.id].status = "accepted"
            => events'[o.id].order = o /\ events'[o.id].status \in Admissible
      BY <1>0 DEF Grows, Admissible
    <3> QED BY <1>1, <1>3, <1>4, <1>6, <3>1, <3>2
  <2>2. CASE Answer(c) \/ Goto(c, "stale")
    BY <1>1, <1>3, <1>4, <2>2 DEF Admitted
  <2> QED BY <1>12, <2>1, <2>2 DEF FailedAccept
<1>13. CASE Auxiliary(c)
  <2>1. r.pc \in Admitted
    BY <1>13 DEF Auxiliary, At, Admitted
  <2>2. \/ Goto(c, "read")
        \/ calls' = [calls EXCEPT ![c].pc = "reject", ![c].code = "customer_email_conflict"]
        \/ calls' = [calls EXCEPT ![c].pc = "reject", ![c].code = "invalid_order"]
    BY <1>13, Zenon DEF Auxiliary
  <2>3. CASE Goto(c, "read")
    BY <1>4, <1>6, <1>7, <2>1, <2>3
  <2>4. ASSUME NEW code \in Refusals, calls' = [calls EXCEPT ![c].pc = "reject", ![c].code = code]
        PROVE  CallKnown(q)'
    <3>1. q.pc = "reject" /\ q.order = o /\ q.code = code
      BY <1>5, <2>4, Zenon
    <3> QED BY <1>7, <2>1, <2>4, <3>1 DEF CallKnown
  <2> QED BY <2>2, <2>3, <2>4 DEF Refusals
<1>14. CASE ReadGrant(c)
  <2> DEFINE route == Route(o, grants[o.fp])
             p == IF route = "apply" THEN grants[o.fp] ELSE r.prev
  <2>1. r.pc \in Admitted /\ calls' = [calls EXCEPT ![c].pc = route, ![c].prev = p] /\ UNCHANGED grants
    BY <1>14 DEF ReadGrant, At, Admitted, tables
  <2>2. route \in {"endForeign", "endRevoked", "endMissing", "apply"}
        /\ (route = "apply" => grants[o.fp].status # "none" \/ o.intent \in Creates)
    BY DEF Route
  <2> HIDE DEF route, p
  <2>3. q.pc = route /\ q.order = o
    BY <1>0, <2>1 DEF CallRow
  <2>4. CASE route = "apply"
    BY <1>7, <2>1, <2>2, <2>3, <2>4 DEF CallKnown
  <2> QED BY <1>6, <1>7, <2>1, <2>2, <2>3, <2>4
<1>15. CASE ClaimStale(c) \/ Reject(c) \/ EndRefused(c) \/ EndMissing(c) \/ Finalize(c)
  <2>1. Answer(c)
    BY <1>15, Zenon DEF ClaimStale, Reject, EndRefused, EndMissing, Finalize
  <2> QED BY <1>1, <1>3, <2>1
<1>16. CASE ApplyBatch(c)
  <2>1. r.pc = "apply" /\ r.pc \in Admitted /\ (BatchAborts(c) \/ BatchLands(c, o) \/ BatchMisses(c, o))
    BY <1>16, BatchWrites DEF Admitted
  <2>2. CASE Answer(c)
    BY <1>1, <1>3, <2>2
  <2>3. CASE BatchAborts(c)
    <3>1. q.pc = "reject" /\ q.order = o /\ q.code \in Refusals
      BY <1>5, <2>3 DEF BatchAborts, Refusals
    <3> QED BY <1>7, <2>1, <3>1 DEF CallKnown
  <2> DEFINE row == [status |-> "processed", order |-> events[o.id].order, code |-> "cached"]
  <2>4. events' = [events EXCEPT ![o.id] = row] => events'[o.id].status = "processed"
    BY <1>0
  <2>5. CASE /\ BatchLands(c, o) /\ audit' = audit \cup {o.id} /\ events' = [events EXCEPT ![o.id] = row]
             /\ calls' = [calls EXCEPT ![c].pc = "finalize", ![c].code = "applied"]
    <3>1. Landed(o.id)'
      BY <1>0, <2>5, LandingLands DEF BatchLands
    <3>2. FinalKnown(o, "applied")'
      BY <2>4, <2>5, <3>1 DEF FinalKnown, Ends
    <3>3. q.pc = "finalize" /\ q.order = o /\ q.code = "applied"
      BY <1>5, <2>5, Zenon
    <3> QED BY <1>7, <2>1, <3>2, <3>3 DEF CallKnown
  <2>6. CASE /\ BatchMisses(c, o) /\ MarkOf(o, grants[o.fp]).status = "processed"
             /\ events[o.id].status = "accepted" /\ events' = [events EXCEPT ![o.id] = row]
             /\ calls' = [calls EXCEPT ![c].pc = "finalize", ![c].code = "superseded"]
    <3>1. Passed(o) /\ UNCHANGED <<grants, landed>>
      <4>1. ~Lands(o, grants[o.fp]) /\ UNCHANGED <<grants, landed>>
        BY <2>6 DEF BatchMisses
      <4>2. grants[o.fp].status # "none" \/ o.intent \in Creates
        BY <1>0, <2>1 DEF CallKnown
      <4>3. /\ grants[o.fp].status # "none" => grants[o.fp].owner = o.customer
            /\ grants[o.fp].status = "revoked" => o.intent = "revoked"
        BY <1>0, <2>6, MarkKinds DEF OrdersTyped
      <4> QED BY <4>1, <4>2, <4>3 DEF Lands, Passed
    <3>2. ~Landed(o.id)
      BY <1>0, <2>6, LandedIsPassed
    <3>3. FinalKnown(o, "superseded")'
      BY <2>4, <2>6, <3>1, <3>2 DEF FinalKnown, Ends, Passed, Landed
    <3>4. q.pc = "finalize" /\ q.order = o /\ q.code = "superseded"
      <4>1. calls' = [calls EXCEPT ![c].pc = "finalize", ![c].code = "superseded"]
        BY <2>6
      <4> QED BY <1>5, <4>1, Zenon
    <3> QED BY <1>7, <2>1, <3>3, <3>4 DEF CallKnown
  <2> QED BY <2>1, <2>2, <2>3, <2>5, <2>6 DEF BatchLands, BatchMisses
<1> QED BY <1>8, <1>9, <1>10, <1>11, <1>12, <1>13, <1>14, <1>15, <1>16, Zenon DEF Step

\* The row that a step writes for an event says what is so (order_events).
LEMMA EventMoves ==
  ASSUME OrdersTyped, Known, Grows, NEW c \in Calls, Step(c), NEW o \in Orders, o = calls[c].order,
         NEW row \in EventRow, events' = [events EXCEPT ![o.id] = row], EventWritten(c, o, events[o.id], row)
  PROVE  EventKnown(o.id, row)'
<1> DEFINE v == events[o.id]
           Placed(r) == subs'[r.order.sub].fp = r.order.fp /\ ~Before(subs'[r.order.sub].cursor, r.order.at)
<1>0. /\ o.id \in EventIds /\ o.at \in Ranks /\ v \in EventRow /\ EventKnown(o.id, v) /\ CallKnown(calls[c])
      /\ events'[o.id] = row
  BY OrderFields DEF OrdersTyped, Known, EventsKnown, CallsKnown
<1>1. v.status \in Admissible => v.order \in Orders /\ v.order.id = o.id /\ Placed(v)
  <2> SUFFICES ASSUME v.status \in Admissible PROVE v.order \in Orders /\ v.order.id = o.id /\ Placed(v)
    OBVIOUS
  <2>1. /\ v.order \in Orders /\ v.order.id = o.id /\ v.order.sub \in Subscriptions /\ v.order.at \in Ranks
        /\ v.order.fp \in Fingerprints /\ v.order.fp # None
    BY <1>0, OrderFields, OrdersAssumption DEF EventKnown, Admissible
  <2> QED BY <1>0, <2>1 DEF EventKnown, Grows
<1>2. o.id \in audit' => \/ v.status = "processed" /\ Landed(o.id)'
                         \/ row.status = "processed" /\ Landed(o.id)'
  BY <1>0 DEF Grows, EventKnown
<1>3. v.code = "superseded" => v.status = "processed"
  BY <1>0 DEF EventKnown, Ends
<1> HIDE DEF v, Placed
<1>4. CASE Accepts(c, o, v, row)
  <2>1. row = [status |-> "accepted", order |-> o, code |-> ""] /\ v.status = "none"
    BY <1>4 DEF Accepts
  <2>2. subs'[o.sub].fp = o.fp /\ ~Before(subs'[o.sub].cursor, o.at)
    BY <1>0, <1>4, BeforeOrders DEF Accepts
  <2>3. o.id \notin audit'
    BY <1>2, <2>1
  <2> QED BY <2>1, <2>2, <2>3 DEF EventKnown, Admissible, Ends
<1>5. CASE GoesStale(c, o, v, row)
  <2>1. row = [status |-> "superseded", order |-> o, code |-> "stale_ignored"] /\ v.status = "none"
    BY <1>5 DEF GoesStale
  <2>2. o.id \notin audit'
    BY <1>2, <2>1
  <2> QED BY <2>1, <2>2 DEF EventKnown, Admissible, Ends
<1>6. CASE IsRefused(c, o, v, row)
  <2>1. v.status = "accepted" /\ row.status = "rejected" /\ row.order = v.order
    BY <1>6 DEF IsRefused
  <2>2. row.code \in Refusals \cup {"entitlement_owner_mismatch", "entitlement_revoked"}
    BY <1>0, <1>6 DEF IsRefused, CallKnown
  <2>3. o.id \notin audit'
    BY <1>2, <2>1
  <2> QED BY <1>1, <2>1, <2>2, <2>3 DEF EventKnown, Admissible, Ends, Refusals, Placed
<1>7. CASE LacksGrant(c, o, v, row) \/ IsCached(c, o, v, row)
  <2>1. /\ v.status = "accepted" /\ row.status = "processed" /\ row.order = v.order
        /\ row.code \in {"no_entitlement", "cached"}
    BY <1>7 DEF LacksGrant, IsCached
  <2> QED BY <1>1, <1>2, <2>1 DEF EventKnown, Admissible, Ends, Placed
<1>8. CASE IsFinal(c, o, v, row)
  <2>1. v.status = "processed" /\ row.status = "processed" /\ row.order = v.order /\ row.code = calls[c].code
        /\ calls[c].pc = "finalize"
    BY <1>8 DEF IsFinal
  <2>2. FinalKnown(o, row.code) /\ v.order = o
    BY <1>0, <2>1 DEF CallKnown, Admitted, v
  <2>3. UNCHANGED <<grants, landed, audit>>
    BY <2>1, OthersLeaveGrants
  <2>4. /\ row.code \in Ends
        /\ row.code = "applied" => Landed(o.id)' /\ o.id \in audit'
        /\ row.code = "superseded" => Passed(row.order)' /\ ~Landed(o.id)'
    BY <2>1, <2>2, <2>3 DEF FinalKnown, Passed, Landed
  <2> QED BY <1>1, <1>2, <2>1, <2>4 DEF EventKnown, Admissible, Ends, Placed
<1> QED BY <1>4, <1>5, <1>6, <1>7, <1>8 DEF EventWritten, v

\* The entry that a landing adds to the history says what is so.
LEMMA EntryMoves ==
  ASSUME OrdersTyped, Known, Grows, NEW c \in Calls, Step(c), NEW o \in Orders, o = calls[c].order,
         calls[c].pc = "apply", BatchLands(c, o)
  PROVE  EntryKnown(o.fp, [id |-> o.id, at |-> o.at])'
<1>1. o.id \in EventIds /\ o.at \in Ranks /\ o.fp \in Fingerprints
  BY OrderFields
<1>2. grants[o.fp] \in GrantRow /\ calls[c].prev \in GrantRow /\ Lands(o, grants[o.fp])
  BY <1>1 DEF OrdersTyped, CallRow, BatchLands
<1>3. grants'[o.fp].status # "none" /\ grants'[o.fp].floor = o.at
  BY <1>1, <1>2, WrittenRow DEF BatchLands, OrdersTyped
<1>4. ~Before(o.at, o.at)
  BY <1>1, BeforeOrders
<1>5. events[o.id].order = o /\ events[o.id].status \in Admissible
  BY <1>2, LandingIsNew
<1>6. events'[o.id].order = o /\ events'[o.id].status \in {"processed", "rejected"}
  <2>1. CASE events[o.id].status = "accepted"
    <3>1. events' = [events EXCEPT ![o.id] = [status |-> "processed", order |-> events[o.id].order, code |-> "cached"]]
      BY <2>1 DEF BatchLands
    <3> QED BY <1>1, <1>5, <3>1 DEF OrdersTyped
  <2>2. CASE events[o.id].status # "accepted"
    BY <1>5, <2>2 DEF BatchLands, Admissible
  <2> QED BY <2>1, <2>2
<1> QED BY <1>3, <1>4, <1>6 DEF EntryKnown

\* What holds of a row held under a name holds of the row in its table.
LEMMA CallNamed ==
  ASSUME NEW c \in Calls, NEW r, r = calls'[c], CallKnown(r)'
  PROVE  CallKnown(calls[c])'
BY DEF CallKnown, FinalKnown, Landed, Passed

\* The same of an event.
LEMMA EventNamed ==
  ASSUME NEW e \in EventIds, NEW r, r = events'[e], EventKnown(e, r)'
  PROVE  EventKnown(e, events[e])'
BY DEF EventKnown, Landed, Passed

\* The same of an entry of the history.
LEMMA EntryNamed ==
  ASSUME NEW f \in Fingerprints, NEW i \in Nat, NEW x, x = landed'[f][i], EntryKnown(f, x)'
  PROVE  EntryKnown(f, landed[f][i])'
BY DEF EntryKnown

\* What is known of calls, events and the history is known after every step.
LEMMA KnownKept ==
  ASSUME OrdersTyped, Known, [Next]_vars, OrdersTyped'
  PROVE  Known'
<1> DEFINE R == [id: EventIds, at: Ranks]
<1>0. Grows /\ CallsKnown /\ EventsKnown /\ LandedKnown
  BY NextGrows DEF Known
<1>1. ASSUME NEW d \in Calls, calls'[d] = calls[d] PROVE CallKnown(calls[d])'
  <2>1. PICK r \in CallRow : r = calls[d] /\ (r.pc # "idle" => r.order \in Orders) /\ CallKnown(r)
    BY <1>0 DEF OrdersTyped, CallsKnown
  <2>2. CallKnown(r)'
    BY <1>0, <2>1, CallStays
  <2> QED BY <1>1, <2>1, <2>2, CallNamed
<1>2. ASSUME NEW d \in Calls, calls'[d].pc \notin Admitted PROVE CallKnown(calls[d])'
  BY <1>2 DEF CallKnown, Admitted
<1>3. ASSUME NEW e \in EventIds, events'[e] = events[e] PROVE EventKnown(e, events[e])'
  <2>1. PICK r \in EventRow : r = events[e] /\ EventKnown(e, r)
    BY <1>0 DEF OrdersTyped, EventsKnown
  <2>2. EventKnown(e, r)'
    BY <1>0, <1>3, <2>1, EventStays
  <2> QED BY <1>3, <2>1, <2>2, EventNamed
<1>4. ASSUME NEW f \in Fingerprints, NEW i \in 1..Len(landed[f]), landed'[f][i] = landed[f][i]
      PROVE  EntryKnown(f, landed[f][i])'
  <2>1. landed[f] \in Seq(R)
    BY DEF OrdersTyped
  <2> HIDE DEF R
  <2>2. PICK x \in R : x = landed[f][i] /\ EntryKnown(f, x)
    BY <1>0, <2>1 DEF LandedKnown
  <2>3. EntryKnown(f, x)'
    BY <1>0, <2>2, EntryStays DEF R
  <2> QED BY <1>4, <2>2, <2>3, EntryNamed
<1>5. UNCHANGED landed => LandedKnown'
  BY <1>4 DEF LandedKnown
<1>6. ASSUME NEW c \in Calls, Step(c) PROVE Known'
  <2>1. PICK o : o = calls[c].order
    OBVIOUS
  <2>2. CallsKnown'
    <3>1. CallKnown(calls[c])'
      <4>1. PICK r, q : r = calls[c] /\ q = calls'[c]
        OBVIOUS
      <4>2. CallKnown(q)'
        BY <1>0, <1>6, <2>1, <4>1, CallMoves
      <4> QED BY <4>1, <4>2, CallNamed
    <3>2. \A d \in Calls \ {c} : calls'[d] = calls[d]
      BY <1>6, StepMoves DEF OrdersTyped
    <3> QED BY <1>1, <3>1, <3>2 DEF CallsKnown
  <2>3. EventsKnown'
    <3>1. CASE UNCHANGED events
      BY <1>3, <3>1 DEF EventsKnown
    <3>2. ASSUME o \in Orders, NEW row \in EventRow, events' = [events EXCEPT ![o.id] = row],
                 EventWritten(c, o, events[o.id], row)
          PROVE  EventsKnown'
      <4>1. EventKnown(o.id, row)'
        BY <1>0, <1>6, <2>1, <3>2, EventMoves
      <4>2. o.id \in EventIds /\ events'[o.id] = row /\ \A e \in EventIds \ {o.id} : events'[e] = events[e]
        BY <3>2, OrderFields DEF OrdersTyped
      <4>3. EventKnown(o.id, events[o.id])'
        BY <4>1, <4>2, EventNamed
      <4> QED BY <1>3, <4>2, <4>3 DEF EventsKnown
    <3> QED BY <1>6, <2>1, <3>1, <3>2, EventWrites
  <2>4. LandedKnown'
    <3>1. CASE calls[c].pc = "apply" /\ BatchLands(c, o)
      <4>1. o \in Orders /\ o.fp \in Fingerprints
        BY <1>6, <2>1, <3>1, ApplyStep, BatchWrites, OrderFields
      <4> DEFINE n == Len(landed[o.fp])
      <4>2. /\ \A f \in Fingerprints \ {o.fp} : landed'[f] = landed[f]
            /\ n \in Nat /\ Len(landed'[o.fp]) = n + 1
            /\ \A i \in 1..n : landed'[o.fp][i] = landed[o.fp][i]
            /\ landed'[o.fp][n + 1] = [id |-> o.id, at |-> o.at]
        BY <3>1, <4>1, LandingAppends DEF BatchLands
      <4>3. ASSUME NEW i, i = n + 1 PROVE EntryKnown(o.fp, landed[o.fp][i])'
        <5>1. EntryKnown(o.fp, [id |-> o.id, at |-> o.at])'
          BY <1>0, <1>6, <2>1, <3>1, <4>1, EntryMoves
        <5>2. i \in Nat /\ landed'[o.fp][i] = [id |-> o.id, at |-> o.at]
          BY <4>2, <4>3
        <5> QED BY <4>1, <5>1, <5>2, EntryNamed
      <4>4. ASSUME NEW f \in Fingerprints, NEW i \in 1..Len(landed'[f]) PROVE EntryKnown(f, landed[f][i])'
        <5>1. CASE f = o.fp /\ i = n + 1
          BY <4>3, <5>1
        <5>2. CASE ~(f = o.fp /\ i = n + 1)
          <6>1. i \in 1..Len(landed[f]) /\ landed'[f][i] = landed[f][i]
            BY <4>1, <4>2, <4>4, <5>2
          <6> QED BY <1>4, <6>1
        <5> QED BY <5>1, <5>2
      <4> QED BY <4>4 DEF LandedKnown
    <3>2. UNCHANGED landed \/ (calls[c].pc = "apply" /\ BatchLands(c, o))
      BY <1>6, <2>1, OthersLeaveGrants, ApplyStep, BatchWrites DEF BatchAborts, BatchMisses
    <3> QED BY <1>5, <3>1, <3>2
  <2> QED BY <2>2, <2>3, <2>4 DEF Known
<1>7. ASSUME UNCHANGED <<events, landed>>, NEW c \in Calls, calls'[c].pc \notin Admitted,
             \A d \in Calls \ {c} : calls'[d] = calls[d]
      PROVE  Known'
  BY <1>1, <1>2, <1>3, <1>5, <1>7 DEF Known, CallsKnown, EventsKnown
<1>8. ASSUME NEW c \in Calls, NEW o \in Orders, Receive(c, o) PROVE Known'
  <2>1. UNCHANGED <<events, landed>> /\ calls'[c].pc = "dedup" /\ \A d \in Calls \ {c} : calls'[d] = calls[d]
    BY <1>8 DEF Receive, tables, OrdersTyped, CallRow
  <2> QED BY <1>7, <2>1 DEF Admitted
<1>9. ASSUME NEW c \in Calls, Crash(c) PROVE Known'
  <2>1. UNCHANGED <<events, landed>> /\ calls'[c].pc = "idle" /\ \A d \in Calls \ {c} : calls'[d] = calls[d]
    BY <1>9 DEF Crash, Answer, Idle, tables, OrdersTyped
  <2> QED BY <1>7, <2>1 DEF Admitted
<1>10. ASSUME UNCHANGED <<events, landed, calls>> PROVE Known'
  BY <1>1, <1>3, <1>5, <1>10 DEF Known, CallsKnown, EventsKnown
<1> QED BY <1>6, <1>8, <1>9, <1>10, NextCases, AdministerWrites

\* What is known of calls, events and the history: what the whole of order
\* ingest rests on (establishOrderIdentity, buildAcceptBatch, buildApplyBatch).
LEMMA KnownHolds == Spec => []Known
<1>1. Init => Known
  <2> SUFFICES ASSUME Init PROVE Known
    OBVIOUS
  <2>1. CallsKnown
    BY DEF Init, CallsKnown, CallKnown, Idle, Admitted
  <2>2. EventsKnown
    BY DEF Init, EventsKnown, EventKnown, NoEvent, Admissible, Ends
  <2>3. LandedKnown
    <3>1. \A f \in Fingerprints : Len(landed[f]) = 0
      BY DEF Init
    <3> QED BY <3>1 DEF LandedKnown
  <2> QED BY <2>1, <2>2, <2>3 DEF Known
<1>2. OrdersTyped /\ Known /\ [Next]_vars /\ OrdersTyped' => Known'
  BY KnownKept
<1> QED BY <1>1, <1>2, TypeCorrect, PTL DEF Spec

-----------------------------------------------------------------------------
\* The stored result of an event is what its order did (runExactlyOnce).
THEOREM StoredResultTrueHolds == Spec => []StoredResultTrue
<1>1. OrdersTyped /\ Known => StoredResultTrue
  <2> SUFFICES ASSUME OrdersTyped, Known, NEW e \in EventIds
               PROVE  /\ events[e].code = "applied" => Landed(e) /\ e \in audit
                      /\ events[e].code \in {"superseded", "stale_ignored"} => ~Landed(e)
                      /\ e \in audit => Landed(e) /\ events[e].status = "processed"
    BY DEF StoredResultTrue
  <2>1. EventKnown(e, events[e])
    BY DEF Known, EventsKnown
  <2>2. Landed(e) => events[e].status \in {"processed", "rejected"}
    BY LandedIsPassed
  <2> QED BY <2>1, <2>2 DEF EventKnown
<1> QED BY <1>1, TypeCorrect, KnownHolds, PTL

\* A landing is a step of the order book, and every other step leaves it be
\* (the exactly-once claim at the head of order_ingest.mjs).
LEMMA StepsKeepBook ==
  ASSUME OrdersTyped, Known, [Next]_vars
  PROVE  [Book!BookNext]_landed
<1>1. ASSUME NEW c \in Calls, Step(c) PROVE [Book!BookNext]_landed
  <2>1. PICK o : o = calls[c].order
    OBVIOUS
  <2>2. UNCHANGED landed \/ (calls[c].pc = "apply" /\ BatchLands(c, o))
    BY <1>1, <2>1, OthersLeaveGrants, ApplyStep, BatchWrites DEF BatchAborts, BatchMisses
  <2>3. CASE calls[c].pc = "apply" /\ BatchLands(c, o)
    <3>1. o \in Orders
      BY <1>1, <2>1, <2>3, ApplyStep, BatchWrites
    <3>2. ~Landed(o.id) /\ \A i \in 1..Len(landed[o.fp]) : Before(landed[o.fp][i].at, o.at)
      BY <2>1, <2>3, <3>1, LandingIsNew DEF BatchLands
    <3>3. ~Book!Taken(o.id)
      BY <3>2 DEF Book!Taken, Landed
    <3>4. \A i \in 1..Len(landed[o.fp]) : Book!Before(landed[o.fp][i].at, o.at)
      BY <3>2 DEF Book!Before, Before
    <3>5. landed' = [landed EXCEPT ![o.fp] = Append(@, Book!Entry(o))]
      BY <2>3 DEF BatchLands, Book!Entry
    <3> QED BY <3>1, <3>3, <3>4, <3>5 DEF Book!BookNext, Book!TakeEffect
  <2> QED BY <2>2, <2>3
<1>2. UNCHANGED landed \/ \E c \in Calls : Step(c)
  BY NextCases, AdministerWrites DEF Receive, Crash, tables
<1> QED BY <1>1, <1>2

\* Order ingest implements the order book: whatever is sent twice, out of
\* order, in parallel or stopped half way, an order takes effect on a grant at
\* most once and never over a newer one.
THEOREM ImplementsOrderBookHolds == Spec => ImplementsOrderBook
<1>1. Init => Book!BookInit
  BY DEF Init, Book!BookInit
<1>2. OrdersTyped /\ Known /\ [Next]_vars => [Book!BookNext]_landed
  BY StepsKeepBook
<1> QED BY <1>1, <1>2, TypeCorrect, KnownHolds, PTL DEF Spec, ImplementsOrderBook, Book!BookSpec

-----------------------------------------------------------------------------
\* The call whose batch lands holds the grant's customer, and revokes what is revoked.
LEMMA LandingRespects ==
  ASSUME OrdersTyped, [Next]_vars, NEW f \in Fingerprints, landed'[f] # landed[f]
  PROVE  \E c \in Calls :
           /\ At(c, "apply") /\ calls'[c] # calls[c]
           /\ grants[f].status # "none" => grants[f].owner = calls[c].order.customer
           /\ grants[f].status = "revoked" => grants'[f].status = "revoked"
<1>1. PICK c \in Calls : Step(c)
  BY NextCases, AdministerWrites DEF Receive, Crash, tables
<1>2. PICK o : o = calls[c].order
  OBVIOUS
<1>3. calls[c].pc = "apply" /\ BatchLands(c, o)
  BY <1>1, <1>2, OthersLeaveGrants, ApplyStep, BatchWrites DEF BatchAborts, BatchMisses
<1>4. o \in Orders /\ o.fp \in Fingerprints /\ grants[o.fp] \in GrantRow /\ calls[c].prev \in GrantRow
  BY <1>1, <1>2, <1>3, ApplyStep, BatchWrites, OrderFields
<1>5. f = o.fp
  BY <1>3, <1>4, LandingAppends DEF BatchLands
<1>6. Lands(o, grants[f]) /\ grants'[f] = Written(o, calls[c].prev, grants[f])
  BY <1>3, <1>4, <1>5 DEF BatchLands, OrdersTyped
<1>7. grants[f].status # "none" => grants[f].owner = o.customer
  BY <1>6 DEF Lands
<1>8. grants[f].status = "revoked" => grants'[f].status = "revoked"
  <2>1. grants[f].status = "revoked" => o.intent = "revoked"
    BY <1>6 DEF Lands
  <2> QED BY <1>4, <1>5, <1>6, <2>1, WrittenRevokes
<1>9. calls'[c].pc # "apply"
  <2>1. calls \in [Calls -> CallRow] /\ (Answer(c) => calls'[c].pc = "idle")
    BY EmptyRows DEF Answer, OrdersTyped
  <2>2. calls' = [calls EXCEPT ![c].pc = "finalize", ![c].code = "applied"] => calls'[c].pc = "finalize"
    BY <2>1 DEF CallRow
  <2> QED BY <1>3, <2>1, <2>2 DEF BatchLands
<1> QED BY <1>2, <1>3, <1>7, <1>8, <1>9 DEF At

\* An order writes a new grant or one that its own customer holds at that
\* moment, and brings no revoked one back, however long ago the gate read the
\* owner (establishOrderIdentity, buildGuardedMutation).
THEOREM OrdersRespectGrantHolds == Spec => OrdersRespectGrant
<1> DEFINE Respects ==
      \A f \in Fingerprints : landed'[f] # landed[f] =>
        \E c \in Calls :
          /\ At(c, "apply") /\ calls'[c] # calls[c]
          /\ grants[f].status # "none" => grants[f].owner = calls[c].order.customer
          /\ grants[f].status = "revoked" => grants'[f].status = "revoked"
<1>1. OrdersTyped /\ [Next]_vars => [Respects]_vars
  BY LandingRespects
<1> HIDE DEF Respects
<1>2. Spec => [][Respects]_vars
  BY <1>1, TypeCorrect, PTL DEF Spec
<1> QED BY <1>2 DEF OrdersRespectGrant, Respects

-----------------------------------------------------------------------------
\* Two orders of one subscription name one grant once both are recorded.
LEMMA SameGrant ==
  ASSUME OrdersTyped, Known, NEW e \in EventIds, NEW d \in EventIds,
         events[e].status \in Admissible, events[d].status \in Admissible,
         events[d].order.sub = events[e].order.sub
  PROVE  events[d].order.fp = events[e].order.fp
<1>1. EventKnown(e, events[e]) /\ EventKnown(d, events[d])
  BY DEF Known, EventsKnown
<1>2. subs[events[e].order.sub].fp = events[e].order.fp /\ subs[events[d].order.sub].fp = events[d].order.fp
  BY <1>1 DEF EventKnown
<1> QED BY <1>2

\* When an event ends for want of a grant, no older one of its subscription is
\* under way (terminalizeMissingEntitlementOrderEvent).
LEMMA MissingIsLast ==
  ASSUME OrdersTyped, Known, NEW c \in Calls, NEW o \in Orders, o = calls[c].order, calls[c].pc = "endMissing",
         grants[o.fp].status = "none", ~EarlierAccepted(o), events[o.id].status = "accepted",
         NEW d \in EventIds, events[d].status # "none", events[d].order.sub = o.sub, Before(events[d].order.at, o.at)
  PROVE  /\ d # o.id
         /\ events[d].status # "accepted" /\ events[d].code # "applied"
         /\ \A b \in Calls : calls[b].pc = "finalize" /\ calls[b].order.id = d => calls[b].code # "applied"
<1>1. o.id \in EventIds /\ o.at \in Ranks /\ events[o.id].order = o
  BY OrderFields DEF Known, CallsKnown, CallKnown, Admitted
<1>2. d # o.id
  BY <1>1, BeforeOrders
<1>3. events[d].status # "accepted"
  BY <1>2 DEF EarlierAccepted
<1>4. ~Landed(d)
  <2> SUFFICES ASSUME Landed(d) PROVE FALSE
    OBVIOUS
  <2>1. events[d].status \in Admissible /\ Passed(events[d].order)
    BY LandedIsPassed DEF Admissible
  <2>2. events[d].order.fp = o.fp
    BY <1>1, <2>1, SameGrant DEF Admissible
  <2> QED BY <2>1, <2>2 DEF Passed
<1>5. events[d].code # "applied"
  BY <1>4 DEF Known, EventsKnown, EventKnown
<1>6. ASSUME NEW b \in Calls, calls[b].pc = "finalize", calls[b].order.id = d PROVE calls[b].code # "applied"
  BY <1>4, <1>6 DEF Known, CallsKnown, CallKnown, FinalKnown
<1> QED BY <1>2, <1>3, <1>5, <1>6

\* An order that is recorded after an event ended for want of a grant is newer:
\* the cursor of the subscription has passed the event (buildAcceptBatch).
LEMMA AcceptedIsNewer ==
  ASSUME OrdersTyped, Known, NEW o \in Orders, CursorAdvances(o), NEW e \in EventIds,
         events[e].status \in Admissible, events[e].order.sub = o.sub
  PROVE  ~Before(o.at, events[e].order.at)
<1>1. /\ events[e].order \in Orders
      /\ ~Before(subs[o.sub].cursor, events[e].order.at)
  BY DEF Known, EventsKnown, EventKnown, Admissible
<1>2. events[e].order.at \in Ranks /\ o.at \in Ranks /\ subs[o.sub].cursor \in Ranks
  BY <1>1, OrderFields DEF OrdersTyped, SubRow
<1>3. Before(subs[o.sub].cursor, o.at)
  BY DEF CursorAdvances
<1> QED BY <1>1, <1>2, <1>3, BeforeOrders

\* A call comes to store "applied" only for an event that was accepted till then (buildApplyBatch).
LEMMA FinalComesFromAccepted ==
  ASSUME OrdersTyped, Known, NEW c \in Calls, Step(c), calls'[c].pc = "finalize"
  PROVE  calls[c].order \in Orders /\ calls'[c].order = calls[c].order
         /\ events[calls[c].order.id].status = "accepted"
<1> DEFINE r == calls[c]
<1>0. r \in CallRow /\ calls \in [Calls -> CallRow]
  BY DEF OrdersTyped
<1>1. ApplyBatch(c)
  <2>1. Answer(c) => calls'[c].pc # "finalize"
    BY <1>0, EmptyRows DEF Answer
  <2>2. \A pc : Goto(c, pc) /\ pc # "finalize" => calls'[c].pc # "finalize"
    BY <1>0 DEF Goto, CallRow
  <2>3. \A code : calls' = [calls EXCEPT ![c].pc = "reject", ![c].code = code] => calls'[c].pc # "finalize"
    BY <1>0 DEF CallRow
  <2>4. ASSUME Dedup(c) \/ FailedAccept(c) PROVE calls'[c].pc # "finalize"
    BY <2>1, <2>2, <2>4 DEF Dedup, FailedAccept, Replay
  <2>5. ASSUME Gate(c) \/ Establish(c) \/ Accept(c) PROVE calls'[c].pc # "finalize"
    <3>1. Answer(c) \/ Goto(c, "establish") \/ Goto(c, "accept") \/ Goto(c, "auxiliary") \/ Goto(c, "failed")
      BY <2>5, Zenon DEF Gate, Establish, Accept
    <3> QED BY <2>1, <2>2, <3>1
  <2>6. ASSUME Auxiliary(c) PROVE calls'[c].pc # "finalize"
    <3>1. \/ Goto(c, "read")
          \/ calls' = [calls EXCEPT ![c].pc = "reject", ![c].code = "customer_email_conflict"]
          \/ calls' = [calls EXCEPT ![c].pc = "reject", ![c].code = "invalid_order"]
      BY <2>6, Zenon DEF Auxiliary
    <3> QED BY <2>2, <2>3, <3>1
  <2>7. ASSUME ReadGrant(c) PROVE calls'[c].pc # "finalize"
    <3> DEFINE route == Route(r.order, grants[r.order.fp])
               p == IF route = "apply" THEN grants[r.order.fp] ELSE r.prev
    <3>1. calls' = [calls EXCEPT ![c].pc = route, ![c].prev = p]
      BY <2>7 DEF ReadGrant
    <3>2. route # "finalize"
      BY DEF Route
    <3> HIDE DEF route, p
    <3> QED BY <1>0, <3>1, <3>2 DEF CallRow
  <2>8. ASSUME ClaimStale(c) \/ Reject(c) \/ EndRefused(c) \/ EndMissing(c) \/ Finalize(c)
        PROVE  calls'[c].pc # "finalize"
    <3>1. Answer(c)
      BY <2>8, Zenon DEF ClaimStale, Reject, EndRefused, EndMissing, Finalize
    <3> QED BY <2>1, <3>1
  <2> QED BY <2>4, <2>5, <2>6, <2>7, <2>8, Zenon DEF Step
<1>2. PICK o : o = r.order
  OBVIOUS
<1>3. o \in Orders /\ (BatchAborts(c) \/ BatchLands(c, o) \/ BatchMisses(c, o))
  BY <1>1, <1>2, BatchWrites
<1>4. ~Answer(c) /\ ~BatchAborts(c)
  <2>1. Answer(c) => calls'[c].pc = "idle"
    BY <1>0, EmptyRows DEF Answer
  <2>2. BatchAborts(c) => calls'[c].pc = "reject"
    BY <1>0 DEF BatchAborts, CallRow
  <2> QED BY <2>1, <2>2
<1>5. events[o.id].status = "accepted"
  BY <1>3, <1>4 DEF BatchLands, BatchMisses
<1>6. calls'[c].order = o
  <2>1. \E code : calls' = [calls EXCEPT ![c].pc = "finalize", ![c].code = code]
    BY <1>3, <1>4, Zenon DEF BatchLands, BatchMisses
  <2> QED BY <1>0, <1>2, <2>1 DEF CallRow
<1> QED BY <1>2, <1>3, <1>5, <1>6

\* What Outrun promises of the older event and of the calls that have it to store.
Ended(d) ==
  /\ events[d].status # "accepted" /\ events[d].code # "applied"
  /\ \A c \in Calls : calls[c].pc = "finalize" /\ calls[c].order.id = d => calls[c].code # "applied"

\* A call other than the one that steps keeps what it has to store; the one
\* that steps comes to store a result only for an event that was accepted.
LEMMA CallsStillEnded ==
  ASSUME OrdersTyped, Known, NEW c \in Calls, Step(c), NEW d \in EventIds, Ended(d),
         NEW b \in Calls, calls'[b].pc = "finalize", calls'[b].order.id = d
  PROVE  calls'[b].code # "applied"
<1>1. CASE b # c
  <2>1. calls'[b] = calls[b]
    BY <1>1, StepMoves DEF OrdersTyped
  <2> QED BY <2>1 DEF Ended
<1>2. CASE b = c
  <2>1. events[d].status = "accepted"
    BY <1>2, FinalComesFromAccepted
  <2> QED BY <2>1 DEF Ended
<1> QED BY <1>1, <1>2

\* An event that ends for want of a grant outruns only what has ended.
LEMMA NewlyMissing ==
  ASSUME OrdersTyped, Known, OrdersTyped', NEW c \in Calls, Step(c), NEW o \in Orders, o = calls[c].order,
         NEW row \in EventRow, events' = [events EXCEPT ![o.id] = row], EventWritten(c, o, events[o.id], row),
         NEW d \in EventIds, Outrun(o.id, d)'
  PROVE  Ended(d)'
<1>1. /\ o.id \in EventIds /\ o.at \in Ranks /\ events'[o.id] = row
      /\ row.code = "no_entitlement" /\ events'[d].order.sub = row.order.sub
      /\ events'[d].status # "none" /\ Before(events'[d].order.at, row.order.at)
  BY OrderFields DEF OrdersTyped, Outrun
<1>2. LacksGrant(c, o, events[o.id], row)
  <2>1. CallKnown(calls[c])
    BY DEF Known, CallsKnown
  <2>2. ~Accepts(c, o, events[o.id], row) /\ ~GoesStale(c, o, events[o.id], row) /\ ~IsCached(c, o, events[o.id], row)
    <3>1. Accepts(c, o, events[o.id], row) => row.status = "accepted" /\ row.code = NoEvent.code
      <4>1. Accepts(c, o, events[o.id], row) => row = [status |-> "accepted", order |-> o, code |-> ""]
        BY DEF Accepts
      <4>2. NoEvent.code = ""
        BY EmptyRows
      <4>3. [status |-> "accepted", order |-> o, code |-> ""].code = ""
        OBVIOUS
      <4>4. [status |-> "accepted", order |-> o, code |-> ""].status = "accepted"
        OBVIOUS
      <4> QED BY <4>1, <4>2, <4>3, <4>4, Zenon
    <3>2. GoesStale(c, o, events[o.id], row) => row.code = "stale_ignored"
      BY DEF GoesStale
    <3>3. IsCached(c, o, events[o.id], row) => row.code = "cached"
      BY DEF IsCached
    <3>4. NoEvent.code # "no_entitlement"
      BY EmptyRows, Zenon
    <3> QED BY <1>1, <3>1, <3>2, <3>3, <3>4
  <2>3. ~IsRefused(c, o, events[o.id], row)
    BY <1>1, <2>1 DEF IsRefused, CallKnown, Refusals
  <2>4. ~IsFinal(c, o, events[o.id], row)
    BY <1>1, <2>1 DEF IsFinal, CallKnown, FinalKnown, Ends
  <2> QED BY <2>2, <2>3, <2>4 DEF EventWritten
<1>3. /\ calls[c].pc = "endMissing" /\ events[o.id].status = "accepted" /\ grants[o.fp].status = "none"
      /\ ~EarlierAccepted(o) /\ row.order = events[o.id].order
  BY <1>2 DEF LacksGrant
<1>4. row.order = o
  BY <1>1, <1>3 DEF Known, CallsKnown, CallKnown, Admitted
<1>5. d # o.id
  <2>1. ~Before(o.at, o.at)
    BY <1>1, BeforeOrders
  <2> QED BY <1>1, <1>4, <2>1
<1>6. events'[d] = events[d]
  BY <1>5 DEF OrdersTyped
<1>7. /\ events[d].status # "accepted" /\ events[d].code # "applied"
      /\ \A b \in Calls : calls[b].pc = "finalize" /\ calls[b].order.id = d => calls[b].code # "applied"
  BY <1>1, <1>3, <1>4, <1>6, MissingIsLast
<1>8. ASSUME NEW b \in Calls, calls'[b].pc = "finalize", calls'[b].order.id = d PROVE calls'[b].code # "applied"
  BY <1>7, <1>8, CallsStillEnded DEF Ended
<1> QED BY <1>6, <1>7, <1>8 DEF Ended

\* An older event that changes once another ended for want of a grant is not
\* accepted, nor does it turn out to have been applied.
LEMMA OlderChanges ==
  ASSUME OrdersTyped, Known, OrdersTyped', DiscardKnown, NEW c \in Calls, Step(c), NEW o \in Orders, o = calls[c].order,
         NEW row \in EventRow, events' = [events EXCEPT ![o.id] = row], EventWritten(c, o, events[o.id], row),
         NEW e \in EventIds, e # o.id, Outrun(e, o.id)'
  PROVE  Ended(o.id)'
<1> DEFINE v == events[o.id]
<1>1. o.id \in EventIds /\ events'[o.id] = row /\ events'[e] = events[e] /\ CallKnown(calls[c])
  BY OrderFields DEF OrdersTyped, Known, CallsKnown
<1>2. /\ events[e].code = "no_entitlement" /\ row.order.sub = events[e].order.sub
      /\ Before(row.order.at, events[e].order.at)
  BY <1>1 DEF Outrun
<1>3. events[e].status = "processed"
  BY <1>2 DEF Known, EventsKnown, EventKnown
<1>4. v.status # "none" /\ row.order = v.order => Ended(o.id)
  BY <1>1, <1>2 DEF DiscardKnown, Outrun, Ended
<1> HIDE DEF v
<1>5. CASE Accepts(c, o, v, row)
  <2>1. CursorAdvances(o) /\ row.order = o
    BY <1>5 DEF Accepts
  <2>2. ~Before(o.at, events[e].order.at)
    BY <1>2, <1>3, <2>1, AcceptedIsNewer DEF Admissible
  <2> QED BY <1>2, <2>1, <2>2
<1>6. CASE GoesStale(c, o, v, row)
  <2>1. v.status = "none" /\ row.status = "superseded" /\ row.code = "stale_ignored" /\ calls[c].pc = "stale"
    BY <1>6 DEF GoesStale
  <2>2. ASSUME NEW b \in Calls, calls'[b].pc = "finalize", calls'[b].order.id = o.id PROVE FALSE
    <3>1. CASE b = c
      BY <2>1, <2>2, <3>1, FinalComesFromAccepted DEF v
    <3>2. CASE b # c
      <4>1. calls'[b] = calls[b]
        BY <3>2, StepMoves DEF OrdersTyped
      <4>2. events[o.id].status \in Admissible
        BY <2>2, <4>1 DEF Known, CallsKnown, CallKnown, Admitted
      <4> QED BY <2>1, <4>2 DEF v, Admissible
    <3> QED BY <3>1, <3>2
  <2> QED BY <1>1, <2>1, <2>2 DEF Ended
<1>7. CASE IsRefused(c, o, v, row) \/ LacksGrant(c, o, v, row) \/ IsCached(c, o, v, row)
  <2>1. v.status = "accepted" /\ row.order = v.order
    BY <1>7 DEF IsRefused, LacksGrant, IsCached
  <2> QED BY <1>4, <2>1 DEF Ended, v
<1>8. CASE IsFinal(c, o, v, row)
  <2>1. v.status = "processed" /\ row.order = v.order /\ row.status = "processed" /\ row.code = calls[c].code
        /\ calls[c].pc = "finalize"
    BY <1>8 DEF IsFinal
  <2>2. Ended(o.id)
    BY <1>4, <2>1
  <2>3. row.code # "applied"
    BY <2>1, <2>2 DEF Ended
  <2>4. ASSUME NEW b \in Calls, calls'[b].pc = "finalize", calls'[b].order.id = o.id PROVE calls'[b].code # "applied"
    BY <1>1, <2>2, <2>4, CallsStillEnded
  <2> QED BY <1>1, <2>1, <2>3, <2>4 DEF Ended
<1> QED BY <1>5, <1>6, <1>7, <1>8 DEF EventWritten, v

\* What is known of events that ended for want of a grant is known after every step.
LEMMA DiscardKept ==
  ASSUME OrdersTyped, Known, DiscardKnown, [Next]_vars, OrdersTyped'
  PROVE  DiscardKnown'
<1> SUFFICES ASSUME NEW e \in EventIds, NEW d \in EventIds, Outrun(e, d)' PROVE Ended(d)'
  BY DEF DiscardKnown, Ended
<1>1. ASSUME events'[e] = events[e], events'[d] = events[d] PROVE Ended(d)
  BY <1>1 DEF DiscardKnown, Outrun, Ended
<1>2. ASSUME NEW c \in Calls, Step(c) PROVE Ended(d)'
  <2>1. PICK o : o = calls[c].order
    OBVIOUS
  <2>2. CASE events'[e] = events[e] /\ events'[d] = events[d]
    <3>1. Ended(d)
      BY <1>1, <2>2
    <3>2. ASSUME NEW b \in Calls, calls'[b].pc = "finalize", calls'[b].order.id = d PROVE calls'[b].code # "applied"
      BY <1>2, <3>1, <3>2, CallsStillEnded
    <3> QED BY <2>2, <3>1, <3>2 DEF Ended
  <2>3. ASSUME o \in Orders, NEW row \in EventRow, events' = [events EXCEPT ![o.id] = row],
               EventWritten(c, o, events[o.id], row), ~(events'[e] = events[e] /\ events'[d] = events[d])
        PROVE  Ended(d)'
    <3>1. \A x \in EventIds \ {o.id} : events'[x] = events[x]
      BY <2>3 DEF OrdersTyped
    <3>2. CASE e = o.id
      BY <1>2, <2>1, <2>3, <3>2, NewlyMissing
    <3>3. CASE e # o.id
      <4>1. d = o.id
        BY <2>3, <3>1, <3>3
      <4> QED BY <1>2, <2>1, <2>3, <3>3, <4>1, OlderChanges
    <3> QED BY <3>2, <3>3
  <2> QED BY <1>2, <2>1, <2>2, <2>3, EventWrites
<1>3. ASSUME UNCHANGED events, NEW c \in Calls, calls'[c].pc # "finalize", \A b \in Calls \ {c} : calls'[b] = calls[b]
      PROVE  Ended(d)'
  BY <1>1, <1>3 DEF Ended
<1>4. ASSUME NEW c \in Calls, NEW o \in Orders, Receive(c, o) PROVE Ended(d)'
  <2>1. UNCHANGED events /\ calls'[c].pc = "dedup" /\ \A b \in Calls \ {c} : calls'[b] = calls[b]
    BY <1>4 DEF Receive, tables, OrdersTyped, CallRow
  <2> QED BY <1>3, <2>1
<1>5. ASSUME NEW c \in Calls, Crash(c) PROVE Ended(d)'
  <2>1. UNCHANGED events /\ calls'[c].pc = "idle" /\ \A b \in Calls \ {c} : calls'[b] = calls[b]
    BY <1>5, EmptyRows DEF Crash, Answer, tables, OrdersTyped
  <2> QED BY <1>3, <2>1
<1>6. ASSUME UNCHANGED <<events, calls>> PROVE Ended(d)'
  BY <1>1, <1>6 DEF Ended
<1> QED BY <1>2, <1>4, <1>5, <1>6, NextCases, AdministerWrites

\* An event that ended for want of a grant was not waiting for an older one to
\* create it: no older order of its subscription is applied afterwards, nor
\* accepted still (terminalizeMissingEntitlementOrderEvent, buildAcceptBatch).
THEOREM NewerNotDiscardedHolds == Spec => []NewerNotDiscarded
<1>1. Init => DiscardKnown
  <2>1. Init => \A e \in EventIds : events[e].code = ""
    <3>1. Init => events = [e \in EventIds |-> NoEvent]
      BY DEF Init
    <3> QED BY <3>1, EmptyRows
  <2> QED BY <2>1 DEF DiscardKnown, Outrun
<1>2. OrdersTyped /\ Known /\ DiscardKnown /\ [Next]_vars /\ OrdersTyped' => DiscardKnown'
  BY DiscardKept
<1>3. DiscardKnown => NewerNotDiscarded
  BY DEF DiscardKnown, NewerNotDiscarded, Outrun
<1> QED BY <1>1, <1>2, <1>3, TypeCorrect, KnownHolds, PTL DEF Spec
=============================================================================
