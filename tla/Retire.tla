------------------------------- MODULE Retire -------------------------------
(***************************************************************************)
(* bound_retire.mjs: a customer or an operator disconnects a device. The   *)
(* binding keeps its slot until every lease it carried has ended; the      *)
(* answer says when that is, and a replay repeats the same answer.         *)
(***************************************************************************)
EXTENDS DeviceTables

OnlyRetires == UNCHANGED <<now, customers, entitlements, devices, attempts, challenges, leases,
                           denials, denyCache, requests, consents>>

RetireDigest(q) == [subject |-> q.binding, arg |-> q.expected, actor |-> q.actor]
RetireOpKey(q) == <<q.key, "retire", q.op>>

EndRetire(t, code) == retires' = [retires EXCEPT ![t] = [IdleRetire EXCEPT !.pc = "done", !.code = code]]

\* ownership: the device and the license of b belong to c, who is active.
OwnedBy(b, c) ==
  /\ bindings[b].state # "none"
  /\ \E k \in Keys, l \in Licenses :
       /\ k = bindings[b].key /\ l = bindings[b].license
       /\ devices[k].customer = c /\ entitlements[l].owner = c
  /\ customers[c].status = "active"

\* cached: why a committed retirement o may not be answered again, "none" when it may.
CacheRefusal(o, b, c, q) ==
  LET op == operations[o] IN
  IF /\ op.digest = RetireDigest(q) /\ op.response /\ op.retain > now
     /\ OwnedBy(b, c) /\ op.customer = c /\ op.binding = b
     /\ op.rev = q.expected + 1 /\ bindings[b].state = "retiring"
     /\ bindings[b].gen = op.gen /\ bindings[b].rev >= op.rev
     /\ Later(bindings[b].hold, op.committed) = op.release
  THEN "none" ELSE "idempotency_conflict"

ReturnRetired(t, o, answer) ==
  \/ EndRetire(t, "ok") /\ replies' = replies \cup {[opKey |-> o, answer |-> answer]}
  \/ EndRetire(t, "temporarily_unavailable") /\ UNCHANGED replies

AnswerCached(t, o, b, c, q) ==
  IF CacheRefusal(o, b, c, q) = "none" THEN ReturnRetired(t, o, operations[o].inv)
  ELSE EndRetire(t, CacheRefusal(o, b, c, q)) /\ UNCHANGED replies

\* retireWithActor up to its batch.
ReadRetire(t, b, c, actor, expected, op) ==
  LET q == [IdleRetire EXCEPT !.pc = "batch", !.binding = b, !.customer = c, !.actor = actor,
              !.expected = expected, !.op = op, !.key = bindings[b].key, !.gen = bindings[b].gen,
              !.custRev = customers[c].rev, !.devRev = devices[bindings[b].key].rev,
              !.entRev = entitlements[bindings[b].license].rev]
  IN
  /\ retires[t].pc = "idle"
  /\ IF ~OwnedBy(b, c) THEN EndRetire(t, "binding_unavailable") /\ UNCHANGED replies
     ELSE IF operations[RetireOpKey(q)].exists THEN AnswerCached(t, RetireOpKey(q), b, c, q)
     ELSE IF bindings[b].state # "active" \/ bindings[b].rev # expected \/ bindings[b].gen >= MaxRevision
     THEN EndRetire(t, "revision_conflict") /\ UNCHANGED replies
     ELSE retires' = [retires EXCEPT ![t] = q] /\ UNCHANGED replies
  /\ OnlyRetires /\ UNCHANGED <<bindings, operations>>

\* The guards of BOUND_RETIRE_SQL.
RetireGuard(o, b, q) ==
  /\ o = RetireOpKey(q) /\ ~operations[o].exists
  /\ b = q.binding /\ q.customer \in Customers /\ OwnedBy(b, q.customer)
  /\ customers[q.customer].rev = q.custRev /\ devices[q.key].rev = q.devRev
  /\ bindings[b].key = q.key /\ devices[q.key].status = "active"
  /\ \E l \in Licenses : l = bindings[b].license /\ entitlements[l].rev = q.entRev
  /\ bindings[b].state = "active" /\ bindings[b].rev = q.expected /\ bindings[b].rev < MaxRevision
  /\ bindings[b].gen = q.gen /\ bindings[b].gen < MaxRevision

\* BOUND_RETIRE_SQL: one transaction.
RetireBatch(t, o, b) ==
  LET q == retires[t] IN
  /\ q.pc = "batch"
  /\ RetireGuard(o, b, q)
  /\ operations' = [operations EXCEPT ![o] =
       [exists |-> TRUE, digest |-> RetireDigest(q), inv |-> t, customer |-> q.customer, binding |-> b,
        response |-> TRUE, committed |-> now, retain |-> now + RecoveryTTL,
        release |-> Later(bindings[b].hold, now), rev |-> bindings[b].rev + 1, gen |-> bindings[b].gen + 1]]
  /\ bindings' = [bindings EXCEPT ![b] = Retired(@)]
  /\ \/ EndRetire(t, "ok") /\ replies' = replies \cup {[opKey |-> o, answer |-> t]}
     \/ retires' = [retires EXCEPT ![t].pc = "cached"] /\ UNCHANGED replies
  /\ OnlyRetires

\* The batch aborts on a guard, or D1 fails it.
RetireAborts(t) ==
  /\ retires[t].pc = "batch"
  /\ retires' = [retires EXCEPT ![t].pc = "cached"]
  /\ OnlyRetires /\ UNCHANGED <<bindings, operations, replies>>

\* Race losers and lost results recover only the committed operation.
RetireCached(t, b, c) ==
  LET q == retires[t]
      o == RetireOpKey(q)
  IN
  /\ q.pc = "cached" /\ b = q.binding /\ c = q.customer
  /\ IF operations[o].exists THEN AnswerCached(t, o, b, c, q)
     ELSE retires' = [retires EXCEPT ![t].pc = "current"] /\ UNCHANGED replies
  /\ OnlyRetires /\ UNCHANGED <<bindings, operations>>

\* Without a committed operation the binding is read again, by another query:
\* it says why the batch did not commit.
RetireCurrent(t, b, c) ==
  LET q == retires[t] IN
  /\ q.pc = "current" /\ b = q.binding /\ c = q.customer
  /\ EndRetire(t, IF ~OwnedBy(b, c) THEN "binding_unavailable"
                  ELSE IF bindings[b].state # "active" \/ bindings[b].rev # q.expected
                  THEN "revision_conflict" ELSE "temporarily_unavailable")
  /\ OnlyRetires /\ UNCHANGED <<bindings, operations, replies>>

\* Any await of a retire invocation may fail.
RetireFails(t) ==
  /\ retires[t].pc \notin {"idle", "done"}
  /\ EndRetire(t, "temporarily_unavailable")
  /\ OnlyRetires /\ UNCHANGED <<bindings, operations, replies>>

RetireStep(t) ==
  \/ RetireAborts(t)
  \/ \E o \in OpKeys, b \in Bindings : RetireBatch(t, o, b)
  \/ \E b \in Bindings, c \in Customers : RetireCached(t, b, c) \/ RetireCurrent(t, b, c)

RetireNext ==
  \E t \in Retires :
    \/ RetireStep(t) \/ RetireFails(t)
    \/ \E b \in Bindings, c \in Customers, actor \in {"customer", "operator"},
          expected \in Revisions, op \in OpIds : ReadRetire(t, b, c, actor, expected, op)
=============================================================================
