--------------------------- MODULE Console_proofs ---------------------------
(***************************************************************************)
(* The administration console for every number of calls, grants, keys and  *)
(* previews: an unbroken audit log for each grant, a response stored once  *)
(* for each idempotency key and nothing done twice under it, and previews  *)
(* applied as they were shown. What the awaits between the steps of a call *)
(* leave open, the optimistic claim on revocation_seq and the generation   *)
(* of the preview close: a call writes only on the row it has read.        *)
(***************************************************************************)
EXTENDS Console, SequenceTheorems, TLAPS

-----------------------------------------------------------------------------
(* Rows, snapshots, calls and entries *)

Stamps == {x[1][x[2]] : x \in Catalogs \X Grants} \ {None}
AnyTerms == Terms \cup {None} \cup {r.terms : r \in Requests} \cup {w.terms : w \in Stamps}
AnyLimits == {1, None} \cup {r.limit : r \in Requests} \cup {w.limit : w \in Stamps}
Rows == [status : Statuses \cup {"none"}, seq : Nat, terms : AnyTerms, limit : AnyLimits, started : BOOLEAN]
ToldRows == [status : Statuses \cup {"none"}, seq : Nat, terms : AnyTerms, limit : AnyLimits]

Snapshots ==
  [generation : Nat, grants : [Grants -> Rows], catalog : Catalogs, assigned : Catalogs \cup {None, Other}]

Places ==
  {"dedup", "sync", "read", "write", "classify", "missed", "settle", "remember", "stored",
   "snapshot", "persist", "load", "apply", "done"}
Bodies == [grant : Grants, row : Rows]
UnderWay ==
  [pc : Places, req : Requests, act : Operations, tries : Nat, expected : Rows, seen : Rows,
   data : {None} \cup Bodies \cup Snapshots]
CallStates == UnderWay \cup {Idle, [pc |-> "done"]}

Held == {"live", "consumed", "lapsed"}
PreviewStates ==
  {NoPreview, [state |-> "gone"]} \cup [state : Held, actor : {r.actor : r \in Requests}, of : Snapshots]

AnyKeys == {KeyOf(r) : r \in Requests} \cup {None}
Entries ==
  [source : {"console"}, prev : Rows, next : Rows, of : AnyKeys]
  \cup [source : {"order"}, next : ToldRows, of : {None}]

ConsoleTyped ==
  /\ grants \in [Grants -> Rows] /\ log \in [Grants -> Seq(Entries)]
  /\ catalog \in Catalogs /\ generation \in Nat /\ assigned \in Catalogs \cup {None, Other}
  /\ previews \in [Previews -> PreviewStates] /\ calls \in [Calls -> CallStates]

\* There is one row that is no grant.
NoneIsNoGrant == \A f \in Grants : grants[f].status = "none" => grants[f] = NoGrant

\* The way a call has come.
Mutations == {"create", "patch", "limit"} \cup Transitions
Ways(x) ==
  /\ x.pc = "dedup" => x.act = x.req.op /\ x.req.op # "preview"
  /\ x.pc \in {"read", "write", "classify"} => x.act \in Mutations
  /\ x.pc \in {"load", "apply"} => x.req.op = "apply"
  /\ x.pc \in {"persist", "apply"} => x.data \in Snapshots
  /\ x.pc = "apply" => ~Blocked(x.data)

\* A row that has every start of a trial the events of its grant tell.
Knows(f, row) == \A i \in DOMAIN log[f] : log[f][i].source = "console" /\ log[f][i].next.started => row.started

\* A row that was read is the row that is there unless its revocation_seq went
\* on, but for a trial that started since.
SeenOf(row, f) ==
  Told(row) = Told(grants[f]) /\ (row.started => grants[f].started) /\ Knows(f, row)
Fresh(x) ==
  x.pc = "write" =>
    /\ x.seen.seq <= grants[x.req.grant].seq
    /\ x.seen.seq = grants[x.req.grant].seq => SeenOf(x.seen, x.req.grant)
    /\ x.act # "create" => x.seen.status # "none"

\* A snapshot is what is there unless the generation went on.
Current(s) ==
  /\ s.generation <= generation
  /\ s.generation = generation => s.grants = grants /\ s.catalog = catalog /\ s.assigned = assigned

\* A preview that was loaded stays what it was.
Loaded(x) ==
  x.pc = "apply" =>
    /\ previews[x.req.preview].state # "none"
    /\ previews[x.req.preview].state \in Held => previews[x.req.preview].of = x.data

CallsKept ==
  \A c \in Calls : /\ Ways(calls[c]) /\ Fresh(calls[c]) /\ Loaded(calls[c])
                   /\ calls[c].pc = "persist" => Current(calls[c].data)
PreviewsKept == \A p \in Previews : previews[p].state \in Held => Current(previews[p].of)

ConsoleKept == ConsoleTyped /\ NoneIsNoGrant /\ CallsKept /\ PreviewsKept

\* The log of a grant is unbroken: AuditUnbroken, grant by grant.
AuditOf(f) ==
  /\ Told(grants[f]) = Told(IF log[f] = <<>> THEN NoGrant ELSE log[f][Len(log[f])].next)
  /\ Knows(f, grants[f])
  /\ \A i \in DOMAIN log[f] : log[f][i].source = "console" =>
       /\ Told(log[f][i].prev) = Told(IF i = 1 THEN NoGrant ELSE log[f][i - 1].next)
       /\ log[f][i].prev.started => log[f][i].next.started
       /\ \A j \in DOMAIN log[f] :
            log[f][i].next.started /\ j > i /\ log[f][j].source = "console" => log[f][j].prev.started

\* Responses are stored under their keys, one for each key, and whatever was
\* answered or logged under a key has its response stored.
RepliesKept ==
  /\ \A x \in replies : x = [of |-> x.of, body |-> x.body] /\ x.of # None
  /\ \A x, y \in replies : x.of = y.of => x = y
  /\ answers \subseteq replies
  /\ \A f \in Grants : \A i \in DOMAIN log[f] : log[f][i].of # None => \E x \in replies : x.of = log[f][i].of

-----------------------------------------------------------------------------
\* A request that is being handled has its operation, its grant and that grant's row.
LEMMA CallUnderWay ==
  ASSUME ConsoleTyped, NEW c \in Calls, calls[c].pc \notin {"new", "done"}
  PROVE  /\ calls[c] \in UnderWay /\ Req(c) \in Requests /\ Req(c).grant \in Grants /\ Row(c) \in Rows
         /\ Req(c).op \in Operations /\ Req(c).status \in Statuses
<1>1. calls[c] \in CallStates /\ grants \in [Grants -> Rows]
  BY DEF ConsoleTyped
<1>2. calls[c] \in UnderWay
  BY <1>1 DEF CallStates, Idle
<1>3. Req(c) \in Requests
  BY <1>2 DEF UnderWay, Req
<1>4. Req(c).grant \in Grants /\ Req(c).op \in Operations /\ Req(c).status \in Statuses
  BY <1>3, ConsoleAssumption
<1> QED BY <1>1, <1>2, <1>3, <1>4 DEF Row

\* The row getEntitlement finds missing.
LEMMA NoGrantIsRow == NoGrant \in Rows /\ NoGrant.status = "none" /\ NoGrant.seq = 0
BY DEF NoGrant, Rows, AnyTerms, AnyLimits

\* What an event tells of a row, and of what another event told of it.
LEMMA ToldIs ==
  /\ \A x \in Rows : Told(x) \in ToldRows /\ Told(Told(x)) = Told(x)
  /\ \A x, y \in Rows : Told(x) = Told(y) => x.status = y.status /\ x.seq = y.seq
BY DEF Told, Rows, ToldRows

\* A call that goes on to its next await keeps what it knows.
LEMMA GoesOn ==
  ASSUME NEW x \in UnderWay, NEW pc \in Places
  PROVE  /\ [x EXCEPT !.pc = pc] \in UnderWay /\ [x EXCEPT !.pc = pc].pc = pc
         /\ [x EXCEPT !.pc = pc].req = x.req /\ [x EXCEPT !.pc = pc].act = x.act
         /\ [x EXCEPT !.pc = pc].seen = x.seen /\ [x EXCEPT !.pc = pc].data = x.data
BY DEF UnderWay

\* One call has gone on and the tables are as they were.
LEMMA CallKeeps ==
  ASSUME ConsoleKept, NEW c \in Calls, NEW x \in CallStates, calls' = [calls EXCEPT ![c] = x],
         UNCHANGED <<grants, log, catalog, generation, assigned, previews>>,
         Ways(x), Fresh(x), Loaded(x), x.pc = "persist" => Current(x.data)
  PROVE  ConsoleKept'
<1>1. grants' = grants /\ log' = log /\ catalog' = catalog /\ generation' = generation /\ assigned' = assigned
      /\ previews' = previews
  OBVIOUS
<1>2. calls' \in [Calls -> CallStates] /\ calls'[c] = x /\ \A d \in Calls \ {c} : calls'[d] = calls[d]
  BY DEF ConsoleKept, ConsoleTyped
<1>3. ConsoleTyped'
  BY <1>1, <1>2 DEF ConsoleKept, ConsoleTyped
<1>4. NoneIsNoGrant'
  BY <1>1 DEF ConsoleKept, NoneIsNoGrant
<1>5. CallsKept'
  <2> SUFFICES ASSUME NEW d \in Calls
               PROVE  /\ Ways(calls'[d]) /\ Fresh(calls[d])' /\ Loaded(calls[d])'
                      /\ calls'[d].pc = "persist" => Current(calls[d].data)'
    BY DEF CallsKept, Ways, Blocked, Live
  <2>1. PICK y : y = calls'[d]
    OBVIOUS
  <2>2. Ways(y) /\ Fresh(y) /\ Loaded(y) /\ (y.pc = "persist" => Current(y.data))
    BY <1>2, <2>1 DEF ConsoleKept, CallsKept
  <2> QED BY <1>1, <2>1, <2>2 DEF Fresh, SeenOf, Knows, Loaded, Current
<1>6. PreviewsKept'
  BY <1>1 DEF ConsoleKept, PreviewsKept, Current
<1> QED BY <1>3, <1>4, <1>5, <1>6 DEF ConsoleKept

\* A call that is over, and one that goes on to an await that asks nothing of it.
Plain == {"missed", "settle", "remember", "stored", "snapshot", "sync", "done"}

\* A handler that has returned keeps what the tables and the other calls know.
LEMMA DoneKeeps ==
  ASSUME ConsoleKept, NEW c \in Calls, Done(c),
         UNCHANGED <<grants, log, catalog, generation, assigned, previews>>
  PROVE  ConsoleKept'
<1> DEFINE x == [pc |-> "done"]
<1>1. x \in CallStates /\ x.pc = "done"
  BY DEF CallStates
<1>2. calls' = [calls EXCEPT ![c] = x]
  BY DEF Done
<1> HIDE DEF x
<1>3. Ways(x) /\ Fresh(x) /\ Loaded(x) /\ x.pc # "persist"
  BY <1>1 DEF Ways, Fresh, Loaded
<1> QED BY <1>1, <1>2, <1>3, CallKeeps

\* So does one that goes on to an await which asks nothing of the tables.
LEMMA GoesKeeps ==
  ASSUME ConsoleKept, NEW c \in Calls, calls[c].pc \notin {"new", "done"}, NEW pc \in Places, CallGoes(c, pc),
         UNCHANGED <<grants, log, catalog, generation, assigned, previews>>,
         \/ pc \in Plain
         \/ pc \in {"read", "classify"} /\ calls[c].act \in Mutations
         \/ pc = "load" /\ calls[c].req.op = "apply"
  PROVE  ConsoleKept'
<1> DEFINE x == [calls[c] EXCEPT !.pc = pc]
<1>1. calls[c] \in UnderWay
  BY CallUnderWay DEF ConsoleKept
<1>2. x \in CallStates /\ x.pc = pc /\ x.act = calls[c].act /\ x.req = calls[c].req
  BY <1>1, GoesOn DEF CallStates
<1>3. calls' = [calls EXCEPT ![c] = x]
  BY DEF CallGoes
<1> HIDE DEF x
<1>4. Ways(x) /\ Fresh(x) /\ Loaded(x) /\ x.pc # "persist"
  BY <1>2 DEF Ways, Fresh, Loaded, Plain
<1> QED BY <1>2, <1>3, <1>4, CallKeeps

\* The lookup of a stored answer, and what follows when there is none.
LEMMA ReplayKeeps ==
  ASSUME ConsoleKept, NEW c \in Calls, calls[c].pc \notin {"new", "done"}, NEW pc \in Places, Replay(c, pc),
         UNCHANGED <<grants, log, catalog, generation, assigned, previews>>,
         \/ pc \in Plain
         \/ pc \in {"read", "classify"} /\ calls[c].act \in Mutations
         \/ pc = "load" /\ calls[c].req.op = "apply"
  PROVE  ConsoleKept'
<1>1. CallGoes(c, pc) \/ Done(c)
  BY DEF Replay
<1> QED BY <1>1, DoneKeeps, GoesKeeps

\* A change the row does not allow ends the call, under a key after one more lookup.
LEMMA RefusedKeeps ==
  ASSUME ConsoleKept, NEW c \in Calls, calls[c].pc \notin {"new", "done"}, Refused(c),
         UNCHANGED <<grants, log, catalog, generation, assigned, previews>>
  PROVE  ConsoleKept'
<1>1. PICK pc \in {"missed", "done"} : CallGoes(c, pc)
  BY DEF Refused
<1>2. pc \in Places /\ pc \in Plain
  BY DEF Places, Plain
<1> QED BY <1>1, <1>2, GoesKeeps

\* A mutation that finds its change made answers with the row (noOpEntitlementResponse).
LEMMA NoOpKeeps ==
  ASSUME ConsoleKept, NEW c \in Calls, calls[c].pc \notin {"new", "done"}, NoOp(c),
         UNCHANGED <<grants, log, catalog, generation, assigned, previews>>
  PROVE  ConsoleKept'
<1> DEFINE d == [grant |-> Req(c).grant, row |-> Row(c)]
           x == [calls[c] EXCEPT !.pc = "settle", !.data = d]
<1>1. calls[c] \in UnderWay /\ Req(c).grant \in Grants /\ Row(c) \in Rows
  BY CallUnderWay DEF ConsoleKept
<1>2. d \in Bodies
  BY <1>1 DEF Bodies
<1>3. calls' = [calls EXCEPT ![c] = x]
  BY DEF NoOp
<1> HIDE DEF d
<1>4. x \in UnderWay /\ x.pc = "settle"
  BY <1>1, <1>2 DEF UnderWay, Places
<1> HIDE DEF x
<1>5. Ways(x) /\ Fresh(x) /\ Loaded(x) /\ x.pc # "persist"
  BY <1>4 DEF Ways, Fresh, Loaded
<1> QED BY <1>3, <1>4, <1>5, CallKeeps DEF CallStates

-----------------------------------------------------------------------------
(* The steps of a call that read *)

\* A request that arrives reads the row it is meant for.
LEMMA ArriveKeeps ==
  ASSUME ConsoleKept, NEW c \in Calls, NEW r \in Requests, Arrive(c, r)
  PROVE  ConsoleKept'
<1> DEFINE pc == IF r.op = "preview" THEN "snapshot" ELSE "dedup"
           e == grants[r.grant]
           x == [pc |-> pc, req |-> r, act |-> r.op, tries |-> 1, expected |-> e, seen |-> NoGrant, data |-> None]
<1>1. r.op \in Operations /\ r.grant \in Grants
  BY ConsoleAssumption
<1>2. e \in Rows
  BY <1>1 DEF ConsoleKept, ConsoleTyped
<1>3. pc \in {"snapshot", "dedup"} /\ (pc = "dedup" => r.op # "preview")
  OBVIOUS
<1>4. calls' = [calls EXCEPT ![c] = x] /\ UNCHANGED <<grants, log, catalog, generation, assigned, previews>>
  BY DEF Arrive, tables
<1> HIDE DEF pc, e
<1>5. x \in UnderWay /\ x.pc = pc /\ x.act = r.op /\ x.req = r
  BY <1>1, <1>2, <1>3, NoGrantIsRow DEF UnderWay, Places
<1> HIDE DEF x
<1>6. Ways(x) /\ Fresh(x) /\ Loaded(x) /\ x.pc # "persist"
  BY <1>3, <1>5 DEF Ways, Fresh, Loaded
<1> QED BY <1>4, <1>5, <1>6, CallKeeps DEF CallStates

\* The first lookup of the idempotency key, and where each operation goes from it.
LEMMA DedupKeeps ==
  ASSUME ConsoleKept, NEW c \in Calls, Dedup(c)
  PROVE  ConsoleKept'
<1>1. calls[c].pc = "dedup" /\ UNCHANGED <<grants, log, catalog, generation, assigned, previews>>
  BY DEF Dedup, CallAt, tables
<1>2. calls[c].act = Req(c).op /\ Req(c).op # "preview" /\ Req(c).op \in Operations
  BY <1>1, CallUnderWay DEF ConsoleKept, CallsKept, Ways, Req
<1>3. CASE Req(c).op = "sync"
  <2>1. Replay(c, "sync")
    BY <1>3 DEF Dedup
  <2> QED BY <1>1, <2>1, ReplayKeeps DEF Places, Plain
<1>4. CASE Req(c).op = "apply"
  <2>1. Replay(c, "load") /\ calls[c].req.op = "apply"
    BY <1>4 DEF Dedup, Req
  <2> QED BY <1>1, <2>1, ReplayKeeps DEF Places
<1>5. CASE Req(c).op \notin {"sync", "apply"}
  <2>1. Replay(c, "read")
    BY <1>5 DEF Dedup
  <2>2. calls[c].act \in Mutations
    BY <1>2, <1>5 DEF Operations, Mutations, Transitions
  <2> QED BY <1>1, <2>1, <2>2, ReplayKeeps DEF Places
<1> QED BY <1>3, <1>4, <1>5

\* handleSync reads the row and takes the transition it needs.
LEMMA ReadSyncKeeps ==
  ASSUME ConsoleKept, NEW c \in Calls, ReadSync(c)
  PROVE  ConsoleKept'
<1>1. calls[c].pc = "sync" /\ UNCHANGED <<grants, log, catalog, generation, assigned, previews>>
  BY DEF ReadSync, CallAt, tables
<1>2. calls[c] \in UnderWay /\ Row(c) \in Rows
  BY <1>1, CallUnderWay DEF ConsoleKept
<1>3. CASE NoOp(c)
  BY <1>1, <1>3, NoOpKeeps
<1>4. ASSUME NEW e \in Rows, NEW act \in {"create", "revoke", "disable"},
             calls' = [calls EXCEPT ![c] = [calls[c] EXCEPT !.pc = "read", !.expected = e, !.act = act]]
      PROVE  ConsoleKept'
  <2> DEFINE x == [calls[c] EXCEPT !.pc = "read", !.expected = e, !.act = act]
  <2>1. x \in UnderWay /\ x.pc = "read" /\ x.act \in Mutations
    BY <1>2 DEF UnderWay, Places, Operations, Mutations, Transitions
  <2>2. calls' = [calls EXCEPT ![c] = x]
    BY <1>4
  <2> HIDE DEF x
  <2>3. Ways(x) /\ Fresh(x) /\ Loaded(x) /\ x.pc # "persist"
    BY <2>1 DEF Ways, Fresh, Loaded
  <2> QED BY <1>1, <2>1, <2>2, <2>3, CallKeeps DEF CallStates
<1>5. CASE calls' = [calls EXCEPT ![c].pc = "read", ![c].expected = Row(c),
                                  ![c].act = IF Req(c).status = "revoked" THEN "revoke" ELSE "disable"]
  <2> DEFINE act == IF Req(c).status = "revoked" THEN "revoke" ELSE "disable"
  <2>1. act \in {"create", "revoke", "disable"}
    OBVIOUS
  <2>2. calls' = [calls EXCEPT ![c] = [calls[c] EXCEPT !.pc = "read", !.expected = Row(c), !.act = act]]
    BY <1>5 DEF ConsoleKept, ConsoleTyped
  <2> HIDE DEF act
  <2> QED BY <1>2, <1>4, <2>1, <2>2
<1>6. CASE calls' = [calls EXCEPT ![c].pc = "read", ![c].act = "create"]
  <2>1. calls[c].expected \in Rows
    BY <1>2 DEF UnderWay
  <2>2. [calls[c] EXCEPT !.pc = "read", !.act = "create"]
        = [calls[c] EXCEPT !.pc = "read", !.expected = calls[c].expected, !.act = "create"]
    BY <1>2 DEF UnderWay
  <2>3. calls' = [calls EXCEPT ![c] = [calls[c] EXCEPT !.pc = "read", !.expected = calls[c].expected, !.act = "create"]]
    BY <1>6, <2>2 DEF ConsoleKept, ConsoleTyped
  <2> QED BY <1>4, <2>1, <2>3
<1> QED BY <1>3, <1>5, <1>6 DEF ReadSync

\* A mutation reads the row it will claim: what it has seen is what is there.
LEMMA ReadGrantKeeps ==
  ASSUME ConsoleKept, \A f \in Grants : AuditOf(f), NEW c \in Calls, ReadGrant(c)
  PROVE  ConsoleKept'
<1>1. calls[c].pc = "read" /\ UNCHANGED <<grants, log, catalog, generation, assigned, previews>>
  BY DEF ReadGrant, CallAt, tables
<1>2. calls[c] \in UnderWay /\ Row(c) \in Rows /\ Req(c).grant \in Grants /\ calls[c].act \in Mutations
  BY <1>1, CallUnderWay DEF ConsoleKept, CallsKept, Ways
<1>3. CASE NoOp(c)
  BY <1>1, <1>3, NoOpKeeps
<1>4. CASE Done(c)
  BY <1>1, <1>4, DoneKeeps
<1>5. CASE CallGoes(c, "missed")
  BY <1>1, <1>5, GoesKeeps DEF Places, Plain
<1>6. CASE Refused(c)
  BY <1>1, <1>6, RefusedKeeps
<1>7. CASE /\ calls' = [calls EXCEPT ![c].pc = "write", ![c].seen = Row(c)]
           /\ calls[c].act = "create" \/ Row(c) # NoGrant
  <2> DEFINE x == [calls[c] EXCEPT !.pc = "write", !.seen = Row(c)]
  <2>1. x \in UnderWay /\ x.pc = "write" /\ x.act = calls[c].act /\ x.req = calls[c].req /\ x.seen = Row(c)
    BY <1>2 DEF UnderWay, Places
  <2>2. calls' = [calls EXCEPT ![c] = x]
    BY <1>7 DEF ConsoleKept, ConsoleTyped
  <2> HIDE DEF x
  <2>3. Ways(x) /\ Loaded(x) /\ x.pc # "persist"
    BY <1>2, <2>1 DEF Ways, Loaded
  <2>4. Fresh(x)
    <3>1. x.seen = grants[x.req.grant]
      BY <2>1 DEF Row, Req
    <3>2. x.seen.seq \in Nat
      BY <1>2, <2>1 DEF Rows
    <3>3. x.act # "create" => x.seen.status # "none"
      BY <1>2, <1>7, <2>1, <3>1 DEF ConsoleKept, NoneIsNoGrant, Row, Req
    <3>4. x.seen.seq <= grants[x.req.grant].seq
      BY <3>1, <3>2
    <3>5. SeenOf(x.seen, x.req.grant)
      <4>1. x.req.grant \in Grants
        BY <1>2, <2>1 DEF Req
      <4> QED BY <3>1, <4>1 DEF SeenOf, AuditOf
    <3> QED BY <3>3, <3>4, <3>5 DEF Fresh
  <2> QED BY <1>1, <2>1, <2>2, <2>3, <2>4, CallKeeps DEF CallStates
<1> QED BY <1>3, <1>4, <1>5, <1>6, <1>7 DEF ReadGrant

\* The steps of a call that only read, or only store its answer.
LEMMA LookupsKeep ==
  ASSUME ConsoleKept, NEW c \in Calls,
         Refuse(c) \/ Classify(c) \/ Missed(c) \/ Settle(c) \/ Remember(c) \/ Reread(c)
  PROVE  ConsoleKept'
<1>1. calls[c].pc \notin {"new", "done"} /\ UNCHANGED <<grants, log, catalog, generation, assigned, previews>>
  BY DEF Refuse, Classify, Missed, Settle, Remember, Reread, CallAt, tables
<1>2. CASE Refuse(c)
  <2>1. Refused(c)
    BY <1>2 DEF Refuse
  <2> QED BY <1>1, <2>1, RefusedKeeps
<1>3. CASE Classify(c)
  <2>1. CASE NoOp(c)
    BY <1>1, <2>1, NoOpKeeps
  <2>2. CASE Done(c)
    BY <1>1, <2>2, DoneKeeps
  <2>3. CASE CallGoes(c, "missed")
    BY <1>1, <2>3, GoesKeeps DEF Places, Plain
  <2> QED BY <1>3, <2>1, <2>2, <2>3 DEF Classify
<1>4. CASE Missed(c) \/ Reread(c)
  <2>1. Replay(c, "done")
    BY <1>4 DEF Missed, Reread
  <2> QED BY <1>1, <2>1, ReplayKeeps DEF Places, Plain
<1>5. CASE Settle(c)
  <2>1. Replay(c, "remember")
    BY <1>5 DEF Settle
  <2> QED BY <1>1, <2>1, ReplayKeeps DEF Places, Plain
<1>6. CASE Remember(c)
  <2>1. CASE Done(c)
    BY <1>1, <2>1, DoneKeeps
  <2>2. CASE CallGoes(c, "stored")
    BY <1>1, <2>2, GoesKeeps DEF Places, Plain
  <2> QED BY <1>6, <2>1, <2>2 DEF Remember
<1> QED BY <1>2, <1>3, <1>4, <1>5, <1>6

-----------------------------------------------------------------------------
(* The steps that write *)

\* A stored preview stays what it is, or is new and what is there.
PreviewGoes(p) ==
  /\ previews'[p].state \in Held =>
       \/ previews[p].state \in Held /\ previews'[p].of = previews[p].of
       \/ previews[p].state = "none" /\ Current(previews[p].of)'
  /\ previews'[p].state = "none" => previews[p].state = "none"

\* A call that goes on to an await that asks nothing of the tables.
CallPlain(d) == calls'[d] = calls[d] \/ (Ways(calls'[d]) /\ calls'[d].pc \notin {"write", "persist", "apply"})

\* A row goes on in its revocation_seq, or stays as it is but for a trial that starts.
RowGoes(f) ==
  \/ grants'[f].seq > grants[f].seq
  \/ log'[f] = log[f] /\ Told(grants'[f]) = Told(grants[f]) /\ (grants[f].started => grants'[f].started)

\* Calls keep what they know when rows only go on like this, the generation goes
\* on, and previews stay what they are.
LEMMA TablesMove ==
  ASSUME ConsoleKept, \A d \in Calls : CallPlain(d),
         \A f \in Grants : RowGoes(f),
         generation' = generation + 1 \/ UNCHANGED <<generation, grants, catalog, assigned>>,
         \A p \in Previews : PreviewGoes(p),
         grants' \in [Grants -> Rows]
  PROVE  CallsKept' /\ PreviewsKept'
<1>2. generation \in Nat /\ grants \in [Grants -> Rows] /\ previews \in [Previews -> PreviewStates]
  BY DEF ConsoleKept, ConsoleTyped
<1>3. ASSUME NEW s \in Snapshots, Current(s) PROVE Current(s)'
  <2>1. s.generation \in Nat
    BY DEF Snapshots
  <2>2. CASE generation' = generation + 1
    BY <1>2, <1>3, <2>1, <2>2 DEF Current
  <2>3. CASE UNCHANGED <<generation, grants, catalog, assigned>>
    BY <1>3, <2>3 DEF Current
  <2> QED BY <2>2, <2>3
<1>4. CallsKept'
  <2> SUFFICES ASSUME NEW d \in Calls
               PROVE  /\ Ways(calls'[d]) /\ Fresh(calls[d])' /\ Loaded(calls[d])'
                      /\ calls'[d].pc = "persist" => Current(calls[d].data)'
    BY DEF CallsKept, Ways, Blocked, Live
  <2>0. CallPlain(d)
    OBVIOUS
  <2>1. CASE Ways(calls'[d]) /\ calls'[d].pc \notin {"write", "persist", "apply"}
    BY <2>1 DEF Fresh, Loaded
  <2>2. CASE calls'[d] = calls[d]
    <3>1. Ways(calls[d]) /\ Fresh(calls[d]) /\ Loaded(calls[d])
          /\ (calls[d].pc = "persist" => Current(calls[d].data))
      BY DEF ConsoleKept, CallsKept
    <3>2. PICK y : y = calls[d]
      OBVIOUS
    <3>3. y.pc \in {"write", "apply", "persist"} => y \in UnderWay
      BY <3>2, CallUnderWay DEF ConsoleKept
    <3>4. Fresh(y)'
      <4> SUFFICES ASSUME y.pc = "write"
                   PROVE  /\ y.seen.seq <= grants'[y.req.grant].seq
                          /\ y.seen.seq = grants'[y.req.grant].seq => SeenOf(y.seen, y.req.grant)'
                          /\ y.act # "create" => y.seen.status # "none"
        BY DEF Fresh
      <4>1. y.req.grant \in Grants /\ y.seen.seq \in Nat
        BY <3>3, ConsoleAssumption DEF UnderWay, Rows
      <4>2. PICK f \in Grants : f = y.req.grant
        BY <4>1
      <4>3. grants[f].seq \in Nat /\ grants'[f].seq \in Nat
        BY <1>2 DEF Rows
      <4>4. /\ y.seen.seq <= grants[f].seq
            /\ y.seen.seq = grants[f].seq => SeenOf(y.seen, f)
            /\ y.act # "create" => y.seen.status # "none"
        BY <3>1, <3>2, <4>2 DEF Fresh
      <4>5. RowGoes(f)
        OBVIOUS
      <4>6. CASE log'[f] = log[f] /\ Told(grants'[f]) = Told(grants[f]) /\ (grants[f].started => grants'[f].started)
        <5>1. grants'[f].seq = grants[f].seq
          BY <1>2, <4>6, ToldIs
        <5>2. SeenOf(y.seen, f) => SeenOf(y.seen, f)'
          BY <4>6 DEF SeenOf, Knows
        <5> QED BY <4>2, <4>4, <5>1, <5>2
      <4>7. CASE grants'[f].seq > grants[f].seq
        <5>1. y.seen.seq <= grants'[f].seq /\ y.seen.seq # grants'[f].seq
          BY <4>1, <4>3, <4>4, <4>7
        <5> QED BY <4>2, <4>4, <5>1
      <4> QED BY <4>5, <4>6, <4>7 DEF RowGoes
    <3>5. Loaded(y)'
      <4> SUFFICES ASSUME y.pc = "apply"
                   PROVE  /\ previews'[y.req.preview].state # "none"
                          /\ previews'[y.req.preview].state \in Held => previews'[y.req.preview].of = y.data
        BY DEF Loaded
      <4>1. y.req.preview \in Previews
        BY <3>1, <3>2, <3>3, ConsoleAssumption DEF UnderWay, Ways
      <4>2. PICK p \in Previews : p = y.req.preview
        BY <4>1
      <4>3. previews[p].state # "none" /\ (previews[p].state \in Held => previews[p].of = y.data)
        BY <3>1, <3>2, <4>2 DEF Loaded
      <4> QED BY <4>2, <4>3 DEF PreviewGoes
    <3>6. y.pc = "persist" => Current(y.data)'
      BY <1>3, <3>1, <3>2 DEF Ways
    <3> QED BY <2>2, <3>1, <3>2, <3>4, <3>5, <3>6 DEF Fresh, SeenOf, Knows, Loaded, Current
  <2> QED BY <2>0, <2>1, <2>2 DEF CallPlain
<1>5. PreviewsKept'
  <2> SUFFICES ASSUME NEW p \in Previews, previews'[p].state \in Held
               PROVE  Current(previews[p].of)'
    BY DEF PreviewsKept
  <2>1. CASE previews[p].state \in Held /\ previews'[p].of = previews[p].of
    <3>1. PICK s : s = previews[p].of
      OBVIOUS
    <3>2. s \in Snapshots
      BY <1>2, <2>1, <3>1 DEF PreviewStates, NoPreview, Held
    <3>3. Current(s)
      BY <2>1, <3>1 DEF ConsoleKept, PreviewsKept
    <3>4. Current(s)'
      BY <1>3, <3>2, <3>3
    <3> QED BY <2>1, <3>1, <3>4 DEF Current
  <2>2. CASE Current(previews[p].of)'
    BY <2>2
  <2> QED BY <2>1, <2>2 DEF PreviewGoes
<1> QED BY <1>4, <1>5

\* A call that is over asks nothing.
LEMMA DonePlain ==
  ASSUME ConsoleTyped, NEW c \in Calls, Done(c)
  PROVE  calls' \in [Calls -> CallStates] /\ \A d \in Calls : CallPlain(d)
<1>1. [pc |-> "done"] \in CallStates
  BY DEF CallStates
<1>2. calls' \in [Calls -> CallStates] /\ calls'[c] = [pc |-> "done"] /\ \A d \in Calls \ {c} : calls'[d] = calls[d]
  BY <1>1 DEF ConsoleTyped, Done
<1> QED BY <1>2 DEF CallPlain, Ways

\* What a mutation writes: the next revocation_seq, and a status of a grant.
LEMMA WrittenIs ==
  ASSUME ConsoleTyped, NEW c \in Calls, calls[c].pc = "write", calls[c].act \in Mutations
  PROVE  /\ Written(c) \in Rows /\ Written(c).seq = Row(c).seq + 1
         /\ Written(c).status \in Statuses \cup {Row(c).status} /\ Written(c).started = Row(c).started
         /\ calls[c].act = "create" => Written(c).status \in Statuses
<1> DEFINE r == Req(c)
           n == Row(c).seq + 1
           bumped == [Row(c) EXCEPT !.seq = @ + 1]
<1>1. r \in Requests /\ Row(c) \in Rows /\ r.status \in Statuses
  BY CallUnderWay
<1>2. r.terms \in AnyTerms /\ r.limit \in AnyLimits /\ 1 \in AnyLimits
  BY <1>1 DEF AnyTerms, AnyLimits
<1>3. Or(r.limit, Or(Row(c).limit, 1)) \in AnyLimits
  BY <1>1, <1>2 DEF Or, Rows
<1>4. bumped \in Rows /\ bumped.seq = n /\ bumped.status = Row(c).status /\ bumped.limit = Row(c).limit
      /\ bumped.started = Row(c).started /\ n \in Nat
  BY <1>1 DEF Rows
<1> HIDE DEF r, n, bumped
<1>5. CASE calls[c].act = "create"
  <2> DEFINE lim == Or(r.limit, Or(bumped.limit, 1))
  <2>1. Written(c) = [bumped EXCEPT !.status = r.status, !.terms = r.terms, !.limit = lim]
    BY <1>5 DEF Written, r, bumped, Transitions
  <2>2. lim \in AnyLimits
    BY <1>3, <1>4
  <2> HIDE DEF lim
  <2>3. Written(c) \in Rows /\ Written(c).seq = n /\ Written(c).status = r.status
        /\ Written(c).started = bumped.started
    BY <1>1, <1>2, <1>4, <2>1, <2>2 DEF Rows
  <2> QED BY <1>1, <1>4, <2>3 DEF n
<1>6. CASE calls[c].act = "patch"
  <2>1. Written(c) = [bumped EXCEPT !.terms = r.terms]
    BY <1>6 DEF Written, r, bumped, Transitions
  <2>2. Written(c) \in Rows /\ Written(c).seq = n /\ Written(c).status = bumped.status
        /\ Written(c).started = bumped.started
    BY <1>2, <1>4, <2>1 DEF Rows
  <2> QED BY <1>4, <1>6, <2>2 DEF n
<1>7. CASE calls[c].act = "limit"
  <2>1. Written(c) = [bumped EXCEPT !.limit = r.limit]
    BY <1>7 DEF Written, r, bumped, Transitions
  <2>2. Written(c) \in Rows /\ Written(c).seq = n /\ Written(c).status = bumped.status
        /\ Written(c).started = bumped.started
    BY <1>2, <1>4, <2>1 DEF Rows
  <2> QED BY <1>4, <1>7, <2>2 DEF n
<1>8. CASE calls[c].act \in Transitions
  <2> DEFINE t == Target(calls[c].act)
  <2>1. Written(c) = [bumped EXCEPT !.status = t]
    BY <1>8 DEF Written, r, bumped, Transitions
  <2>2. t \in Statuses
    BY <1>8 DEF Target, Transitions, Statuses
  <2> HIDE DEF t
  <2>3. Written(c) \in Rows /\ Written(c).seq = n /\ Written(c).status = t
        /\ Written(c).started = bumped.started
    BY <1>4, <2>1, <2>2 DEF Rows
  <2> QED BY <1>4, <1>8, <2>2, <2>3 DEF n, Transitions
<1> QED BY <1>5, <1>6, <1>7, <1>8 DEF Mutations

\* The optimistic claim holds only on the row that was read.
LEMMA ClaimIsCurrent ==
  ASSUME ConsoleKept, NEW c \in Calls, calls[c].pc = "write", Unchanged(c)
  PROVE  SeenOf(calls[c].seen, Req(c).grant) /\ (calls[c].act # "create" => Row(c).status # "none")
BY DEF ConsoleKept, CallsKept, Fresh, Unchanged, Row, Req

\* One row more in the log of a grant.
LEMMA LogGrows ==
  ASSUME NEW q \in Seq(Entries), NEW e \in Entries
  PROVE  /\ Append(q, e) \in Seq(Entries) /\ Append(q, e) # <<>> /\ Len(Append(q, e)) = Len(q) + 1
         /\ DOMAIN Append(q, e) = 1..(Len(q) + 1) /\ Append(q, e)[Len(q) + 1] = e
         /\ \A i \in 1..Len(q) : Append(q, e)[i] = q[i]
         /\ Len(q) \in Nat /\ DOMAIN q = 1..Len(q) /\ (q = <<>> <=> Len(q) = 0)
<1>1. Append(q, e) \in Seq(Entries) /\ Len(Append(q, e)) = Len(q) + 1 /\ Len(q) \in Nat
      /\ Append(q, e)[Len(q) + 1] = e /\ \A i \in 1..Len(q) : Append(q, e)[i] = q[i]
  OBVIOUS
<1>2. DOMAIN q = 1..Len(q) /\ DOMAIN Append(q, e) = 1..(Len(q) + 1)
  BY <1>1
<1>3. q = <<>> <=> Len(q) = 0
  BY EmptySeq
<1>4. Append(q, e) # <<>>
  BY <1>1
<1> QED BY <1>1, <1>2, <1>3, <1>4

\* The trigger's entry and the row of one batch keep a grant's log unbroken.
LEMMA EntryKeepsAudit ==
  ASSUME ConsoleTyped, NEW f \in Grants, AuditOf(f), NEW e \in Entries, log'[f] = Append(log[f], e),
         Told(grants'[f]) = Told(e.next), grants[f].started => grants'[f].started,
         e.source = "console" => /\ Told(e.prev) = Told(grants[f]) /\ Knows(f, e.prev)
                                 /\ e.prev.started => e.next.started
                                 /\ e.next.started => grants'[f].started
  PROVE  AuditOf(f)'
<1> DEFINE q == log[f]
           w == Append(log[f], e)
<1>1. q \in Seq(Entries)
  BY DEF ConsoleTyped
<1>2. /\ w # <<>> /\ Len(w) = Len(q) + 1 /\ DOMAIN w = 1..(Len(q) + 1) /\ w[Len(q) + 1] = e
      /\ \A i \in 1..Len(q) : w[i] = q[i]
      /\ Len(q) \in Nat /\ DOMAIN q = 1..Len(q) /\ (q = <<>> <=> Len(q) = 0)
  BY <1>1, LogGrows
<1>3. /\ Told(grants[f]) = Told(IF q = <<>> THEN NoGrant ELSE q[Len(q)].next)
      /\ \A i \in DOMAIN q : q[i].source = "console" /\ q[i].next.started => grants[f].started
      /\ \A i \in DOMAIN q : q[i].source = "console" =>
           /\ Told(q[i].prev) = Told(IF i = 1 THEN NoGrant ELSE q[i - 1].next)
           /\ q[i].prev.started => q[i].next.started
           /\ \A j \in DOMAIN q : q[i].next.started /\ j > i /\ q[j].source = "console" => q[j].prev.started
  BY DEF AuditOf, Knows
<1>4. e.source = "console" =>
        /\ Told(e.prev) = Told(grants[f]) /\ (e.prev.started => e.next.started) /\ (e.next.started => grants'[f].started)
        /\ \A i \in DOMAIN q : q[i].source = "console" /\ q[i].next.started => e.prev.started
  BY DEF Knows
<1>5. log'[f] = w
  OBVIOUS
<1> HIDE DEF q, w
<1>6. Told(grants'[f]) = Told(IF w = <<>> THEN NoGrant ELSE w[Len(w)].next)
  BY <1>2
<1>7. ASSUME NEW i \in DOMAIN w
      PROVE  \/ i \in DOMAIN q /\ w[i] = q[i] /\ i < Len(q) + 1
             \/ i = Len(q) + 1 /\ w[i] = e
  BY <1>2, <1>7
<1>8. ASSUME NEW i \in DOMAIN w, w[i].source = "console", w[i].next.started
      PROVE  grants'[f].started
  BY <1>3, <1>4, <1>7, <1>8
<1>9. ASSUME NEW i \in DOMAIN w, w[i].source = "console"
      PROVE  Told(w[i].prev) = Told(IF i = 1 THEN NoGrant ELSE w[i - 1].next)
  <2>1. CASE i \in 1..Len(q)
    <3>1. Told(w[i].prev) = Told(IF i = 1 THEN NoGrant ELSE q[i - 1].next)
      BY <1>2, <1>3, <1>9, <2>1
    <3>2. i # 1 => i - 1 \in 1..Len(q)
      BY <1>2, <2>1
    <3> QED BY <1>2, <3>1, <3>2
  <2>2. CASE i = Len(q) + 1
    <3>1. Told(w[i].prev) = Told(grants[f])
      BY <1>2, <1>4, <1>9, <2>2
    <3>2. CASE Len(q) = 0
      BY <1>2, <1>3, <2>2, <3>1, <3>2
    <3>3. CASE Len(q) # 0
      <4>1. i # 1 /\ i - 1 = Len(q) /\ Len(q) \in 1..Len(q)
        BY <1>2, <2>2, <3>3
      <4>2. Told(grants[f]) = Told(q[Len(q)].next)
        BY <1>2, <1>3, <3>3
      <4> QED BY <1>2, <3>1, <4>1, <4>2
    <3> QED BY <3>2, <3>3
  <2> QED BY <1>2, <2>1, <2>2
<1>10. ASSUME NEW i \in DOMAIN w, w[i].source = "console"
       PROVE  w[i].prev.started => w[i].next.started
  BY <1>3, <1>4, <1>7, <1>10
<1>11. ASSUME NEW i \in DOMAIN w, w[i].source = "console", w[i].next.started,
              NEW j \in DOMAIN w, j > i, w[j].source = "console"
       PROVE  w[j].prev.started
  <2>1. CASE j \in DOMAIN q /\ w[j] = q[j]
    <3>1. i \in DOMAIN q /\ w[i] = q[i]
      BY <1>2, <1>7, <1>11, <2>1
    <3> QED BY <1>3, <1>11, <2>1, <3>1
  <2>2. CASE j = Len(q) + 1 /\ w[j] = e
    <3>1. i \in DOMAIN q /\ w[i] = q[i]
      BY <1>2, <1>7, <1>11, <2>2
    <3> QED BY <1>4, <1>11, <2>2, <3>1
  <2> QED BY <1>7, <2>1, <2>2
<1> QED BY <1>5, <1>6, <1>8, <1>9, <1>10, <1>11 DEF AuditOf, Knows

\* A row and its entry are written together, or neither.
LEMMA WriteKeeps ==
  ASSUME ConsoleKept, \A f \in Grants : AuditOf(f), NEW c \in Calls, Write(c)
  PROVE  ConsoleKept' /\ \A f \in Grants : AuditOf(f)'
<1>1. calls[c].pc = "write" /\ calls[c].pc \notin {"new", "done"} /\ ConsoleTyped
  BY DEF Write, CallAt, ConsoleKept
<1>2. calls[c] \in UnderWay /\ Row(c) \in Rows /\ Req(c).grant \in Grants /\ Req(c) \in Requests
      /\ calls[c].act \in Mutations
  BY <1>1, CallUnderWay DEF ConsoleKept, CallsKept, Ways
<1>3. CASE ~(Unchanged(c) /\ KeyFree(c))
  <2>1. UNCHANGED tables /\ (CallGoes(c, "missed") \/ Refused(c) \/ CallGoes(c, "classify"))
    BY <1>3 DEF Write
  <2>2. UNCHANGED <<grants, log, catalog, generation, assigned, previews>>
    BY <2>1 DEF tables
  <2>3. ConsoleKept'
    BY <1>1, <1>2, <2>1, <2>2, GoesKeeps, RefusedKeeps DEF Places, Plain
  <2>4. \A f \in Grants : AuditOf(f)'
    BY <2>2 DEF AuditOf, Knows
  <2> QED BY <2>3, <2>4
<1>4. CASE Unchanged(c) /\ KeyFree(c)
  <2>0. PICK f \in Grants : f = Req(c).grant
    BY <1>2
  <2> DEFINE w == Written(c)
             e == AuditEntry(calls[c].seen, Written(c), KeyOf(Req(c)))
  <2>1. /\ grants' = [grants EXCEPT ![f] = w] /\ log' = [log EXCEPT ![f] = Append(log[f], e)]
        /\ generation' = generation + 1 /\ Done(c) /\ UNCHANGED <<catalog, assigned, previews>>
    BY <1>4, <2>0 DEF Write
  <2>2. w \in Rows /\ w.seq = Row(c).seq + 1 /\ w.status \in Statuses \cup {Row(c).status}
        /\ (calls[c].act = "create" => w.status \in Statuses) /\ w.started = Row(c).started
    BY <1>1, <1>2, WrittenIs
  <2>3. SeenOf(calls[c].seen, f) /\ (calls[c].act # "create" => Row(c).status # "none")
    BY <1>1, <1>4, <2>0, ClaimIsCurrent
  <2>4. w.status # "none"
    BY <2>2, <2>3 DEF Statuses
  <2>5. e \in Entries /\ e.next = w /\ e.prev = calls[c].seen
    <3>1. KeyOf(Req(c)) \in AnyKeys
      BY <1>2 DEF AnyKeys
    <3>2. calls[c].seen \in Rows
      BY <1>2 DEF UnderWay
    <3> QED BY <2>2, <3>1, <3>2 DEF AuditEntry, Entries
  <2>6. grants[f] = Row(c)
    BY <2>0 DEF Row
  <2> HIDE DEF w, e
  <2>7. AuditOf(f)
    OBVIOUS
  <2>8. /\ grants' \in [Grants -> Rows] /\ grants'[f] = w /\ \A g \in Grants \ {f} : grants'[g] = grants[g]
        /\ log'[f] = Append(log[f], e) /\ \A g \in Grants \ {f} : log'[g] = log[g]
    BY <1>1, <2>1, <2>2 DEF ConsoleTyped
  <2>9. log' \in [Grants -> Seq(Entries)]
    <3>1. log[f] \in Seq(Entries)
      BY <1>1 DEF ConsoleTyped
    <3>2. Append(log[f], e) \in Seq(Entries)
      BY <2>5, <3>1, LogGrows
    <3> QED BY <1>1, <2>1, <3>2 DEF ConsoleTyped
  <2>10. \A d \in Calls : CallPlain(d)
    BY <1>1, <2>1, DonePlain
  <2>11. calls' \in [Calls -> CallStates]
    BY <1>1, <2>1, DonePlain
  <2>12. ConsoleTyped'
    <3>1. generation' \in Nat
      BY <1>1, <2>1 DEF ConsoleTyped
    <3> QED BY <1>1, <2>1, <2>8, <2>9, <2>11, <3>1 DEF ConsoleTyped
  <2>13. NoneIsNoGrant'
    BY <2>4, <2>8 DEF ConsoleKept, NoneIsNoGrant
  <2>14. \A g \in Grants : RowGoes(g)
    <3>1. Row(c).seq \in Nat
      BY <1>2 DEF Rows
    <3>2. w.seq > grants[f].seq
      BY <2>2, <2>6, <3>1
    <3> QED BY <2>8, <3>2 DEF RowGoes
  <2>15. \A p \in Previews : PreviewGoes(p)
    BY <2>1 DEF PreviewGoes
  <2>16. CallsKept' /\ PreviewsKept'
    BY <2>1, <2>8, <2>10, <2>14, <2>15, TablesMove
  <2>17. AuditOf(f)'
    <3>1. /\ Told(e.prev) = Told(grants[f]) /\ Knows(f, e.prev)
          /\ (e.prev.started => e.next.started) /\ w.started = grants[f].started
      BY <2>2, <2>3, <2>5, <2>6 DEF SeenOf
    <3> QED BY <1>1, <2>5, <2>7, <2>8, <3>1, EntryKeepsAudit
  <2>18. \A g \in Grants \ {f} : AuditOf(g)'
    BY <2>8 DEF AuditOf, Knows
  <2> QED BY <2>12, <2>13, <2>16, <2>17, <2>18 DEF ConsoleKept
<1> QED BY <1>3, <1>4

\* Order ingest renews a grant.
LEMMA RenewKeeps ==
  ASSUME ConsoleKept, \A f \in Grants : AuditOf(f), NEW f \in Grants, Renew(f)
  PROVE  ConsoleKept' /\ \A g \in Grants : AuditOf(g)'
<1>1. PICK t \in Terms : grants' = [grants EXCEPT ![f].terms = t, ![f].seq = grants[f].seq + 1]
  BY DEF Renew
<1> DEFINE n == grants[f].seq + 1
           w == [grants[f] EXCEPT !.terms = t, !.seq = n]
           e == [source |-> "order", next |-> Told(grants'[f]), of |-> None]
<1>2. ConsoleTyped /\ grants[f] \in Rows /\ grants[f].status \in {"active", "disabled"} /\ n \in Nat /\ t \in AnyTerms
  <2>1. ConsoleTyped /\ grants[f] \in Rows
    BY DEF ConsoleKept, ConsoleTyped
  <2>2. grants[f].status \in {"active", "disabled"} /\ t \in AnyTerms
    BY DEF Renew, AnyTerms
  <2>3. grants[f].seq \in Nat
    BY <2>1 DEF Rows
  <2> QED BY <2>1, <2>2, <2>3
<1>3. grants' = [grants EXCEPT ![f] = w]
  BY <1>1, <1>2 DEF ConsoleTyped
<1>4. log' = [log EXCEPT ![f] = Append(log[f], e)] /\ generation' = generation + 1
      /\ UNCHANGED <<catalog, assigned, previews, calls>>
  BY DEF Renew
<1>5. n > grants[f].seq
  BY <1>2 DEF Rows
<1> HIDE DEF n
<1>6. w \in Rows /\ w.seq = n /\ w.status = grants[f].status /\ w.started = grants[f].started
  BY <1>2 DEF Rows
<1> HIDE DEF w
<1>7. grants' \in [Grants -> Rows] /\ grants'[f] = w /\ \A g \in Grants \ {f} : grants'[g] = grants[g]
  BY <1>2, <1>3, <1>6 DEF ConsoleTyped
<1>8. e \in Entries /\ Told(e.next) = Told(grants'[f]) /\ e.source # "console"
  BY <1>6, <1>7, ToldIs DEF Entries
<1> HIDE DEF e
<1>9. log[f] \in Seq(Entries) /\ Append(log[f], e) \in Seq(Entries)
  BY <1>2, <1>8, LogGrows DEF ConsoleTyped
<1>10. log' \in [Grants -> Seq(Entries)] /\ log'[f] = Append(log[f], e) /\ \A g \in Grants \ {f} : log'[g] = log[g]
  BY <1>2, <1>4, <1>9 DEF ConsoleTyped
<1>11. ConsoleTyped'
  <2>1. generation' \in Nat
    BY <1>2, <1>4 DEF ConsoleTyped
  <2> QED BY <1>2, <1>4, <1>7, <1>10, <2>1 DEF ConsoleTyped
<1>12. NoneIsNoGrant'
  BY <1>2, <1>6, <1>7 DEF ConsoleKept, NoneIsNoGrant
<1>13. \A g \in Grants : RowGoes(g)
  BY <1>5, <1>6, <1>7, <1>10 DEF RowGoes
<1>14. (\A p \in Previews : PreviewGoes(p)) /\ \A d \in Calls : CallPlain(d)
  BY <1>4 DEF PreviewGoes, CallPlain
<1>15. CallsKept' /\ PreviewsKept'
  BY <1>4, <1>7, <1>13, <1>14, TablesMove
<1>16. AuditOf(f)'
  BY <1>2, <1>6, <1>7, <1>8, <1>10, EntryKeepsAudit
<1>17. \A g \in Grants \ {f} : AuditOf(g)'
  BY <1>7, <1>10 DEF AuditOf, Knows
<1> QED BY <1>11, <1>12, <1>15, <1>16, <1>17 DEF ConsoleKept

\* The first device of a trial starts it: no event, and no revocation_seq, but
\* the row has nothing less than before.
LEMMA StampKeeps ==
  ASSUME ConsoleKept, \A f \in Grants : AuditOf(f), NEW f \in Grants, StampTrial(f)
  PROVE  ConsoleKept' /\ \A g \in Grants : AuditOf(g)'
<1> DEFINE w == [grants[f] EXCEPT !.started = TRUE]
<1>1. ConsoleTyped /\ grants[f] \in Rows /\ grants[f].status = "active"
  BY DEF ConsoleKept, ConsoleTyped, StampTrial
<1>2. /\ grants' = [grants EXCEPT ![f] = w] /\ generation' = generation + 1
      /\ UNCHANGED <<log, catalog, assigned, previews, calls>>
  BY DEF StampTrial
<1>3. w \in Rows /\ w.started /\ w.status = "active" /\ Told(w) = Told(grants[f])
  BY <1>1 DEF Rows, Told
<1> HIDE DEF w
<1>4. grants' \in [Grants -> Rows] /\ grants'[f] = w /\ \A g \in Grants \ {f} : grants'[g] = grants[g]
  BY <1>1, <1>2, <1>3 DEF ConsoleTyped
<1>5. ConsoleTyped'
  <2>1. generation' \in Nat
    BY <1>1, <1>2 DEF ConsoleTyped
  <2> QED BY <1>1, <1>2, <1>4, <2>1 DEF ConsoleTyped
<1>6. NoneIsNoGrant'
  BY <1>3, <1>4 DEF ConsoleKept, NoneIsNoGrant
<1>7. \A g \in Grants : RowGoes(g)
  BY <1>2, <1>3, <1>4 DEF RowGoes
<1>8. (\A p \in Previews : PreviewGoes(p)) /\ \A d \in Calls : CallPlain(d)
  BY <1>2 DEF PreviewGoes, CallPlain
<1>9. CallsKept' /\ PreviewsKept'
  BY <1>2, <1>4, <1>7, <1>8, TablesMove
<1>10. \A g \in Grants : AuditOf(g)'
  <2> TAKE g \in Grants
  <2>1. Told(grants'[g]) = Told(grants[g]) /\ (grants[g].started => grants'[g].started)
    BY <1>3, <1>4
  <2>2. AuditOf(g) /\ log' = log
    BY <1>2
  <2> QED BY <2>1, <2>2 DEF AuditOf, Knows
<1> QED BY <1>5, <1>6, <1>9, <1>10 DEF ConsoleKept

\* Whoever else writes bumps the generation, and previews only run out.
LEMMA OthersKeep ==
  ASSUME ConsoleKept, \A f \in Grants : AuditOf(f), Touch \/ \E p \in Previews : Lapse(p)
  PROVE  ConsoleKept' /\ \A f \in Grants : AuditOf(f)'
<1>1. /\ grants' = grants /\ log' = log /\ calls' = calls /\ ConsoleTyped
      /\ catalog' \in Catalogs /\ assigned' \in Catalogs \cup {None, Other} /\ generation' \in Nat
      /\ generation' = generation + 1 \/ UNCHANGED <<generation, grants, catalog, assigned>>
  BY DEF ConsoleKept, ConsoleTyped, Touch, Lapse
<1>2. previews' \in [Previews -> PreviewStates] /\ \A p \in Previews : PreviewGoes(p)
  <2>1. CASE Touch
    BY <1>1, <2>1 DEF Touch, ConsoleTyped, PreviewGoes
  <2>2. ASSUME NEW p \in Previews, Lapse(p)
        PROVE  previews' \in [Previews -> PreviewStates] /\ \A q \in Previews : PreviewGoes(q)
    <3> DEFINE y == [previews[p] EXCEPT !.state = "lapsed"]
    <3>1. previews' = [previews EXCEPT ![p] = y] /\ previews[p].state \in {"live", "consumed"}
          /\ previews \in [Previews -> PreviewStates]
      BY <1>1, <2>2 DEF Lapse, ConsoleTyped
    <3>2. previews[p] \in [state : Held, actor : {r.actor : r \in Requests}, of : Snapshots]
      BY <3>1 DEF PreviewStates, NoPreview
    <3>3. y \in PreviewStates /\ y.state = "lapsed" /\ y.of = previews[p].of
      BY <3>2 DEF PreviewStates, Held
    <3> HIDE DEF y
    <3>4. previews'[p] = y /\ \A q \in Previews \ {p} : previews'[q] = previews[q]
      BY <3>1
    <3>5. previews' \in [Previews -> PreviewStates]
      BY <3>1, <3>3
    <3>6. \A q \in Previews : PreviewGoes(q)
      BY <3>1, <3>3, <3>4 DEF PreviewGoes, Held
    <3> QED BY <3>5, <3>6
  <2> QED BY <2>1, <2>2
<1>3. ConsoleTyped'
  BY <1>1, <1>2 DEF ConsoleTyped
<1>4. NoneIsNoGrant' /\ \A f \in Grants : AuditOf(f)'
  BY <1>1 DEF ConsoleKept, NoneIsNoGrant, AuditOf, Knows
<1>5. CallsKept' /\ PreviewsKept'
  <2>1. \A d \in Calls : CallPlain(d)
    BY <1>1 DEF CallPlain
  <2>2. grants' \in [Grants -> Rows] /\ \A f \in Grants : RowGoes(f)
    BY <1>1 DEF ConsoleTyped, RowGoes
  <2> QED BY <1>1, <1>2, <2>1, <2>2, TablesMove
<1> QED BY <1>3, <1>4, <1>5 DEF ConsoleKept

-----------------------------------------------------------------------------
(* Projections *)

\* The preview's snapshot is of the tables and of the generation at one instant.
LEMMA SnapshotKeeps ==
  ASSUME ConsoleKept, NEW c \in Calls, Snapshot(c)
  PROVE  ConsoleKept'
<1>1. calls[c].pc = "snapshot" /\ UNCHANGED <<grants, log, catalog, generation, assigned, previews>> /\ ConsoleTyped
  BY DEF Snapshot, CallAt, tables, ConsoleKept
<1>2. CASE Done(c)
  BY <1>1, <1>2, DoneKeeps
<1>3. CASE assigned # Other
  <2> DEFINE s == [generation |-> generation, grants |-> grants, catalog |-> catalog, assigned |-> assigned]
             x == [calls[c] EXCEPT !.pc = "persist", !.data = s]
  <2>1. calls' = [calls EXCEPT ![c] = x]
    BY <1>1, <1>3 DEF Snapshot, ConsoleTyped
  <2>2. s \in Snapshots /\ s.generation = generation /\ s.grants = grants /\ s.catalog = catalog /\ s.assigned = assigned
    BY <1>1 DEF ConsoleTyped, Snapshots
  <2>3. calls[c] \in UnderWay
    BY <1>1, CallUnderWay
  <2> HIDE DEF s
  <2>4. x \in UnderWay /\ x.pc = "persist" /\ x.data = s
    BY <2>2, <2>3 DEF UnderWay, Places
  <2> HIDE DEF x
  <2>5. generation <= generation
    BY <1>1 DEF ConsoleTyped
  <2>6. Ways(x) /\ Fresh(x) /\ Loaded(x) /\ Current(x.data)
    BY <2>2, <2>4, <2>5 DEF Ways, Fresh, Loaded, Current
  <2> QED BY <1>1, <2>1, <2>4, <2>6, CallKeeps DEF CallStates
<1> QED BY <1>2, <1>3 DEF Snapshot

\* A preview is stored while the generation it was taken at stands.
LEMMA PersistKeeps ==
  ASSUME ConsoleKept, NEW c \in Calls, Persist(c)
  PROVE  ConsoleKept'
<1> DEFINE s == calls[c].data
           kept == [p \in Previews |-> IF previews[p].state = "lapsed" THEN [state |-> "gone"] ELSE previews[p]]
           unused == {p \in Previews : previews[p].state = "none"}
           made == [state |-> "live", actor |-> Req(c).actor, of |-> s]
<1>1. calls[c].pc = "persist" /\ unused # {} /\ UNCHANGED <<grants, log, catalog, generation, assigned>> /\ ConsoleTyped
  BY DEF Persist, CallAt, ConsoleKept
<1>2. calls[c] \in UnderWay /\ Req(c) \in Requests
  BY <1>1, CallUnderWay
<1>3. s \in Snapshots /\ Current(s)
  BY <1>1 DEF ConsoleKept, CallsKept, Ways
<1>4. kept \in [Previews -> PreviewStates]
      /\ \A p \in Previews : /\ kept[p].state \in Held => kept[p] = previews[p]
                             /\ kept[p].state = "none" => kept[p] = previews[p]
  BY <1>1 DEF ConsoleTyped, PreviewStates, Held
<1>5. PICK first \in Previews : first = (CHOOSE p \in unused : TRUE) /\ previews[first].state = "none"
  BY <1>1
<1>6. made \in PreviewStates /\ made.of = s /\ made.state = "live"
  BY <1>2, <1>3 DEF PreviewStates, Held
<1>7. \/ previews' = [kept EXCEPT ![first] = made] /\ Done(c)
      \/ previews' = kept /\ Done(c)
      \/ previews' = kept /\ calls' = [calls EXCEPT ![c].pc = "snapshot", ![c].tries = calls[c].tries + 1, ![c].data = None]
  BY <1>5 DEF Persist
<1> HIDE DEF s, kept, unused, made
<1>8. previews' \in [Previews -> PreviewStates] /\ \A p \in Previews : PreviewGoes(p)
  <2>1. CASE previews' = kept
    BY <1>4, <2>1 DEF PreviewGoes
  <2>2. CASE previews' = [kept EXCEPT ![first] = made]
    <3>1. previews' \in [Previews -> PreviewStates] /\ previews'[first] = made
          /\ \A p \in Previews \ {first} : previews'[p] = kept[p]
      BY <1>4, <1>5, <1>6, <2>2
    <3>2. PreviewGoes(first)
      <4>1. Current(previews[first].of)'
        BY <1>1, <1>3, <1>6, <3>1 DEF Current
      <4> QED BY <1>5, <1>6, <3>1, <4>1 DEF PreviewGoes
    <3>3. \A p \in Previews \ {first} : PreviewGoes(p)
      BY <1>4, <3>1 DEF PreviewGoes
    <3> QED BY <3>1, <3>2, <3>3
  <2> QED BY <1>7, <2>1, <2>2
<1>9. calls' \in [Calls -> CallStates] /\ \A d \in Calls : CallPlain(d)
  <2>1. CASE Done(c)
    BY <1>1, <2>1, DonePlain
  <2>2. CASE calls' = [calls EXCEPT ![c].pc = "snapshot", ![c].tries = calls[c].tries + 1, ![c].data = None]
    <3> DEFINE n == calls[c].tries + 1
               x == [calls[c] EXCEPT !.pc = "snapshot", !.tries = n, !.data = None]
    <3>1. n \in Nat
      BY <1>2 DEF UnderWay
    <3>2. calls' = [calls EXCEPT ![c] = x]
      BY <1>1, <2>2 DEF ConsoleTyped
    <3> HIDE DEF n
    <3>3. x \in UnderWay /\ x.pc = "snapshot"
      BY <1>2, <3>1 DEF UnderWay, Places
    <3> HIDE DEF x
    <3>4. calls' \in [Calls -> CallStates] /\ calls'[c] = x /\ \A d \in Calls \ {c} : calls'[d] = calls[d]
      BY <1>1, <3>2, <3>3 DEF ConsoleTyped, CallStates
    <3> QED BY <3>3, <3>4 DEF CallPlain, Ways
  <2> QED BY <1>7, <2>1, <2>2
<1>10. ConsoleTyped'
  BY <1>1, <1>8, <1>9 DEF ConsoleTyped
<1>11. NoneIsNoGrant'
  BY <1>1 DEF ConsoleKept, NoneIsNoGrant
<1>12. CallsKept' /\ PreviewsKept'
  <2>1. grants' \in [Grants -> Rows] /\ (\A f \in Grants : RowGoes(f))
    BY <1>1 DEF ConsoleTyped, RowGoes
  <2> QED BY <1>1, <1>8, <1>9, <2>1, TablesMove
<1> QED BY <1>10, <1>11, <1>12 DEF ConsoleKept

\* The apply handler loads the preview it will claim.
LEMMA LoadKeeps ==
  ASSUME ConsoleKept, NEW c \in Calls, Load(c)
  PROVE  ConsoleKept'
<1> DEFINE p == Req(c).preview
<1>1. calls[c].pc = "load" /\ UNCHANGED <<grants, log, catalog, generation, assigned, previews>> /\ ConsoleTyped
  BY DEF Load, CallAt, tables, ConsoleKept
<1>2. calls[c] \in UnderWay /\ Req(c) \in Requests /\ Req(c).op = "apply"
  BY <1>1, CallUnderWay DEF ConsoleKept, CallsKept, Ways, Req
<1>3. p \in Previews
  BY <1>2, ConsoleAssumption
<1>4. CASE CallGoes(c, "missed")
  BY <1>1, <1>4, GoesKeeps DEF Places, Plain
<1>5. CASE Done(c)
  BY <1>1, <1>5, DoneKeeps
<1>6. CASE /\ previews[p].state \notin {"none", "gone"} /\ ~Blocked(previews[p].of)
           /\ calls' = [calls EXCEPT ![c].pc = "apply", ![c].data = previews[p].of]
  <2> DEFINE s == previews[p].of
             x == [calls[c] EXCEPT !.pc = "apply", !.data = s]
  <2>1. calls' = [calls EXCEPT ![c] = x]
    BY <1>1, <1>6 DEF ConsoleTyped
  <2>2. s \in Snapshots
    BY <1>1, <1>3, <1>6 DEF ConsoleTyped, PreviewStates, NoPreview
  <2>3. ~Blocked(s) /\ previews[p].state # "none" /\ s = previews[p].of
    BY <1>6
  <2> HIDE DEF s
  <2>4. x \in UnderWay /\ x.pc = "apply" /\ x.data = s /\ x.req = Req(c)
    BY <1>2, <2>2 DEF UnderWay, Places, Req
  <2> HIDE DEF x
  <2>5. Ways(x)
    BY <1>2, <2>2, <2>3, <2>4 DEF Ways
  <2>6. Loaded(x) /\ Fresh(x)
    BY <2>3, <2>4 DEF Loaded, Fresh
  <2> QED BY <1>1, <2>1, <2>4, <2>5, <2>6, CallKeeps DEF CallStates
<1> QED BY <1>4, <1>5, <1>6 DEF Load

\* A preview that can be claimed shows what is there.
LEMMA ClaimedIsThere ==
  ASSUME ConsoleKept, NEW c \in Calls, calls[c].pc = "apply", Claimable(c)
  PROVE  /\ calls[c] \in UnderWay /\ Req(c) \in Requests /\ Req(c).op = "apply" /\ Req(c).preview \in Previews
         /\ calls[c].data \in Snapshots /\ ~Blocked(calls[c].data)
         /\ previews[Req(c).preview].state = "live" /\ previews[Req(c).preview].of = calls[c].data
         /\ calls[c].data.grants = grants /\ calls[c].data.catalog = catalog /\ calls[c].data.assigned = assigned
<1>1. calls[c] \in UnderWay /\ Req(c) \in Requests
  BY CallUnderWay DEF ConsoleKept
<1>2. Req(c).op = "apply" /\ calls[c].data \in Snapshots /\ ~Blocked(calls[c].data)
  BY DEF ConsoleKept, CallsKept, Ways, Req
<1>3. Req(c).preview \in Previews
  BY <1>1, <1>2, ConsoleAssumption
<1>4. previews[Req(c).preview].state = "live" /\ previews[Req(c).preview].of.generation = generation
  BY DEF Claimable
<1>5. previews[Req(c).preview].of = calls[c].data
  BY <1>4 DEF ConsoleKept, CallsKept, Loaded, Req, Held
<1>6. Current(previews[Req(c).preview].of)
  BY <1>3, <1>4 DEF ConsoleKept, PreviewsKept, Held
<1> QED BY <1>1, <1>2, <1>3, <1>4, <1>5, <1>6 DEF Current

\* What a projection writes.
LEMMA ProjectedIs ==
  ASSUME ConsoleTyped, NEW s \in Snapshots, s.grants = grants, NEW f \in Grants,
         f \in Created(s) \cup Updated(s) \cup Disabled(s)
  PROVE  /\ Projected(f, s) \in Rows /\ Projected(f, s).seq = grants[f].seq + 1
         /\ f \in Live(s.catalog) => Matches(Projected(f, s), s.catalog[f])
         /\ f \notin Live(s.catalog) => Projected(f, s).status = "disabled"
         /\ Projected(f, s).status # "none" /\ Projected(f, s).started = grants[f].started
<1> DEFINE n == grants[f].seq + 1
           bumped == [grants[f] EXCEPT !.seq = @ + 1]
<1>1. grants[f] \in Rows /\ s.catalog \in Catalogs
  BY DEF ConsoleTyped, Snapshots
<1>2. bumped \in Rows /\ bumped.seq = n /\ bumped.started = grants[f].started
  BY <1>1 DEF Rows
<1> HIDE DEF n, bumped
<1>3. CASE f \in Created(s) \cup Updated(s)
  <2> DEFINE t == s.catalog[f].terms
             m == s.catalog[f].limit
  <2>1. Projected(f, s) = [bumped EXCEPT !.status = "active", !.terms = t, !.limit = m]
    <3>1. f \notin Disabled(s)
      BY <1>3 DEF Created, Updated, Disabled
    <3> QED BY <1>3, <3>1 DEF Projected, bumped
  <2>2. f \in Live(s.catalog) /\ s.catalog[f] # None
    BY <1>3 DEF Created, Updated, Live
  <2>3. s.catalog[f] \in Stamps
    <3>1. PICK y : y = <<s.catalog, f>>
      OBVIOUS
    <3>2. y \in Catalogs \X Grants /\ y[1][y[2]] = s.catalog[f]
      BY <1>1, <3>1
    <3> QED BY <2>2, <3>2 DEF Stamps
  <2>4. t \in AnyTerms /\ m \in AnyLimits
    BY <2>3 DEF AnyTerms, AnyLimits
  <2> HIDE DEF t, m
  <2>5. Projected(f, s) \in Rows /\ Projected(f, s).seq = n /\ Projected(f, s).status = "active"
        /\ Projected(f, s).terms = t /\ Projected(f, s).limit = m
        /\ Projected(f, s).started = bumped.started
    BY <1>2, <2>1, <2>4 DEF Rows, Statuses
  <2> QED BY <1>2, <2>2, <2>5 DEF Matches, n, t, m
<1>4. CASE f \notin Created(s) \cup Updated(s)
  <2>1. f \in Disabled(s)
    BY <1>4
  <2>2. Projected(f, s) = [bumped EXCEPT !.status = "disabled"]
    BY <1>4, <2>1 DEF Projected, bumped
  <2>3. f \notin Live(s.catalog)
    BY <2>1 DEF Disabled
  <2>4. Projected(f, s) \in Rows /\ Projected(f, s).seq = n /\ Projected(f, s).status = "disabled"
        /\ Projected(f, s).started = bumped.started
    BY <1>2, <2>2 DEF Rows, Statuses
  <2> QED BY <1>2, <2>3, <2>4 DEF n
<1> QED BY <1>3, <1>4

\* What an apply that is not refused does.
Applies(c, s) ==
  LET r == Req(c)
      changed == Created(s) \cup Updated(s) \cup Disabled(s)
  IN /\ grants' = [f \in Grants |-> IF f \in changed THEN Projected(f, s) ELSE grants[f]]
     /\ log' = [f \in Grants |->
                  IF f \in changed THEN Append(log[f], AuditEntry(s.grants[f], Projected(f, s), KeyOf(r)))
                  ELSE log[f]]
     /\ replies' = IF r.key = None THEN replies ELSE replies \cup {[of |-> KeyOf(r), body |-> [preview |-> r.preview]]}
     /\ assigned' = s.catalog /\ generation' = generation + 1
     /\ previews' = [previews EXCEPT ![r.preview].state = "consumed"]
     /\ Answered(c, [preview |-> r.preview]) /\ Done(c)
     /\ UNCHANGED <<catalog, touches>>

\* The projection's batch: every row it changes is logged with the row of the snapshot.
LEMMA ApplyKeeps ==
  ASSUME ConsoleKept, \A f \in Grants : AuditOf(f), NEW c \in Calls, Apply(c)
  PROVE  ConsoleKept' /\ \A f \in Grants : AuditOf(f)'
<1>1. calls[c].pc = "apply" /\ calls[c].pc \notin {"new", "done"} /\ ConsoleTyped
  BY DEF Apply, CallAt, ConsoleKept
<1>2. CASE UNCHANGED tables /\ (CallGoes(c, "missed") \/ Done(c))
  <2>1. UNCHANGED <<grants, log, catalog, generation, assigned, previews>>
    BY <1>2 DEF tables
  <2>2. ConsoleKept'
    BY <1>1, <1>2, <2>1, GoesKeeps, DoneKeeps DEF Places, Plain
  <2> QED BY <2>1, <2>2 DEF AuditOf, Knows
<1>3. CASE Claimable(c) /\ Applies(c, calls[c].data)
  <2>1. PICK s : s = calls[c].data
    OBVIOUS
  <2>2. PICK p : p = Req(c).preview
    OBVIOUS
  <2>3. /\ calls[c] \in UnderWay /\ Req(c) \in Requests /\ p \in Previews /\ s \in Snapshots
        /\ previews[p].state = "live" /\ previews[p].of = s
        /\ s.grants = grants /\ s.catalog = catalog /\ s.assigned = assigned
    BY <1>1, <1>3, <2>1, <2>2, ClaimedIsThere
  <2> DEFINE changed == Created(s) \cup Updated(s) \cup Disabled(s)
             e(f) == AuditEntry(grants[f], Projected(f, s), KeyOf(Req(c)))
  <2>4. /\ grants' = [f \in Grants |-> IF f \in changed THEN Projected(f, s) ELSE grants[f]]
        /\ log' = [f \in Grants |-> IF f \in changed THEN Append(log[f], e(f)) ELSE log[f]]
        /\ assigned' = s.catalog /\ generation' = generation + 1 /\ Done(c) /\ catalog' = catalog
        /\ previews' = [previews EXCEPT ![p].state = "consumed"]
    BY <1>3, <2>1, <2>2, <2>3 DEF Applies
  <2>5. \A f \in Grants : f \in changed =>
          /\ Projected(f, s) \in Rows /\ Projected(f, s).seq = grants[f].seq + 1 /\ Projected(f, s).status # "none"
          /\ Projected(f, s).started = grants[f].started
    BY <1>1, <2>3, ProjectedIs
  <2> HIDE DEF changed
  <2>6. \A f \in Grants : f \in changed =>
          e(f) \in Entries /\ e(f).next = Projected(f, s) /\ e(f).prev = grants[f]
    <3> SUFFICES ASSUME NEW f \in Grants, f \in changed
                 PROVE  e(f) \in Entries /\ e(f).next = Projected(f, s) /\ e(f).prev = grants[f]
      OBVIOUS
    <3>1. KeyOf(Req(c)) \in AnyKeys /\ grants[f] \in Rows /\ Projected(f, s) \in Rows
      BY <1>1, <2>3, <2>5 DEF AnyKeys, ConsoleTyped
    <3> QED BY <3>1 DEF AuditEntry, Entries
  <2> HIDE DEF e
  <2>7. \A f \in Grants : /\ grants'[f] = IF f \in changed THEN Projected(f, s) ELSE grants[f]
                          /\ log'[f] = IF f \in changed THEN Append(log[f], e(f)) ELSE log[f]
    BY <2>4
  <2>8. grants' \in [Grants -> Rows]
    BY <1>1, <2>4, <2>5 DEF ConsoleTyped
  <2>9. log' \in [Grants -> Seq(Entries)]
    <3>1. \A f \in Grants : log'[f] \in Seq(Entries)
      <4> TAKE f \in Grants
      <4>1. log[f] \in Seq(Entries)
        BY <1>1 DEF ConsoleTyped
      <4>2. CASE f \in changed
        <5>1. PICK x : x = e(f)
          OBVIOUS
        <5>2. x \in Entries /\ log'[f] = Append(log[f], x)
          BY <2>6, <2>7, <4>2, <5>1
        <5> QED BY <4>1, <5>2, LogGrows
      <4> QED BY <2>7, <4>1, <4>2
    <3>2. log' = [f \in Grants |-> log'[f]]
      BY <2>4
    <3> QED BY <3>1, <3>2
  <2>10. calls' \in [Calls -> CallStates] /\ \A d \in Calls : CallPlain(d)
    BY <1>1, <2>4, DonePlain
  <2>11. previews' \in [Previews -> PreviewStates] /\ \A q \in Previews : PreviewGoes(q)
    <3> DEFINE y == [previews[p] EXCEPT !.state = "consumed"]
    <3>1. previews' = [previews EXCEPT ![p] = y] /\ previews \in [Previews -> PreviewStates]
      BY <1>1, <2>4 DEF ConsoleTyped
    <3>2. previews[p] \in [state : Held, actor : {r.actor : r \in Requests}, of : Snapshots]
      BY <2>3, <3>1 DEF PreviewStates, NoPreview
    <3>3. y \in PreviewStates /\ y.state = "consumed" /\ y.of = previews[p].of
      BY <3>2 DEF PreviewStates, Held
    <3> HIDE DEF y
    <3>4. previews'[p] = y /\ \A q \in Previews \ {p} : previews'[q] = previews[q]
      BY <2>3, <3>1
    <3>5. previews' \in [Previews -> PreviewStates]
      BY <2>3, <3>1, <3>3
    <3> QED BY <2>3, <3>3, <3>4, <3>5 DEF PreviewGoes, Held
  <2>12. ConsoleTyped'
    <3>1. generation' \in Nat /\ assigned' \in Catalogs
      BY <1>1, <2>3, <2>4 DEF ConsoleTyped
    <3> QED BY <1>1, <2>4, <2>8, <2>9, <2>10, <2>11, <3>1 DEF ConsoleTyped
  <2>13. NoneIsNoGrant'
    BY <2>5, <2>7 DEF ConsoleKept, NoneIsNoGrant
  <2>14. \A f \in Grants : RowGoes(f)
    <3> TAKE f \in Grants
    <3>1. grants[f].seq \in Nat
      BY <1>1 DEF ConsoleTyped, Rows
    <3>2. CASE f \in changed
      <4>1. grants'[f].seq = grants[f].seq + 1
        BY <2>5, <2>7, <3>2
      <4> QED BY <3>1, <4>1 DEF RowGoes
    <3> QED BY <2>7, <3>2 DEF RowGoes
  <2>15. CallsKept' /\ PreviewsKept'
    BY <2>4, <2>8, <2>10, <2>11, <2>14, TablesMove
  <2>16. ASSUME NEW f \in Grants PROVE AuditOf(f)'
    <3>1. AuditOf(f)
      OBVIOUS
    <3>2. CASE f \in changed
      <4>1. PICK x : x = e(f)
        OBVIOUS
      <4>2. x \in Entries /\ grants'[f] = x.next /\ x.prev = grants[f] /\ log'[f] = Append(log[f], x)
            /\ grants'[f].started = grants[f].started
        BY <2>5, <2>6, <2>7, <3>2, <4>1
      <4>3. Knows(f, x.prev)
        BY <3>1, <4>2 DEF AuditOf
      <4> QED BY <1>1, <3>1, <4>2, <4>3, EntryKeepsAudit
    <3>3. CASE f \notin changed
      BY <2>7, <3>1, <3>3 DEF AuditOf, Knows
    <3> QED BY <3>2, <3>3
  <2> QED BY <2>12, <2>13, <2>15, <2>16 DEF ConsoleKept
<1>4. \/ UNCHANGED tables /\ (CallGoes(c, "missed") \/ Done(c))
      \/ Claimable(c) /\ Applies(c, calls[c].data)
  BY DEF Apply, Applies, ClaimFailed
<1> QED BY <1>2, <1>3, <1>4

-----------------------------------------------------------------------------
\* Empty tables, no calls and no previews.
LEMMA ConsoleInitKept == ConsoleInit => ConsoleKept /\ \A f \in Grants : AuditOf(f)
<1> SUFFICES ASSUME ConsoleInit PROVE ConsoleKept /\ \A f \in Grants : AuditOf(f)
  OBVIOUS
<1>1. /\ grants = [f \in Grants |-> NoGrant] /\ log = [f \in Grants |-> <<>>]
      /\ catalog \in Catalogs /\ generation = 0 /\ assigned = None
      /\ previews = [p \in Previews |-> NoPreview] /\ calls = [c \in Calls |-> Idle]
  BY DEF ConsoleInit
<1>2. ConsoleTyped
  <2>1. <<>> \in Seq(Entries)
    OBVIOUS
  <2>2. NoPreview \in PreviewStates /\ Idle \in CallStates
    BY DEF PreviewStates, CallStates
  <2> QED BY <1>1, <2>1, <2>2, NoGrantIsRow DEF ConsoleTyped
<1>3. NoneIsNoGrant
  BY <1>1 DEF NoneIsNoGrant
<1>4. CallsKept
  BY <1>1 DEF CallsKept, Idle, Ways, Fresh, Loaded
<1>5. PreviewsKept
  BY <1>1 DEF PreviewsKept, NoPreview, Held
<1>6. \A f \in Grants : AuditOf(f)
  BY <1>1 DEF AuditOf, Knows
<1> QED BY <1>2, <1>3, <1>4, <1>5, <1>6 DEF ConsoleKept

\* Every step of the console, of an order and of time keeps the tables, the logs and the calls.
LEMMA ConsoleStepKept ==
  (ConsoleKept /\ \A f \in Grants : AuditOf(f)) /\ [ConsoleNext]_console
  => (ConsoleKept /\ \A f \in Grants : AuditOf(f))'
<1> SUFFICES ASSUME ConsoleKept, \A f \in Grants : AuditOf(f), [ConsoleNext]_console
             PROVE  ConsoleKept' /\ \A f \in Grants : AuditOf(f)'
  OBVIOUS
<1>1. ASSUME NEW c \in Calls, CallStep(c) PROVE ConsoleKept' /\ \A f \in Grants : AuditOf(f)'
  <2>1. CASE Write(c)
    BY <2>1, WriteKeeps
  <2>2. CASE Apply(c)
    BY <2>2, ApplyKeeps
  <2>3. CASE \/ Dedup(c) \/ ReadSync(c) \/ ReadGrant(c)
             \/ Refuse(c) \/ Classify(c) \/ Missed(c) \/ Settle(c) \/ Remember(c) \/ Reread(c)
             \/ Snapshot(c) \/ Persist(c) \/ Load(c)
    <3>1. ConsoleKept'
      BY <2>3, DedupKeeps, ReadSyncKeeps, ReadGrantKeeps, LookupsKeep, SnapshotKeeps, PersistKeeps, LoadKeeps
    <3>2. grants' = grants /\ log' = log
      BY <2>3 DEF Dedup, ReadSync, ReadGrant, Refuse, Classify, Missed, Settle, Remember, Reread,
                  Snapshot, Persist, Load, tables
    <3> QED BY <3>1, <3>2 DEF AuditOf, Knows
  <2> QED BY <1>1, <2>1, <2>2, <2>3 DEF CallStep
<1>2. ASSUME NEW c \in Calls, NEW r \in Requests, Arrive(c, r) PROVE ConsoleKept' /\ \A f \in Grants : AuditOf(f)'
  <2>1. ConsoleKept'
    BY <1>2, ArriveKeeps
  <2>2. grants' = grants /\ log' = log
    BY <1>2 DEF Arrive, tables
  <2> QED BY <2>1, <2>2 DEF AuditOf, Knows
<1>3. CASE \E f \in Grants : Renew(f) \/ StampTrial(f)
  BY <1>3, RenewKeeps, StampKeeps
<1>4. CASE Touch \/ \E p \in Previews : Lapse(p)
  BY <1>4, OthersKeep
<1>5. CASE UNCHANGED console
  <2>1. /\ grants' = grants /\ log' = log /\ catalog' = catalog /\ generation' = generation
        /\ assigned' = assigned /\ previews' = previews /\ calls' = calls
    BY <1>5 DEF console
  <2>2. ConsoleTyped' /\ NoneIsNoGrant' /\ \A f \in Grants : AuditOf(f)'
    BY <2>1 DEF ConsoleKept, ConsoleTyped, NoneIsNoGrant, AuditOf, Knows
  <2>3. CallsKept' /\ PreviewsKept'
    BY <2>1 DEF ConsoleKept, CallsKept, PreviewsKept, Ways, Blocked, Live, Fresh, SeenOf, Knows, Loaded, Current
  <2> QED BY <2>2, <2>3 DEF ConsoleKept
<1> QED BY <1>1, <1>2, <1>3, <1>4, <1>5 DEF ConsoleNext

\* The audit log has no gaps and no invented past (writeEntitlementWithAudit,
\* entitlementAuditStatement).
THEOREM AuditUnbrokenHolds == ConsoleSpec => []AuditUnbroken
<1> DEFINE Kept == ConsoleKept /\ \A f \in Grants : AuditOf(f)
<1>1. Kept => AuditUnbroken
  BY DEF AuditUnbroken, EventsChain, StartsKept, AuditOf, Knows
<1>2. ConsoleInit => Kept
  BY ConsoleInitKept
<1>3. Kept /\ [ConsoleNext]_console => Kept'
  BY ConsoleStepKept
<1> HIDE DEF Kept
<1> QED BY <1>1, <1>2, <1>3, PTL DEF ConsoleSpec

-----------------------------------------------------------------------------
(* Projections do what was shown *)

Showing(p) ==
  LET s == previews'[p].of
  IN /\ previews[p].state = "live" /\ s.grants = grants /\ s.catalog = catalog /\ s.assigned = assigned
     /\ \A f \in Grants : IF f \in Live(s.catalog) THEN Matches(grants'[f], s.catalog[f])
                          ELSE grants'[f].status \in {"none", "disabled", "revoked"}

\* The batch that consumes a preview writes what the preview showed.
LEMMA ApplyShows ==
  ASSUME ConsoleKept, NEW c \in Calls, Apply(c), NEW p \in Previews,
         previews[p].state # "consumed", previews'[p].state = "consumed"
  PROVE  Showing(p)
<1>1. calls[c].pc = "apply" /\ ConsoleTyped /\ previews' # previews
  BY DEF Apply, CallAt, ConsoleKept
<1>2. Claimable(c) /\ Applies(c, calls[c].data)
  BY <1>1 DEF Apply, Applies, tables
<1>3. PICK s : s = calls[c].data
  OBVIOUS
<1>4. p = Req(c).preview /\ previews'[p].of = previews[p].of
  <2>1. previews' = [previews EXCEPT ![Req(c).preview].state = "consumed"]
    BY <1>2 DEF Applies
  <2>2. Req(c).preview \in Previews /\ previews \in [Previews -> PreviewStates]
    BY <1>1, <1>2, ClaimedIsThere DEF ConsoleTyped
  <2>3. p = Req(c).preview
    BY <2>1, <2>2
  <2>4. previews'[p] = [previews[p] EXCEPT !.state = "consumed"]
    BY <2>1, <2>2, <2>3
  <2>5. previews[p] \in [state : Held, actor : {r.actor : r \in Requests}, of : Snapshots]
    <3>1. previews[p].state = "live"
      BY <1>1, <1>2, <2>3, ClaimedIsThere
    <3> QED BY <2>2, <3>1 DEF PreviewStates, NoPreview
  <2> QED BY <2>3, <2>4, <2>5
<1>5. /\ s \in Snapshots /\ ~Blocked(s) /\ previews[p].state = "live" /\ previews'[p].of = s
      /\ s.grants = grants /\ s.catalog = catalog /\ s.assigned = assigned
  BY <1>1, <1>2, <1>3, <1>4, ClaimedIsThere
<1>6. ASSUME NEW f \in Grants
      PROVE  IF f \in Live(s.catalog) THEN Matches(grants'[f], s.catalog[f])
             ELSE grants'[f].status \in {"none", "disabled", "revoked"}
  <2> DEFINE changed == Created(s) \cup Updated(s) \cup Disabled(s)
  <2>1. grants'[f] = IF f \in changed THEN Projected(f, s) ELSE grants[f]
    BY <1>2, <1>3 DEF Applies
  <2>2. grants[f].status \in Statuses \cup {"none"} /\ (grants[f].status = "none" => grants[f] = NoGrant)
    BY <1>1 DEF ConsoleKept, ConsoleTyped, Rows, NoneIsNoGrant
  <2>3. CASE f \in changed
    <3>1. /\ f \in Live(s.catalog) => Matches(Projected(f, s), s.catalog[f])
          /\ f \notin Live(s.catalog) => Projected(f, s).status = "disabled"
      BY <1>1, <1>5, <2>3, ProjectedIs
    <3> QED BY <2>1, <2>3, <3>1
  <2>4. CASE f \notin changed
    <3>1. CASE f \in Live(s.catalog)
      <4>1. grants[f].status # "revoked"
        BY <1>5, <3>1 DEF Blocked
      <4>2. grants[f] # NoGrant
        BY <1>5, <2>4, <3>1 DEF Created
      <4>3. grants[f].status \in {"active", "disabled"}
        BY <2>2, <4>1, <4>2 DEF Statuses
      <4>4. Matches(grants[f], s.catalog[f])
        BY <1>5, <2>4, <3>1, <4>3 DEF Updated
      <4> QED BY <2>1, <2>4, <3>1, <4>4
    <3>2. CASE f \notin Live(s.catalog)
      <4>1. grants[f].status # "active"
        BY <1>5, <2>4, <3>2 DEF Disabled
      <4> QED BY <2>1, <2>2, <2>4, <3>2, <4>1 DEF Statuses
    <3> QED BY <3>1, <3>2
  <2> QED BY <2>3, <2>4
<1> QED BY <1>5, <1>6 DEF Showing

\* A projection is applied once, as it was previewed (applyPlanProjection).
THEOREM ProjectedAsPreviewedHolds == ConsoleSpec => ProjectedAsPreviewed
<1> DEFINE Kept == ConsoleKept /\ \A f \in Grants : AuditOf(f)
           Shown == \A p \in Previews :
                      previews[p].state # "consumed" /\ previews'[p].state = "consumed"
                      => LET s == previews'[p].of
                         IN /\ previews[p].state = "live" /\ s.grants = grants /\ s.catalog = catalog /\ s.assigned = assigned
                            /\ \A f \in Grants : IF f \in Live(s.catalog) THEN Matches(grants'[f], s.catalog[f])
                                               ELSE grants'[f].status \in {"none", "disabled", "revoked"}
<1>1. ConsoleInit => Kept
  BY ConsoleInitKept
<1>2. Kept /\ [ConsoleNext]_console => Kept'
  BY ConsoleStepKept
<1>3. Kept /\ [ConsoleNext]_console => [Shown]_console
  <2> SUFFICES ASSUME Kept, ConsoleNext, NEW p \in Previews,
                      previews[p].state # "consumed", previews'[p].state = "consumed"
               PROVE  Showing(p)
    BY DEF Showing
  <2>1. ConsoleKept /\ previews \in [Previews -> PreviewStates] /\ previews' # previews
    BY DEF ConsoleKept, ConsoleTyped
  <2>2. ASSUME NEW q \in Previews, Lapse(q) PROVE FALSE
    <3>1. previews' = [previews EXCEPT ![q].state = "lapsed"] /\ previews[q].state \in {"live", "consumed"}
      BY <2>2 DEF Lapse
    <3>2. previews[q] \in [state : Held, actor : {r.actor : r \in Requests}, of : Snapshots]
      BY <2>1, <3>1 DEF PreviewStates, NoPreview
    <3>3. [previews[q] EXCEPT !.state = "lapsed"].state = "lapsed"
      BY <3>2
    <3>4. p = q \/ previews'[p] = previews[p]
      BY <2>1, <3>1
    <3>5. previews'[q] = [previews[q] EXCEPT !.state = "lapsed"]
      BY <2>1, <3>1
    <3> QED BY <3>3, <3>4, <3>5
  <2>3. \A c \in Calls : ~Persist(c)
    <3> SUFFICES ASSUME NEW c \in Calls, Persist(c) PROVE FALSE
      OBVIOUS
    <3> DEFINE kept == [q \in Previews |-> IF previews[q].state = "lapsed" THEN [state |-> "gone"] ELSE previews[q]]
               unused == {q \in Previews : previews[q].state = "none"}
               made == [state |-> "live", actor |-> Req(c).actor, of |-> calls[c].data]
    <3>1. previews' = kept \/ \E q \in Previews : previews' = [kept EXCEPT ![q] = made]
      BY DEF Persist
    <3>2. kept[p].state # "consumed" /\ made.state # "consumed"
      OBVIOUS
    <3>3. DOMAIN kept = Previews /\ kept = [q \in Previews |-> kept[q]]
      OBVIOUS
    <3> HIDE DEF kept, made
    <3>4. CASE previews' = kept
      BY <3>2, <3>4
    <3>5. ASSUME NEW q \in Previews, previews' = [kept EXCEPT ![q] = made] PROVE FALSE
      <4>1. previews'[p] = IF p = q THEN made ELSE kept[p]
        BY <3>3, <3>5
      <4> QED BY <3>2, <4>1
    <3> QED BY <3>1, <3>4, <3>5
  <2>4. \A f \in Grants : ~Renew(f) /\ ~StampTrial(f)
    BY <2>1 DEF Renew, StampTrial
  <2>5. ~Touch /\ \A c \in Calls, r \in Requests : ~Arrive(c, r)
    BY <2>1 DEF Touch, Arrive, tables
  <2>6. \A c \in Calls : CallStep(c) => Apply(c)
    BY <2>1, <2>3 DEF CallStep, Dedup, ReadSync, ReadGrant, Refuse, Write, Classify, Missed, Settle, Remember, Reread,
                     Snapshot, Load, tables
  <2>7. PICK c \in Calls : Apply(c)
    BY <2>2, <2>4, <2>5, <2>6 DEF ConsoleNext
  <2> QED BY <2>1, <2>7, ApplyShows
<1> HIDE DEF Kept, Shown
<1>4. ConsoleSpec => [][Shown]_console
  BY <1>1, <1>2, <1>3, PTL DEF ConsoleSpec
<1> QED BY <1>4 DEF ProjectedAsPreviewed, Shown

-----------------------------------------------------------------------------
(* Keys are spent once *)

SpentOnce ==
  \A f, g \in Grants : \A i \in DOMAIN log[f], j \in DOMAIN log[g] :
    LET of == log[f][i].of
    IN of # None /\ of = log[g][j].of => (f = g => i = j) /\ (f # g => of.scope.op = "apply")

\* What a grant's log gets: nothing, or one entry under a key.
Logs(f, k) == log'[f] = log[f] \/ \E e \in Entries : log'[f] = Append(log[f], e) /\ e.of = k

\* A batch that logs under a key nobody has stored, and stores it, spends it once.
LEMMA LogsSpend ==
  ASSUME ConsoleTyped, RepliesKept, SpentOnce, NEW k, \A f \in Grants : Logs(f, k),
         k # None => /\ \A x \in replies : x.of # k
                     /\ \E x \in replies' : x.of = k,
         k # None => \/ k.scope.op = "apply"
                     \/ \A f, g \in Grants : log'[f] # log[f] /\ log'[g] # log[g] => f = g,
         replies \subseteq replies'
  PROVE  /\ SpentOnce'
         /\ \A f \in Grants : \A i \in DOMAIN log'[f] : log'[f][i].of # None => \E x \in replies' : x.of = log'[f][i].of
<1>1. ASSUME NEW f \in Grants, NEW i \in DOMAIN log'[f]
      PROVE  \/ i \in DOMAIN log[f] /\ log'[f][i] = log[f][i]
             \/ i = Len(log[f]) + 1 /\ log'[f] # log[f] /\ log'[f][i].of = k
  <2>1. log[f] \in Seq(Entries) /\ Logs(f, k)
    BY DEF ConsoleTyped
  <2>2. CASE log'[f] = log[f]
    BY <1>1, <2>2
  <2>3. ASSUME NEW e \in Entries, log'[f] = Append(log[f], e), e.of = k
        PROVE  \/ i \in DOMAIN log[f] /\ log'[f][i] = log[f][i]
               \/ i = Len(log[f]) + 1 /\ log'[f] # log[f] /\ log'[f][i].of = k
    <3> DEFINE q == log[f]
               w == Append(log[f], e)
    <3>1. /\ Len(w) = Len(q) + 1 /\ DOMAIN w = 1..(Len(q) + 1) /\ w[Len(q) + 1] = e
          /\ \A n \in 1..Len(q) : w[n] = q[n]
          /\ Len(q) \in Nat /\ DOMAIN q = 1..Len(q)
      BY <2>1, LogGrows
    <3>2. log'[f] = w
      BY <2>3
    <3> HIDE DEF w
    <3>3. CASE i \in 1..Len(q)
      BY <3>1, <3>2, <3>3
    <3>4. CASE i = Len(q) + 1
      <4>1. Len(w) # Len(q)
        BY <3>1
      <4> QED BY <2>3, <3>1, <3>2, <3>4, <4>1
    <3>5. i \in 1..(Len(q) + 1)
      BY <1>1, <3>1, <3>2
    <3> HIDE DEF q
    <3> QED BY <3>1, <3>3, <3>4, <3>5
  <2> QED BY <2>1, <2>2, <2>3 DEF Logs
<1>2. ASSUME NEW f \in Grants, NEW i \in DOMAIN log[f], log[f][i].of # None
      PROVE  (\E x \in replies : x.of = log[f][i].of) /\ log[f][i].of # k
  <2>1. PICK x \in replies : x.of = log[f][i].of
    BY <1>2 DEF RepliesKept
  <2> QED BY <1>2, <2>1
<1>3. SpentOnce'
  <2> SUFFICES ASSUME NEW f \in Grants, NEW g \in Grants, NEW i \in DOMAIN log'[f], NEW j \in DOMAIN log'[g],
                      log'[f][i].of # None, log'[f][i].of = log'[g][j].of
               PROVE  (f = g => i = j) /\ (f # g => log'[f][i].of.scope.op = "apply")
    BY DEF SpentOnce
  <2>1. CASE i \in DOMAIN log[f] /\ log'[f][i] = log[f][i] /\ j \in DOMAIN log[g] /\ log'[g][j] = log[g][j]
    BY <2>1 DEF SpentOnce
  <2>2. CASE /\ i = Len(log[f]) + 1 /\ log'[f] # log[f] /\ log'[f][i].of = k
             /\ j = Len(log[g]) + 1 /\ log'[g] # log[g] /\ log'[g][j].of = k
    BY <2>2
  <2>3. ~(i \in DOMAIN log[f] /\ log'[f][i] = log[f][i] /\ log'[g][j].of = k)
    BY <1>2
  <2>4. ~(j \in DOMAIN log[g] /\ log'[g][j] = log[g][j] /\ log'[f][i].of = k)
    BY <1>2
  <2> QED BY <1>1, <2>1, <2>2, <2>3, <2>4
<1>4. ASSUME NEW f \in Grants, NEW i \in DOMAIN log'[f], log'[f][i].of # None
      PROVE  \E x \in replies' : x.of = log'[f][i].of
  <2>1. CASE i \in DOMAIN log[f] /\ log'[f][i] = log[f][i]
    BY <1>2, <1>4, <2>1
  <2>2. CASE log'[f][i].of = k
    BY <1>4, <2>2
  <2> QED BY <1>1, <2>1, <2>2
<1> QED BY <1>3, <1>4

\* A key, when there is one, and the response stored under it.
LEMMA KeyIsKey ==
  ASSUME NEW r \in Requests
  PROVE  KeyOf(r) = None <=> r.key = None
BY NoneIsNoKey DEF KeyOf

\* Nothing is logged or stored; what is answered was stored.
LEMMA AnswersFromStore ==
  ASSUME RepliesKept, SpentOnce, log' = log, replies' = replies, answers' \subseteq replies
  PROVE  RepliesKept' /\ SpentOnce'
BY DEF RepliesKept, SpentOnce

\* An answer that is replayed is the stored one.
LEMMA ReplayAnswers ==
  ASSUME RepliesKept, SpentOnce, NEW c \in Calls, NEW pc, Replay(c, pc), log' = log, replies' = replies
  PROVE  RepliesKept' /\ SpentOnce'
<1>1. answers \subseteq replies
  BY DEF RepliesKept
<1>2. answers' \subseteq replies
  <2>1. CASE answers' = answers
    BY <1>1, <2>1
  <2>2. ASSUME NEW x \in Stored(c), Answered(c, x.body)
        PROVE  answers' \subseteq replies
    <3>1. x \in replies /\ x.of = KeyOf(Req(c)) /\ x = [of |-> x.of, body |-> x.body]
      BY DEF Stored, RepliesKept
    <3> QED BY <1>1, <2>2, <3>1 DEF Answered
  <2> QED BY <2>1, <2>2 DEF Replay
<1> QED BY <1>2, AnswersFromStore

\* One response more, under a key that had none.
LEMMA ResponseStored ==
  ASSUME RepliesKept, NEW k, NEW body, k # None, \A x \in replies : x.of # k,
         replies' = replies \cup {[of |-> k, body |-> body]},
         answers' \subseteq replies',
         \A f \in Grants : \A i \in DOMAIN log'[f] : log'[f][i].of # None => \E x \in replies' : x.of = log'[f][i].of
  PROVE  RepliesKept'
<1> DEFINE y == [of |-> k, body |-> body]
<1>1. y.of = k /\ y = [of |-> y.of, body |-> y.body]
  OBVIOUS
<1>2. replies' = replies \cup {y}
  OBVIOUS
<1> HIDE DEF y
<1>3. \A x \in replies' : x = [of |-> x.of, body |-> x.body] /\ x.of # None
  BY <1>1, <1>2 DEF RepliesKept
<1>4. \A x, z \in replies' : x.of = z.of => x = z
  BY <1>1, <1>2 DEF RepliesKept
<1> QED BY <1>3, <1>4 DEF RepliesKept

\* A mutation that writes spends its key.
LEMMA WriteSpends ==
  ASSUME ConsoleKept, RepliesKept, SpentOnce, NEW c \in Calls, Write(c)
  PROVE  RepliesKept' /\ SpentOnce'
<1>1. calls[c].pc = "write" /\ calls[c].pc \notin {"new", "done"} /\ ConsoleTyped
  BY DEF Write, CallAt, ConsoleKept
<1>2. Req(c) \in Requests /\ Req(c).grant \in Grants /\ calls[c] \in UnderWay /\ Row(c) \in Rows
      /\ calls[c].act \in Mutations
  BY <1>1, CallUnderWay DEF ConsoleKept, CallsKept, Ways
<1>3. CASE ~(Unchanged(c) /\ KeyFree(c))
  <2>1. UNCHANGED tables /\ answers' = answers
    BY <1>3 DEF Write, Refused
  <2> QED BY <2>1, AnswersFromStore DEF tables, RepliesKept
<1>4. CASE Unchanged(c) /\ KeyFree(c)
  <2>1. PICK k : k = KeyOf(Req(c))
    OBVIOUS
  <2>2. PICK f \in Grants : f = Req(c).grant
    BY <1>2
  <2> DEFINE body == [grant |-> f, row |-> Written(c)]
             e == AuditEntry(calls[c].seen, Written(c), k)
  <2>3. /\ log' = [log EXCEPT ![f] = Append(log[f], e)]
        /\ replies' = IF Req(c).key = None \/ Stored(c) # {} THEN replies ELSE replies \cup {[of |-> k, body |-> body]}
        /\ Answered(c, body)
    BY <1>4, <2>1, <2>2 DEF Write
  <2>4. e \in Entries /\ e.of = k
    <3>1. Written(c) \in Rows /\ calls[c].seen \in Rows /\ k \in AnyKeys
      BY <1>1, <1>2, <2>1, WrittenIs DEF UnderWay, AnyKeys
    <3> QED BY <3>1 DEF AuditEntry, Entries
  <2>5. Stored(c) = {} /\ (k = None <=> Req(c).key = None) /\ \A x \in replies : x.of # k
    BY <1>2, <1>4, <2>1, KeyIsKey DEF KeyFree, Stored
  <2> HIDE DEF body, e
  <2>6. \A g \in Grants : log'[g] = IF g = f THEN Append(log[f], e) ELSE log[g]
    BY <1>1, <2>3 DEF ConsoleTyped
  <2>7. (\A g \in Grants : Logs(g, k)) /\ (\A g, h \in Grants : log'[g] # log[g] /\ log'[h] # log[h] => g = h)
    BY <2>4, <2>6 DEF Logs
  <2>8. CASE k = None
    <3>1. replies' = replies
      BY <2>3, <2>5, <2>8
    <3>2. answers' = answers
      BY <2>1, <2>3, <2>8 DEF Answered
    <3>3. SpentOnce' /\ \A g \in Grants : \A i \in DOMAIN log'[g] :
                          log'[g][i].of # None => \E x \in replies' : x.of = log'[g][i].of
      BY <1>1, <2>7, <2>8, <3>1, LogsSpend
    <3> QED BY <3>1, <3>2, <3>3 DEF RepliesKept
  <2>9. CASE k # None
    <3>1. replies' = replies \cup {[of |-> k, body |-> body]}
      BY <2>3, <2>5, <2>9
    <3>2. \E x \in replies' : x.of = k
      <4>1. PICK y : y = [of |-> k, body |-> body]
        OBVIOUS
      <4>2. y \in replies' /\ y.of = k
        BY <3>1, <4>1
      <4> QED BY <4>2
    <3>3. SpentOnce' /\ \A g \in Grants : \A i \in DOMAIN log'[g] :
                          log'[g][i].of # None => \E x \in replies' : x.of = log'[g][i].of
      BY <1>1, <2>5, <2>7, <3>1, <3>2, LogsSpend
    <3>4. answers' \subseteq replies'
      BY <2>1, <2>3, <3>1 DEF Answered, RepliesKept
    <3>5. RepliesKept'
      BY <2>5, <2>9, <3>1, <3>3, <3>4, ResponseStored
    <3> QED BY <3>3, <3>5
  <2> QED BY <2>8, <2>9
<1> QED BY <1>3, <1>4

\* A projection spends its key once, for all the grants it changes.
LEMMA ApplySpends ==
  ASSUME ConsoleKept, RepliesKept, SpentOnce, NEW c \in Calls, Apply(c)
  PROVE  RepliesKept' /\ SpentOnce'
<1>1. calls[c].pc = "apply" /\ ConsoleTyped
  BY DEF Apply, CallAt, ConsoleKept
<1>2. CASE UNCHANGED <<tables, answers>>
  BY <1>2, AnswersFromStore DEF tables, RepliesKept
<1>3. CASE Claimable(c) /\ Stored(c) = {} /\ Applies(c, calls[c].data)
  <2>1. PICK s : s = calls[c].data
    OBVIOUS
  <2>2. PICK k : k = KeyOf(Req(c))
    OBVIOUS
  <2>3. Req(c) \in Requests /\ Req(c).op = "apply" /\ s \in Snapshots /\ s.grants = grants
    BY <1>1, <1>3, <2>1, ClaimedIsThere
  <2> DEFINE body == [preview |-> Req(c).preview]
             changed == Created(s) \cup Updated(s) \cup Disabled(s)
             e(f) == AuditEntry(grants[f], Projected(f, s), k)
  <2>4. /\ log' = [f \in Grants |-> IF f \in changed THEN Append(log[f], e(f)) ELSE log[f]]
        /\ replies' = IF Req(c).key = None THEN replies ELSE replies \cup {[of |-> k, body |-> body]}
        /\ Answered(c, body)
    BY <1>3, <2>1, <2>2, <2>3 DEF Applies
  <2>5. \A f \in Grants : f \in changed => e(f) \in Entries /\ e(f).of = k
    <3> SUFFICES ASSUME NEW f \in Grants, f \in changed
                 PROVE  e(f) \in Entries /\ e(f).of = k
      OBVIOUS
    <3>1. k \in AnyKeys /\ grants[f] \in Rows /\ Projected(f, s) \in Rows
      BY <1>1, <2>2, <2>3, ProjectedIs DEF AnyKeys, ConsoleTyped
    <3> QED BY <3>1 DEF AuditEntry, Entries
  <2>6. (k = None <=> Req(c).key = None) /\ (\A x \in replies : x.of # k) /\ (k # None => k.scope.op = "apply")
    <3>1. k = None <=> Req(c).key = None
      BY <2>2, <2>3, KeyIsKey
    <3>2. \A x \in replies : x.of # k
      BY <1>3, <2>2 DEF Stored
    <3>3. k # None => k.scope.op = "apply"
      BY <2>2, <2>3 DEF KeyOf, Scope
    <3> QED BY <3>1, <3>2, <3>3
  <2> HIDE DEF body, changed, e
  <2>7. \A f \in Grants : Logs(f, k)
    <3> TAKE f \in Grants
    <3>1. CASE f \in changed
      <4>1. PICK x : x = e(f)
        OBVIOUS
      <4> QED BY <2>4, <2>5, <3>1, <4>1 DEF Logs
    <3>2. CASE f \notin changed
      BY <2>4, <3>2 DEF Logs
    <3> QED BY <3>1, <3>2
  <2>8. CASE k = None
    <3>1. replies' = replies
      BY <2>4, <2>6, <2>8
    <3>2. answers' = answers
      BY <2>2, <2>4, <2>8 DEF Answered
    <3>3. SpentOnce' /\ \A g \in Grants : \A i \in DOMAIN log'[g] :
                          log'[g][i].of # None => \E x \in replies' : x.of = log'[g][i].of
      BY <1>1, <2>7, <2>8, <3>1, LogsSpend
    <3> QED BY <3>1, <3>2, <3>3 DEF RepliesKept
  <2>9. CASE k # None
    <3>1. replies' = replies \cup {[of |-> k, body |-> body]}
      BY <2>4, <2>6, <2>9
    <3>2. \E x \in replies' : x.of = k
      <4>1. PICK y : y = [of |-> k, body |-> body]
        OBVIOUS
      <4>2. y \in replies' /\ y.of = k
        BY <3>1, <4>1
      <4> QED BY <4>2
    <3>3. SpentOnce' /\ \A g \in Grants : \A i \in DOMAIN log'[g] :
                          log'[g][i].of # None => \E x \in replies' : x.of = log'[g][i].of
      BY <1>1, <2>6, <2>7, <2>9, <3>1, <3>2, LogsSpend
    <3>4. answers' \subseteq replies'
      BY <2>2, <2>4, <3>1 DEF Answered, RepliesKept
    <3>5. RepliesKept'
      BY <2>6, <2>9, <3>1, <3>3, <3>4, ResponseStored
    <3> QED BY <3>3, <3>5
  <2> QED BY <2>8, <2>9
<1>4. UNCHANGED <<tables, answers>> \/ (Claimable(c) /\ Stored(c) = {} /\ Applies(c, calls[c].data))
  BY DEF Apply, Applies
<1> QED BY <1>2, <1>3, <1>4

\* A response that was computed without a write is stored by the first who does.
LEMMA RememberSpends ==
  ASSUME ConsoleKept, RepliesKept, SpentOnce, NEW c \in Calls, Remember(c)
  PROVE  RepliesKept' /\ SpentOnce'
<1>1. calls[c].pc = "remember" /\ log' = log
  BY DEF Remember, CallAt
<1>2. Req(c) \in Requests
  BY <1>1, CallUnderWay DEF ConsoleKept
<1>3. PICK k : k = KeyOf(Req(c))
  OBVIOUS
<1>4. CASE Req(c).key = None
  <2>1. k = None
    BY <1>2, <1>3, <1>4, KeyIsKey
  <2>2. replies' = replies /\ answers' = answers
    BY <1>3, <1>4, <2>1 DEF Remember, Answered
  <2> QED BY <1>1, <2>2, AnswersFromStore DEF RepliesKept
<1>5. CASE Req(c).key # None
  <2>1. k # None
    BY <1>2, <1>3, <1>5, KeyIsKey
  <2>2. answers' = answers
    BY <1>5 DEF Remember
  <2>3. CASE replies' = replies
    BY <1>1, <2>2, <2>3, AnswersFromStore DEF RepliesKept
  <2>4. CASE Stored(c) = {} /\ replies' = replies \cup {[of |-> k, body |-> calls[c].data]}
    <3>1. \A x \in replies : x.of # k
      BY <1>3, <2>4 DEF Stored
    <3>2. \A f \in Grants : \A i \in DOMAIN log'[f] : log'[f][i].of # None => \E x \in replies' : x.of = log'[f][i].of
      BY <1>1, <2>4 DEF RepliesKept
    <3>3. answers' \subseteq replies'
      BY <2>2, <2>4 DEF RepliesKept
    <3>4. PICK body : body = calls[c].data
      OBVIOUS
    <3>5. RepliesKept'
      BY <2>1, <2>4, <3>1, <3>2, <3>3, <3>4, ResponseStored
    <3> QED BY <1>1, <3>5 DEF SpentOnce
  <2> QED BY <1>3, <1>5, <2>3, <2>4 DEF Remember
<1> QED BY <1>4, <1>5

\* Order ingest spends no key.
LEMMA RenewSpends ==
  ASSUME ConsoleKept, RepliesKept, SpentOnce, NEW f \in Grants, Renew(f), \A g \in Grants : AuditOf(g)
  PROVE  RepliesKept' /\ SpentOnce'
<1> DEFINE e == [source |-> "order", next |-> Told(grants'[f]), of |-> None]
<1>1. log' = [log EXCEPT ![f] = Append(log[f], e)] /\ replies' = replies /\ answers' = answers
  BY DEF Renew
<1>2. ConsoleTyped /\ grants'[f] \in Rows
  <2>1. ConsoleKept'
    BY RenewKeeps
  <2> QED BY <2>1 DEF ConsoleKept, ConsoleTyped
<1>3. e \in Entries /\ e.of = None
  BY <1>2, ToldIs DEF Entries
<1> HIDE DEF e
<1>4. \A g \in Grants : Logs(g, None)
  BY <1>1, <1>2, <1>3 DEF Logs, ConsoleTyped
<1>5. SpentOnce' /\ \A g \in Grants : \A i \in DOMAIN log'[g] :
                      log'[g][i].of # None => \E x \in replies' : x.of = log'[g][i].of
  BY <1>1, <1>2, <1>4, LogsSpend
<1> QED BY <1>1, <1>5 DEF RepliesKept

\* However a request is repeated with its key, it takes effect once and everybody
\* is told the same (mutationResponse).
THEOREM KeySpentOnceHolds == ConsoleSpec => []KeySpentOnce
<1> DEFINE Kept == (ConsoleKept /\ \A f \in Grants : AuditOf(f)) /\ RepliesKept /\ SpentOnce
<1>1. Kept => KeySpentOnce
  <2>1. RepliesKept => \A x, y \in answers : x.of = y.of => x.body = y.body
    BY DEF RepliesKept
  <2> QED BY <2>1 DEF KeySpentOnce, SpentOnce
<1>2. ConsoleInit => Kept
  <2>1. ConsoleInit => RepliesKept /\ SpentOnce
    BY DEF ConsoleInit, RepliesKept, SpentOnce
  <2> QED BY <2>1, ConsoleInitKept
<1>3. Kept /\ [ConsoleNext]_console => Kept'
  <2> SUFFICES ASSUME Kept, [ConsoleNext]_console
               PROVE  RepliesKept' /\ SpentOnce'
    BY ConsoleStepKept
  <2>1. ConsoleKept /\ RepliesKept /\ SpentOnce /\ answers \subseteq replies /\ \A f \in Grants : AuditOf(f)
    BY DEF RepliesKept
  <2> HIDE DEF Kept
  <2>2. CASE UNCHANGED <<log, replies, answers>>
    BY <2>1, <2>2, AnswersFromStore
  <2>3. ASSUME NEW c \in Calls, CallStep(c) PROVE RepliesKept' /\ SpentOnce'
    <3>1. CASE Write(c)
      BY <2>1, <3>1, WriteSpends
    <3>2. CASE Apply(c)
      BY <2>1, <3>2, ApplySpends
    <3>3. CASE Remember(c)
      BY <2>1, <3>3, RememberSpends
    <3>4. ASSUME NEW pc, Replay(c, pc), UNCHANGED tables PROVE RepliesKept' /\ SpentOnce'
      BY <2>1, <3>4, ReplayAnswers DEF tables
    <3>5. CASE Dedup(c) \/ Missed(c) \/ Settle(c) \/ Reread(c)
      BY <3>4, <3>5 DEF Dedup, Missed, Settle, Reread
    <3>6. CASE ReadSync(c) \/ ReadGrant(c) \/ Refuse(c) \/ Classify(c) \/ Snapshot(c) \/ Persist(c) \/ Load(c)
      BY <2>2, <3>6 DEF ReadSync, ReadGrant, Refuse, Refused, Classify, Snapshot, Persist, Load, tables
    <3> QED BY <2>3, <3>1, <3>2, <3>3, <3>5, <3>6 DEF CallStep
  <2>4. ASSUME NEW c \in Calls, NEW r \in Requests, Arrive(c, r) PROVE RepliesKept' /\ SpentOnce'
    BY <2>2, <2>4 DEF Arrive, tables
  <2>5. CASE \E f \in Grants : Renew(f) \/ StampTrial(f)
    BY <2>1, <2>2, <2>5, RenewSpends DEF StampTrial
  <2>6. CASE Touch \/ \E p \in Previews : Lapse(p)
    BY <2>2, <2>6 DEF Touch, Lapse
  <2>7. CASE UNCHANGED console
    BY <2>2, <2>7 DEF console
  <2> QED BY <2>3, <2>4, <2>5, <2>6, <2>7 DEF ConsoleNext
<1> HIDE DEF Kept
<1> QED BY <1>1, <1>2, <1>3, PTL DEF ConsoleSpec
=============================================================================
