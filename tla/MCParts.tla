------------------------------ MODULE MCParts ------------------------------
(***************************************************************************)
(* The small parts and the abstract specifications, side by side. They     *)
(* share nothing: a behaviour is about one part, and the others stand      *)
(* still in one of their initial states.                                   *)
(***************************************************************************)
EXTENDS SeatLedger, OrderBook, OrderSignature, BoundRate, AuditChain, Console, D1Backup, TLC

CONSTANTS e1, e2, e3, e4, f1, f2,       \* order events and grants
          q1, q2, d1,                     \* signed requests and a delivery
          k1, k2, old, new, ann, bob, p1

VARIABLES part,
          rows, trail, counted, shown, spent, posts, elsewhere

imports == <<rows, trail, counted, shown, spent, posts, elsewhere>>

\* Four events on two grants, at two epochs; an event id may come with several payloads.
BookOrders == [id : {e1, e2, e3, e4}, fp : {f1, f2}, at : {<<0, 1>>, <<0, 2>>, <<1, 0>>, <<1, 1>>}]

\* Operators change one or two grants, repeat themselves and apply a plan to
\* both. A key of a collection may come back for another grant, and a preview
\* may be applied by somebody else.
Mutation(op, f, key) ==
  [op |-> op, grant |-> f, actor |-> ann, key |-> key,
   status |-> "active", terms |-> new, limit |-> None, preview |-> None]

Asked ==
  {Mutation("create", f1, k1), Mutation("create", f2, k1), [Mutation("limit", f1, None) EXCEPT !.limit = 2],
   Mutation("revoke", f1, k1),
   [Mutation("sync", f1, k2) EXCEPT !.terms = old], [Mutation("sync", f1, k2) EXCEPT !.status = "disabled"],
   Mutation("preview", f1, None), [Mutation("apply", f1, k1) EXCEPT !.preview = p1],
   [Mutation("apply", f1, None) EXCEPT !.preview = p1, !.actor = bob]}

Plans == {[f \in {f1, f2} |-> IF f = f1 THEN [terms |-> old, limit |-> 1] ELSE None],
          [f \in {f1, f2} |-> [terms |-> new, limit |-> 1]]}

\* A feature, a plan and the one in the other, under a policy.
Made(status, text, policy) == [status |-> status, text |-> text, policy |-> policy]
Shelf(policy, feature, plan, slot) ==
  [e \in {"policy", "feature", "plan", "slot"} |->
     CASE e = "policy" -> policy [] e = "feature" -> feature [] e = "plan" -> plan [] e = "slot" -> slot]

\* An empty plan may be there already, and the feature with what it says.
Shelves ==
  {Shelf(Made("active", old, None), Made("active", old, None), None, None),
   Shelf(Made("active", old, None), Made("disabled", new, None), Made("active", old, None), None)}

Manifest == Shelf(None, Made("active", new, None), Made("active", new, None), Made("active", new, "policy"))

Post(op, e, key) ==
  [op |-> op, entry |-> e, row |-> None, actor |-> ann, key |-> key, manifest |-> None, preview |-> None]

Posted ==
  {[Post("create", "plan", k1) EXCEPT !.row = Made("active", old, None)],
   [Post("save", "slot", None) EXCEPT !.row = Made("active", old, "policy")],
   [Post("patch", "feature", k1) EXCEPT !.row = Made("active", old, None)],
   Post("reenable", "feature", None), Post("disable", "feature", None), Post("disable", "policy", None),
   [Post("preview", None, None) EXCEPT !.manifest = Manifest],
   [Post("import", None, k1) EXCEPT !.preview = p1],
   [Post("import", None, k2) EXCEPT !.preview = p1],
   [Post("import", None, k1) EXCEPT !.preview = p1, !.actor = bob]}

Shop == INSTANCE Catalog WITH Entries <- {"policy", "feature", "plan", "slot"}, Policies <- {"policy"},
          PlanFeatures <- [s \in {"slot"} |-> [plan |-> "plan", feature |-> "feature"]], Catalogs <- Shelves,
          Asked <- Posted, Calls <- Calls, Previews <- {p1}, MaxActions <- 3, MaxElsewhere <- 1,
          generation <- counted, calls <- posts

ASSUME ShopAssumption == Shop!CatalogAssumption

\* A flow whose attempt is given up has no other beside it.
OneAtATime == \A f \in Flows : tasks'[f].late # "idle" => \A g \in Flows \ {f} : flows'[g].step = "off"

\* Requests of the console that are under way are all of these kinds: a
\* behaviour is about mutations and their repetition, or about projections.
Only(ops) == \A c \in Calls : calls'[c].pc \notin {"new", "done"} => calls'[c].req.op \in ops

Symmetric == Permutations(Calls)

\* One request is delivered once, the other by every other delivery.
Repeated == \A d \in Deliveries : delivered[d].of = IF d = d1 THEN q2 ELSE q1

\* Of the initial states of a part that stands still, one.
Rest(p) ==
  /\ p = "ledger" \/ \A l \in Licenses : cap[l] = 1
  /\ p = "door" \/ \A s \in Signed : stamp[s] = 0
  /\ p = "plans" \/ catalog[f2] = None
  /\ p = "imports" \/ rows["plan"] = None

PartsInit ==
  /\ part \in {"ledger", "book", "door", "rate", "chain", "console", "plans", "imports", "backup"}
  /\ LedgerInit /\ BookInit /\ DoorInit /\ RateInit /\ ChainInit /\ ConsoleInit /\ Shop!Init /\ BackupInit
  /\ Repeated /\ Rest(part)

\* The parts a behaviour is not about stand still.
OthersRest ==
  /\ part # "ledger" => UNCHANGED ledger
  /\ part # "book" => UNCHANGED book
  /\ part # "door" => UNCHANGED door
  /\ part # "rate" => UNCHANGED rate
  /\ part # "chain" => UNCHANGED chain
  /\ part \notin {"console", "plans"} => UNCHANGED console
  /\ part # "imports" => UNCHANGED imports
  /\ part # "backup" => UNCHANGED backup

PartsNext ==
  /\ UNCHANGED part
  /\ \/ part = "ledger" /\ LedgerNext /\ OthersRest
     \/ part = "book" /\ BookNext /\ OthersRest
     \/ part = "door" /\ DoorNext /\ OthersRest
     \/ part = "rate" /\ RateNext /\ OthersRest
     \/ part = "chain" /\ ChainNext /\ OthersRest
     \/ /\ part = "console" /\ OthersRest
        /\ ConsoleNext /\ Only({"create", "limit", "revoke", "sync"}) /\ UNCHANGED touches
     \/ part = "plans" /\ ConsoleNext /\ Only({"create", "revoke", "preview", "apply"}) /\ OthersRest
     \/ part = "imports" /\ Shop!Next /\ OthersRest
     \/ part = "backup" /\ BackupNext /\ OneAtATime /\ OthersRest

PartsSpec == PartsInit /\ [][PartsNext]_<<part, ledger, book, door, rate, chain, console, imports, backup>>

\* A projection does what its preview showed, once, and so does an import of the
\* catalog (applyPlanProjection, applyCatalogImport).
AppliedAsPreviewed == ProjectedAsPreviewed /\ Shop!ImportedAsPreviewed
=============================================================================
