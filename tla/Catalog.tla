------------------------------ MODULE Catalog ------------------------------
(***************************************************************************)
(* The catalog as the console changes it: policies, features, plans and    *)
(* plan features are created, patched, saved, disabled and reenabled one   *)
(* by one, and manifests are imported: previewed, then applied. Every      *)
(* await of a request is a step between which other requests run.          *)
(***************************************************************************)
EXTENDS Integers, Sequences, FiniteSets

CONSTANTS
  Entries,       \* of the catalog, by their keys
  Policies,      \* those that are policies
  PlanFeatures,  \* those that are plan features, [entry -> [plan, feature]]
  Catalogs,      \* what the catalog may hold when a behaviour begins
  Asked,         \* [op, entry, row, actor, key, manifest, preview]
  Calls,         \* requests that may be under way at the same time
  Previews,      \* preview ids
  MaxActions,    \* rows an import may change
  MaxElsewhere,  \* bound of the writes to other tables with the same triggers
  None

VARIABLES
  rows,          \* catalog_features, catalog_plans, catalog_plan_features, entitlement_policies: [status, text, policy]
  trail,         \* catalog_events and policy_events, entry by entry
  generation,    \* license_plan_projection_generations
  shown,         \* catalog_import_previews
  spent,         \* the keys of mutation_idempotency
  calls,
  elsewhere

vars == <<rows, trail, generation, shown, spent, calls, elsewhere>>
tables == <<rows, trail, generation, shown, spent, elsewhere>>

Switches == {"disable", "reenable"}
Edits == {"create", "save", "patch"} \cup Switches

\* What requests look like once they are parsed: a manifest nests its plan
\* features in its plans.
Parsed(r) ==
  /\ r.op \in Edits \cup {"preview", "import"}
  /\ r.op \in Edits => r.entry \in Entries
  /\ r.op = "import" => r.preview \in Previews
  /\ r.op = "preview" =>
       \A s \in DOMAIN PlanFeatures : r.manifest[s] # None => r.manifest[PlanFeatures[s].plan] # None

CatalogAssumption ==
  /\ IsFiniteSet(Entries) /\ None \notin Previews
  /\ \A s \in DOMAIN PlanFeatures : {PlanFeatures[s].plan, PlanFeatures[s].feature} \subseteq Entries
  /\ \A b \in Catalogs : b = [e \in Entries |-> b[e]]
  /\ \A r \in Asked : Parsed(r)

NoPreview == [state |-> "none"]
Idle == [pc |-> "new"]

Init ==
  /\ rows \in Catalogs /\ trail = [e \in Entries |-> <<>>] /\ generation = 0
  /\ shown = [p \in Previews |-> NoPreview] /\ spent = {}
  /\ calls = [c \in Calls |-> Idle] /\ elsewhere = 0

-----------------------------------------------------------------------------
(* The rows of one call *)

Req(c) == calls[c].req

\* The path an entry is created under; plan features are saved under their plan.
Collection(e) ==
  CASE e \in Policies -> "policies"
    [] e \in DOMAIN PlanFeatures -> PlanFeatures[e].plan
    [] e \in {PlanFeatures[s].plan : s \in DOMAIN PlanFeatures} -> "plans"
    [] OTHER -> "features"

KeyOf(r) ==
  [actor |-> r.actor, op |-> r.op, key |-> r.key,
   path |-> CASE r.op = "import" -> "import" [] r.op \in {"create", "save"} -> Collection(r.entry) [] OTHER -> r.entry]

Replayed(c) == Req(c).key # None /\ KeyOf(Req(c)) \in spent
Spend(c) == spent' = spent \cup {KeyOf(r) : r \in {x \in {Req(c)} : x.key # None}}

At(c, pc) == calls[c].pc = pc
Goto(c, pc) == calls' = [calls EXCEPT ![c].pc = pc]
Done(c) == calls' = [calls EXCEPT ![c] = [pc |-> "done"]]

\* Previews that are over by the clock a handler reads now.
Over == {p \in Previews : shown[p].state = "open" /\ shown[p].lapsed}

-----------------------------------------------------------------------------
(* One entry *)

Arrive(c, r) ==
  /\ At(c, "new")
  /\ calls' = [calls EXCEPT ![c] =
       [pc |-> IF r.op = "preview" THEN "snapshot" ELSE "dedup", req |-> r, seen |-> None, generation |-> 0,
        over |-> Over, tries |-> 1]]
  /\ UNCHANGED tables

\* mutationResponse: the replay lookup. The clock of an import is read after it.
Dedup(c) ==
  LET first == CASE Req(c).op = "create" -> "write" [] Req(c).op = "save" -> "depends"
                 [] Req(c).op = "import" -> "load" [] OTHER -> "read"
  IN /\ At(c, "dedup")
     /\ IF Replayed(c) THEN Done(c) ELSE calls' = [calls EXCEPT ![c].pc = first, ![c].over = Over]
     /\ UNCHANGED tables

Usable(policy) == policy # None => rows[policy] # None /\ rows[policy].status = "active"

\* createCatalogPlanFeature reads the plan, the feature and the policy. Rows
\* stay, so that they are there at the last of these reads says that they were.
Depends(c) ==
  LET r == Req(c)
      there == \A e \in {PlanFeatures[r.entry].plan, PlanFeatures[r.entry].feature} : rows[e] # None
  IN /\ At(c, "depends")
     /\ IF there /\ Usable(r.row.policy) THEN Goto(c, "read") ELSE Done(c)
     /\ UNCHANGED tables

Prior(op) == IF op = "disable" THEN "active" ELSE "disabled"
Target(op) == IF op = "disable" THEN "disabled" ELSE "active"

\* A patch needs a row, and a switch a row of the other status.
ReadEntry(c) ==
  LET r == Req(c)
      row == rows[r.entry]
      refused == r.op # "save" /\ (row = None \/ (r.op \in Switches /\ row.status # Prior(r.op)))
  IN /\ At(c, "read")
     /\ IF refused THEN Done(c) ELSE calls' = [calls EXCEPT ![c].pc = "write", ![c].seen = row]
     /\ UNCHANGED tables

Event(type, prev, next, p) == [type |-> type, prev |-> prev, next |-> next, preview |-> p]

\* What the event of a request says it did, and that it saw. A policy's says
\* only what it left.
Told(c, next) ==
  LET r == Req(c)
  IN Event(CASE r.op = "save" -> IF calls[c].seen = None THEN "create" ELSE "update"
             [] r.op = "patch" -> "update" [] OTHER -> r.op,
           IF r.entry \in Policies THEN None ELSE calls[c].seen, next, None)

\* A patch leaves the status as it is.
Patched(c) == [rows[Req(c).entry] EXCEPT !.text = Req(c).row.text]

Wanted(c) ==
  LET r == Req(c)
  IN CASE r.op \in {"create", "save"} -> r.row
       [] r.op = "patch" -> Patched(c)
       [] r.op \in Switches -> [rows[r.entry] EXCEPT !.status = Target(r.op)]

\* A row that is created is not there yet, and one that is switched has the
\* status that was read; a patch and a save write whatever is there.
Lands(c) ==
  LET r == Req(c)
  IN /\ r.op = "create" => rows[r.entry] = None
     /\ r.op \in Switches => rows[r.entry].status = Prior(r.op)

\* The row and its event in one batch, the triggers of the row with them. A
\* create that meets its unique key writes nothing; a switch that meets another
\* status leaves the row and still has its event.
WriteEntry(c) ==
  LET e == Req(c).entry
      next == IF Lands(c) THEN Wanted(c) ELSE rows[e]
  IN /\ At(c, "write")
     /\ rows' = [rows EXCEPT ![e] = next]
     /\ generation' = IF Lands(c) THEN generation + 1 ELSE generation
     /\ trail' = IF Lands(c) \/ Req(c).op \in Switches THEN [trail EXCEPT ![e] = Append(@, Told(c, next))] ELSE trail
     /\ IF Lands(c) THEN Goto(c, "settle") ELSE Done(c)
     /\ UNCHANGED <<shown, spent, elsewhere>>

\* The answer of another request with the key stands before this one's.
Settle(c) == At(c, "settle") /\ (IF Replayed(c) THEN Done(c) ELSE Goto(c, "remember")) /\ UNCHANGED tables

\* rememberIdempotency: the first writer wins.
Remember(c) ==
  /\ At(c, "remember") /\ Spend(c) /\ Done(c)
  /\ UNCHANGED <<rows, trail, generation, shown, elsewhere>>

-----------------------------------------------------------------------------
(* Imports *)

Named(m) == {e \in Entries : m[e] # None}

\* The entries an import changes, from what its preview read of them.
Actions(m, before) == {e \in Named(m) : before[e] # m[e]}

Effect(from, to) ==
  CASE from = None -> "create"
    [] from.status = "active" /\ to.status = "disabled" -> "disable"
    [] from.status = "disabled" /\ to.status = "active" -> "reenable"
    [] OTHER -> "update"

\* validateSnapshotDependencies: the features of its plans are in the manifest
\* or in the catalog, and their policies are usable.
Dependable(m) ==
  \A s \in DOMAIN PlanFeatures \cap Named(m) : (m[PlanFeatures[s].feature] # None \/ rows[PlanFeatures[s].feature] # None) /\ Usable(m[s].policy)

\* buildSnapshot, deriveEffects, assertAtomicCapacity: one batch of reads.
Snapshot(c) ==
  LET m == Req(c).manifest
  IN /\ At(c, "snapshot")
     /\ IF Dependable(m) /\ Cardinality(Actions(m, rows)) <= MaxActions
        THEN calls' = [calls EXCEPT ![c].pc = "persist", ![c].generation = generation,
                          ![c].seen = [e \in Entries |-> IF e \in Named(m) THEN rows[e] ELSE None]]
        ELSE Done(c)
     /\ UNCHANGED tables

\* cleanupExpiredPreviewsStatement, by the clock of the request.
CleanedUp(c) ==
  [p \in Previews |-> IF shown[p].state = "used" \/ (shown[p].state = "open" /\ p \in calls[c].over)
                      THEN [state |-> "gone"] ELSE shown[p]]

\* Cleanup, and the preview if no trigger fired since its reads; three tries.
\* An id is never given twice.
Persist(c) ==
  LET unused == {p \in Previews : shown[p].state = "none"}
      preview == [state |-> "open", actor |-> Req(c).actor, generation |-> generation, manifest |-> Req(c).manifest,
                  before |-> calls[c].seen, lapsed |-> FALSE]
  IN /\ At(c, "persist") /\ unused # {}
     /\ IF generation = calls[c].generation
        THEN shown' = [CleanedUp(c) EXCEPT ![CHOOSE p \in unused : TRUE] = preview] /\ Done(c)
        ELSE /\ shown' = CleanedUp(c)
             /\ IF calls[c].tries = 3 THEN Done(c)
                ELSE calls' = [calls EXCEPT ![c].pc = "snapshot", ![c].tries = @ + 1]
     /\ UNCHANGED <<rows, trail, generation, spent, elsewhere>>

\* storedPreview: what it says never changes, so the rows it lists are those of
\* the batch.
Load(c) ==
  /\ At(c, "load")
  /\ IF shown[Req(c).preview].state \in {"open", "used"} THEN Goto(c, "apply") ELSE Done(c)
  /\ UNCHANGED tables

\* claimStatement
Claimable(c) ==
  LET p == shown[Req(c).preview]
  IN p.state = "open" /\ p.actor = Req(c).actor /\ Req(c).preview \notin calls[c].over /\ p.generation = generation

\* A create meets no row, and an update its row: else the batch fails.
Applicable(c) ==
  LET p == shown[Req(c).preview]
  IN \A e \in Actions(p.manifest, p.before) : (rows[e] = None) = (p.before[e] = None)

\* mutationStatement and auditStatement of every action.
ImportedRows(p) ==
  [e \in Entries |-> IF e \in Actions(p.manifest, p.before) THEN p.manifest[e] ELSE rows[e]]

ImportedTrail(id) ==
  LET p == shown[id]
      told(e) == Event(Effect(p.before[e], p.manifest[e]), p.before[e], p.manifest[e], id)
  IN [e \in Entries |-> IF e \in Actions(p.manifest, p.before) THEN Append(trail[e], told(e)) ELSE trail[e]]

\* applyCatalogImport: the claim, every row with its event, the stored response
\* and the end of the preview in one batch. A claim that fails makes the rest
\* write nothing, and a taken key or an action that did not land undoes it all.
\* (A claimed preview is looked up once more for an answer, which changes nothing.)
ApplyImport(c) ==
  LET r == Req(c)
      p == shown[r.preview]
  IN /\ At(c, "apply")
     /\ IF Claimable(c) /\ Applicable(c) /\ ~Replayed(c)
        THEN /\ rows' = ImportedRows(p) /\ trail' = ImportedTrail(r.preview)
             /\ generation' = generation + Cardinality(Actions(p.manifest, p.before))
             /\ Spend(c) /\ shown' = [shown EXCEPT ![r.preview].state = "used"]
        ELSE UNCHANGED <<rows, trail, generation, spent, shown>>
     /\ Done(c) /\ UNCHANGED elsewhere

-----------------------------------------------------------------------------
(* Everything else *)

Lapse(p) ==
  /\ shown[p].state = "open" /\ ~shown[p].lapsed
  /\ shown' = [shown EXCEPT ![p].lapsed = TRUE]
  /\ UNCHANGED <<rows, trail, generation, spent, calls, elsewhere>>

\* A grant or a plan assignment changes: its triggers count too.
Elsewhere ==
  /\ elsewhere < MaxElsewhere /\ elsewhere' = elsewhere + 1 /\ generation' = generation + 1
  /\ UNCHANGED <<rows, trail, shown, spent, calls>>

\* The worker stops, or a statement fails (a unique add-on key among them).
Stop(c) == calls[c].pc \notin {"new", "done"} /\ Done(c) /\ UNCHANGED tables

Step(c) ==
  \/ Dedup(c) \/ Depends(c) \/ ReadEntry(c) \/ WriteEntry(c) \/ Settle(c) \/ Remember(c)
  \/ Snapshot(c) \/ Persist(c) \/ Load(c) \/ ApplyImport(c) \/ Stop(c)

Next ==
  \/ \E c \in Calls : Step(c) \/ \E r \in Asked : Arrive(c, r)
  \/ Elsewhere \/ \E p \in Previews : Lapse(p)

CatalogSpec == Init /\ [][Next]_vars

-----------------------------------------------------------------------------

\* The step appends an event of import p to the trail of e.
Newest(e) == trail[e][Len(trail[e])]
ImportedBy(p, e) == Len(trail'[e]) > Len(trail[e]) /\ Newest(e)'.preview = p

\* An import is applied once, as a whole, and does what its preview showed to
\* whoever applies it: every row it names is still as it was shown, its policies
\* are usable, and each event tells the row before and after. (applyCatalogImport)
ImportedAsPreviewed ==
  [][\A p \in Previews : (\E e \in Entries : ImportedBy(p, e)) =>
       LET v == shown[p]
       IN /\ v.state = "open"
          /\ \E c \in Calls : At(c, "apply") /\ calls'[c].pc = "done" /\ Req(c).preview = p
                                /\ Req(c).actor = v.actor /\ ~Replayed(c)
          /\ \A e \in Named(v.manifest) : rows[e] = v.before[e] /\ rows'[e] = v.manifest[e]
          /\ \A e \in Entries \ Named(v.manifest) : rows'[e] = rows[e]
          /\ \A e \in Actions(v.manifest, v.before) :
               ImportedBy(p, e) /\ Newest(e)'.prev = rows[e] /\ Newest(e)'.next = rows'[e]
          /\ \A s \in DOMAIN PlanFeatures \cap Named(v.manifest) :
               Usable(v.manifest[s].policy) /\ \A e \in {PlanFeatures[s].plan, PlanFeatures[s].feature} : rows'[e] # None
     ]_vars
=============================================================================
