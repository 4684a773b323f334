------------------------------ MODULE D1Backup ------------------------------
(***************************************************************************)
(* The backup workflow: export the database, store the dump and then its   *)
(* manifest in a bucket, remove what is past its retention. The engine     *)
(* keeps the result of each finished step and runs an unfinished one       *)
(* again: after an error, after it was evicted, and after a timeout, when  *)
(* the attempt that was too slow may still be going on.                    *)
(***************************************************************************)
EXTENDS Integers

CONSTANTS
  Flows,         \* workflow instances, scheduled or manual
  Bookmarks,     \* states of the database
  Retention,     \* BACKUP_RETENTION_DAYS
  MaxTries,      \* bound of the attempts at a step
  LastInstant,   \* bound of the clock
  Absent         \* no manifest, no bookmark

ASSUME BackupAssumption ==
  /\ Retention \in Nat /\ LastInstant \in Nat /\ MaxTries \in Nat \ {0}
  /\ Absent \notin Nat

VARIABLES
  instant,
  flows,         \* [step, at, mark, tries]: what the engine keeps
  tasks,         \* the awaits of a flow's attempts
  dumps,         \* when a dump was last uploaded, and whether it is there
  manifests,     \* when a manifest was uploaded
  covered,       \* history: dumps that have had a manifest
  left,          \* history: dumps whose upload, check or removal had no answer
  contended      \* history: dumps that two attempts were at together

backup == <<instant, flows, tasks, dumps, manifests, covered, left, contended>>

Instants == 0 .. LastInstant

\* The instant of the request, the bookmark and a name that follows from it.
Keys == Instants \X Bookmarks
Key(f) == <<flows[f].at, flows[f].mark>>

\* The attempt the engine waits for, and one it has given up.
Slots == {"own", "late"}

BackupInit ==
  /\ instant = 0
  /\ flows = [f \in Flows |-> [step |-> "off", at |-> 0, mark |-> Absent, tries |-> 0]]
  /\ tasks = [f \in Flows |-> [s \in Slots |-> "idle"]]
  /\ dumps = [k \in Keys |-> [at |-> 0, there |-> FALSE]]
  /\ manifests = [k \in Keys |-> Absent]
  /\ covered = {} /\ left = {} /\ contended = {}

bucket == <<dumps, manifests, covered, left>>

TaskAt(f, s, pc) == tasks[f][s] = pc
TaskGoes(f, s, pc) == tasks' = [tasks EXCEPT ![f][s] = pc] /\ UNCHANGED flows
First(step) ==
  CASE step = "start" -> "request" [] step = "save" -> "poll" [] step = "prune" -> "prune" [] OTHER -> "idle"

\* The engine goes on to a step, with what the last one returned.
Enter(f, step, at, mark) ==
  /\ flows' = [flows EXCEPT ![f] = [step |-> step, at |-> at, mark |-> mark, tries |-> 1]]
  /\ tasks' = [tasks EXCEPT ![f].own = First(step)]

\* The attempt has failed: it is made again, or the flow has failed. An attempt
\* that was given up concerns nobody.
Throw(f, s) ==
  LET again == flows[f].tries < MaxTries
      step == IF again THEN flows[f].step ELSE "failed"
  IN IF s = "late" THEN TaskGoes(f, s, "idle")
     ELSE /\ flows' = [flows EXCEPT ![f].step = step, ![f].tries = IF again THEN @ + 1 ELSE @]
          /\ tasks' = [tasks EXCEPT ![f].own = First(step)]

-----------------------------------------------------------------------------
\* A flow is created by the schedule, or by an operator, who may do so again.
Create(f) ==
  /\ flows[f].step = "off"
  /\ Enter(f, "start", 0, Absent) /\ UNCHANGED bucket

\* startD1Export: the instant is taken before the export is requested.
RequestExport(f) ==
  /\ TaskAt(f, "own", "request")
  /\ flows' = [flows EXCEPT ![f].at = instant]
  /\ tasks' = [tasks EXCEPT ![f].own = "open"]
  /\ UNCHANGED bucket

Open(f) ==
  /\ TaskAt(f, "own", "open")
  /\ \/ \E m \in Bookmarks : Enter(f, "save", flows[f].at, m)
     \/ Throw(f, "own")
  /\ UNCHANGED bucket

\* pollD1Export and the request of the dump: an error of the provider is final.
Poll(f, s) ==
  /\ TaskAt(f, s, "poll")
  /\ \/ TaskGoes(f, s, "put")
     \/ Throw(f, s)
     \/ s = "own" /\ Enter(f, "failed", flows[f].at, flows[f].mark)
  /\ UNCHANGED bucket

\* The checks of what came back: size, digest, tables and time.
Checked == {"manifest", "ask"}

Uploaded(k) == dumps' = [dumps EXCEPT ![k] = [at |-> instant, there |-> TRUE]]

\* The dump is streamed into the bucket, and what came back is checked. When the
\* upload fails nothing is looked at.
PutDump(f, s) ==
  /\ TaskAt(f, s, "put")
  /\ \/ Throw(f, s) /\ UNCHANGED <<dumps, left>>
     \/ Throw(f, s) /\ Uploaded(Key(f)) /\ left' = left \cup {Key(f)}
     \/ (\E pc \in Checked : TaskGoes(f, s, pc)) /\ Uploaded(Key(f)) /\ UNCHANGED left
  /\ UNCHANGED <<manifests, covered>>

Covers(k) == manifests' = [manifests EXCEPT ![k] = instant] /\ covered' = covered \cup {k}

PutManifest(f, s) ==
  /\ TaskAt(f, s, "manifest")
  /\ \/ /\ Covers(Key(f))
        /\ IF s = "own" THEN Enter(f, "prune", flows[f].at, flows[f].mark) ELSE TaskGoes(f, s, "idle")
     \/ Covers(Key(f)) /\ TaskGoes(f, s, "ask")
     \/ UNCHANGED <<manifests, covered>> /\ TaskGoes(f, s, "ask")
  /\ UNCHANGED <<dumps, left>>

\* Slip: a failed save removes its dump whatever is in the bucket.
AskNobody(f, s) ==
  /\ TaskAt(f, s, "ask")
  /\ TaskGoes(f, s, "erase")
  /\ UNCHANGED bucket

\* Is there a manifest? If that cannot be found out the dump stays.
Ask(f, s) ==
  /\ TaskAt(f, s, "ask")
  /\ \/ manifests[Key(f)] # Absent /\ Throw(f, s) /\ UNCHANGED left
     \/ manifests[Key(f)] = Absent /\ TaskGoes(f, s, "erase") /\ UNCHANGED left
     \/ Throw(f, s) /\ left' = left \cup {Key(f)}
  /\ UNCHANGED <<dumps, manifests, covered>>

\* A removal that fails is ignored.
Erase(f, s) ==
  /\ TaskAt(f, s, "erase") /\ Throw(f, s)
  /\ \/ dumps' = [dumps EXCEPT ![Key(f)].there = FALSE] /\ UNCHANGED left
     \/ UNCHANGED dumps /\ left' = left \cup {Key(f)}
  /\ UNCHANGED <<manifests, covered>>

-----------------------------------------------------------------------------
PastRetention(time) == instant - time > Retention

Remove(D, M) ==
  /\ dumps' = [k \in Keys |-> IF k \in D THEN [dumps[k] EXCEPT !.there = FALSE] ELSE dumps[k]]
  /\ manifests' = [k \in Keys |-> IF k \in M THEN Absent ELSE manifests[k]]
  /\ UNCHANGED <<covered, left>>

OldDumps == {k \in Keys : dumps[k].there /\ PastRetention(dumps[k].at)}
OldManifests == {k \in Keys : manifests[k] # Absent /\ PastRetention(manifests[k])}

\* pruneExpiredBackups: dump and manifest are objects of their own, each with
\* its time; an attempt that fails has removed some.
Prune(f) ==
  /\ TaskAt(f, "own", "prune")
  /\ \/ Remove(OldDumps, OldManifests) /\ Enter(f, "done", flows[f].at, flows[f].mark)
     \/ \E D \in SUBSET OldDumps, M \in SUBSET OldManifests : Remove(D, M) /\ Throw(f, "own")

-----------------------------------------------------------------------------
\* Between its upload and its answer an attempt may leave a dump behind.
Leaves(f, s) == left' = IF tasks[f][s] \in {"manifest", "ask", "erase"} THEN left \cup {Key(f)} ELSE left

\* An attempt is evicted.
Evict(f, s) ==
  /\ ~TaskAt(f, s, "idle")
  /\ Throw(f, s) /\ Leaves(f, s)
  /\ UNCHANGED <<dumps, manifests, covered>>

\* The engine gives up an attempt that takes too long; nothing stops it.
TimeOut(f) ==
  LET again == flows[f].tries < MaxTries
      step == IF again THEN "save" ELSE "failed"
  IN /\ flows[f].step = "save" /\ TaskAt(f, "late", "idle")
     /\ flows' = [flows EXCEPT ![f].step = step, ![f].tries = IF again THEN @ + 1 ELSE @]
     /\ tasks' = [tasks EXCEPT ![f] = [own |-> First(step), late |-> tasks[f].own]]
     /\ UNCHANGED bucket

\* Attempts at storing a dump.
Saving(k) ==
  {x \in Flows \X Slots : tasks[x[1]][x[2]] \in {"poll", "put", "manifest", "ask", "erase"} /\ Key(x[1]) = k}

\* 41 attempts of 15 minutes are over within the shortest retention, a day.
Tick ==
  /\ instant < LastInstant
  /\ \A f \in Flows, s \in Slots :
       tasks[f][s] \notin {"idle", "request", "prune"} => instant < flows[f].at + Retention
  /\ instant' = instant + 1 /\ UNCHANGED <<flows, tasks, bucket>>

FlowStep(f) ==
  \/ Create(f) \/ RequestExport(f) \/ Open(f) \/ Prune(f) \/ TimeOut(f)
  \/ \E s \in Slots : Poll(f, s) \/ PutDump(f, s) \/ PutManifest(f, s) \/ Ask(f, s) \/ Erase(f, s) \/ Evict(f, s)

\* An attempt is about to remove a dump that another is still at.
Contended == {k \in Keys : \E x, y \in Saving(k) : x # y /\ TaskAt(x[1], x[2], "erase")}

BackupNext ==
  \/ (\E f \in Flows : FlowStep(f)) /\ UNCHANGED instant /\ contended' = contended \cup Contended'
  \/ Tick /\ UNCHANGED contended

BackupSpec == BackupInit /\ [][BackupNext]_backup

-----------------------------------------------------------------------------
\* A dump that has had a manifest stays for its retention, however often the
\* save is repeated; when saves have failed and nothing was left unanswered,
\* they leave no dump without a manifest (saveD1ExportToR2: "Never leave an
\* unmanifested dump, but never delete one a manifest already covers"). Only an
\* attempt that has found no manifest, and is about to remove the dump while
\* another is still at it, may break this.
BackupsWhole ==
  \A k \in Keys \ contended :
    IF k \in covered THEN dumps[k].there \/ PastRetention(dumps[k].at)
    ELSE k \in left \/ Saving(k) # {} \/ ~dumps[k].there
=============================================================================
