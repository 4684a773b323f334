---------------------------- MODULE NativeClient ----------------------------
(***************************************************************************)
(* The bound client on one machine: processes that renew a lease, hold the *)
(* highest revision they have authenticated as a floor, and keep a signed  *)
(* statement in two checkpoint files, from which the next process starts.  *)
(* A process may die at any step and the machine may lose power between    *)
(* two writes. A call of a process runs to its end before the next; the    *)
(* network and the other processes run in between.                         *)
(***************************************************************************)
EXTENDS Integers

CONSTANTS
  Procs,         \* processes of the application
  MaxOps,        \* bound of the operations ever prepared
  MaxRevision,   \* bound of revocation_seq
  MaxClock,      \* bound of issued_at
  NoStatement    \* no statement

ASSUME NativeAssumption == MaxRevision \in Nat /\ MaxClock \in Nat /\ NoStatement \notin [rev : Nat, at : Nat]

VARIABLES
  procs,         \* the sessions, what the authority answers each, and the save under way
  files,         \* the two copies: what a read sees, what a power loss keeps
  ops,           \* operations prepared so far
  revision,      \* the license's revocation_seq at the authority
  second,        \* the second leases are issued in
  acked          \* history: highest revision of a save that was acknowledged

native == <<procs, files, ops, revision, second, acked>>

\* Of a signed statement, what orders it: statements of one revision and one
\* second are not told apart.
First == [rev |-> 0, at |-> 0]
Off == [pc |-> "off", pending |-> FALSE, answer |-> NoStatement, accepted |-> NoStatement, denied |-> FALSE,
        cancelled |-> FALSE, floor |-> 0, resume |-> NoStatement, target |-> 0, learned |-> 0]

\* The device enrolled: its first statement is in the first file, perhaps in both.
NativeInit ==
  /\ procs = [p \in Procs |-> Off]
  /\ files \in {[i \in {0, 1} |-> IF i = 0 THEN [seen |-> First, kept |-> First] ELSE [seen |-> t, kept |-> t]] :
                  t \in {First, NoStatement}}
  /\ ops = 0 /\ revision = 0 /\ second = 0 /\ acked = 0

ProcAt(p, pc) == procs[p].pc = pc
Larger(a, b) == IF a > b THEN a ELSE b

-----------------------------------------------------------------------------
(* The checkpoint files *)

\* compare_bound_checkpoints: by revision, then by the second; leases of one
\* second say the same.
Compare(a, b) ==
  CASE a = b -> "unchanged"
    [] a.rev < b.rev \/ (a.rev = b.rev /\ a.at < b.at) -> "stale"
    [] OTHER -> "replace"

\* read_slots: the copy that counts.
Winner ==
  IF \/ files[0].seen = NoStatement
     \/ files[1].seen # NoStatement /\ Compare(files[1].seen, files[0].seen) = "replace"
  THEN 1 ELSE 0

\* The lock of the files is held through a save.
Unlocked == \A q \in Procs : procs[q].pc \notin {"write", "sync"}

Acknowledge(p) ==
  /\ acked' = Larger(acked, procs[p].resume.rev)
  /\ procs' = [procs EXCEPT ![p].pc = "idle", ![p].target = 0]

Give(p) == procs' = [procs EXCEPT ![p].pc = "idle", ![p].target = 0] /\ UNCHANGED acked

\* BoundCheckpointStore::save: what is stored is read and compared. The copy that does not
\* count is written first; two copies that are there already are flushed.
StartSave(p) ==
  LET token == procs[p].resume
      stored == files[Winner].seen
      decision == Compare(token, stored)
  IN /\ procs[p].pc \in {"idle", "save"}
     /\ IF ~Unlocked \/ decision = "stale" THEN Give(p) /\ UNCHANGED files
        ELSE IF \A i \in {0, 1} : files[i].seen = token
        THEN Acknowledge(p) /\ files' = [i \in {0, 1} |-> [seen |-> token, kept |-> token]]
        ELSE /\ procs' = [procs EXCEPT ![p].pc = "write", ![p].target = 1 - Winner]
             /\ UNCHANGED <<files, acked>>
     /\ UNCHANGED <<ops, revision, second>>

\* publish: the copy is replaced by a rename.
Rename(p) ==
  LET i == procs[p].target
  IN /\ ProcAt(p, "write")
     /\ files' = [files EXCEPT ![i].seen = procs[p].resume]
     /\ procs' = [procs EXCEPT ![p].pc = "sync"]
     /\ UNCHANGED <<ops, revision, second, acked>>

\* Their directory is flushed; then the mirror, unless it is there.
Sync(p) ==
  LET i == procs[p].target
  IN /\ ProcAt(p, "sync")
     /\ files' = [j \in {0, 1} |-> [seen |-> files[j].seen, kept |-> files[j].seen]]
     /\ IF files[1 - i].seen = procs[p].resume THEN Acknowledge(p)
        ELSE procs' = [procs EXCEPT ![p].pc = "write", ![p].target = 1 - i] /\ UNCHANGED acked
     /\ UNCHANGED <<ops, revision, second>>

\* The storage answered with an error, before the rename or after it.
FailSave(p) ==
  /\ procs[p].pc \in {"write", "sync"}
  /\ Give(p) /\ UNCHANGED <<files, ops, revision, second>>

-----------------------------------------------------------------------------
(* Sessions *)

\* open_bound_public and create_for_resume: the floor is what was stored.
Open(p) ==
  LET token == files[Winner].seen
  IN /\ ProcAt(p, "off") /\ Unlocked
     /\ procs' = [procs EXCEPT ![p] = [Off EXCEPT !.pc = "idle", !.floor = token.rev, !.resume = token,
                                                  !.learned = acked]]
     /\ UNCHANGED <<files, ops, revision, second, acked>>

\* renew and begin_renewal: an operation that is pending is asked about again.
BeginRenewal(p) ==
  LET again == procs[p].pending
  IN /\ ProcAt(p, "idle") /\ ~procs[p].cancelled
     /\ ~again => ops < MaxOps
     /\ ops' = IF again THEN ops ELSE ops + 1
     /\ procs' = [procs EXCEPT ![p].pc = "asking", ![p].pending = TRUE]
     /\ UNCHANGED <<files, revision, second, acked>>

\* The authority: one answer for an operation, stored when it is first asked for.
AnswerTo(p) ==
  IF procs[p].answer # NoStatement THEN procs[p].answer ELSE [rev |-> revision, at |-> second]

\* Of a call of the client: the statement is saved before it returns.
Return(p, session) == procs' = [procs EXCEPT ![p] = [session EXCEPT !.pc = "save"]]

NoAnswer(p) ==
  /\ ProcAt(p, "asking")
  /\ \E answer \in {procs[p].answer, AnswerTo(p)} : Return(p, [procs[p] EXCEPT !.answer = answer])
  /\ UNCHANGED <<files, ops, revision, second, acked>>

\* lose_continuity: the clock stood still or jumped.
Lost(session) == [session EXCEPT !.pending = FALSE, !.answer = NoStatement, !.accepted = NoStatement]

\* Slip: the floor rises when a lease is accepted.
SlipAuthenticated(session, token) == [session EXCEPT !.resume = token, !.learned = Larger(@, token.rev)]

\* check: an authenticated lease raises the floor, whatever happens to it next.
Authenticated(session, token) ==
  [session EXCEPT !.resume = token, !.floor = Larger(@, token.rev), !.learned = Larger(@, token.rev)]

\* accept: the lease is checked, the key's possession proved, the lease checked
\* again, and only then the session's lease replaced.
AcceptLease(p) ==
  LET token == AnswerTo(p)
      session == [procs[p] EXCEPT !.answer = token]
      checked == Authenticated(session, token)
  IN /\ ProcAt(p, "asking")
     /\ \E next \in {Lost(session)}
                    \cup IF token.rev < session.floor THEN {session}
                         ELSE {checked, Lost(checked),
                               [checked EXCEPT !.accepted = token, !.pending = FALSE, !.answer = NoStatement,
                                               !.denied = FALSE, !.floor = Larger(session.floor, token.rev)]} :
          Return(p, next)
     /\ UNCHANGED <<files, ops, revision, second, acked>>

\* record_outcome: denied by the authority, or the operation expired.
Deny(p) ==
  /\ ProcAt(p, "asking") /\ Return(p, [Lost(procs[p]) EXCEPT !.denied = TRUE])
  /\ UNCHANGED <<files, ops, revision, second, acked>>

Expire(p) ==
  /\ ProcAt(p, "asking") /\ Return(p, [procs[p] EXCEPT !.pending = FALSE, !.answer = NoStatement])
  /\ UNCHANGED <<files, ops, revision, second, acked>>

\* abandon_renewal
Abandon(p) ==
  /\ ProcAt(p, "idle") /\ procs[p].pending /\ ~procs[p].cancelled
  /\ Return(p, [procs[p] EXCEPT !.pending = FALSE, !.answer = NoStatement])
  /\ UNCHANGED <<files, ops, revision, second, acked>>

\* lcc_device_bound_cancel: the session goes, its statement can still be saved.
Cancel(p) ==
  /\ ProcAt(p, "idle") /\ ~procs[p].cancelled
  /\ procs' = [procs EXCEPT ![p] = [Lost(@) EXCEPT !.cancelled = TRUE]]
  /\ UNCHANGED <<files, ops, revision, second, acked>>

\* authorize_operation allows an operation of the application ...
Authorizes(p) ==
  LET s == procs[p]
  IN s.pc = "idle" /\ ~s.denied /\ s.accepted # NoStatement /\ s.accepted.rev >= s.floor

\* ... or finds that the clock of the lease broke.
LoseContinuity(p) ==
  /\ ProcAt(p, "idle") /\ procs[p].accepted # NoStatement /\ ~procs[p].denied
  /\ procs' = [procs EXCEPT ![p] = Lost(@)]
  /\ UNCHANGED <<files, ops, revision, second, acked>>

\* The process dies at any step of a call, a save's too.
Die(p) ==
  /\ ~ProcAt(p, "off")
  /\ procs' = [procs EXCEPT ![p] = Off]
  /\ UNCHANGED <<files, ops, revision, second, acked>>

\* What was renamed and not flushed may or may not be there afterwards.
PowerLoss ==
  /\ procs' = [p \in Procs |-> Off]
  /\ \E now \in [{0, 1} -> {files[i].seen : i \in {0, 1}} \cup {files[i].kept : i \in {0, 1}}] :
       /\ \A i \in {0, 1} : now[i] \in {files[i].seen, files[i].kept}
       /\ files' = [i \in {0, 1} |-> [seen |-> now[i], kept |-> now[i]]]
  /\ UNCHANGED <<ops, revision, second, acked>>

\* The authority changes a license, or is restored from a backup.
Authority ==
  /\ \E r \in 0..MaxRevision : r # revision /\ r <= revision + 1 /\ revision' = r
  /\ UNCHANGED <<procs, files, ops, second, acked>>

Tick == second < MaxClock /\ second' = second + 1 /\ UNCHANGED <<procs, files, ops, revision, acked>>

NativeNext ==
  \/ \E p \in Procs :
       \/ StartSave(p) \/ Rename(p) \/ Sync(p) \/ FailSave(p)
       \/ Open(p) \/ BeginRenewal(p) \/ AcceptLease(p) \/ NoAnswer(p) \/ Deny(p) \/ Expire(p)
       \/ Abandon(p) \/ Cancel(p) \/ LoseContinuity(p) \/ Die(p)
  \/ PowerLoss \/ Authority \/ Tick

NativeSpec == NativeInit /\ [][NativeNext]_native

-----------------------------------------------------------------------------
\* No process authorizes work under a lease older than a revision it has
\* authenticated, or than one whose save was acknowledged before it started,
\* whatever saves crossed, failed or were cut off by a crash
\* (BoundRenewalSession::check, BoundCheckpointStore::save).
RevisionsStand == \A p \in Procs : Authorizes(p) => procs[p].accepted.rev >= procs[p].learned
=============================================================================
