--------------------------- MODULE DeviceCleanup ---------------------------
(***************************************************************************)
(* bound_cleanup.mjs, run by the scheduled maintenance: each statement is a *)
(* transaction of its own that takes the oldest expired rows up to a batch *)
(* limit, so a run that stops half way leaves a consistent rest.           *)
(***************************************************************************)
EXTENDS DeviceTables

CONSTANT CleanupRows     \* rows one cleanup statement may take

ASSUME CleanupAssumption == CleanupRows \in Nat \ {0}

\* A batch of the expired set: the oldest rows by deadline, at most CleanupRows.
OldestBatch(batch, expired, deadline) ==
  /\ batch # {}
  /\ Cardinality(batch) = Lesser(Cardinality(expired), CleanupRows)
  /\ \A x \in batch, y \in expired \ batch : deadline[x] <= deadline[y]

OnlyCleanup == UNCHANGED <<now, customers, entitlements, devices, bindings, denials, denyCache,
                           requests, consents, retires, replies>>

\* purgeExpiredBoundApprovals: the sealed approval responses.
EraseExpiredApprovals ==
  LET expired == {a \in Attempts : attempts[a].sealed /\ attempts[a].codeExpires <= now}
      deadline == [a \in Attempts |-> attempts[a].codeExpires]
  IN
  /\ \E batch \in SUBSET expired :
       /\ OldestBatch(batch, expired, deadline)
       /\ attempts' = [a \in Attempts |->
            IF a \in batch THEN [attempts[a] EXCEPT !.sealed = FALSE] ELSE attempts[a]]
  /\ OnlyCleanup /\ UNCHANGED <<challenges, operations, leases>>

Purged == [NoAttempt EXCEPT !.status = "purged"]

PurgeAttempts(expired, deadline) ==
  \E batch \in SUBSET expired :
    /\ OldestBatch(batch, expired, deadline)
    /\ attempts' = [a \in Attempts |-> IF a \in batch THEN Purged ELSE attempts[a]]

\* purgeExpiredBoundEphemera: challenges, consumed or not.
PurgeChallenges ==
  LET expired == {c \in Challenges : challenges[c].status \in {"open", "consumed"} /\ challenges[c].expires <= now}
      deadline == [c \in Challenges |-> challenges[c].expires]
  IN
  /\ \E batch \in SUBSET expired :
       /\ OldestBatch(batch, expired, deadline)
       /\ challenges' = [c \in Challenges |->
            IF c \in batch THEN [NoChallenge EXCEPT !.status = "purged"] ELSE challenges[c]]
  /\ OnlyCleanup /\ UNCHANGED <<attempts, operations, leases>>

\* Slip: consumed attempts go with their first deadline.
WithConsumed == {"pending", "approved", "denied", "consumed"}

\* Slip: denied attempts are never taken.
Undecided == {"pending", "approved"}

Unconsumed == {"pending", "approved", "denied"}

\* purgeExpiredBoundEphemera: attempts that were never consumed.
PurgeUnconsumedAttempts ==
  LET expired == {a \in Attempts : attempts[a].status \in Unconsumed /\ attempts[a].expires <= now}
      deadline == [a \in Attempts |-> attempts[a].expires]
  IN
  /\ PurgeAttempts(expired, deadline)
  /\ OnlyCleanup /\ UNCHANGED <<challenges, operations, leases>>

\* Slip: the operation row goes with its response.
Forgotten(o) == NoOperation

WithoutResponse(o) == [operations[o] EXCEPT !.response = FALSE]

\* expireBoundRecovery: the stored responses; the operation rows stay.
ExpireResponses ==
  LET expired == {o \in OpKeys : operations[o].exists /\ operations[o].response /\ operations[o].retain <= now}
      deadline == [o \in OpKeys |-> operations[o].retain]
  IN
  /\ \E batch \in SUBSET expired :
       /\ OldestBatch(batch, expired, deadline)
       /\ operations' = [o \in OpKeys |->
            IF o \in batch THEN WithoutResponse(o) ELSE operations[o]]
  /\ OnlyCleanup /\ UNCHANGED <<attempts, challenges, leases>>

\* expireBoundRecovery: the consumed attempts.
PurgeConsumedAttempts ==
  LET expired == {a \in Attempts : attempts[a].status = "consumed" /\ attempts[a].recovery <= now}
      deadline == [a \in Attempts |-> attempts[a].recovery]
  IN
  /\ PurgeAttempts(expired, deadline)
  /\ OnlyCleanup /\ UNCHANGED <<challenges, operations, leases>>

\* purgeExpiredBoundLeases
PurgeLeases ==
  LET expired == {r \in Requests : leases[r].row = "stored" /\ leases[r].accept <= now}
      deadline == [r \in Requests |-> leases[r].accept]
  IN
  /\ \E batch \in SUBSET expired :
       /\ OldestBatch(batch, expired, deadline)
       /\ leases' = [r \in Requests |->
            IF r \in batch THEN [leases[r] EXCEPT !.row = "purged"] ELSE leases[r]]
  /\ OnlyCleanup /\ UNCHANGED <<attempts, challenges, operations>>

CleanupNext ==
  \/ EraseExpiredApprovals \/ PurgeChallenges \/ PurgeUnconsumedAttempts
  \/ ExpireResponses \/ PurgeConsumedAttempts \/ PurgeLeases
=============================================================================
