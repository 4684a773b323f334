----------------------------- MODULE BoundRate -----------------------------
(***************************************************************************)
(* The rate limits of the device routes: counters by minute in             *)
(* rate_limit_counters, one per source and one for everybody, the fuse.    *)
(* The clock may pass into the next minute between the statements of one   *)
(* batch. The limiters at the edge only refuse and are left out.           *)
(***************************************************************************)
EXTENDS Integers, FiniteSets

CONSTANTS
  Sources,       \* where requests come from
  DeviceKeys, Owners,
  Routes,        \* of the gate: registration and session
  RegistrationBudget, SessionBudget,  \* requests of a source in a minute
  Fuse,          \* BOUND_GLOBAL_RATE_LIMIT
  CountCap,      \* the largest request_count a row takes (10001)
  MaxMinute,     \* bound of the clock
  MaxVerified    \* bound of the requests charged to devices and customers

ASSUME RateAssumption ==
  /\ RegistrationBudget \in Nat /\ SessionBudget \in Nat /\ Fuse \in Nat \ {0} /\ CountCap \in Nat \ {0} /\ MaxMinute \in Nat /\ MaxVerified \in Nat

ASSUME SourcesFinite == IsFiniteSet(Sources) /\ IsFiniteSet(Routes)

VARIABLES
  minute,
  hits,          \* request_count of each row but the fuse's; 0 without the row
  total,         \* request_count of the fuse, minute by minute
  sweeping,      \* a request was the first of its minute and has not swept
  verified,      \* requests charged to devices so far
  through        \* history: requests let through, by minute

rate == <<minute, hits, total, sweeping, verified, through>>

Minutes == 0 .. MaxMinute
Counters == (Routes \X Sources) \cup ({"device"} \X DeviceKeys) \cup ({"customer"} \X Owners)

Budget(route) == IF route = "registration" THEN RegistrationBudget ELSE SessionBudget

RateInit ==
  /\ minute = 0 /\ sweeping = FALSE /\ verified = 0
  /\ hits = [x \in Counters \X Minutes |-> 0]
  /\ total = [m \in Minutes |-> 0]
  /\ through = [m \in Minutes |-> 0]

Counted(n) == IF n < CountCap THEN n + 1 ELSE CountCap

\* Slip: the fuse counts every request.
SlipWithinBudget(n, route) == n > 0

\* clientAdmitted: the source has a row in this minute, within its budget.
WithinBudget(n, route) == n > 0 /\ n <= Budget(route)

\* globalOpen
GlobalOpen(m) == total[m] < Fuse

\* limitBoundRequest: the client row, the fuse and the view, each at its minute.
Request(route, s) ==
  \E m2, m3 \in {minute, minute + 1} \cap Minutes :
    LET own == <<<<route, s>>, minute>>
        open == GlobalOpen(minute)
        charged == IF open THEN [hits EXCEPT ![own] = Counted(@)] ELSE hits
        spent == IF WithinBudget(charged[<<<<route, s>>, m2>>], route) THEN [total EXCEPT ![m2] = Counted(@)] ELSE total
        admit == open /\ m3 = minute /\ charged[own] <= Budget(route) /\ spent[m3] \in 1 .. Fuse
    IN /\ m2 <= m3 /\ minute' = m3
       /\ hits' = charged /\ total' = spent
       /\ through' = IF admit THEN [through EXCEPT ![m3] = @ + 1] ELSE through
       /\ sweeping' = (sweeping \/ (admit /\ spent[m3] = 1))
       /\ UNCHANGED verified

\* limitBoundVerified: the device's row and its customer's.
Verified(d, u) ==
  /\ verified < MaxVerified /\ verified' = verified + 1
  /\ \E m \in {minute, minute + 1} \cap Minutes :
       /\ minute' = m
       /\ hits' = [hits EXCEPT ![<<<<"device", d>>, minute>>] = Counted(@), ![<<<<"customer", u>>, m>>] = Counted(@)]
  /\ UNCHANGED <<total, sweeping, through>>

\* Slip: a window is old once it has begun.
SlipLapsed(m) == m <= minute

\* expires_at is two minutes after the start of the window.
Lapsed(m) == m + 2 <= minute

\* The first request of a minute deletes expired rows, a bounded batch of them.
Sweep ==
  /\ sweeping /\ sweeping' = FALSE
  /\ \E gone \in SUBSET {m \in Minutes : Lapsed(m)} :
       /\ hits' = [x \in Counters \X Minutes |-> IF x[2] \in gone THEN 0 ELSE hits[x]]
       /\ total' = [m \in Minutes |-> IF m \in gone THEN 0 ELSE total[m]]
  /\ UNCHANGED <<minute, verified, through>>

Minute == minute < MaxMinute /\ minute' = minute + 1 /\ UNCHANGED <<hits, total, sweeping, verified, through>>

RateNext ==
  \/ \E route \in Routes, s \in Sources : Request(route, s)
  \/ \E d \in DeviceKeys, u \in Owners : Verified(d, u)
  \/ Sweep \/ Minute

RateSpec == RateInit /\ [][RateNext]_rate

-----------------------------------------------------------------------------
RateTypeOK ==
  /\ minute \in Minutes /\ hits \in [Counters \X Minutes -> Nat] /\ total \in [Minutes -> Nat]
  /\ sweeping \in BOOLEAN /\ verified \in Nat /\ through \in [Minutes -> Nat]

\* In no minute are more requests let through than BOUND_GLOBAL_RATE_LIMIT
\* (limitBoundRequest; README.md:690).
AdmittedWithinFuse == \A m \in Minutes : through[m] <= Fuse

\* What source s sent in minute m was counted.
Sent(s, m) == \E route \in Routes : hits[<<<<route, s>>, m>>] > 0

\* The fuse does not trip on the requests of one source (bound_rate.mjs:15-16,
\* README.md:692-694, threat-model.md:84). It holds while the fuse is above the
\* budgets of a source together, 620 a minute; BOUND_GLOBAL_RATE_LIMIT may be
\* as low as 100.
NoSourceTripsAlone ==
  \A m \in Minutes : total[m] >= Fuse /\ ~Lapsed(m) => \A s \in Sources : \E t \in Sources \ {s} : Sent(t, m)
=============================================================================
