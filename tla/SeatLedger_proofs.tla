------------------------- MODULE SeatLedger_proofs -------------------------
(***************************************************************************)
(* The promises of SeatLedger hold for every number of seats, licenses and *)
(* holders. That a license is never overfull is inductive by itself; that  *)
(* its live holders are not too many either follows once every grant is    *)
(* known to be covered by the hold of its seat.                            *)
(***************************************************************************)
EXTENDS SeatLedger, FiniteSetTheorems, TLAPS

\* A set each of whose members is some f[s] is no larger than the set of the s.
LEMMA ImageBound ==
  ASSUME NEW S, IsFiniteSet(S), NEW H, NEW f, \A h \in H : \E s \in S : f[s] = h
  PROVE  IsFiniteSet(H) /\ Cardinality(H) <= Cardinality(S)
<1> DEFINE T == {s \in S : f[s] \in H}
           g == [s \in T |-> f[s]]
<1>1. IsFiniteSet(T) /\ Cardinality(T) <= Cardinality(S)
  BY FS_Subset
<1>2. g \in Surjection(T, H)
  BY DEF Surjection
<1>3. IsFiniteSet(H) /\ Cardinality(H) <= Cardinality(T)
  BY <1>1, <1>2, FS_Surjection
<1>4. Cardinality(T) \in Nat /\ Cardinality(S) \in Nat /\ Cardinality(H) \in Nat
  BY <1>1, <1>3, FS_CardinalityType
<1> QED BY <1>1, <1>3, <1>4

\* The seats in use are finitely many.
LEMMA InUseFinite ==
  ASSUME NEW l
  PROVE  IsFiniteSet(InUse(l)) /\ Cardinality(InUse(l)) \in Nat
BY LedgerAssumption, FS_Subset, FS_CardinalityType DEF InUse

\* Type correctness of the ledger: caps, seats, holds and grants keep their
\* shape (entitlements, device_bindings and device_leases in the schema).
THEOREM LedgerTypeCorrect == LedgerSpec => []LedgerTypeOK
<1>1. LedgerInit => LedgerTypeOK
  BY LedgerAssumption DEF LedgerInit, LedgerTypeOK, SeatRow
<1>2. LedgerTypeOK /\ [LedgerNext]_ledger => LedgerTypeOK'
  <2> SUFFICES ASSUME LedgerTypeOK, [LedgerNext]_ledger
               PROVE  LedgerTypeOK'
    OBVIOUS
  <2> USE DEF LedgerTypeOK
  <2>1. ASSUME NEW s \in Seats, NEW l \in Licenses, NEW h \in Holders, NEW until \in Times,
               Take(s, l, h, until)
        PROVE  LedgerTypeOK'
    BY <2>1 DEF Take, Grant, SeatRow
  <2>2. ASSUME NEW s \in Seats, NEW until \in Times, Extend(s, until)
        PROVE  LedgerTypeOK'
    <3>1. seats[s].license \in Licenses /\ seats[s].holder \in Holders
      BY <2>2 DEF Extend
    <3>2. LatestHold(seats[s].hold, until) \in Times
      BY DEF LatestHold, SeatRow
    <3>3. seats' \in [Seats -> SeatRow]
      BY <2>2, <3>2 DEF Extend, SeatRow
    <3>4. \A t \in Seats : seats'[t].state = seats[t].state /\ seats'[t].license = seats[t].license
                            /\ seats'[t].holder = seats[t].holder
      BY <2>2 DEF Extend, SeatRow
    <3> QED BY <2>2, <3>1, <3>3, <3>4 DEF Extend, Grant
  <2>3. ASSUME NEW S \in SUBSET Seats, Close(S)
        PROVE  LedgerTypeOK'
    BY <2>3 DEF Close, SeatRow
  <2>4. ASSUME NEW l \in Licenses, NEW n \in Sizes, Resize(l, n)
        PROVE  LedgerTypeOK'
    BY <2>4 DEF Resize
  <2>5. ASSUME Pass
        PROVE  LedgerTypeOK'
    BY <2>5 DEF Pass
  <2>6. ASSUME UNCHANGED ledger
        PROVE  LedgerTypeOK'
    BY <2>6 DEF ledger
  <2> QED BY <2>1, <2>2, <2>3, <2>4, <2>5, <2>6 DEF LedgerNext
<1> QED BY <1>1, <1>2, PTL DEF LedgerSpec

-----------------------------------------------------------------------------
\* No license is ever overfull: a seat is taken only where there is room, and
\* nothing else brings a seat back into use (the capacity check of
\* BOUND_LEASE_GUARD_SQL and tr_bound_capacity_decrease).
THEOREM SeatsWithinCapHolds == LedgerSpec => []SeatsWithinCap
<1>1. LedgerInit => SeatsWithinCap
  <2> SUFFICES ASSUME LedgerInit, NEW l \in Licenses
               PROVE  Cardinality(InUse(l)) <= cap[l]
    BY DEF SeatsWithinCap
  <2>1. InUse(l) = {}
    BY DEF LedgerInit, InUse
  <2>2. cap[l] \in Nat
    BY LedgerAssumption DEF LedgerInit
  <2> QED BY <2>1, <2>2, FS_EmptySet
<1>2. LedgerTypeOK /\ SeatsWithinCap /\ [LedgerNext]_ledger => SeatsWithinCap'
  <2> SUFFICES ASSUME LedgerTypeOK, SeatsWithinCap, [LedgerNext]_ledger, NEW l \in Licenses
               PROVE  (Cardinality(InUse(l)) <= cap[l])'
    BY DEF SeatsWithinCap
  <2>0. /\ Cardinality(InUse(l)) <= cap[l]
        /\ IsFiniteSet(InUse(l)) /\ Cardinality(InUse(l)) \in Nat
        /\ now \in Nat /\ cap[l] \in Nat
        /\ \A s \in Seats : seats[s].hold \in Nat
    BY InUseFinite, LedgerAssumption DEF SeatsWithinCap, LedgerTypeOK, SeatRow
  \* A step that brings no seat into use and leaves the cap alone.
  <2>a. ASSUME InUse(l)' \subseteq InUse(l), cap' = cap
        PROVE  (Cardinality(InUse(l)) <= cap[l])'
    <3>1. Cardinality(InUse(l)') <= Cardinality(InUse(l)) /\ IsFiniteSet(InUse(l)')
      BY <2>a, <2>0, FS_Subset
    <3>2. Cardinality(InUse(l)') \in Nat
      BY <3>1, FS_CardinalityType
    <3> QED BY <2>a, <2>0, <3>1, <3>2
  <2>1. ASSUME NEW s \in Seats, NEW k \in Licenses, NEW h \in Holders, NEW until \in Times,
               Take(s, k, h, until)
        PROVE  (Cardinality(InUse(l)) <= cap[l])'
    <3>1. s \notin InUse(l)
      BY <2>1 DEF Take, InUse
    <3>2. CASE k = l
      <4>1. InUse(l)' = InUse(l) \cup {s}
        BY <2>1, <3>2 DEF Take, InUse, LedgerTypeOK
      <4>2. Cardinality(InUse(l)') = Cardinality(InUse(l)) + 1
        BY <4>1, <3>1, <2>0, FS_AddElement
      <4> QED BY <4>2, <2>0, <2>1, <3>2 DEF Take
    <3>3. CASE k # l
      <4>1. InUse(l)' \subseteq InUse(l)
        BY <2>1, <3>3 DEF Take, InUse, LedgerTypeOK
      <4> QED BY <4>1, <2>1, <2>a DEF Take
    <3> QED BY <3>2, <3>3
  <2>2. ASSUME NEW s \in Seats, NEW until \in Times, Extend(s, until)
        PROVE  (Cardinality(InUse(l)) <= cap[l])'
    <3>1. InUse(l)' \subseteq InUse(l)
      BY <2>2 DEF Extend, InUse, LedgerTypeOK, SeatRow
    <3> QED BY <3>1, <2>2, <2>a DEF Extend
  <2>3. ASSUME NEW S \in SUBSET Seats, Close(S)
        PROVE  (Cardinality(InUse(l)) <= cap[l])'
    <3>1. InUse(l)' \subseteq InUse(l)
      BY <2>3 DEF Close, InUse, LedgerTypeOK, SeatRow
    <3> QED BY <3>1, <2>3, <2>a DEF Close
  <2>4. ASSUME NEW k \in Licenses, NEW n \in Sizes, Resize(k, n)
        PROVE  (Cardinality(InUse(l)) <= cap[l])'
    <3>1. InUse(l)' = InUse(l) /\ cap'[l] = IF l = k THEN n ELSE cap[l]
      BY <2>4 DEF Resize, InUse, LedgerTypeOK
    <3> QED BY <3>1, <2>4, <2>0 DEF Resize, Fits
  <2>5. ASSUME Pass
        PROVE  (Cardinality(InUse(l)) <= cap[l])'
    <3>1. now' \in Nat /\ now' > now /\ seats' = seats /\ cap' = cap
      BY <2>5, LedgerAssumption DEF Pass
    <3>2. InUse(l)' \subseteq InUse(l)
      BY <3>1, <2>0 DEF InUse
    <3> QED BY <3>1, <3>2, <2>a
  <2>6. ASSUME UNCHANGED ledger
        PROVE  (Cardinality(InUse(l)) <= cap[l])'
    BY <2>6, <2>a DEF ledger, InUse
  <2> QED BY <2>1, <2>2, <2>3, <2>4, <2>5, <2>6 DEF LedgerNext
<1> QED BY <1>1, <1>2, LedgerTypeCorrect, PTL DEF LedgerSpec

\* Every grant is covered: its seat still belongs to its holder and is held at
\* least as long (hold_until in updateBinding).
THEOREM GrantsHeldHolds == LedgerSpec => []GrantsHeld
<1>1. LedgerInit => GrantsHeld
  BY DEF LedgerInit, GrantsHeld
<1>2. LedgerTypeOK /\ GrantsHeld /\ [LedgerNext]_ledger => GrantsHeld'
  <2> SUFFICES ASSUME LedgerTypeOK, GrantsHeld, [LedgerNext]_ledger
               PROVE  GrantsHeld'
    OBVIOUS
  <2>0. \A g \in granted : /\ g.seat \in Seats /\ g.until \in Nat
                            /\ seats[g.seat].hold \in Nat
    BY LedgerAssumption DEF LedgerTypeOK, SeatRow
  <2>1. ASSUME NEW s \in Seats, NEW l \in Licenses, NEW h \in Holders, NEW until \in Times,
               Take(s, l, h, until)
        PROVE  GrantsHeld'
    <3> DEFINE new == [seat |-> s, license |-> l, holder |-> h, until |-> until]
    <3>1. \A g \in granted : g.seat # s
      BY <2>1 DEF Take, GrantsHeld
    <3>2. granted' = granted \cup {new}
      BY <2>1 DEF Take, Grant
    <3>3. /\ seats'[s] = [state |-> "open", license |-> l, holder |-> h, hold |-> until]
          /\ \A t \in Seats : t # s => seats'[t] = seats[t]
      BY <2>1 DEF Take, LedgerTypeOK
    <3>4. until \in Nat
      BY LedgerAssumption
    <3> QED BY <3>1, <3>2, <3>3, <3>4, <2>0 DEF GrantsHeld
  <2>2. ASSUME NEW s \in Seats, NEW until \in Times, Extend(s, until)
        PROVE  GrantsHeld'
    <3> DEFINE new == [seat |-> s, license |-> seats[s].license, holder |-> seats[s].holder, until |-> until]
    <3>1. granted' = granted \cup {new}
      BY <2>2 DEF Extend, Grant
    <3>2. /\ seats[s].hold \in Nat /\ until \in Nat
          /\ \A t \in Seats : seats[t].hold \in Nat
      BY LedgerAssumption DEF LedgerTypeOK, SeatRow
    <3>3. \A t \in Seats : /\ seats'[t].state = seats[t].state
                            /\ seats'[t].license = seats[t].license
                            /\ seats'[t].holder = seats[t].holder
                            /\ seats'[t].hold \in Nat /\ seats'[t].hold >= seats[t].hold
      BY <2>2, <3>2 DEF Extend, LatestHold, LedgerTypeOK, SeatRow
    <3>4. seats[s].state = "open" /\ seats'[s].hold >= until
      BY <2>2, <3>2 DEF Extend, LatestHold, LedgerTypeOK, SeatRow
    <3>5. \A g \in granted : seats'[g.seat].state # "free" /\ seats'[g.seat].license = g.license
                              /\ seats'[g.seat].holder = g.holder /\ g.until <= seats'[g.seat].hold
      BY <2>0, <3>2, <3>3 DEF GrantsHeld
    <3> QED BY <3>1, <3>3, <3>4, <3>5 DEF GrantsHeld
  <2>3. ASSUME NEW S \in SUBSET Seats, Close(S)
        PROVE  GrantsHeld'
    <3>1. \A t \in Seats : /\ seats[t].state # "free" => seats'[t].state # "free"
                            /\ seats'[t].license = seats[t].license
                            /\ seats'[t].holder = seats[t].holder
                            /\ seats'[t].hold = seats[t].hold
      BY <2>3 DEF Close, LedgerTypeOK, SeatRow
    <3> QED BY <2>3, <3>1, <2>0 DEF Close, GrantsHeld
  <2>4. ASSUME seats' = seats, granted' = granted
        PROVE  GrantsHeld'
    BY <2>4 DEF GrantsHeld
  <2> QED BY <2>1, <2>2, <2>3, <2>4 DEF LedgerNext, Resize, Pass, ledger
<1> QED BY <1>1, <1>2, LedgerTypeCorrect, PTL DEF LedgerSpec

\* No license ever has more holders with a live grant than it has seats: each
\* of them sits in a seat that is in use (hold_until counts the allowance of
\* the last lease, boundOccupiedSql counts the hold).
THEOREM LiveHoldersWithinCapHolds == LedgerSpec => []LiveHoldersWithinCap
<1>1. LedgerTypeOK /\ SeatsWithinCap /\ GrantsHeld => LiveHoldersWithinCap
  <2> SUFFICES ASSUME LedgerTypeOK, SeatsWithinCap, GrantsHeld, NEW l \in Licenses
               PROVE  Cardinality(LiveHolders(l)) <= cap[l]
    BY DEF LiveHoldersWithinCap
  <2> DEFINE f == [s \in Seats |-> seats[s].holder]
  <2>1. ASSUME NEW g \in granted, g.license = l, g.until > now
        PROVE  g.seat \in InUse(l) /\ f[g.seat] = g.holder
    <3>1. g.seat \in Seats /\ seats[g.seat].state \in {"open", "closed"}
      BY DEF GrantsHeld, LedgerTypeOK, SeatRow
    <3>2. seats[g.seat].license = l /\ seats[g.seat].holder = g.holder /\ seats[g.seat].hold > now
      <4>1. g.until \in Nat /\ now \in Nat /\ seats[g.seat].hold \in Nat
        BY <3>1, LedgerAssumption DEF LedgerTypeOK, SeatRow
      <4> QED BY <4>1, <2>1 DEF GrantsHeld
    <3> QED BY <3>1, <3>2 DEF InUse
  <2>2. \A h \in LiveHolders(l) : \E s \in InUse(l) : f[s] = h
    BY <2>1 DEF LiveHolders
  <2> HIDE DEF f
  <2>3. Cardinality(LiveHolders(l)) <= Cardinality(InUse(l)) /\ IsFiniteSet(LiveHolders(l))
    BY <2>2, InUseFinite, ImageBound
  <2>4. Cardinality(LiveHolders(l)) \in Nat /\ Cardinality(InUse(l)) \in Nat /\ cap[l] \in Nat
    BY <2>3, InUseFinite, FS_CardinalityType, LedgerAssumption DEF LedgerTypeOK
  <2> QED BY <2>3, <2>4 DEF SeatsWithinCap
<1> QED BY <1>1, LedgerTypeCorrect, SeatsWithinCapHolds, GrantsHeldHolds, PTL
=============================================================================
