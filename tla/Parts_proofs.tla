---------------------------- MODULE Parts_proofs ----------------------------
(***************************************************************************)
(* Order book, order signatures, the rate limiter, the D1 backup, the      *)
(* audit chain and the catalog, each for every value of its constants.     *)
(* They share nothing: a theorem is about one of them.                     *)
(***************************************************************************)
EXTENDS OrderBook, OrderSignature, BoundRate, D1Backup, AuditChain, Catalog, FiniteSetTheorems, TLAPS

-----------------------------------------------------------------------------
(***************************************************************************)
(* Orders take effect once and in order, for every set of payloads, which  *)
(* may share event ids, grants and positions, and every number of grants:  *)
(* the guard of one step is enough, because it looks at the whole book.    *)
(***************************************************************************)

\* What a step does to the book of each grant: nothing, or one entry more.
LEMMA StepAppends ==
  ASSUME BookTypeOK, NEW o \in Orders, TakeEffect(o), NEW f \in Fingerprints
  PROVE  /\ book'[f] = IF f = o.fp THEN Append(book[f], Entry(o)) ELSE book[f]
         /\ book'[f] \in Seq({Entry(x) : x \in Orders})
         /\ f = o.fp => /\ Len(book'[f]) = Len(book[f]) + 1
                        /\ \A i \in 1..Len(book[f]) : book'[f][i] = book[f][i]
                        /\ book'[f][Len(book[f]) + 1] = Entry(o)
<1> DEFINE E == {Entry(x) : x \in Orders}
<1>1. book[f] \in Seq(E) /\ Entry(o) \in E
  BY DEF BookTypeOK
<1>2. book'[f] = IF f = o.fp THEN Append(book[f], Entry(o)) ELSE book[f]
  BY DEF TakeEffect, BookTypeOK
<1> HIDE DEF E
<1>3. Append(book[f], Entry(o)) \in Seq(E) /\ Len(Append(book[f], Entry(o))) = Len(book[f]) + 1
      /\ \A i \in 1..Len(book[f]) : Append(book[f], Entry(o))[i] = book[f][i]
      /\ Append(book[f], Entry(o))[Len(book[f]) + 1] = Entry(o)
  BY <1>1
<1> QED BY <1>1, <1>2, <1>3 DEF E

\* Type correctness: the book of a grant is a sequence of entries of orders (order_events).
THEOREM BookTypeCorrect == BookSpec => []BookTypeOK
<1>1. BookInit => BookTypeOK
  BY DEF BookInit, BookTypeOK
<1>2. BookTypeOK /\ [BookNext]_book => BookTypeOK'
  <2> SUFFICES ASSUME BookTypeOK, [BookNext]_book
               PROVE  BookTypeOK'
    OBVIOUS
  <2>1. ASSUME NEW o \in Orders, TakeEffect(o)
        PROVE  BookTypeOK'
    <3>1. DOMAIN book' = Fingerprints /\ book' = [f \in Fingerprints |-> book'[f]]
      BY <2>1 DEF TakeEffect, BookTypeOK
    <3>2. \A f \in Fingerprints : book'[f] \in Seq({Entry(x) : x \in Orders})
      BY <2>1, StepAppends
    <3> QED BY <3>1, <3>2 DEF BookTypeOK
  <2>2. CASE UNCHANGED book
    BY <2>2 DEF BookTypeOK
  <2> QED BY <2>1, <2>2 DEF BookNext
<1> QED BY <1>1, <1>2, PTL DEF BookSpec

-----------------------------------------------------------------------------
\* Orders take effect on a grant in (epoch, seq) order (FLOOR_PREDICATE_UPDATE).
LEMMA StepInOrder ==
  ASSUME BookTypeOK, InOrder, NEW o \in Orders, TakeEffect(o)
  PROVE  InOrder'
<1> SUFFICES ASSUME NEW f \in Fingerprints, NEW i \in 1..Len(book'[f]), NEW j \in 1..Len(book'[f]), i < j
             PROVE  Before(book'[f][i].at, book'[f][j].at)
  BY DEF InOrder
<1>0. Len(book[f]) \in Nat
  BY DEF BookTypeOK
<1>1. CASE f # o.fp
  BY <1>1, StepAppends DEF InOrder
<1>2. CASE f = o.fp
  <2>1. Len(book'[f]) = Len(book[f]) + 1 /\ book'[f][Len(book[f]) + 1] = Entry(o)
        /\ \A k \in 1..Len(book[f]) : book'[f][k] = book[f][k]
    BY <1>2, StepAppends
  <2>2. i \in 1..Len(book[f])
    BY <1>0, <2>1
  <2>3. CASE j \in 1..Len(book[f])
    BY <2>1, <2>2, <2>3 DEF InOrder
  <2>4. CASE j = Len(book[f]) + 1
    <3>1. Before(book[f][i].at, o.at)
      BY <1>2, <2>2 DEF TakeEffect
    <3>2. Entry(o).at = o.at
      BY DEF Entry
    <3> QED BY <2>1, <2>2, <2>4, <3>1, <3>2
  <2> QED BY <1>0, <2>1, <2>3, <2>4
<1> QED BY <1>1, <1>2

\* No order takes effect a second time, on whichever grant (buildProcessedMarkStatement).
LEMMA StepOnce ==
  ASSUME BookTypeOK, OncePerOrder, NEW o \in Orders, TakeEffect(o)
  PROVE  OncePerOrder'
<1> DEFINE Old(f, i) == i \in 1..Len(book[f]) /\ book'[f][i] = book[f][i]
           New(f, i) == f = o.fp /\ i = Len(book[f]) + 1 /\ book'[f][i].id = o.id
<1>1. ASSUME NEW f \in Fingerprints, NEW i \in 1..Len(book'[f])
      PROVE  Old(f, i) \/ New(f, i)
  <2>1. Len(book[f]) \in Nat
    BY DEF BookTypeOK
  <2>2. Entry(o).id = o.id
    BY DEF Entry
  <2>3. CASE f # o.fp
    BY <1>1, <2>3, StepAppends
  <2>4. CASE f = o.fp
    <3>1. Len(book'[f]) = Len(book[f]) + 1 /\ book'[f][Len(book[f]) + 1] = Entry(o)
          /\ \A k \in 1..Len(book[f]) : book'[f][k] = book[f][k]
      BY <2>4, StepAppends
    <3> QED BY <1>1, <2>1, <2>2, <2>4, <3>1
  <2> QED BY <2>3, <2>4
<1>2. \A f \in Fingerprints : \A i \in 1..Len(book[f]) : book[f][i].id # o.id
  BY DEF TakeEffect, Taken
<1>3. ASSUME NEW f \in Fingerprints, NEW g \in Fingerprints, NEW i \in 1..Len(book'[f]), NEW j \in 1..Len(book'[g]),
             book'[f][i].id = book'[g][j].id
      PROVE  f = g /\ i = j
  <2>1. (Old(f, i) \/ New(f, i)) /\ (Old(g, j) \/ New(g, j))
    BY <1>1
  <2>2. CASE Old(f, i) /\ Old(g, j)
    BY <1>3, <2>2 DEF OncePerOrder
  <2>3. CASE New(f, i) /\ New(g, j)
    BY <2>3
  <2>4. CASE Old(f, i) /\ New(g, j)
    BY <1>2, <1>3, <2>4
  <2>5. CASE New(f, i) /\ Old(g, j)
    BY <1>2, <1>3, <2>5
  <2> QED BY <2>1, <2>2, <2>3, <2>4, <2>5
<1> QED BY <1>3 DEF OncePerOrder

\* What order ingest promises of every grant, exactly once and in order, holds
\* of the book whatever orders are sent (runExactlyOnce).
THEOREM OnceAndInOrderHolds == BookSpec => []OnceAndInOrder
<1>1. BookInit => OnceAndInOrder
  BY DEF BookInit, OnceAndInOrder, InOrder, OncePerOrder
<1>2. BookTypeOK /\ OnceAndInOrder /\ [BookNext]_book => OnceAndInOrder'
  <2> SUFFICES ASSUME BookTypeOK, OnceAndInOrder, [BookNext]_book
               PROVE  OnceAndInOrder'
    OBVIOUS
  <2>1. ASSUME NEW o \in Orders, TakeEffect(o)
        PROVE  OnceAndInOrder'
    BY <2>1, StepInOrder, StepOnce DEF OnceAndInOrder
  <2>2. CASE UNCHANGED book
    BY <2>2 DEF OnceAndInOrder, InOrder, OncePerOrder
  <2> QED BY <2>1, <2>2 DEF BookNext
<1> QED BY <1>1, <1>2, BookTypeCorrect, PTL DEF BookSpec

-----------------------------------------------------------------------------
(***************************************************************************)
(* As long as its timestamp is accepted a signed request is let in once,   *)
(* for every skew and every number of requests and deliveries. What is     *)
(* inductive is that the row of the first outlives that time, and that a   *)
(* delivery dates its row with a time it has read since it was verified.   *)
(***************************************************************************)

\* A delivery that goes on keeps its type.
LEMMA GoesTyped ==
  ASSUME DoorTypeOK, NEW d \in Deliveries, NEW at \in {"sent", "verified", "dated", "fresh", "over"}, Goes(d, at)
  PROVE  /\ delivered' \in [Deliveries -> [of : Signed, at : {"sent", "verified", "dated", "fresh", "over"}, now : 0..MaxTime]]
         /\ \A e \in Deliveries : /\ delivered'[e].of = delivered[e].of /\ delivered'[e].now = delivered[e].now
                                  /\ delivered'[e].at = IF e = d THEN at ELSE delivered[e].at
BY DEF DoorTypeOK, Goes

\* Type correctness of the clock, the timestamps, the nonce rows
\* (order_ingest_nonces) and the deliveries between their awaits.
THEOREM DoorTypeCorrect == DoorSpec => []DoorTypeOK
<1>1. DoorInit => DoorTypeOK
  BY SkewAssumption DEF DoorInit, DoorTypeOK, NoRow
<1>2. DoorTypeOK /\ [DoorNext]_door => DoorTypeOK'
  <2> SUFFICES ASSUME DoorTypeOK, [DoorNext]_door
               PROVE  DoorTypeOK'
    OBVIOUS
  <2> USE SkewAssumption DEF DoorTypeOK
  <2>1. CASE DoorTick
    BY <2>1 DEF DoorTick
  <2>2. ASSUME NEW d \in Deliveries, Verify(d)
        PROVE  DoorTypeOK'
    BY <2>2 DEF Verify, Goes
  <2>3. ASSUME NEW d \in Deliveries, ReadNow(d)
        PROVE  DoorTypeOK'
    BY <2>3 DEF ReadNow
  <2>4. ASSUME NEW d \in Deliveries, SpendNonce(d)
        PROVE  DoorTypeOK'
    <3>1. WithNonce(d) \in [Signed -> {NoRow} \cup Nat]
      BY DEF WithNonce, Expiry
    <3>2. nonces' \in [Signed -> {NoRow} \cup Nat]
      BY <2>4, <3>1 DEF SpendNonce
    <3>3. Goes(d, "over") \/ Goes(d, "fresh")
      BY <2>4 DEF SpendNonce
    <3>4. delivered' \in [Deliveries -> [of : Signed, at : {"sent", "verified", "dated", "fresh", "over"}, now : 0..MaxTime]]
      BY <3>3, GoesTyped
    <3>5. admitted' \in [Signed -> Nat]
      <4>1. admitted' = admitted \/ \E s : admitted' = [admitted EXCEPT ![s] = @ + 1]
        BY <2>4 DEF SpendNonce
      <4> QED BY <4>1
    <3>6. UNCHANGED <<clock, stamp>>
      BY <2>4 DEF SpendNonce
    <3> QED BY <3>2, <3>4, <3>5, <3>6
  <2>5. ASSUME NEW d \in Deliveries, Purge(d)
        PROVE  DoorTypeOK'
    <3>1. PICK gone : nonces' = [s \in Signed |-> IF s \in gone THEN NoRow ELSE nonces[s]]
      BY <2>5 DEF Purge
    <3>2. nonces' \in [Signed -> {NoRow} \cup Nat]
      BY <3>1
    <3>3. Goes(d, "over") /\ UNCHANGED <<clock, stamp, admitted>>
      BY <2>5 DEF Purge
    <3> QED BY <3>2, <3>3, GoesTyped
  <2>6. CASE UNCHANGED door
    BY <2>6 DEF door
  <2> QED BY <2>1, <2>2, <2>3, <2>4, <2>5, <2>6 DEF DoorNext, Deliver
<1> QED BY <1>1, <1>2, PTL DEF DoorSpec

-----------------------------------------------------------------------------
\* What a delivery read stays behind the clock, and what it dates its row with
\* stays within the skew of its timestamp (verifyOrderHmac, handleOrderIngest).
LEMMA NowWithinStep ==
  ASSUME DoorTypeOK, NowWithinSkew, [DoorNext]_door
  PROVE  NowWithinSkew'
<1> USE SkewAssumption DEF DoorTypeOK
<1> DEFINE Within(e) ==
      /\ delivered[e].now <= clock
      /\ delivered[e].at # "sent" => stamp[delivered[e].of] - clock <= MaxSkew
      /\ delivered[e].at \in {"dated", "fresh"} => stamp[delivered[e].of] - delivered[e].now <= MaxSkew
<1> SUFFICES ASSUME NEW e \in Deliveries PROVE Within(e)'
  BY DEF NowWithinSkew
<1>1. CASE DoorTick
  BY <1>1 DEF DoorTick, NowWithinSkew
<1>2. ASSUME NEW d \in Deliveries, Verify(d)
      PROVE  Within(e)'
  <2>1. Goes(d, "verified") /\ UNCHANGED <<clock, stamp>>
        /\ delivered[d].at = "sent" /\ stamp[delivered[d].of] - clock <= MaxSkew
    BY <1>2 DEF Verify, WithinSkew
  <2>2. /\ delivered'[e].of = delivered[e].of /\ delivered'[e].now = delivered[e].now
        /\ delivered'[e].at = IF e = d THEN "verified" ELSE delivered[e].at
    BY <2>1, GoesTyped
  <2>3. delivered[e].now <= clock
    BY DEF NowWithinSkew
  <2> QED BY <2>1, <2>2, <2>3 DEF NowWithinSkew
<1>3. ASSUME NEW d \in Deliveries, ReadNow(d)
      PROVE  Within(e)'
  BY <1>3 DEF ReadNow, NowWithinSkew
<1>4. ASSUME NEW d \in Deliveries, SpendNonce(d) \/ Purge(d)
      PROVE  Within(e)'
  <2>1. UNCHANGED <<clock, stamp>> /\ delivered[d].at \in {"dated", "fresh"} /\ (Goes(d, "over") \/ Goes(d, "fresh"))
    BY <1>4 DEF SpendNonce, Purge
  <2>2. /\ delivered'[e].of = delivered[e].of /\ delivered'[e].now = delivered[e].now
        /\ e = d \/ delivered'[e].at = delivered[e].at
    BY <2>1, GoesTyped
  <2> QED BY <2>1, <2>2 DEF NowWithinSkew
<1>5. CASE UNCHANGED door
  BY <1>5 DEF door, NowWithinSkew
<1> QED BY <1>1, <1>2, <1>3, <1>4, <1>5 DEF DoorNext, Deliver

\* The row a delivery writes outlives the skew of the request it is written for,
\* though time has passed since it was verified (the comment on spendOrderNonce:
\* both sides of the skew).
LEMMA RowLongEnough ==
  ASSUME DoorTypeOK, NowWithinSkew, NEW d \in Deliveries, delivered[d].at = "dated"
  PROVE  Expiry(delivered[d].now) >= stamp[delivered[d].of] + MaxSkew
BY SkewAssumption DEF DoorTypeOK, NowWithinSkew, Expiry

\* The row of a request that was let in is there for as long as its timestamp is accepted.
LEMMA RowOutlivesStep ==
  ASSUME DoorTypeOK, NowWithinSkew, RowOutlivesSkew, [DoorNext]_door
  PROVE  RowOutlivesSkew'
<1> USE SkewAssumption DEF DoorTypeOK
<1> SUFFICES ASSUME NEW t \in Signed, admitted'[t] > 0
             PROVE  nonces'[t] >= stamp'[t] + MaxSkew \/ (nonces'[t] = NoRow /\ clock' > stamp'[t] + MaxSkew)
  BY DEF RowOutlivesSkew
<1> DEFINE Kept == nonces'[t] >= stamp'[t] + MaxSkew \/ (nonces'[t] = NoRow /\ clock' > stamp'[t] + MaxSkew)
<1>1. CASE DoorTick
  BY <1>1 DEF DoorTick, RowOutlivesSkew
<1>2. ASSUME NEW d \in Deliveries, Verify(d) \/ ReadNow(d) PROVE Kept
  BY <1>2 DEF Verify, ReadNow, RowOutlivesSkew
<1>3. ASSUME NEW d \in Deliveries, SpendNonce(d) PROVE Kept
  <2>1. PICK s \in Signed : s = delivered[d].of
    OBVIOUS
  <2>2. PICK x \in Nat : x = Expiry(delivered[d].now)
    BY DEF Expiry
  <2>3. UNCHANGED <<clock, stamp>>
    BY <1>3 DEF SpendNonce
  <2>4. nonces' = nonces \/ nonces' = [nonces EXCEPT ![s] = x]
    <3>1. WithNonce(d) = [nonces EXCEPT ![s] = x]
      BY <2>1, <2>2 DEF WithNonce
    <3> QED BY <1>3, <3>1 DEF SpendNonce
  <2>5. x >= stamp[s] + MaxSkew
    BY <1>3, <2>1, <2>2, RowLongEnough DEF SpendNonce
  <2>6. CASE t = s /\ nonces' = [nonces EXCEPT ![s] = x]
    BY <2>3, <2>5, <2>6
  <2>7. CASE t # s \/ nonces' = nonces
    <3>1. nonces'[t] = nonces[t]
      BY <2>4, <2>7
    <3>2. admitted[t] > 0
      <4>1. admitted' = admitted \/ (admitted' = [admitted EXCEPT ![s] = @ + 1] /\ nonces[s] = NoRow /\ nonces' = WithNonce(d))
        BY <1>3, <2>1 DEF SpendNonce
      <4>2. CASE t = s /\ nonces' = WithNonce(d) /\ nonces[s] = NoRow
        <5>1. nonces'[s] = x /\ x # NoRow
          BY <2>1, <2>2, <4>2 DEF WithNonce, NoRow
        <5> QED BY <3>1, <4>2, <5>1
      <4> QED BY <2>1, <4>1, <4>2
    <3> QED BY <2>3, <3>1, <3>2 DEF RowOutlivesSkew
  <2> QED BY <2>4, <2>6, <2>7
<1>4. ASSUME NEW d \in Deliveries, Purge(d) PROVE Kept
  <2>1. PICK gone \in {{}, {s \in Signed : Expired(s, delivered[d].now)}} :
          nonces' = [s \in Signed |-> IF s \in gone THEN NoRow ELSE nonces[s]]
    BY <1>4 DEF Purge
  <2>2. delivered[d].now <= clock /\ delivered[d].now \in Nat
    BY <1>4 DEF Purge, NowWithinSkew
  <2>3. t \in gone => nonces[t] # NoRow /\ nonces[t] < clock
    BY <2>1, <2>2 DEF Expired
  <2>4. UNCHANGED <<clock, stamp, admitted>>
    BY <1>4 DEF Purge
  <2>5. nonces[t] >= stamp[t] + MaxSkew \/ (nonces[t] = NoRow /\ clock > stamp[t] + MaxSkew)
    BY <2>4 DEF RowOutlivesSkew
  <2>6. nonces'[t] = IF t \in gone THEN NoRow ELSE nonces[t]
    BY <2>1
  <2> QED BY <2>3, <2>4, <2>5, <2>6
<1>5. CASE UNCHANGED door
  BY <1>5 DEF door, RowOutlivesSkew
<1> QED BY <1>1, <1>2, <1>3, <1>4, <1>5 DEF DoorNext, Deliver

\* As long as its timestamp is accepted, a signed request is let in at most once,
\* however many of its deliveries are between their reads (spendOrderNonce).
THEOREM AdmittedOnceHolds == DoorSpec => AdmittedOnce
<1> DEFINE Again == \A s \in Signed : admitted'[s] > admitted[s] /\ clock <= stamp[s] + MaxSkew => admitted[s] = 0
<1>1. DoorInit => NowWithinSkew /\ RowOutlivesSkew
  BY DEF DoorInit, NowWithinSkew, RowOutlivesSkew
<1>2. DoorTypeOK /\ NowWithinSkew /\ RowOutlivesSkew /\ [DoorNext]_door => (NowWithinSkew /\ RowOutlivesSkew)'
  BY NowWithinStep, RowOutlivesStep
<1>3. DoorTypeOK /\ RowOutlivesSkew /\ [DoorNext]_door => [Again]_door
  <2> SUFFICES ASSUME DoorTypeOK, RowOutlivesSkew, DoorNext,
                      NEW s \in Signed, admitted'[s] > admitted[s], clock <= stamp[s] + MaxSkew
               PROVE  admitted[s] = 0
    OBVIOUS
  <2>1. PICK d \in Deliveries : SpendNonce(d) /\ admitted' # admitted
    <3>1. admitted' # admitted
      BY DEF DoorTypeOK
    <3> QED BY <3>1 DEF DoorNext, Deliver, DoorTick, Verify, ReadNow, Purge
  <2>2. nonces[delivered[d].of] = NoRow /\ admitted' = [admitted EXCEPT ![delivered[d].of] = @ + 1]
    BY <2>1 DEF SpendNonce
  <2>3. s = delivered[d].of
    BY <2>2 DEF DoorTypeOK
  <2>4. nonces[s] = NoRow /\ admitted[s] \in Nat /\ stamp[s] \in Nat /\ clock \in Nat
    BY <2>2, <2>3 DEF DoorTypeOK
  <2> QED BY <2>4, SkewAssumption DEF RowOutlivesSkew, NoRow
<1> HIDE DEF Again
<1>4. DoorSpec => [][Again]_door
  BY <1>1, <1>2, <1>3, DoorTypeCorrect, PTL DEF DoorSpec
<1> QED BY <1>4 DEF AdmittedOnce, Again

-----------------------------------------------------------------------------
(***************************************************************************)
(* The fuse of the device routes holds for every number of sources, every  *)
(* budget and every limit a counter row can reach. A minute's row may be   *)
(* swept, so its count bounds what was let through only while the row is   *)
(* kept; afterwards nothing is let through for that minute any more.       *)
(***************************************************************************)

\* Counting a row never lowers it, and raises it below the cap (the upsert of limitBoundRequest).
LEMMA CountedRaises ==
  ASSUME NEW n \in Nat
  PROVE  Counted(n) \in Nat /\ (n <= CountCap => Counted(n) >= n) /\ (n < CountCap => Counted(n) = n + 1)
BY RateAssumption DEF Counted

\* Type correctness of the counters: what rate_limit_counters keeps for each
\* minute are counts, and the clock stays within its bound.
THEOREM RateTypeCorrect == RateSpec => []RateTypeOK
<1>1. RateInit => RateTypeOK
  <2> SUFFICES ASSUME RateInit
               PROVE  RateTypeOK
    OBVIOUS
  <2>1. minute \in Minutes /\ verified \in Nat
    BY RateAssumption DEF RateInit, Minutes
  <2>2. hits \in [Counters \X Minutes -> Nat] /\ total \in [Minutes -> Nat] /\ through \in [Minutes -> Nat]
    BY DEF RateInit
  <2>3. sweeping \in BOOLEAN
    BY DEF RateInit
  <2> QED BY <2>1, <2>2, <2>3 DEF RateTypeOK
<1>2. RateTypeOK /\ [RateNext]_rate => RateTypeOK'
  <2> SUFFICES ASSUME RateTypeOK, [RateNext]_rate
               PROVE  RateTypeOK'
    OBVIOUS
  <2> USE DEF RateTypeOK
  <2>1. ASSUME NEW route \in Routes, NEW s \in Sources, Request(route, s)
        PROVE  RateTypeOK'
    <3>1. minute' \in Minutes /\ verified' = verified
      BY <2>1 DEF Request
    <3>2. sweeping' \in BOOLEAN
      BY <2>1, Zenon DEF Request
    <3>3. hits' \in [Counters \X Minutes -> Nat]
      <4>1. hits' = hits \/ \E x : hits' = [hits EXCEPT ![x] = Counted(@)]
        BY <2>1, Zenon DEF Request
      <4> QED BY <4>1, CountedRaises
    <3>4. total' \in [Minutes -> Nat]
      <4>1. total' = total \/ \E m : total' = [total EXCEPT ![m] = Counted(@)]
        BY <2>1, Zenon DEF Request
      <4> QED BY <4>1, CountedRaises
    <3>5. through' \in [Minutes -> Nat]
      <4>1. through' = through \/ \E m : through' = [through EXCEPT ![m] = @ + 1]
        BY <2>1, Zenon DEF Request
      <4> QED BY <4>1
    <3> QED BY <3>1, <3>2, <3>3, <3>4, <3>5
  <2>2. ASSUME NEW d \in DeviceKeys, NEW u \in Owners, Verified(d, u)
        PROVE  RateTypeOK'
    <3>1. minute' \in Minutes /\ verified' \in Nat /\ UNCHANGED <<total, through>>
      BY <2>2 DEF Verified
    <3>2. hits' \in [Counters \X Minutes -> Nat]
      <4>1. PICK x, y : hits' = [hits EXCEPT ![x] = Counted(@), ![y] = Counted(@)]
        BY <2>2, Zenon DEF Verified
      <4>2. [hits EXCEPT ![x] = Counted(@)] \in [Counters \X Minutes -> Nat]
        BY CountedRaises
      <4> QED BY <4>1, <4>2, CountedRaises
    <3>3. sweeping' = sweeping
      BY <2>2 DEF Verified
    <3> QED BY <3>1, <3>2, <3>3
  <2>3. CASE Sweep
    <3>1. PICK gone : hits' = [x \in Counters \X Minutes |-> IF x[2] \in gone THEN 0 ELSE hits[x]]
                      /\ total' = [m \in Minutes |-> IF m \in gone THEN 0 ELSE total[m]]
      BY <2>3, Zenon DEF Sweep
    <3>2. sweeping' \in BOOLEAN /\ UNCHANGED <<minute, verified, through>>
      BY <2>3, Zenon DEF Sweep
    <3> QED BY <3>1, <3>2
  <2>4. CASE Minute
    <3>1. minute' \in Minutes
      BY <2>4, RateAssumption DEF Minute, Minutes
    <3> QED BY <2>4, <3>1 DEF Minute
  <2>5. CASE UNCHANGED rate
    BY <2>5 DEF rate
  <2> QED BY <2>1, <2>2, <2>3, <2>4, <2>5 DEF RateNext
<1> QED BY <1>1, <1>2, PTL DEF RateSpec

-----------------------------------------------------------------------------
\* No row exceeds the cap, and while a minute's row is kept it has counted
\* every request let through in that minute.
FuseCounts ==
  /\ \A m \in Minutes : total[m] <= CountCap
  /\ \A m \in Minutes : ~Lapsed(m) => through[m] <= total[m]
  /\ AdmittedWithinFuse

\* In no minute are more requests let through than the fuse allows, provided
\* its limit is one a row can count to (limitBoundRequest,
\* BOUND_GLOBAL_RATE_LIMIT).
THEOREM AdmittedWithinFuseHolds ==
  ASSUME Fuse <= CountCap
  PROVE  RateSpec => []AdmittedWithinFuse
<1>1. RateInit => FuseCounts
  BY RateAssumption DEF RateInit, FuseCounts, AdmittedWithinFuse, Minutes
<1>2. RateTypeOK /\ FuseCounts /\ [RateNext]_rate => FuseCounts'
  <2> SUFFICES ASSUME RateTypeOK, FuseCounts, [RateNext]_rate
               PROVE  FuseCounts'
    OBVIOUS
  <2> USE DEF RateTypeOK, FuseCounts, AdmittedWithinFuse
  <2>1. ASSUME NEW route \in Routes, NEW s \in Sources, Request(route, s)
        PROVE  FuseCounts'
    <3>1. PICK m2 \in Minutes, m3 \in Minutes :
            /\ m2 \in {minute, minute + 1} /\ m3 \in {minute, minute + 1} /\ m2 <= m3 /\ minute' = m3
            /\ total' = total \/ total' = [total EXCEPT ![m2] = Counted(@)]
            /\ \/ through' = through
               \/ /\ m3 = minute /\ total[minute] < Fuse
                  /\ total' = [total EXCEPT ![m2] = Counted(@)]
                  /\ through' = [through EXCEPT ![m3] = @ + 1]
      <4> DEFINE own == <<<<route, s>>, minute>>
                 charged == [hits EXCEPT ![own] = Counted(@)]
      <4>1. PICK m2 \in {minute, minute + 1} \cap Minutes, m3 \in {minute, minute + 1} \cap Minutes :
              Request(route, s)!(m2, m3)
        BY <2>1 DEF Request
      <4>2. m2 <= m3 /\ minute' = m3 /\ (total' = total \/ total' = [total EXCEPT ![m2] = Counted(@)])
        BY <4>1
      <4>3. ASSUME through' # through
            PROVE  /\ m3 = minute /\ total[minute] < Fuse /\ through' = [through EXCEPT ![m3] = @ + 1]
                   /\ charged[own] <= Budget(route)
                   /\ total' = IF WithinBudget(charged[<<<<route, s>>, m2>>], route) THEN [total EXCEPT ![m2] = Counted(@)] ELSE total
        BY <4>1, <4>3 DEF GlobalOpen
      <4>4. charged[own] > 0
        <5>1. own \in Counters \X Minutes
          BY DEF Counters
        <5>2. hits[own] \in Nat
          BY <5>1
        <5> QED BY <5>1, <5>2, RateAssumption DEF Counted
      <4>5. ASSUME through' # through
            PROVE  m2 = minute /\ total' = [total EXCEPT ![m2] = Counted(@)]
        <5>1. m2 = minute
          BY <4>2, <4>3, <4>5 DEF Minutes
        <5> QED BY <4>3, <4>4, <4>5, <5>1 DEF WithinBudget
      <4> QED BY <4>2, <4>3, <4>5
    <3>2. minute \in Int /\ minute' \in {minute, minute + 1}
      BY <3>1 DEF Minutes
    <3>3. \A m \in Minutes : total'[m] \in Nat /\ total'[m] >= total[m] /\ total'[m] <= CountCap
      BY <3>1, CountedRaises, RateAssumption DEF Counted
    <3>a. \A m \in Minutes : Lapsed(m) => Lapsed(m)'
      BY <3>2 DEF Lapsed, Minutes
    <3>4. CASE through' = through
      <4>1. ASSUME NEW m \in Minutes, ~Lapsed(m)'
            PROVE  through'[m] <= total'[m]
        <5>1. through[m] <= total[m] /\ total[m] <= total'[m] /\ {through[m], total[m], total'[m]} \subseteq Nat
          BY <3>3, <3>a, <4>1
        <5> QED BY <3>4, <5>1
      <4> QED BY <3>3, <3>4, <4>1
    <3>5. CASE through' # through
      <4>1. minute' = minute /\ total[minute] < Fuse /\ total'[minute] = total[minute] + 1
            /\ through' = [through EXCEPT ![minute] = @ + 1]
        BY <3>1, <3>2, <3>5, RateAssumption DEF Counted
      <4>2. ~Lapsed(minute)
        BY <3>2 DEF Lapsed
      <4>3. through'[minute] <= total'[minute] /\ through'[minute] <= Fuse
        BY <4>1, <4>2, RateAssumption
      <4> QED BY <3>2, <3>3, <4>1, <4>3, RateAssumption DEF Lapsed
    <3> QED BY <3>4, <3>5
  <2>2. ASSUME NEW d \in DeviceKeys, NEW u \in Owners, Verified(d, u)
        PROVE  FuseCounts'
    <3>1. minute \in Int /\ minute' \in {minute, minute + 1} /\ UNCHANGED <<total, through>>
      BY <2>2 DEF Verified, Minutes
    <3> QED BY <3>1 DEF Lapsed, Minutes
  <2>3. CASE Sweep
    <3>1. UNCHANGED <<minute, through>>
          /\ \A m \in Minutes : total'[m] = total[m] \/ (Lapsed(m) /\ total'[m] = 0)
      BY <2>3 DEF Sweep
    <3> QED BY <3>1, RateAssumption DEF Lapsed
  <2>4. CASE Minute
    BY <2>4 DEF Minute, Lapsed, Minutes
  <2>5. CASE UNCHANGED rate
    BY <2>5 DEF rate, Lapsed
  <2> QED BY <2>1, <2>2, <2>3, <2>4, <2>5 DEF RateNext
<1>3. FuseCounts => AdmittedWithinFuse
  BY DEF FuseCounts
<1> QED BY <1>1, <1>2, <1>3, RateTypeCorrect, PTL DEF RateSpec

-----------------------------------------------------------------------------
(* What the fuse counted was within the budgets of the sources.            *)

\* The requests of minute m, up to the fuse, that the counters h show to be
\* within the budgets of their sources.
Within(h, m) ==
  {y \in (Routes \X Sources) \X (1 .. Fuse) : y[2] <= Budget(y[1][1]) /\ y[2] <= h[<<y[1], m>>]}

\* A counter never passes the cap of a row, no row is of a minute to come, and
\* the fuse of a minute that is kept counted no more than the budgets allow.
BudgetsCover ==
  /\ \A x \in Counters \X Minutes : hits[x] <= CountCap /\ (x[2] > minute => hits[x] = 0)
  /\ \A m \in Minutes :
       ~Lapsed(m) => total[m] <= Cardinality(Within(hits, m)) \/ Fuse <= Cardinality(Within(hits, m))

\* Counters that only grow show no fewer requests (the upsert of limitBoundRequest).
LEMMA WithinGrows ==
  ASSUME NEW h \in [Counters \X Minutes -> Nat], NEW g \in [Counters \X Minutes -> Nat], NEW m \in Minutes,
         \A x \in Counters : h[<<x, m>>] <= g[<<x, m>>]
  PROVE  /\ Within(h, m) \subseteq Within(g, m)
         /\ IsFiniteSet(Within(h, m)) /\ IsFiniteSet(Within(g, m))
         /\ Cardinality(Within(h, m)) \in Nat /\ Cardinality(Within(g, m)) \in Nat
         /\ Cardinality(Within(h, m)) <= Cardinality(Within(g, m))
<1> DEFINE U == (Routes \X Sources) \X (1 .. Fuse)
<1>1. IsFiniteSet(Routes \X Sources)
  BY SourcesFinite, FS_Product
<1>2. IsFiniteSet(1 .. Fuse)
  BY RateAssumption, FS_Interval
<1>3. IsFiniteSet(U)
  BY <1>1, <1>2, FS_Product
<1>4. Within(h, m) \subseteq U /\ Within(g, m) \subseteq U
  BY DEF Within
<1>5. Within(h, m) \subseteq Within(g, m)
  <2> SUFFICES ASSUME NEW y \in Within(h, m)
               PROVE  y \in Within(g, m)
    OBVIOUS
  <2>1. y \in U /\ y[1] \in Counters /\ y[2] \in Nat
    BY DEF Within, Counters
  <2>2. h[<<y[1], m>>] \in Nat /\ g[<<y[1], m>>] \in Nat /\ h[<<y[1], m>>] <= g[<<y[1], m>>]
    BY <2>1
  <2> QED BY <2>1, <2>2 DEF Within
<1>6. IsFiniteSet(Within(h, m)) /\ IsFiniteSet(Within(g, m))
  BY <1>3, <1>4, FS_Subset
<1> QED BY <1>5, <1>6, FS_Subset, FS_CardinalityType

\* One more request of a source within its budget is one more of those
\* requests, or they already fill the fuse.
LEMMA OneMoreWithin ==
  ASSUME NEW h \in [Counters \X Minutes -> Nat], NEW g \in [Counters \X Minutes -> Nat], NEW m \in Minutes,
         \A x \in Counters : h[<<x, m>>] <= g[<<x, m>>],
         NEW s \in Routes \X Sources, g[<<s, m>>] = h[<<s, m>>] + 1, g[<<s, m>>] <= Budget(s[1])
  PROVE  Cardinality(Within(g, m)) >= Cardinality(Within(h, m)) + 1 \/ Fuse <= Cardinality(Within(g, m))
<1> DEFINE n == g[<<s, m>>]
<1>1. s \in Counters /\ h[<<s, m>>] \in Nat /\ n \in Nat /\ Budget(s[1]) \in Nat /\ Fuse \in Nat
  BY RateAssumption DEF Counters, Budget
<1>2. /\ Within(h, m) \subseteq Within(g, m) /\ IsFiniteSet(Within(h, m)) /\ IsFiniteSet(Within(g, m))
      /\ Cardinality(Within(h, m)) \in Nat /\ Cardinality(Within(g, m)) \in Nat
  BY WithinGrows
<1>3. CASE n <= Fuse
  <2>1. <<s, n>> \in Within(g, m) /\ <<s, n>> \notin Within(h, m)
    BY <1>1, <1>3 DEF Within
  <2>2. /\ Cardinality(Within(h, m) \cup {<<s, n>>}) = Cardinality(Within(h, m)) + 1
        /\ IsFiniteSet(Within(h, m) \cup {<<s, n>>})
    BY <1>2, <2>1, FS_AddElement
  <2>3. Cardinality(Within(h, m) \cup {<<s, n>>}) <= Cardinality(Within(g, m))
    BY <1>2, <2>1, FS_Subset
  <2> QED BY <1>2, <2>2, <2>3
<1>4. CASE n > Fuse
  <2>1. {s} \X (1 .. Fuse) \subseteq Within(g, m)
    BY <1>1, <1>4 DEF Within
  <2>2. IsFiniteSet({s}) /\ Cardinality({s}) = 1
    BY FS_Singleton
  <2>3. IsFiniteSet(1 .. Fuse) /\ Cardinality(1 .. Fuse) = Fuse
    BY RateAssumption, FS_Interval
  <2>4. Cardinality({s} \X (1 .. Fuse)) = Cardinality({s}) * Cardinality(1 .. Fuse)
    BY <2>2, <2>3, FS_Product, Zenon
  <2>5. Cardinality({s} \X (1 .. Fuse)) <= Cardinality(Within(g, m))
    BY <1>2, <2>1, FS_Subset
  <2> QED BY <1>1, <2>2, <2>3, <2>4, <2>5
<1> QED BY <1>1, <1>3, <1>4

\* A request charges its source before it spends the fuse: the fuse counts at
\* most one request, of a source within its budget.
LEMMA RequestCovered ==
  ASSUME RegistrationBudget < CountCap, SessionBudget < CountCap, RateTypeOK, BudgetsCover,
         NEW route \in Routes, NEW s \in Sources, Request(route, s), RateTypeOK'
  PROVE  BudgetsCover'
<1> DEFINE src == <<route, s>>
           own == <<src, minute>>
           charged == [hits EXCEPT ![own] = Counted(@)]
           C(h, m) == Cardinality(Within(h, m))
<1>1. PICK m2 \in {minute, minute + 1} \cap Minutes, m3 \in {minute, minute + 1} \cap Minutes :
        Request(route, s)!(m2, m3)
  BY DEF Request
<1>2. /\ minute' = m3 /\ m2 <= m3
      /\ hits' = IF GlobalOpen(minute) THEN charged ELSE hits
      /\ total' = IF WithinBudget(hits'[<<src, m2>>], route) THEN [total EXCEPT ![m2] = Counted(@)] ELSE total
  BY <1>1
<1>3. /\ minute \in Nat /\ minute \in Minutes /\ m2 \in Nat /\ m3 \in Nat /\ src \in Counters /\ own \in Counters \X Minutes
      /\ hits \in [Counters \X Minutes -> Nat] /\ hits' \in [Counters \X Minutes -> Nat]
      /\ total \in [Minutes -> Nat] /\ CountCap \in Nat /\ Fuse \in Nat
  <2>1. minute \in Minutes /\ m2 \in Minutes /\ m3 \in Minutes /\ src \in Counters
    BY DEF RateTypeOK, Counters
  <2>2. minute \in Nat /\ m2 \in Nat /\ m3 \in Nat
    BY <2>1 DEF Minutes
  <2> QED BY <2>1, <2>2, RateAssumption DEF RateTypeOK
<1>4. hits[own] \in Nat /\ hits[own] <= CountCap
  BY <1>3 DEF BudgetsCover
<1>5. \A x \in Counters \X Minutes :
        hits'[x] = hits[x] \/ (x = own /\ GlobalOpen(minute) /\ hits'[x] = Counted(hits[own]))
  BY <1>2, <1>3
<1>6. Counted(hits[own]) \in Nat /\ Counted(hits[own]) <= CountCap /\ Counted(hits[own]) >= hits[own]
  BY <1>3, <1>4 DEF Counted
<1>7. \A x \in Counters \X Minutes : hits'[x] <= CountCap /\ hits[x] <= hits'[x] /\ (x[2] > m3 => hits'[x] = 0)
  <2> SUFFICES ASSUME NEW x \in Counters \X Minutes
               PROVE  hits'[x] <= CountCap /\ hits[x] <= hits'[x] /\ (x[2] > m3 => hits'[x] = 0)
    OBVIOUS
  <2>1. hits[x] \in Nat /\ hits[x] <= CountCap /\ (x[2] > minute => hits[x] = 0) /\ x[2] \in Nat
    BY <1>3 DEF BudgetsCover, Minutes
  <2>2. own[2] = minute /\ minute <= m3
    BY <1>3
  <2> HIDE DEF own
  <2> QED BY <1>3, <1>5, <1>6, <2>1, <2>2
<1>8. \A m \in Minutes : /\ C(hits, m) \in Nat /\ C(hits', m) \in Nat /\ C(hits, m) <= C(hits', m)
  <2> SUFFICES ASSUME NEW m \in Minutes
               PROVE  /\ C(hits, m) \in Nat /\ C(hits', m) \in Nat /\ C(hits, m) <= C(hits', m)
    OBVIOUS
  <2>1. \A x \in Counters : hits[<<x, m>>] <= hits'[<<x, m>>]
    BY <1>7
  <2> QED BY <1>3, <2>1, WithinGrows
<1>9. ASSUME NEW m \in Minutes, ~Lapsed(m)'
      PROVE  total'[m] <= C(hits', m) \/ Fuse <= C(hits', m)
  <2>1. ~Lapsed(m)
    BY <1>2, <1>3, <1>9 DEF Lapsed, Minutes
  <2>2. total[m] \in Nat /\ (total[m] <= C(hits, m) \/ Fuse <= C(hits, m))
    BY <1>3, <2>1 DEF BudgetsCover
  <2>3. CASE total'[m] = total[m]
    <3>1. Fuse \in Nat /\ C(hits, m) \in Nat /\ C(hits', m) \in Nat /\ C(hits, m) <= C(hits', m)
      BY <1>3, <1>8
    <3> HIDE DEF C
    <3> QED BY <2>2, <2>3, <3>1
  <2>4. CASE total'[m] # total[m]
    <3>1. m = m2 /\ WithinBudget(hits'[<<src, m2>>], route) /\ total'[m] = Counted(total[m])
      BY <1>2, <1>3, <2>4
    <3>2. m = minute
      <4>1. CASE m2 = minute + 1
        <5>1. <<src, m2>> \in Counters \X Minutes /\ <<src, m2>> # own
          BY <1>1, <1>3, <4>1
        <5>2. hits[<<src, m2>>] = 0
          BY <1>3, <4>1, <5>1 DEF BudgetsCover
        <5>3. hits'[<<src, m2>>] = 0
          BY <1>5, <5>1, <5>2
        <5> QED BY <3>1, <5>3 DEF WithinBudget
      <4> QED BY <1>1, <3>1, <4>1
    <3>3. CASE ~GlobalOpen(minute)
      BY <1>3, <1>8, <2>2, <3>2, <3>3 DEF GlobalOpen
    <3>4. CASE GlobalOpen(minute)
      <4>1. hits'[own] = Counted(hits[own]) /\ hits'[own] <= Budget(route)
        BY <1>2, <1>3, <3>1, <3>2, <3>4 DEF WithinBudget
      <4>2. Counted(hits[own]) = hits[own] + 1
        BY <1>4, <1>3, <4>1, RateAssumption DEF Counted, Budget
      <4>3. src[1] = route /\ src \in Routes \X Sources
        OBVIOUS
      <4>4. C(hits', m) >= C(hits, m) + 1 \/ Fuse <= C(hits', m)
        <5>1. \A x \in Counters : hits[<<x, m>>] <= hits'[<<x, m>>]
          BY <1>7
        <5> QED BY <1>3, <3>2, <4>1, <4>2, <4>3, <5>1, OneMoreWithin
      <4>5. total'[m] <= total[m] + 1
        BY <1>3, <2>2, <3>1 DEF Counted
      <4>6. total'[m] \in Nat
        BY <1>3, <2>2, <3>1 DEF Counted
      <4> QED BY <1>3, <1>8, <2>2, <4>4, <4>5, <4>6
    <3> QED BY <3>3, <3>4
  <2> QED BY <2>3, <2>4
<1>10. \A x \in Counters \X Minutes : hits'[x] <= CountCap /\ (x[2] > minute' => hits'[x] = 0)
  BY <1>2, <1>7
<1> HIDE DEF C
<1> QED BY <1>9, <1>10 DEF BudgetsCover, C

\* There are finitely many requests within the budgets.
LEMMA WithinFinite ==
  ASSUME NEW h \in [Counters \X Minutes -> Nat], NEW m \in Minutes
  PROVE  IsFiniteSet(Within(h, m)) /\ Cardinality(Within(h, m)) \in Nat
<1>1. \A x \in Counters : h[<<x, m>>] <= h[<<x, m>>]
  <2> TAKE x \in Counters
  <2>1. h[<<x, m>>] \in Nat
    OBVIOUS
  <2> QED BY <2>1
<1> QED BY <1>1, WithinGrows

\* Of the requests that are within the budgets of their sources, one source sent
\* no more than its two budgets together.
LEMMA OthersWithin ==
  ASSUME Routes \subseteq {"registration", "session"}, NEW h, NEW m, NEW s \in Sources,
         IsFiniteSet(Within(h, m)), Cardinality(Within(h, m)) > RegistrationBudget + SessionBudget
  PROVE  \E y \in Within(h, m) : y[1][2] # s
<1> DEFINE R == {<<"registration", s>>} \X (1 .. RegistrationBudget)
           S == {<<"session", s>>} \X (1 .. SessionBudget)
<1>1. ASSUME NEW a, NEW n \in Nat
      PROVE  IsFiniteSet({a} \X (1 .. n)) /\ Cardinality({a} \X (1 .. n)) = n
  <2>1. IsFiniteSet(1 .. n) /\ Cardinality(1 .. n) = n
    BY FS_Interval
  <2>2. IsFiniteSet({a}) /\ Cardinality({a}) = 1
    BY FS_Singleton
  <2>3. IsFiniteSet({a} \X (1 .. n)) /\ Cardinality({a} \X (1 .. n)) = Cardinality({a}) * Cardinality(1 .. n)
    BY <2>1, <2>2, FS_Product
  <2> QED BY <2>1, <2>2, <2>3
<1>2. RegistrationBudget \in Nat /\ SessionBudget \in Nat
  BY RateAssumption
<1>3. IsFiniteSet(R) /\ Cardinality(R) = RegistrationBudget
  BY <1>1, <1>2
<1>4. IsFiniteSet(S) /\ Cardinality(S) = SessionBudget
  BY <1>1, <1>2
<1>5. /\ IsFiniteSet(R \cup S) /\ Cardinality(R \cup S) <= RegistrationBudget + SessionBudget
      /\ Cardinality(R \cup S) \in Nat
  <2>1. /\ IsFiniteSet(R \cup S)
        /\ Cardinality(R \cup S) = Cardinality(R) + Cardinality(S) - Cardinality(R \cap S)
    BY <1>3, <1>4, FS_Union
  <2>2. IsFiniteSet(R \cap S)
    <3>1. R \cap S \in SUBSET R
      OBVIOUS
    <3> HIDE DEF R, S
    <3> QED BY <1>3, <3>1, FS_Subset
  <2>3. Cardinality(R \cap S) \in Nat /\ Cardinality(R \cup S) \in Nat
    BY <2>1, <2>2, FS_CardinalityType
  <2> HIDE DEF R, S
  <2> QED BY <1>3, <1>4, <2>1, <2>3, RateAssumption
<1>6. SUFFICES ASSUME \A y \in Within(h, m) : y[1][2] = s
               PROVE  FALSE
  OBVIOUS
<1>7. Within(h, m) \subseteq R \cup S
  <2> SUFFICES ASSUME NEW y \in Within(h, m)
               PROVE  y \in R \cup S
    OBVIOUS
  <2>1. /\ y \in (Routes \X Sources) \X (1 .. Fuse) /\ y[2] <= Budget(y[1][1])
        /\ y[1][2] = s
    BY <1>6 DEF Within
  <2>2. PICK route \in Routes, n \in 1 .. Fuse : y = <<<<route, s>>, n>>
    BY <2>1
  <2>3. n <= Budget(route) /\ route \in {"registration", "session"}
    BY <2>1, <2>2
  <2> QED BY <2>2, <2>3, RateAssumption DEF Budget
<1>8. Within(h, m) \in SUBSET (R \cup S)
  BY <1>7
<1>9. Cardinality(Within(h, m)) <= Cardinality(R \cup S) /\ Cardinality(Within(h, m)) \in Nat
  <2> HIDE DEF R, S
  <2> QED BY <1>5, <1>8, FS_Subset, FS_CardinalityType
<1> HIDE DEF R, S
<1> QED BY <1>5, <1>9, RateAssumption

\* The fuse does not trip on the requests of one source, provided it is above the
\* budgets of a source together and a row can count past each of them
\* (bound_rate.mjs:15-16; 20 and 600 against 10001).
THEOREM NoSourceTripsAloneHolds ==
  ASSUME RegistrationBudget < CountCap, SessionBudget < CountCap,
         Routes \subseteq {"registration", "session"}, RegistrationBudget + SessionBudget < Fuse
  PROVE  RateSpec => []NoSourceTripsAlone
<1>1. RateInit => BudgetsCover
  <2> SUFFICES ASSUME RateInit
               PROVE  BudgetsCover
    OBVIOUS
  <2>1. hits \in [Counters \X Minutes -> Nat] /\ \A m \in Minutes : total[m] = 0
    BY DEF RateInit
  <2>2. \A m \in Minutes : Cardinality(Within(hits, m)) \in Nat
    BY <2>1, WithinFinite
  <2>3. \A x \in Counters \X Minutes : hits[x] = 0
    BY DEF RateInit
  <2> QED BY <2>1, <2>2, <2>3, RateAssumption DEF BudgetsCover
<1>2. RateTypeOK /\ RateTypeOK' /\ BudgetsCover /\ [RateNext]_rate => BudgetsCover'
  <2> SUFFICES ASSUME RateTypeOK, RateTypeOK', BudgetsCover, [RateNext]_rate
               PROVE  BudgetsCover'
    OBVIOUS
  <2> DEFINE C(h, m) == Cardinality(Within(h, m))
  <2>1. ASSUME NEW route \in Routes, NEW s \in Sources, Request(route, s)
        PROVE  BudgetsCover'
    BY <2>1, RequestCovered
  <2>2. ASSUME /\ minute' \in {minute, minute + 1}
               /\ \A m \in Minutes : ~Lapsed(m)' => total'[m] = total[m]
               /\ \A x \in Counters \X Minutes :
                    hits'[x] <= CountCap /\ (x[2] > minute' => hits'[x] = 0) /\ (~Lapsed(x[2]) => hits[x] <= hits'[x])
        PROVE  BudgetsCover'
    <3>1. hits \in [Counters \X Minutes -> Nat] /\ hits' \in [Counters \X Minutes -> Nat] /\ minute \in Nat
      BY DEF RateTypeOK, Minutes
    <3>2. ASSUME NEW m \in Minutes, ~Lapsed(m)'
          PROVE  total'[m] <= C(hits', m) \/ Fuse <= C(hits', m)
      <4>1. ~Lapsed(m)
        BY <2>2, <3>1, <3>2 DEF Lapsed, Minutes
      <4>2. \A x \in Counters : hits[<<x, m>>] <= hits'[<<x, m>>]
        BY <2>2, <4>1
      <4>3. C(hits, m) \in Nat /\ C(hits', m) \in Nat /\ C(hits, m) <= C(hits', m)
        BY <3>1, <4>2, WithinGrows
      <4>4. total[m] \in Nat /\ total'[m] = total[m] /\ (total[m] <= C(hits, m) \/ Fuse <= C(hits, m))
        BY <2>2, <3>2, <4>1 DEF RateTypeOK, BudgetsCover
      <4> QED BY <4>3, <4>4, RateAssumption
    <3> HIDE DEF C
    <3> QED BY <2>2, <3>2 DEF BudgetsCover, C
  <2>3. ASSUME NEW d \in DeviceKeys, NEW u \in Owners, Verified(d, u)
        PROVE  BudgetsCover'
    <3>1. PICK m \in {minute, minute + 1} \cap Minutes :
            /\ minute' = m /\ total' = total
            /\ hits' = [hits EXCEPT ![<<<<"device", d>>, minute>>] = Counted(@), ![<<<<"customer", u>>, m>>] = Counted(@)]
      BY <2>3 DEF Verified
    <3> DEFINE one == <<<<"device", d>>, minute>>
               two == <<<<"customer", u>>, m>>
    <3>2. minute \in Nat /\ m \in Nat /\ minute <= m /\ one[2] = minute /\ two[2] = m /\ one # two
      BY DEF RateTypeOK, Minutes
    <3>3. hits \in [Counters \X Minutes -> Nat] /\ hits' = [hits EXCEPT ![one] = Counted(@), ![two] = Counted(@)]
      BY <3>1 DEF RateTypeOK
    <3>4. \A x \in Counters \X Minutes :
            hits'[x] = hits[x] \/ (x[2] <= m /\ hits'[x] = Counted(hits[x]))
      <4> HIDE DEF one, two
      <4> QED BY <3>2, <3>3
    <3>5. ASSUME NEW x \in Counters \X Minutes
          PROVE  hits'[x] <= CountCap /\ (x[2] > minute' => hits'[x] = 0) /\ (~Lapsed(x[2]) => hits[x] <= hits'[x])
      <4>1. /\ hits[x] \in Nat /\ x[2] \in Nat /\ hits[x] <= CountCap /\ (x[2] > minute => hits[x] = 0)
            /\ CountCap \in Nat
        BY <3>3, RateAssumption DEF BudgetsCover, Minutes
      <4>2. Counted(hits[x]) \in Nat /\ Counted(hits[x]) <= CountCap /\ Counted(hits[x]) >= hits[x]
        BY <4>1 DEF Counted
      <4> HIDE DEF one, two
      <4>3. CASE hits'[x] = hits[x]
        BY <3>1, <3>2, <4>1, <4>3
      <4>4. CASE x[2] <= m /\ hits'[x] = Counted(hits[x])
        BY <3>1, <3>2, <4>1, <4>2, <4>4
      <4> QED BY <3>4, <4>3, <4>4
    <3> QED BY <2>2, <3>1, <3>5
  <2>4. CASE Sweep
    <3>1. PICK gone \in SUBSET {m \in Minutes : Lapsed(m)} :
            /\ hits' = [x \in Counters \X Minutes |-> IF x[2] \in gone THEN 0 ELSE hits[x]]
            /\ total' = [m \in Minutes |-> IF m \in gone THEN 0 ELSE total[m]]
      BY <2>4 DEF Sweep
    <3>2. minute' = minute
      BY <2>4 DEF Sweep
    <3>3. \A m \in Minutes : ~Lapsed(m)' => total'[m] = total[m]
      BY <3>1, <3>2 DEF Lapsed
    <3>4. ASSUME NEW x \in Counters \X Minutes
          PROVE  hits'[x] <= CountCap /\ (x[2] > minute' => hits'[x] = 0) /\ (~Lapsed(x[2]) => hits[x] <= hits'[x])
      <4>1. hits[x] \in Nat /\ hits[x] <= CountCap /\ (x[2] > minute => hits[x] = 0) /\ CountCap \in Nat
        BY RateAssumption DEF RateTypeOK, BudgetsCover
      <4>2. hits'[x] = hits[x] \/ (hits'[x] = 0 /\ Lapsed(x[2]))
        BY <3>1
      <4> QED BY <3>2, <4>1, <4>2
    <3> QED BY <2>2, <3>2, <3>3, <3>4
  <2>5. CASE Minute \/ UNCHANGED rate
    <3>1. minute' \in {minute, minute + 1} /\ UNCHANGED <<hits, total>>
      BY <2>5 DEF Minute, rate
    <3>2. ASSUME NEW x \in Counters \X Minutes
          PROVE  hits'[x] <= CountCap /\ (x[2] > minute' => hits'[x] = 0) /\ (~Lapsed(x[2]) => hits[x] <= hits'[x])
      <4>1. hits[x] \in Nat /\ x[2] \in Nat /\ minute \in Nat /\ hits[x] <= CountCap /\ (x[2] > minute => hits[x] = 0)
        BY DEF RateTypeOK, BudgetsCover, Minutes
      <4> QED BY <3>1, <4>1
    <3> QED BY <2>2, <3>1, <3>2
  <2> QED BY <2>1, <2>3, <2>4, <2>5 DEF RateNext
<1>3. RateTypeOK /\ BudgetsCover => NoSourceTripsAlone
  <2> SUFFICES ASSUME RateTypeOK, BudgetsCover, NEW m \in Minutes, total[m] >= Fuse, ~Lapsed(m), NEW s \in Sources
               PROVE  \E t \in Sources \ {s} : Sent(t, m)
    BY DEF NoSourceTripsAlone
  <2>1. hits \in [Counters \X Minutes -> Nat] /\ total[m] \in Nat
    BY DEF RateTypeOK
  <2>2. IsFiniteSet(Within(hits, m)) /\ Cardinality(Within(hits, m)) \in Nat
    BY <2>1, WithinFinite
  <2>3. Cardinality(Within(hits, m)) > RegistrationBudget + SessionBudget
    BY <2>1, <2>2, RateAssumption DEF BudgetsCover
  <2>4. PICK y \in Within(hits, m) : y[1][2] # s
    BY <2>2, <2>3, OthersWithin
  <2>5. PICK route \in Routes, t \in Sources, n \in 1 .. Fuse : y = <<<<route, t>>, n>>
    <3>1. y \in (Routes \X Sources) \X (1 .. Fuse)
      BY <2>4 DEF Within
    <3>2. PICK a \in Routes \X Sources, n \in 1 .. Fuse : y = <<a, n>>
      BY <3>1
    <3>3. a = <<a[1], a[2]>> /\ a[1] \in Routes /\ a[2] \in Sources
      OBVIOUS
    <3> QED BY <3>2, <3>3
  <2>6. n <= hits[<<<<route, t>>, m>>] /\ t # s /\ n > 0
    BY <2>4, <2>5 DEF Within
  <2>7. <<<<route, t>>, m>> \in Counters \X Minutes
    BY DEF Counters
  <2>8. hits[<<<<route, t>>, m>>] > 0
    BY <2>1, <2>6, <2>7
  <2> QED BY <2>6, <2>8 DEF Sent
<1> QED BY <1>1, <1>2, <1>3, RateTypeCorrect, PTL DEF RateSpec

-----------------------------------------------------------------------------
(***************************************************************************)
(* Backups are whole, for every number of flows, every retention and every *)
(* number of attempts. The engine runs a save again while an attempt it    *)
(* gave up may go on, so that two tasks of a flow share its key; what      *)
(* holds them together is the time they have, which is shorter than the    *)
(* retention: a dump that has had a manifest still has it while somebody   *)
(* is at it, and a task that finds none may remove it.                     *)
(***************************************************************************)

\* What a task is at, what it does with a dump, and when its dump is there.
Waits == {"idle", "request", "open", "poll", "put", "manifest", "ask", "erase", "prune"}
Storing == {"poll", "put", "manifest", "ask", "erase"}
Holding == {"manifest", "ask", "erase"}
FlowSteps == {"off", "start", "save", "prune", "done", "failed"}

\* What a flow's own attempt may be at in each step.
Inside(step) ==
  CASE step = "start" -> {"request", "open"} [] step = "save" -> Storing
    [] step = "prune" -> {"prune"} [] OTHER -> {"idle"}

FlowTyped(f) ==
  /\ flows[f].step \in FlowSteps /\ flows[f].tries \in Nat
  /\ flows[f].at \in Nat /\ flows[f].at <= instant
  /\ flows[f].mark \in Bookmarks \cup {Absent}

TaskTyped(f) ==
  /\ tasks[f]["own"] \in Inside(flows[f].step)
  /\ tasks[f]["late"] \in Storing \cup {"idle"}
  /\ tasks[f]["late"] # "idle" => flows[f].step \in {"save", "prune", "done", "failed"}
  /\ flows[f].step \in {"save", "prune", "done"} \/ tasks[f]["late"] # "idle" => flows[f].mark \in Bookmarks

\* The part of type correctness that is about flows.
FlowsTyped ==
  /\ instant \in Nat /\ instant <= LastInstant
  /\ flows \in [Flows -> [step : FlowSteps, at : Nat, mark : Bookmarks \cup {Absent}, tries : Nat]]
  /\ tasks \in [Flows -> [Slots -> Waits]]
  /\ \A f \in Flows : FlowTyped(f) /\ TaskTyped(f)

BackupTyped ==
  /\ FlowsTyped
  /\ dumps \in [Keys -> [at : Nat, there : BOOLEAN]]
  /\ manifests \in [Keys -> Nat \cup {Absent}]
  /\ covered \subseteq Keys

\* A task is over within the retention of its key.
InTime ==
  \A f \in Flows, s \in Slots :
    tasks[f][s] \notin {"idle", "request", "prune"} => instant <= flows[f].at + Retention

\* A manifest is as young as its key, and goes when it is past its retention.
ManifestsKept ==
  \A k \in Keys :
    /\ manifests[k] # Absent => k \in covered /\ k[1] <= manifests[k]
    /\ k \in covered /\ manifests[k] = Absent => k[1] + Retention < instant

\* Whoever removes a dump that nobody else is at removes one without a manifest.
ErasesBare == \A f \in Flows, s \in Slots : tasks[f][s] = "erase" /\ Key(f) \in covered => Key(f) \in contended

\* Whoever writes a manifest that nobody else is at has its dump.
DumpBefore ==
  \A f \in Flows, s \in Slots :
    tasks[f][s] = "manifest" => \/ dumps[Key(f)].there \/ PastRetention(dumps[Key(f)].at)
                               \/ Key(f) \in contended

\* A dump that has had a manifest stays for its retention.
CoveredStay == \A k \in covered : dumps[k].there \/ PastRetention(dumps[k].at) \/ k \in contended

\* A dump without a manifest is in some task's hands, or was left unanswered.
BareHeld ==
  \A k \in Keys :
    dumps[k].there /\ k \notin covered /\ k \notin left
    => \E f \in Flows, s \in Slots : tasks[f][s] \in Holding /\ Key(f) = k

BucketKept ==
  /\ BackupTyped /\ InTime /\ ManifestsKept
  /\ ErasesBare /\ DumpBefore /\ CoveredStay /\ BareHeld
BackupKept == BucketKept /\ Contended \subseteq contended

\* One task goes on to one of W; no key changes.
Loose == {"idle", "request", "poll", "prune"}
Turn(f, s, W) ==
  /\ instant' = instant
  /\ \A g \in Flows : Key(g)' = Key(g) /\ flows'[g].at = flows[g].at
  /\ \A g \in Flows, t \in Slots : g # f \/ t # s => tasks'[g][t] = tasks[g][t]
  /\ tasks'[f][s] \in W
  /\ tasks[f][s] \notin {"idle", "request", "prune"} \/ tasks'[f][s] \in {"idle", "request", "prune"}

\* A task that stores, checks or erases is at the key of its flow.
LEMMA StoresItsKey ==
  ASSUME BackupTyped, NEW f \in Flows, NEW s \in Slots, tasks[f][s] \in Storing
  PROVE  Key(f) \in Keys /\ Key(f)[1] = flows[f].at /\ flows[f].step \in {"save", "prune", "done", "failed"}
<1>1. FlowTyped(f) /\ TaskTyped(f) /\ s \in {"own", "late"}
  BY DEF BackupTyped, FlowsTyped, Slots
<1>2. flows[f].step \in {"save", "prune", "done", "failed"}
  BY <1>1 DEF FlowTyped, TaskTyped, Storing, Inside, FlowSteps
<1>3. flows[f].mark \in Bookmarks
  BY <1>1, <1>2 DEF FlowTyped, TaskTyped, Storing, Inside
<1>4. flows[f].at \in Instants
  BY <1>1, BackupAssumption DEF BackupTyped, FlowsTyped, FlowTyped, Instants
<1> QED BY <1>2, <1>3, <1>4 DEF Keys, Key

\* One flow goes on; the others stay as they are.
LEMMA OneFlowMoves ==
  ASSUME BackupTyped, NEW f \in Flows, NEW x, NEW y,
         flows' = [flows EXCEPT ![f] = x], tasks' = [tasks EXCEPT ![f] = y], instant' = instant,
         x \in [step : FlowSteps, at : Nat, mark : Bookmarks \cup {Absent}, tries : Nat],
         y \in [Slots -> Waits], x.at <= instant,
         y["own"] \in Inside(x.step), y["late"] \in Storing \cup {"idle"},
         y["late"] # "idle" => x.step \in {"save", "prune", "done", "failed"},
         x.step \in {"save", "prune", "done"} \/ y["late"] # "idle" => x.mark \in Bookmarks
  PROVE  /\ instant' \in Nat /\ instant' <= LastInstant
         /\ flows' \in [Flows -> [step : FlowSteps, at : Nat, mark : Bookmarks \cup {Absent}, tries : Nat]]
         /\ tasks' \in [Flows -> [Slots -> Waits]]
         /\ \A g \in Flows : FlowTyped(g)' /\ TaskTyped(g)'
         /\ \A g \in Flows \ {f} : flows'[g] = flows[g] /\ tasks'[g] = tasks[g]
         /\ flows'[f] = x /\ tasks'[f] = y
<1>1. instant' \in Nat /\ instant' <= LastInstant
  BY DEF BackupTyped, FlowsTyped
<1>2. flows' \in [Flows -> [step : FlowSteps, at : Nat, mark : Bookmarks \cup {Absent}, tries : Nat]]
  BY DEF BackupTyped, FlowsTyped
<1>3. tasks' \in [Flows -> [Slots -> Waits]]
  BY DEF BackupTyped, FlowsTyped
<1>4. flows'[f] = x /\ tasks'[f] = y /\ \A g \in Flows \ {f} : flows'[g] = flows[g] /\ tasks'[g] = tasks[g]
  BY DEF BackupTyped, FlowsTyped
<1>5. FlowTyped(f)' /\ TaskTyped(f)'
  BY <1>4 DEF FlowTyped, TaskTyped
<1>6. \A g \in Flows \ {f} : FlowTyped(g)' /\ TaskTyped(g)'
  BY <1>4 DEF BackupTyped, FlowsTyped, FlowTyped, TaskTyped
<1> QED BY <1>1, <1>2, <1>3, <1>4, <1>5, <1>6

\* A task of a flow goes from one wait to the next.
LEMMA TaskMoves ==
  ASSUME BackupTyped, NEW f \in Flows, NEW s \in Slots, NEW w \in Storing \cup {"idle"},
         TaskGoes(f, s, w), instant' = instant,
         s = "own" => w \in Inside(flows[f].step), s = "late" => tasks[f][s] # "idle"
  PROVE  /\ instant' \in Nat /\ instant' <= LastInstant
         /\ flows' \in [Flows -> [step : FlowSteps, at : Nat, mark : Bookmarks \cup {Absent}, tries : Nat]]
         /\ tasks' \in [Flows -> [Slots -> Waits]]
         /\ \A g \in Flows : FlowTyped(g)' /\ TaskTyped(g)'
         /\ flows' = flows
         /\ \A g \in Flows, t \in Slots : tasks'[g][t] = IF g = f /\ t = s THEN w ELSE tasks[g][t]
<1> DEFINE y == [tasks[f] EXCEPT ![s] = w]
<1>1. tasks[f] \in [Slots -> Waits] /\ FlowTyped(f) /\ TaskTyped(f) /\ w \in Waits
  BY DEF BackupTyped, FlowsTyped, Storing, Waits
<1>2. y \in [Slots -> Waits] /\ \A t \in Slots : y[t] = IF t = s THEN w ELSE tasks[f][t]
  BY <1>1
<1>3. tasks' = [tasks EXCEPT ![f] = y] /\ flows' = flows
  BY DEF TaskGoes
<1>4. flows[f] \in [step : FlowSteps, at : Nat, mark : Bookmarks \cup {Absent}, tries : Nat]
      /\ flows' = [flows EXCEPT ![f] = flows[f]]
  BY <1>3 DEF BackupTyped, FlowsTyped
<1> HIDE DEF y
<1>5. y["own"] \in Inside(flows[f].step) /\ y["late"] \in Storing \cup {"idle"}
      /\ (y["late"] # "idle" => flows[f].step \in {"save", "prune", "done", "failed"})
      /\ (flows[f].step \in {"save", "prune", "done"} \/ y["late"] # "idle" => flows[f].mark \in Bookmarks)
  BY <1>1, <1>2 DEF Slots, FlowTyped, TaskTyped
<1>6. /\ instant' \in Nat /\ instant' <= LastInstant
      /\ flows' \in [Flows -> [step : FlowSteps, at : Nat, mark : Bookmarks \cup {Absent}, tries : Nat]]
      /\ tasks' \in [Flows -> [Slots -> Waits]]
      /\ \A g \in Flows : FlowTyped(g)' /\ TaskTyped(g)'
      /\ \A g \in Flows \ {f} : flows'[g] = flows[g] /\ tasks'[g] = tasks[g]
      /\ flows'[f] = flows[f] /\ tasks'[f] = y
  <2>1. flows[f].at <= instant
    BY <1>1 DEF FlowTyped
  <2> QED BY <1>2, <1>3, <1>4, <1>5, <2>1, OneFlowMoves
<1>7. \A g \in Flows, t \in Slots : tasks'[g][t] = IF g = f /\ t = s THEN w ELSE tasks[g][t]
  BY <1>2, <1>6
<1> QED BY <1>3, <1>6, <1>7

\* The engine goes on to a step, for a flow whose own attempt has come to an end.
LEMMA EnterMoves ==
  ASSUME BackupTyped, NEW f \in Flows, NEW step \in {"start", "save", "prune", "done", "failed"},
         NEW at \in Nat, NEW mark \in Bookmarks \cup {Absent}, Enter(f, step, at, mark), instant' = instant,
         at <= instant, step \in {"save", "prune", "done"} => mark \in Bookmarks,
         tasks[f]["late"] # "idle" => step # "start" /\ mark \in Bookmarks
  PROVE  /\ instant' \in Nat /\ instant' <= LastInstant
         /\ flows' \in [Flows -> [step : FlowSteps, at : Nat, mark : Bookmarks \cup {Absent}, tries : Nat]]
         /\ tasks' \in [Flows -> [Slots -> Waits]]
         /\ \A g \in Flows : FlowTyped(g)' /\ TaskTyped(g)'
         /\ flows'[f].step = step /\ flows'[f].at = at /\ flows'[f].mark = mark
         /\ \A g \in Flows \ {f} : flows'[g] = flows[g]
         /\ \A g \in Flows, t \in Slots : tasks'[g][t] = IF g = f /\ t = "own" THEN First(step) ELSE tasks[g][t]
<1> DEFINE x == [step |-> step, at |-> at, mark |-> mark, tries |-> 1]
           y == [tasks[f] EXCEPT !["own"] = First(step)]
<1>1. tasks[f] \in [Slots -> Waits] /\ FlowTyped(f) /\ TaskTyped(f)
  BY DEF BackupTyped, FlowsTyped
<1>2. First(step) \in Inside(step) /\ First(step) \in Waits /\ "own" \in Slots /\ "late" \in Slots
  BY DEF First, Inside, Waits, Storing, Slots
<1>3. x \in [step : FlowSteps, at : Nat, mark : Bookmarks \cup {Absent}, tries : Nat]
      /\ x.step = step /\ x.at = at /\ x.mark = mark
  BY DEF FlowSteps
<1>4. y \in [Slots -> Waits] /\ \A t \in Slots : y[t] = IF t = "own" THEN First(step) ELSE tasks[f][t]
  BY <1>1, <1>2
<1>5. flows' = [flows EXCEPT ![f] = x] /\ tasks' = [tasks EXCEPT ![f] = y]
  BY DEF Enter
<1> HIDE DEF x, y
<1>6. y["own"] \in Inside(x.step) /\ y["late"] \in Storing \cup {"idle"}
      /\ (y["late"] # "idle" => x.step \in {"save", "prune", "done", "failed"})
      /\ (x.step \in {"save", "prune", "done"} \/ y["late"] # "idle" => x.mark \in Bookmarks)
  BY <1>1, <1>2, <1>3, <1>4 DEF TaskTyped
<1>7. /\ instant' \in Nat /\ instant' <= LastInstant
      /\ flows' \in [Flows -> [step : FlowSteps, at : Nat, mark : Bookmarks \cup {Absent}, tries : Nat]]
      /\ tasks' \in [Flows -> [Slots -> Waits]]
      /\ \A g \in Flows : FlowTyped(g)' /\ TaskTyped(g)'
      /\ \A g \in Flows \ {f} : flows'[g] = flows[g] /\ tasks'[g] = tasks[g]
      /\ flows'[f] = x /\ tasks'[f] = y
  BY <1>3, <1>4, <1>5, <1>6, OneFlowMoves
<1>8. \A g \in Flows, t \in Slots : tasks'[g][t] = IF g = f /\ t = "own" THEN First(step) ELSE tasks[g][t]
  BY <1>4, <1>7
<1> QED BY <1>3, <1>7, <1>8

\* An attempt that fails is made again from its start, or its flow has failed.
LEMMA ThrowMoves ==
  ASSUME BackupTyped, NEW f \in Flows, NEW s \in Slots, Throw(f, s), instant' = instant,
         tasks[f][s] # "idle"
  PROVE  /\ instant' \in Nat /\ instant' <= LastInstant
         /\ flows' \in [Flows -> [step : FlowSteps, at : Nat, mark : Bookmarks \cup {Absent}, tries : Nat]]
         /\ tasks' \in [Flows -> [Slots -> Waits]]
         /\ \A g \in Flows : FlowTyped(g)' /\ TaskTyped(g)'
         /\ \A g \in Flows : Key(g)' = Key(g) /\ flows'[g].at = flows[g].at
         /\ \A g \in Flows, t \in Slots : g # f \/ t # s => tasks'[g][t] = tasks[g][t]
         /\ tasks'[f][s] \in {"idle", "request", "poll", "prune"}
         /\ tasks'[f][s] = "poll" => tasks[f][s] \in Storing
<1>1. CASE s = "late"
  <2>1. TaskGoes(f, s, "idle")
    BY <1>1 DEF Throw
  <2> QED BY <1>1, <2>1, TaskMoves DEF Key, Storing
<1>2. CASE s = "own"
  <2> DEFINE again == flows[f].tries < MaxTries
             step == IF again THEN flows[f].step ELSE "failed"
             x == [flows[f] EXCEPT !.step = step, !.tries = IF again THEN @ + 1 ELSE @]
             y == [tasks[f] EXCEPT !["own"] = First(step)]
  <2>1. tasks[f] \in [Slots -> Waits] /\ FlowTyped(f) /\ TaskTyped(f)
        /\ flows[f] \in [step : FlowSteps, at : Nat, mark : Bookmarks \cup {Absent}, tries : Nat]
    BY DEF BackupTyped, FlowsTyped
  <2>2. flows' = [flows EXCEPT ![f] = x] /\ tasks' = [tasks EXCEPT ![f] = y]
    BY <1>2, <2>1 DEF Throw, BackupTyped, FlowsTyped
  <2>3. x \in [step : FlowSteps, at : Nat, mark : Bookmarks \cup {Absent}, tries : Nat]
        /\ x.step = step /\ x.at = flows[f].at /\ x.mark = flows[f].mark
    <3> DEFINE tries == IF again THEN flows[f].tries + 1 ELSE flows[f].tries
    <3>1. step \in FlowSteps /\ tries \in Nat
      BY <2>1 DEF FlowSteps
    <3>2. x = [flows[f] EXCEPT !.step = step, !.tries = tries]
      OBVIOUS
    <3> HIDE DEF step, tries, x
    <3> QED BY <2>1, <3>1, <3>2
  <2>4. step \in {flows[f].step, "failed"} /\ flows[f].step \in {"start", "save", "prune"}
    BY <1>2, <2>1 DEF FlowTyped, TaskTyped, Inside, FlowSteps
  <2> HIDE DEF step
  <2>5. First(step) \in Inside(step) /\ First(step) \in {"idle", "request", "poll", "prune"} /\ "own" \in Slots /\ "late" \in Slots
    BY <2>4 DEF First, Inside, Storing, Slots
  <2>6. First(step) = "poll" => tasks[f]["own"] \in Storing
    BY <2>1, <2>4 DEF First, Inside, TaskTyped
  <2>7. y \in [Slots -> Waits] /\ \A t \in Slots : y[t] = IF t = "own" THEN First(step) ELSE tasks[f][t]
    BY <2>1, <2>5 DEF Waits
  <2> HIDE DEF x, y
  <2>8. y["own"] \in Inside(x.step) /\ y["late"] \in Storing \cup {"idle"}
        /\ (y["late"] # "idle" => x.step \in {"save", "prune", "done", "failed"})
        /\ (x.step \in {"save", "prune", "done"} \/ y["late"] # "idle" => x.mark \in Bookmarks)
    BY <2>1, <2>3, <2>4, <2>5, <2>7 DEF TaskTyped
  <2>9. x.at <= instant
    BY <2>1, <2>3 DEF FlowTyped
  <2>10. /\ instant' \in Nat /\ instant' <= LastInstant
         /\ flows' \in [Flows -> [step : FlowSteps, at : Nat, mark : Bookmarks \cup {Absent}, tries : Nat]]
         /\ tasks' \in [Flows -> [Slots -> Waits]]
         /\ \A g \in Flows : FlowTyped(g)' /\ TaskTyped(g)'
         /\ \A g \in Flows \ {f} : flows'[g] = flows[g] /\ tasks'[g] = tasks[g]
         /\ flows'[f] = x /\ tasks'[f] = y
    BY <2>2, <2>3, <2>7, <2>8, <2>9, OneFlowMoves
  <2>11. \A g \in Flows : Key(g)' = Key(g) /\ flows'[g].at = flows[g].at
    BY <2>3, <2>10 DEF Key
  <2> QED BY <1>2, <2>5, <2>6, <2>7, <2>10, <2>11
<1> QED BY <1>1, <1>2 DEF Slots

\* A failure turns a task to a loose end.
LEMMA ThrowTurns ==
  ASSUME BackupTyped, NEW f \in Flows, NEW s \in Slots, Throw(f, s), instant' = instant,
         tasks[f][s] # "idle"
  PROVE  Turn(f, s, Loose) /\ FlowsTyped'
<1>1. tasks'[f][s] \in Loose
  BY ThrowMoves DEF Loose
<1>2. tasks[f][s] \notin {"idle", "request", "prune"} \/ tasks'[f][s] \in {"idle", "request", "prune"}
  BY ThrowMoves DEF Storing
<1>3. FlowsTyped'
  BY ThrowMoves DEF FlowsTyped
<1> QED BY <1>1, <1>2, <1>3, ThrowMoves DEF Turn

\* A task that goes on turns to what it goes on to.
LEMMA GoesTurns ==
  ASSUME BackupTyped, NEW f \in Flows, NEW s \in Slots, NEW w \in Storing \cup {"idle"},
         tasks[f][s] \in Storing, TaskGoes(f, s, w), instant' = instant, s = "own" => w # "idle"
  PROVE  Turn(f, s, {w}) /\ FlowsTyped'
<1>1. s = "own" => w \in Inside(flows[f].step)
  <2>1. TaskTyped(f) /\ FlowTyped(f)
    BY DEF BackupTyped, FlowsTyped
  <2>2. s = "own" => flows[f].step = "save"
    BY <2>1 DEF TaskTyped, FlowTyped, Inside, Storing, FlowSteps
  <2> QED BY <2>2 DEF Inside
<1>2. tasks[f][s] # "idle" /\ tasks[f][s] \notin {"idle", "request", "prune"}
  BY DEF Storing
<1>3. FlowsTyped' /\ flows' = flows
  BY <1>1, <1>2, TaskMoves DEF FlowsTyped
<1>4. \A g \in Flows, t \in Slots : tasks'[g][t] = IF g = f /\ t = s THEN w ELSE tasks[g][t]
  BY <1>1, <1>2, TaskMoves
<1> QED BY <1>2, <1>3, <1>4 DEF Turn, Key

\* A flow that goes on to its next step has turned its own task.
LEMMA EnterTurns ==
  ASSUME BackupTyped, NEW f \in Flows, NEW step \in {"prune", "done", "failed"},
         Enter(f, step, flows[f].at, flows[f].mark), instant' = instant,
         tasks[f]["own"] \in Storing \cup {"prune"}
  PROVE  Turn(f, "own", {First(step)}) /\ FlowsTyped'
<1>1. TaskTyped(f) /\ FlowTyped(f) /\ "own" \in Slots
  BY DEF BackupTyped, FlowsTyped, Slots
<1>2. flows[f].step \in {"save", "prune"}
  BY <1>1 DEF TaskTyped, FlowTyped, Inside, Storing, FlowSteps
<1>3. flows[f].mark \in Bookmarks /\ flows[f].at \in Nat /\ flows[f].at <= instant
  BY <1>1, <1>2 DEF TaskTyped, FlowTyped
<1>4. FlowsTyped'
  BY <1>3, EnterMoves DEF FlowsTyped
<1>5. flows'[f].at = flows[f].at /\ flows'[f].mark = flows[f].mark /\ \A g \in Flows \ {f} : flows'[g] = flows[g]
  BY <1>3, EnterMoves
<1>6. \A g \in Flows, t \in Slots : tasks'[g][t] = IF g = f /\ t = "own" THEN First(step) ELSE tasks[g][t]
  BY <1>3, EnterMoves
<1>7. First(step) \in {"idle", "request", "prune"}
  BY DEF First
<1> QED BY <1>1, <1>4, <1>5, <1>6, <1>7 DEF Turn, Key

\* A task that goes to one of some steps goes to one of more.
LEMMA TurnWidens ==
  ASSUME NEW f \in Flows, NEW s \in Slots, NEW V, NEW W, Turn(f, s, V), V \subseteq W
  PROVE  Turn(f, s, W)
BY DEF Turn

\* Time is kept by a turn.
LEMMA TurnInTime ==
  ASSUME InTime, NEW f \in Flows, NEW s \in Slots, NEW W, Turn(f, s, W)
  PROVE  InTime'
BY DEF InTime, Turn

\* What a turn leaves in hand.
LEMMA TurnHolds ==
  ASSUME NEW f \in Flows, NEW s \in Slots, NEW W, Turn(f, s, W)
  PROVE  /\ \A g \in Flows : Key(g)' = Key(g)
         /\ \A k \in Keys : PastRetention(dumps[k].at)' = (instant - dumps'[k].at > Retention)
         /\ W \cap Holding = {} => tasks'[f][s] \notin Holding
         /\ \A g \in Flows, t \in Slots : tasks'[g][t] \in Holding /\ tasks'[f][s] \notin Holding => tasks[g][t] = tasks'[g][t]
BY DEF Turn, PastRetention

\* The bucket as it is, and a task that was not at a dump stays away from it, or
\* goes from one wait at it to another by what it knows.
LEMMA BucketStays ==
  ASSUME BucketKept, NEW f \in Flows, NEW s \in Slots, NEW W, Turn(f, s, W), FlowsTyped',
         W \cap Holding = {}, tasks[f][s] \notin Holding, UNCHANGED bucket, contended \subseteq contended'
  PROVE  BucketKept'
<1>1. BackupTyped' /\ InTime'
  BY TurnInTime DEF BucketKept, BackupTyped, bucket, Keys, Instants
<1>2. tasks'[f][s] \notin Holding /\ \A g \in Flows : Key(g)' = Key(g)
  BY DEF Turn
<1>3. \A g \in Flows, t \in Slots : tasks'[g][t] \in Holding => tasks[g][t] = tasks'[g][t]
  BY <1>2 DEF Turn
<1>4. \A g \in Flows, t \in Slots : tasks[g][t] \in Holding => tasks[g][t] = tasks'[g][t]
  BY <1>2 DEF Turn
<1>5. instant' = instant /\ dumps' = dumps /\ manifests' = manifests /\ covered' = covered /\ left' = left
  BY DEF Turn, bucket
<1>6. ManifestsKept'
  BY <1>5 DEF BucketKept, ManifestsKept, Keys, Instants
<1>7. ErasesBare'
  BY <1>2, <1>3, <1>5 DEF BucketKept, ErasesBare, Holding
<1>8. DumpBefore'
  BY <1>2, <1>3, <1>5 DEF BucketKept, DumpBefore, Holding, PastRetention
<1>9. CoveredStay'
  BY <1>5 DEF BucketKept, CoveredStay, PastRetention
<1>10. BareHeld'
  <2> SUFFICES ASSUME NEW k \in Keys, dumps[k].there, k \notin covered, k \notin left
               PROVE  \E g \in Flows, t \in Slots : tasks'[g][t] \in Holding /\ Key(g)' = k
    BY <1>5 DEF BareHeld, Keys, Instants
  <2>1. PICK g \in Flows, t \in Slots : tasks[g][t] \in Holding /\ Key(g) = k
    BY DEF BucketKept, BareHeld
  <2> QED BY <1>2, <1>4, <2>1
<1> QED BY <1>1, <1>6, <1>7, <1>8, <1>9, <1>10 DEF BucketKept

\* Poll: nothing is in the bucket yet.
LEMMA PollKeeps ==
  ASSUME BucketKept, NEW f \in Flows, NEW s \in Slots, Poll(f, s), instant' = instant, contended \subseteq contended'
  PROVE  BucketKept'
<1>1. BackupTyped /\ tasks[f][s] = "poll" /\ UNCHANGED bucket /\ tasks[f][s] \notin Holding
  BY DEF BucketKept, Poll, TaskAt, Holding
<1>2. CASE TaskGoes(f, s, "put")
  <2>1. Turn(f, s, {"put"}) /\ FlowsTyped'
    BY <1>1, <1>2, GoesTurns DEF Storing
  <2> QED BY <1>1, <2>1, BucketStays DEF Holding
<1>3. CASE Throw(f, s)
  <2>1. Turn(f, s, Loose) /\ FlowsTyped'
    BY <1>1, <1>3, ThrowTurns
  <2> QED BY <1>1, <2>1, BucketStays DEF Holding, Loose
<1>4. CASE s = "own" /\ Enter(f, "failed", flows[f].at, flows[f].mark)
  <2>1. Turn(f, s, {First("failed")}) /\ FlowsTyped'
    BY <1>1, <1>4, EnterTurns DEF Storing
  <2>2. First("failed") = "idle"
    BY DEF First
  <2> QED BY <1>1, <2>1, <2>2, BucketStays DEF Holding
<1> QED BY <1>2, <1>3, <1>4 DEF Poll

\* What a task may be at after its dump was uploaded, if it was.
LEMMA PutDumpKeeps ==
  ASSUME BucketKept, NEW f \in Flows, NEW s \in Slots, PutDump(f, s), instant' = instant, contended \subseteq contended'
  PROVE  BucketKept'
<1>1. BackupTyped /\ tasks[f][s] = "put" /\ manifests' = manifests /\ covered' = covered /\ tasks[f][s] \notin Holding
      /\ tasks[f][s] \in Storing /\ tasks[f][s] # "idle"
  BY DEF BucketKept, PutDump, TaskAt, Holding, Storing
<1>2. CASE Throw(f, s) /\ UNCHANGED <<dumps, left>>
  <2>1. Turn(f, s, Loose) /\ FlowsTyped'
    BY <1>1, <1>2, ThrowTurns
  <2> QED BY <1>1, <1>2, <2>1, BucketStays DEF Holding, Loose, bucket
<1>3. CASE \/ Throw(f, s) /\ Uploaded(Key(f)) /\ left' = left \cup {Key(f)}
           \/ (\E pc \in Checked : TaskGoes(f, s, pc)) /\ Uploaded(Key(f)) /\ UNCHANGED left
  <2> DEFINE k == Key(f)
  <2>1. k \in Keys
    BY <1>1, StoresItsKey
  <2>2. Turn(f, s, Loose \cup Checked) /\ FlowsTyped' /\ (tasks'[f][s] \in Checked \/ k \in left') /\ left \subseteq left'
    <3>1. CASE Throw(f, s) /\ left' = left \cup {Key(f)}
      BY <1>1, <3>1, ThrowTurns DEF Turn
    <3>2. CASE (\E pc \in Checked : TaskGoes(f, s, pc)) /\ UNCHANGED left
      <4>1. PICK pc \in Checked : TaskGoes(f, s, pc)
        BY <3>2
      <4>2. pc \in Storing \cup {"idle"} /\ pc # "idle"
        BY DEF Checked, Storing
      <4>3. Turn(f, s, {pc}) /\ FlowsTyped'
        BY <1>1, <4>1, <4>2, GoesTurns
      <4> QED BY <3>2, <4>3 DEF Turn
    <3> QED BY <1>3, <3>1, <3>2
  <2>3. dumps' = [dumps EXCEPT ![k] = [at |-> instant, there |-> TRUE]]
    BY <1>3 DEF Uploaded
  <2> HIDE DEF k
  <2>4. dumps'[k].at = instant /\ dumps'[k].there /\ \A x \in Keys : x # k => dumps'[x] = dumps[x]
    BY <2>1, <2>3 DEF BucketKept, BackupTyped
  <2>5. instant' = instant /\ (\A g \in Flows : Key(g)' = Key(g)) /\ Keys' = Keys
        /\ (\A g \in Flows, t \in Slots : g # f \/ t # s => tasks'[g][t] = tasks[g][t])
        /\ tasks'[f][s] \in Loose \cup Checked
    BY <2>2 DEF Turn, Keys, Instants
  <2>6. BackupTyped'
    <3>1. instant \in Nat
      BY <1>1 DEF BackupTyped, FlowsTyped
    <3>2. dumps' \in [Keys -> [at : Nat, there : BOOLEAN]]
      BY <1>1, <2>3, <3>1 DEF BackupTyped
    <3> QED BY <1>1, <2>2, <2>5, <3>2 DEF BackupTyped
  <2>7. InTime' /\ ManifestsKept'
    BY <1>1, <2>2, <2>5, TurnInTime DEF BucketKept, ManifestsKept
  <2>8. ErasesBare'
    BY <1>1, <2>5 DEF BucketKept, ErasesBare, Loose, Checked
  <2>9. DumpBefore'
    <3> SUFFICES ASSUME NEW g \in Flows, NEW t \in Slots, tasks'[g][t] = "manifest"
                 PROVE  dumps'[Key(g)].there \/ PastRetention(dumps[Key(g)].at)' \/ Key(g) \in contended'
      BY <2>5 DEF DumpBefore
    <3>1. CASE Key(g) = k
      BY <2>4, <3>1
    <3>2. CASE Key(g) # k
      <4>1. tasks[g][t] = "manifest"
        BY <2>5, <3>2 DEF k
      <4>2. Key(g) \in Keys
        BY <1>1, <4>1, StoresItsKey DEF Storing
      <4>3. dumps'[Key(g)] = dumps[Key(g)]
        BY <2>4, <3>2, <4>2
      <4>4. dumps[Key(g)].there \/ PastRetention(dumps[Key(g)].at) \/ Key(g) \in contended
        BY <4>1 DEF BucketKept, DumpBefore
      <4> QED BY <2>5, <4>3, <4>4 DEF PastRetention
    <3> QED BY <3>1, <3>2
  <2>10. CoveredStay'
    <3> SUFFICES ASSUME NEW x \in covered
                 PROVE  dumps'[x].there \/ PastRetention(dumps[x].at)' \/ x \in contended'
      BY <1>1 DEF CoveredStay
    <3>1. x \in Keys /\ (dumps[x].there \/ PastRetention(dumps[x].at) \/ x \in contended)
      BY DEF BucketKept, CoveredStay, BackupTyped
    <3> QED BY <2>4, <2>5, <3>1 DEF PastRetention
  <2>11. BareHeld'
    <3> SUFFICES ASSUME NEW x \in Keys, dumps'[x].there, x \notin covered, x \notin left'
                 PROVE  \E g \in Flows, t \in Slots : tasks'[g][t] \in Holding /\ Key(g) = x
      BY <1>1, <2>5 DEF BareHeld
    <3>1. CASE x = k
      BY <2>2, <3>1 DEF k, Checked, Holding
    <3>2. CASE x # k
      <4>1. dumps[x].there /\ x \notin left
        BY <2>2, <2>4, <3>2
      <4>2. PICK g \in Flows, t \in Slots : tasks[g][t] \in Holding /\ Key(g) = x
        BY <4>1 DEF BucketKept, BareHeld
      <4> QED BY <2>5, <3>2, <4>2 DEF k
    <3> QED BY <3>1, <3>2
  <2> QED BY <2>6, <2>7, <2>8, <2>9, <2>10, <2>11 DEF BucketKept
<1> QED BY <1>2, <1>3 DEF PutDump

\* A manifest comes into the bucket while its task has time.
LEMMA PutManifestKeeps ==
  ASSUME BucketKept, Contended \subseteq contended, NEW f \in Flows, NEW s \in Slots, PutManifest(f, s),
         instant' = instant, contended \subseteq contended'
  PROVE  BucketKept'
<1> DEFINE k == Key(f)
           W == {"prune", "idle", "ask"}
<1>1. BackupTyped /\ tasks[f][s] = "manifest" /\ dumps' = dumps /\ left' = left
      /\ tasks[f][s] \in Storing /\ tasks[f][s] # "idle"
  BY DEF BucketKept, PutManifest, TaskAt, Storing
<1>2. k \in Keys /\ k[1] = flows[f].at
  BY <1>1, StoresItsKey
<1>3. Turn(f, s, W) /\ FlowsTyped'
      /\ (Covers(k) \/ (UNCHANGED <<manifests, covered>> /\ tasks'[f][s] = "ask"))
  <2>1. CASE Covers(k) /\ IF s = "own" THEN Enter(f, "prune", flows[f].at, flows[f].mark) ELSE TaskGoes(f, s, "idle")
    <3>1. CASE s = "own"
      <4>1. Enter(f, "prune", flows[f].at, flows[f].mark) /\ tasks[f]["own"] \in Storing \cup {"prune"}
        BY <1>1, <2>1, <3>1
      <4>2. Turn(f, s, {First("prune")}) /\ FlowsTyped'
        BY <1>1, <3>1, <4>1, EnterTurns
      <4>3. First("prune") = "prune"
        BY DEF First
      <4> QED BY <2>1, <4>2, <4>3, TurnWidens
    <3>2. CASE s # "own"
      <4>1. TaskGoes(f, s, "idle")
        BY <2>1, <3>2
      <4>2. Turn(f, s, {"idle"}) /\ FlowsTyped'
        BY <1>1, <3>2, <4>1, GoesTurns
      <4> QED BY <2>1, <4>2, TurnWidens
    <3> QED BY <3>1, <3>2
  <2>2. CASE (Covers(k) \/ UNCHANGED <<manifests, covered>>) /\ TaskGoes(f, s, "ask")
    <3>1. Turn(f, s, {"ask"}) /\ FlowsTyped'
      BY <1>1, <2>2, GoesTurns DEF Storing
    <3> QED BY <2>2, <3>1 DEF Turn
  <2> QED BY <2>1, <2>2 DEF PutManifest
<1>4. instant' = instant /\ (\A g \in Flows : Key(g)' = Key(g)) /\ Keys' = Keys
      /\ (\A g \in Flows, t \in Slots : g # f \/ t # s => tasks'[g][t] = tasks[g][t])
      /\ tasks'[f][s] \in W
  BY <1>3 DEF Turn, Keys, Instants
<1>5. instant \in Nat /\ k[1] <= instant
  <2>1. FlowTyped(f)
    BY <1>1 DEF BackupTyped, FlowsTyped
  <2> QED BY <1>1, <1>2, <2>1 DEF BackupTyped, FlowsTyped, FlowTyped
<1> HIDE DEF k
<1>6. \/ manifests' = manifests /\ covered' = covered /\ tasks'[f][s] = "ask"
      \/ manifests' = [manifests EXCEPT ![k] = instant] /\ covered' = covered \cup {k}
  BY <1>3 DEF Covers
<1>7. BackupTyped'
  <2>1. manifests' \in [Keys -> Nat \cup {Absent}] /\ covered' \subseteq Keys
    BY <1>1, <1>2, <1>5, <1>6 DEF BackupTyped
  <2> QED BY <1>1, <1>3, <1>4, <2>1 DEF BackupTyped
<1>8. InTime'
  BY <1>3, TurnInTime DEF BucketKept
<1>9. ManifestsKept'
  <2> SUFFICES ASSUME NEW x \in Keys
               PROVE  /\ manifests'[x] # Absent => x \in covered' /\ x[1] <= manifests'[x]
                      /\ x \in covered' /\ manifests'[x] = Absent => x[1] + Retention < instant
    BY <1>4 DEF ManifestsKept
  <2>1. /\ manifests[x] # Absent => x \in covered /\ x[1] <= manifests[x]
        /\ x \in covered /\ manifests[x] = Absent => x[1] + Retention < instant
    BY DEF BucketKept, ManifestsKept
  <2>2. CASE manifests' = manifests /\ covered' = covered
    BY <2>1, <2>2
  <2>3. CASE manifests' = [manifests EXCEPT ![k] = instant] /\ covered' = covered \cup {k}
    <3>1. manifests'[x] = IF x = k THEN instant ELSE manifests[x]
      BY <1>1, <1>2, <2>3 DEF BackupTyped
    <3>2. instant # Absent
      BY <1>5, BackupAssumption
    <3> QED BY <1>5, <2>1, <2>3, <3>1, <3>2
  <2> QED BY <1>6, <2>2, <2>3
\* Who is about to remove the dump while this task writes its manifest is two at it.
<1>10. ErasesBare'
  <2> SUFFICES ASSUME NEW g \in Flows, NEW t \in Slots, tasks'[g][t] = "erase", Key(g) \in covered'
               PROVE  Key(g) \in contended'
    BY <1>4 DEF ErasesBare
  <2>1. tasks[g][t] = "erase" /\ <<g, t>> # <<f, s>>
    BY <1>4
  <2>2. CASE Key(g) \in covered
    BY <2>1, <2>2 DEF BucketKept, ErasesBare
  <2>3. CASE Key(g) = k
    <3>1. <<g, t>> \in Saving(k) /\ <<f, s>> \in Saving(k)
      BY <1>1, <2>1, <2>3 DEF Saving, k
    <3>2. k \in Contended
      <4>1. TaskAt(<<g, t>>[1], <<g, t>>[2], "erase")
        BY <2>1 DEF TaskAt
      <4> QED BY <1>2, <2>1, <3>1, <4>1 DEF Contended
    <3> QED BY <2>3, <3>2
  <2> QED BY <1>6, <2>2, <2>3
<1>11. DumpBefore'
  <2>1. \A g \in Flows, t \in Slots : tasks'[g][t] = "manifest" => tasks[g][t] = "manifest"
    BY <1>4
  <2> QED BY <1>1, <1>4, <2>1 DEF BucketKept, DumpBefore, PastRetention
<1>12. CoveredStay'
  <2>1. dumps[k].there \/ PastRetention(dumps[k].at) \/ k \in contended
    BY <1>1 DEF BucketKept, DumpBefore, k
  <2>2. covered' \subseteq covered \cup {k}
    BY <1>6
  <2> QED BY <1>1, <1>4, <2>1, <2>2 DEF BucketKept, CoveredStay, PastRetention
<1>13. BareHeld'
  <2> SUFFICES ASSUME NEW x \in Keys, dumps[x].there, x \notin covered', x \notin left
               PROVE  \E g \in Flows, t \in Slots : tasks'[g][t] \in Holding /\ Key(g) = x
    BY <1>1, <1>4 DEF BareHeld
  <2>1. x \notin covered
    BY <1>6
  <2>2. PICK g \in Flows, t \in Slots : tasks[g][t] \in Holding /\ Key(g) = x
    BY <2>1 DEF BucketKept, BareHeld
  <2>3. CASE x = k
    <3>1. tasks'[f][s] = "ask"
      BY <1>6, <2>3
    <3> QED BY <2>3, <3>1 DEF k, Holding
  <2>4. CASE x # k
    BY <1>4, <2>2, <2>4 DEF k
  <2> QED BY <2>3, <2>4
<1> QED BY <1>7, <1>8, <1>9, <1>10, <1>11, <1>12, <1>13 DEF BucketKept

\* A task that asks finds the manifest as long as it has time.
LEMMA AskKeeps ==
  ASSUME BucketKept, NEW f \in Flows, NEW s \in Slots, Ask(f, s), instant' = instant, contended \subseteq contended'
  PROVE  BucketKept'
<1> DEFINE k == Key(f)
<1>1. BackupTyped /\ tasks[f][s] = "ask" /\ dumps' = dumps /\ manifests' = manifests /\ covered' = covered
      /\ tasks[f][s] \in Storing /\ tasks[f][s] # "idle"
  BY DEF BucketKept, Ask, TaskAt, Storing
<1>2. k \in Keys /\ k[1] = flows[f].at
  BY <1>1, StoresItsKey
<1>3. /\ Turn(f, s, Loose \cup {"erase"}) /\ FlowsTyped' /\ left \subseteq left'
      /\ \/ k \in covered \/ k \in left'
         \/ tasks'[f][s] = "erase"
      /\ tasks'[f][s] = "erase" => manifests[k] = Absent
  <2>1. CASE manifests[k] # Absent /\ Throw(f, s) /\ UNCHANGED left
    <3>1. k \in covered
      BY <1>2, <2>1 DEF BucketKept, ManifestsKept
    <3>2. Turn(f, s, Loose) /\ FlowsTyped'
      BY <1>1, <2>1, ThrowTurns
    <3>3. tasks'[f][s] # "erase"
      BY <3>2 DEF Turn, Loose
    <3> QED BY <2>1, <3>1, <3>2, <3>3, TurnWidens
  <2>2. CASE manifests[k] = Absent /\ TaskGoes(f, s, "erase") /\ UNCHANGED left
    <3>1. Turn(f, s, {"erase"}) /\ FlowsTyped'
      BY <1>1, <2>2, GoesTurns DEF Storing
    <3>2. tasks'[f][s] = "erase"
      BY <3>1 DEF Turn
    <3> QED BY <2>2, <3>1, <3>2, TurnWidens
  <2>3. CASE Throw(f, s) /\ left' = left \cup {k}
    <3>1. Turn(f, s, Loose) /\ FlowsTyped'
      BY <1>1, <2>3, ThrowTurns
    <3>2. tasks'[f][s] # "erase"
      BY <3>1 DEF Turn, Loose
    <3> QED BY <2>3, <3>1, <3>2, TurnWidens
  <2> QED BY <2>1, <2>2, <2>3 DEF Ask
<1>4. instant' = instant /\ (\A g \in Flows : Key(g)' = Key(g)) /\ Keys' = Keys
      /\ (\A g \in Flows, t \in Slots : g # f \/ t # s => tasks'[g][t] = tasks[g][t])
      /\ tasks'[f][s] \in Loose \cup {"erase"}
  BY <1>3 DEF Turn, Keys, Instants
\* Its key is no older than the retention, so that a missing manifest never was.
<1>5. tasks'[f][s] = "erase" => k \notin covered
  <2>1. instant <= k[1] + Retention
    BY <1>1, <1>2 DEF BucketKept, InTime
  <2>2. instant \in Nat /\ k[1] \in Nat
    BY <1>1, <1>2 DEF BackupTyped, FlowsTyped, Keys, Instants
  <2>3. k \in covered /\ manifests[k] = Absent => k[1] + Retention < instant
    BY <1>2 DEF BucketKept, ManifestsKept
  <2> QED BY <1>3, <2>1, <2>2, <2>3, BackupAssumption
<1> HIDE DEF k
<1>6. BackupTyped' /\ InTime'
  BY <1>1, <1>3, <1>4, TurnInTime DEF BucketKept, BackupTyped
<1>7. ManifestsKept'
  BY <1>1, <1>4 DEF BucketKept, ManifestsKept
<1>8. ErasesBare'
  BY <1>1, <1>4, <1>5 DEF BucketKept, ErasesBare, k
<1>9. DumpBefore'
  <2>1. \A g \in Flows, t \in Slots : tasks'[g][t] = "manifest" => tasks[g][t] = "manifest"
    BY <1>4 DEF Loose
  <2> QED BY <1>1, <1>4, <2>1 DEF BucketKept, DumpBefore, PastRetention
<1>10. CoveredStay'
  BY <1>1, <1>4 DEF BucketKept, CoveredStay, PastRetention
<1>11. BareHeld'
  <2> SUFFICES ASSUME NEW x \in Keys, dumps[x].there, x \notin covered, x \notin left'
               PROVE  \E g \in Flows, t \in Slots : tasks'[g][t] \in Holding /\ Key(g) = x
    BY <1>1, <1>4 DEF BareHeld
  <2>1. PICK g \in Flows, t \in Slots : tasks[g][t] \in Holding /\ Key(g) = x
    BY <1>3 DEF BucketKept, BareHeld
  <2>2. CASE x = k
    <3>1. tasks'[f][s] = "erase"
      BY <1>3, <2>2
    <3> QED BY <2>2, <3>1 DEF k, Holding
  <2>3. CASE x # k
    BY <1>4, <2>1, <2>3 DEF k
  <2> QED BY <2>2, <2>3
<1> QED BY <1>6, <1>7, <1>8, <1>9, <1>10, <1>11 DEF BucketKept

\* A dump is removed by a task that found no manifest.
LEMMA EraseKeeps ==
  ASSUME BucketKept, Contended \subseteq contended, NEW f \in Flows, NEW s \in Slots, Erase(f, s),
         instant' = instant, contended \subseteq contended'
  PROVE  BucketKept'
<1> DEFINE k == Key(f)
<1>1. BackupTyped /\ tasks[f][s] = "erase" /\ manifests' = manifests /\ covered' = covered
      /\ tasks[f][s] \in Storing /\ tasks[f][s] # "idle" /\ Throw(f, s)
  BY DEF BucketKept, Erase, TaskAt, Storing
<1>2. k \in Keys
  BY <1>1, StoresItsKey
<1>3. Turn(f, s, Loose) /\ FlowsTyped'
  BY <1>1, ThrowTurns
<1>4. instant' = instant /\ (\A g \in Flows : Key(g)' = Key(g)) /\ Keys' = Keys
      /\ (\A g \in Flows, t \in Slots : g # f \/ t # s => tasks'[g][t] = tasks[g][t])
      /\ tasks'[f][s] \in Loose
  BY <1>3 DEF Turn, Keys, Instants
<1>5. k \in covered => k \in contended
  BY <1>1 DEF BucketKept, ErasesBare
<1>6. /\ left \subseteq left' /\ dumps' \in [Keys -> [at : Nat, there : BOOLEAN]]
      /\ \A x \in Keys : dumps'[x].at = dumps[x].at /\ (x # k => dumps'[x] = dumps[x])
      /\ ~dumps'[k].there \/ k \in left'
      /\ dumps'[k].there => dumps[k].there
  <2>1. dumps \in [Keys -> [at : Nat, there : BOOLEAN]]
    BY <1>1 DEF BackupTyped
  <2>2. CASE dumps' = [dumps EXCEPT ![k].there = FALSE] /\ UNCHANGED left
    BY <1>2, <2>1, <2>2
  <2>3. CASE UNCHANGED dumps /\ left' = left \cup {k}
    BY <2>1, <2>3
  <2> QED BY <2>2, <2>3 DEF Erase
<1> HIDE DEF k
<1>7. BackupTyped' /\ InTime'
  BY <1>1, <1>3, <1>4, <1>6, TurnInTime DEF BucketKept, BackupTyped
<1>8. ManifestsKept'
  BY <1>1, <1>4 DEF BucketKept, ManifestsKept
<1>9. ErasesBare'
  BY <1>1, <1>4 DEF BucketKept, ErasesBare, Loose
\* Whoever else is at the dump now is two at it.
<1>10. DumpBefore'
  <2> SUFFICES ASSUME NEW g \in Flows, NEW t \in Slots, tasks'[g][t] = "manifest"
               PROVE  dumps'[Key(g)].there \/ PastRetention(dumps[Key(g)].at)' \/ Key(g) \in contended'
    BY <1>4 DEF DumpBefore
  <2>1. tasks[g][t] = "manifest" /\ <<g, t>> # <<f, s>>
    BY <1>4 DEF Loose
  <2>2. CASE Key(g) = k
    <3>1. <<g, t>> \in Saving(k) /\ <<f, s>> \in Saving(k)
      BY <1>1, <2>1, <2>2 DEF Saving, k
    <3>2. k \in Contended
      <4>1. TaskAt(<<f, s>>[1], <<f, s>>[2], "erase")
        BY <1>1 DEF TaskAt
      <4> QED BY <1>2, <2>1, <3>1, <4>1 DEF Contended
    <3> QED BY <2>2, <3>2
  <2>3. CASE Key(g) # k
    <3>1. Key(g) \in Keys
      BY <1>1, <2>1, StoresItsKey DEF Storing
    <3>2. dumps[Key(g)].there \/ PastRetention(dumps[Key(g)].at) \/ Key(g) \in contended
      BY <2>1 DEF BucketKept, DumpBefore
    <3> QED BY <1>4, <1>6, <2>3, <3>1, <3>2 DEF PastRetention
  <2> QED BY <2>2, <2>3
<1>11. CoveredStay'
  <2> SUFFICES ASSUME NEW x \in covered
               PROVE  dumps'[x].there \/ PastRetention(dumps[x].at)' \/ x \in contended'
    BY <1>1 DEF CoveredStay
  <2>1. x \in Keys /\ (dumps[x].there \/ PastRetention(dumps[x].at) \/ x \in contended)
    BY DEF BucketKept, CoveredStay, BackupTyped
  <2> QED BY <1>4, <1>5, <1>6, <2>1 DEF PastRetention
<1>12. BareHeld'
  <2> SUFFICES ASSUME NEW x \in Keys, dumps'[x].there, x \notin covered, x \notin left'
               PROVE  \E g \in Flows, t \in Slots : tasks'[g][t] \in Holding /\ Key(g) = x
    BY <1>1, <1>4 DEF BareHeld
  <2>1. x # k
    BY <1>6
  <2>2. PICK g \in Flows, t \in Slots : tasks[g][t] \in Holding /\ Key(g) = x
    BY <1>6, <2>1 DEF BucketKept, BareHeld
  <2> QED BY <1>4, <2>1, <2>2 DEF k
<1> QED BY <1>7, <1>8, <1>9, <1>10, <1>11, <1>12 DEF BucketKept

\* An attempt that is evicted leaves its dump unanswered.
LEMMA EvictKeeps ==
  ASSUME BucketKept, NEW f \in Flows, NEW s \in Slots, Evict(f, s), instant' = instant, contended \subseteq contended'
  PROVE  BucketKept'
<1> DEFINE k == Key(f)
<1>1. BackupTyped /\ tasks[f][s] # "idle" /\ dumps' = dumps /\ manifests' = manifests /\ covered' = covered
      /\ Throw(f, s)
  BY DEF BucketKept, Evict, TaskAt
<1>2. Turn(f, s, Loose) /\ FlowsTyped'
  BY <1>1, ThrowTurns
<1>3. left \subseteq left' /\ (tasks[f][s] \in Holding => k \in left')
  BY DEF Evict, Leaves, Holding
<1>4. instant' = instant /\ (\A g \in Flows : Key(g)' = Key(g)) /\ Keys' = Keys
      /\ (\A g \in Flows, t \in Slots : g # f \/ t # s => tasks'[g][t] = tasks[g][t])
      /\ tasks'[f][s] \in Loose
  BY <1>2 DEF Turn, Keys, Instants
<1> HIDE DEF k
<1>5. BackupTyped' /\ InTime'
  BY <1>1, <1>2, <1>4, TurnInTime DEF BucketKept, BackupTyped
<1>6. ManifestsKept'
  BY <1>1, <1>4 DEF BucketKept, ManifestsKept
<1>7. ErasesBare'
  BY <1>1, <1>4 DEF BucketKept, ErasesBare, Loose
<1>8. DumpBefore'
  <2>1. \A g \in Flows, t \in Slots : tasks'[g][t] = "manifest" => tasks[g][t] = "manifest"
    BY <1>4 DEF Loose
  <2> QED BY <1>1, <1>4, <2>1 DEF BucketKept, DumpBefore, PastRetention
<1>9. CoveredStay'
  BY <1>1, <1>4 DEF BucketKept, CoveredStay, PastRetention
<1>10. BareHeld'
  <2> SUFFICES ASSUME NEW x \in Keys, dumps[x].there, x \notin covered, x \notin left'
               PROVE  \E g \in Flows, t \in Slots : tasks'[g][t] \in Holding /\ Key(g) = x
    BY <1>1, <1>4 DEF BareHeld
  <2>1. PICK g \in Flows, t \in Slots : tasks[g][t] \in Holding /\ Key(g) = x
    BY <1>3 DEF BucketKept, BareHeld
  <2>2. <<g, t>> # <<f, s>>
    BY <1>3, <2>1 DEF k
  <2> QED BY <1>4, <2>1, <2>2
<1> QED BY <1>5, <1>6, <1>7, <1>8, <1>9, <1>10 DEF BucketKept

\* What is past its retention goes, the dump and the manifest each by its own time.
LEMMA PruneKeeps ==
  ASSUME BucketKept, NEW f \in Flows, Prune(f), instant' = instant, contended \subseteq contended'
  PROVE  BucketKept'
<1>1. BackupTyped /\ tasks[f]["own"] = "prune" /\ "own" \in Slots
  BY DEF BucketKept, Prune, TaskAt, Slots
<1>2. PICK D \in SUBSET OldDumps, M \in SUBSET OldManifests :
        Remove(D, M) /\ (Throw(f, "own") \/ Enter(f, "done", flows[f].at, flows[f].mark))
  BY DEF Prune
<1>3. Turn(f, "own", Loose) /\ FlowsTyped'
  <2>1. CASE Throw(f, "own")
    BY <1>1, <2>1, ThrowTurns
  <2>2. CASE Enter(f, "done", flows[f].at, flows[f].mark)
    <3>1. Turn(f, "own", {First("done")}) /\ FlowsTyped'
      BY <1>1, <2>2, EnterTurns
    <3>2. {First("done")} \subseteq Loose
      BY DEF First, Loose
    <3> QED BY <1>1, <3>1, <3>2, TurnWidens
  <2> QED BY <1>2, <2>1, <2>2
<1>4. instant' = instant /\ (\A g \in Flows : Key(g)' = Key(g)) /\ Keys' = Keys
      /\ (\A g \in Flows, t \in Slots : g # f \/ t # "own" => tasks'[g][t] = tasks[g][t])
      /\ tasks'[f]["own"] \in Loose /\ covered' = covered /\ left' = left
  BY <1>2, <1>3 DEF Turn, Keys, Instants, Remove
<1>5. /\ dumps' \in [Keys -> [at : Nat, there : BOOLEAN]]
      /\ \A x \in Keys : /\ dumps'[x].at = dumps[x].at
                         /\ dumps'[x].there => dumps[x].there
                         /\ dumps[x].there => dumps'[x].there \/ PastRetention(dumps[x].at)
  <2>1. dumps \in [Keys -> [at : Nat, there : BOOLEAN]]
        /\ dumps' = [x \in Keys |-> IF x \in D THEN [dumps[x] EXCEPT !.there = FALSE] ELSE dumps[x]]
    BY <1>1, <1>2 DEF BackupTyped, Remove
  <2>2. \A x \in Keys : dumps'[x] \in [at : Nat, there : BOOLEAN] /\ dumps'[x].at = dumps[x].at
                        /\ dumps'[x].there = (x \notin D /\ dumps[x].there)
    BY <2>1
  <2>3. \A x \in D : PastRetention(dumps[x].at)
    BY DEF OldDumps
  <2>4. dumps' = [x \in Keys |-> dumps'[x]]
    BY <2>1
  <2>5. dumps' \in [Keys -> [at : Nat, there : BOOLEAN]]
    BY <2>2, <2>4
  <2> QED BY <2>2, <2>3, <2>5
<1>6. /\ manifests' \in [Keys -> Nat \cup {Absent}]
      /\ \A x \in Keys : manifests'[x] = manifests[x]
                         \/ (manifests'[x] = Absent /\ manifests[x] # Absent /\ PastRetention(manifests[x]))
  BY <1>1, <1>2 DEF BackupTyped, Remove, OldManifests
<1>7. BackupTyped' /\ InTime'
  BY <1>1, <1>3, <1>4, <1>5, <1>6, TurnInTime DEF BucketKept, BackupTyped
<1>8. ManifestsKept'
  <2> SUFFICES ASSUME NEW x \in Keys
               PROVE  /\ manifests'[x] # Absent => x \in covered /\ x[1] <= manifests'[x]
                      /\ x \in covered /\ manifests'[x] = Absent => x[1] + Retention < instant
    BY <1>4 DEF ManifestsKept
  <2>1. /\ manifests[x] # Absent => x \in covered /\ x[1] <= manifests[x]
        /\ x \in covered /\ manifests[x] = Absent => x[1] + Retention < instant
    BY DEF BucketKept, ManifestsKept
  <2>2. CASE manifests'[x] = manifests[x]
    BY <2>1, <2>2
  <2>3. CASE manifests'[x] = Absent /\ manifests[x] # Absent /\ PastRetention(manifests[x])
    <3>1. x[1] \in Nat /\ manifests[x] \in Nat /\ instant \in Nat
      BY <1>1, <2>3 DEF BackupTyped, FlowsTyped, Keys, Instants
    <3>2. instant - manifests[x] > Retention /\ x[1] <= manifests[x]
      BY <2>1, <2>3 DEF PastRetention
    <3>3. x[1] + Retention < instant
      BY <3>1, <3>2, BackupAssumption
    <3> QED BY <2>3, <3>3
  <2> QED BY <1>6, <2>2, <2>3
<1>9. ErasesBare'
  BY <1>1, <1>4 DEF BucketKept, ErasesBare, Loose
<1>10. DumpBefore'
  <2> SUFFICES ASSUME NEW g \in Flows, NEW t \in Slots, tasks'[g][t] = "manifest"
               PROVE  dumps'[Key(g)].there \/ PastRetention(dumps[Key(g)].at)' \/ Key(g) \in contended'
    BY <1>4 DEF DumpBefore
  <2>1. tasks[g][t] = "manifest"
    BY <1>4 DEF Loose
  <2>2. Key(g) \in Keys
    BY <1>1, <2>1, StoresItsKey DEF Storing
  <2>3. dumps[Key(g)].there \/ PastRetention(dumps[Key(g)].at) \/ Key(g) \in contended
    BY <2>1 DEF BucketKept, DumpBefore
  <2> QED BY <1>4, <1>5, <2>2, <2>3 DEF PastRetention
<1>11. CoveredStay'
  <2> SUFFICES ASSUME NEW x \in covered
               PROVE  dumps'[x].there \/ PastRetention(dumps[x].at)' \/ x \in contended'
    BY <1>4 DEF CoveredStay
  <2>1. x \in Keys /\ (dumps[x].there \/ PastRetention(dumps[x].at) \/ x \in contended)
    BY DEF BucketKept, CoveredStay, BackupTyped
  <2> QED BY <1>4, <1>5, <2>1 DEF PastRetention
<1>12. BareHeld'
  <2> SUFFICES ASSUME NEW x \in Keys, dumps'[x].there, x \notin covered, x \notin left
               PROVE  \E g \in Flows, t \in Slots : tasks'[g][t] \in Holding /\ Key(g) = x
    BY <1>4 DEF BareHeld
  <2>1. PICK g \in Flows, t \in Slots : tasks[g][t] \in Holding /\ Key(g) = x
    BY <1>5 DEF BucketKept, BareHeld
  <2>2. g # f \/ t # "own"
    BY <1>1, <2>1 DEF Holding
  <2> QED BY <1>4, <2>1, <2>2
<1> QED BY <1>7, <1>8, <1>9, <1>10, <1>11, <1>12 DEF BucketKept

\* What a flow with no dump does concerns no bucket; what an attempt that was
\* given up was at, it goes on with.
LEMMA NobodyDrops ==
  ASSUME BucketKept, FlowsTyped', InTime', instant' = instant, UNCHANGED bucket, contended \subseteq contended',
         \A g \in Flows, t \in Slots :
           tasks'[g][t] \in Holding => Key(g)' = Key(g) /\ \E u \in Slots : tasks[g][u] = tasks'[g][t],
         \A g \in Flows, t \in Slots :
           tasks[g][t] \in Holding => Key(g)' = Key(g) /\ \E u \in Slots : tasks'[g][u] = tasks[g][t]
  PROVE  BucketKept'
<1>1. Keys' = Keys /\ dumps' = dumps /\ manifests' = manifests /\ covered' = covered /\ left' = left
  BY DEF Keys, Instants, bucket
<1>2. BackupTyped'
  BY <1>1 DEF BucketKept, BackupTyped
<1>3. ManifestsKept'
  BY <1>1 DEF BucketKept, ManifestsKept
<1>4. ErasesBare'
  BY <1>1 DEF BucketKept, ErasesBare, Holding
<1>5. DumpBefore'
  BY <1>1 DEF BucketKept, DumpBefore, Holding, PastRetention
<1>6. CoveredStay'
  BY <1>1 DEF BucketKept, CoveredStay, PastRetention
<1>7. BareHeld'
  <2> SUFFICES ASSUME NEW x \in Keys, dumps[x].there, x \notin covered, x \notin left
               PROVE  \E g \in Flows, t \in Slots : tasks'[g][t] \in Holding /\ Key(g)' = x
    BY <1>1 DEF BareHeld
  <2>1. PICK g \in Flows, t \in Slots : tasks[g][t] \in Holding /\ Key(g) = x
    BY DEF BucketKept, BareHeld
  <2> QED BY <2>1
<1> QED BY <1>2, <1>3, <1>4, <1>5, <1>6, <1>7 DEF BucketKept

\* A flow starts, asks for its export and learns its bookmark.
LEMMA StartKeeps ==
  ASSUME BucketKept, NEW f \in Flows, Create(f) \/ RequestExport(f) \/ Open(f),
         instant' = instant, contended \subseteq contended'
  PROVE  BucketKept'
<1>1. BackupTyped /\ FlowTyped(f) /\ TaskTyped(f) /\ UNCHANGED bucket /\ "own" \in Slots /\ "late" \in Slots
  BY DEF BucketKept, BackupTyped, FlowsTyped, Create, RequestExport, Open, Slots
<1>2. /\ flows[f].step \in {"off", "start"} /\ tasks[f]["late"] = "idle" /\ tasks[f]["own"] \notin Holding
      /\ RequestExport(f) => flows[f].step = "start"
  BY <1>1 DEF Create, RequestExport, Open, TaskAt, TaskTyped, FlowTyped, FlowSteps, Inside, Storing, Holding
<1>3. CASE Create(f)
  <2>1. Enter(f, "start", 0, Absent) /\ 0 \in Nat /\ 0 <= instant
    BY <1>1, <1>3 DEF Create, BackupTyped, FlowsTyped
  <2>2. FlowsTyped' /\ (\A g \in Flows \ {f} : flows'[g] = flows[g])
        /\ \A g \in Flows, t \in Slots : tasks'[g][t] = IF g = f /\ t = "own" THEN First("start") ELSE tasks[g][t]
    BY <1>1, <1>2, <2>1, EnterMoves DEF FlowsTyped
  <2>3. First("start") = "request"
    BY DEF First
  <2>4. \A g \in Flows \ {f} : Key(g)' = Key(g)
    BY <2>2 DEF Key
  <2>5. \A t \in Slots : tasks'[f][t] \in {"request", "idle"} /\ tasks[f][t] \notin Holding
    BY <1>2, <2>2, <2>3 DEF Slots, Holding
  <2>6. InTime'
    BY <2>2, <2>3, <2>5 DEF BucketKept, InTime
  <2> QED BY <1>1, <2>2, <2>4, <2>5, <2>6, NobodyDrops DEF Holding
<1>4. CASE RequestExport(f)
  <2> DEFINE x == [flows[f] EXCEPT !.at = instant]
             y == [tasks[f] EXCEPT !["own"] = "open"]
  <2>1. flows' = [flows EXCEPT ![f] = x] /\ tasks' = [tasks EXCEPT ![f] = y]
    BY <1>4 DEF RequestExport
  <2>2. flows[f] \in [step : FlowSteps, at : Nat, mark : Bookmarks \cup {Absent}, tries : Nat] /\ instant \in Nat
        /\ tasks[f] \in [Slots -> Waits]
    BY <1>1 DEF BackupTyped, FlowsTyped
  <2>3. x \in [step : FlowSteps, at : Nat, mark : Bookmarks \cup {Absent}, tries : Nat]
        /\ x.step = "start" /\ x.at = instant
    BY <1>2, <1>4, <2>2
  <2>4. y \in [Slots -> Waits] /\ y["own"] = "open" /\ y["late"] = "idle"
    BY <1>1, <1>2, <2>2 DEF Waits
  <2> HIDE DEF x, y
  <2>5. y["own"] \in Inside(x.step) /\ x.at <= instant /\ y["late"] \in Storing \cup {"idle"}
        /\ (y["late"] # "idle" => x.step \in {"save", "prune", "done", "failed"})
        /\ (x.step \in {"save", "prune", "done"} \/ y["late"] # "idle" => x.mark \in Bookmarks)
    BY <2>2, <2>3, <2>4 DEF Inside
  <2>6. /\ instant' \in Nat /\ instant' <= LastInstant
        /\ flows' \in [Flows -> [step : FlowSteps, at : Nat, mark : Bookmarks \cup {Absent}, tries : Nat]]
        /\ tasks' \in [Flows -> [Slots -> Waits]]
        /\ \A g \in Flows : FlowTyped(g)' /\ TaskTyped(g)'
        /\ \A g \in Flows \ {f} : flows'[g] = flows[g] /\ tasks'[g] = tasks[g]
        /\ flows'[f] = x /\ tasks'[f] = y
    BY <1>1, <2>1, <2>3, <2>4, <2>5, OneFlowMoves
  <2>7. FlowsTyped'
    BY <2>6 DEF FlowsTyped
  <2>8. \A g \in Flows \ {f} : Key(g)' = Key(g)
    BY <2>6 DEF Key
  <2>9. \A t \in Slots : tasks'[f][t] \in {"open", "idle"} /\ tasks[f][t] \notin Holding
    BY <1>2, <2>4, <2>6 DEF Slots, Holding
  <2>10. instant <= flows'[f].at + Retention
    BY <2>2, <2>3, <2>6, BackupAssumption
  <2>11. InTime'
    BY <2>6, <2>10 DEF BucketKept, InTime
  <2> QED BY <1>1, <2>6, <2>7, <2>8, <2>9, <2>11, NobodyDrops DEF Holding
<1>5. CASE Open(f)
  <2>1. tasks[f]["own"] = "open"
    BY <1>5 DEF Open, TaskAt
  <2>2. CASE Throw(f, "own")
    <3>1. Turn(f, "own", Loose) /\ FlowsTyped'
      BY <1>1, <2>1, <2>2, ThrowTurns
    <3> QED BY <1>1, <1>2, <3>1, BucketStays DEF Holding, Loose
  <2>3. CASE \E m \in Bookmarks : Enter(f, "save", flows[f].at, m)
    <3>1. PICK m \in Bookmarks : Enter(f, "save", flows[f].at, m)
      BY <2>3
    <3>2. flows[f].at \in Nat /\ flows[f].at <= instant
      BY <1>1 DEF FlowTyped
    <3>3. FlowsTyped' /\ (\A g \in Flows \ {f} : flows'[g] = flows[g]) /\ flows'[f].at = flows[f].at
          /\ \A g \in Flows, t \in Slots : tasks'[g][t] = IF g = f /\ t = "own" THEN First("save") ELSE tasks[g][t]
      BY <1>1, <1>2, <3>1, <3>2, EnterMoves DEF FlowsTyped
    <3>4. First("save") = "poll"
      BY DEF First
    <3>5. \A g \in Flows \ {f} : Key(g)' = Key(g)
      BY <3>3 DEF Key
    <3>6. \A t \in Slots : tasks'[f][t] \in {"poll", "idle"} /\ tasks[f][t] \notin Holding
      BY <1>2, <3>3, <3>4 DEF Slots, Holding
    <3>7. instant <= flows[f].at + Retention
      BY <1>1, <2>1 DEF BucketKept, InTime
    <3>8. InTime'
      BY <3>3, <3>7 DEF BucketKept, InTime
    <3> QED BY <1>1, <3>3, <3>5, <3>6, <3>8, NobodyDrops DEF Holding
  <2> QED BY <1>5, <2>2, <2>3 DEF Open
<1> QED BY <1>3, <1>4, <1>5

\* An attempt that takes too long goes on beside the one that replaces it.
LEMMA TimeOutKeeps ==
  ASSUME BucketKept, NEW f \in Flows, TimeOut(f), instant' = instant, contended \subseteq contended'
  PROVE  BucketKept'
<1> DEFINE again == flows[f].tries < MaxTries
           step == IF again THEN "save" ELSE "failed"
           tries == IF again THEN flows[f].tries + 1 ELSE flows[f].tries
           x == [flows[f] EXCEPT !.step = step, !.tries = tries]
           y == [own |-> First(step), late |-> tasks[f].own]
<1>1. BackupTyped /\ FlowTyped(f) /\ TaskTyped(f) /\ UNCHANGED bucket /\ "own" \in Slots /\ "late" \in Slots
      /\ flows[f].step = "save" /\ tasks[f]["late"] = "idle"
  BY DEF BucketKept, BackupTyped, FlowsTyped, TimeOut, Slots, TaskAt
<1>2. flows' = [flows EXCEPT ![f] = x] /\ tasks' = [tasks EXCEPT ![f] = y]
  BY <1>1 DEF TimeOut, BackupTyped, FlowsTyped
<1>3. step \in {"save", "failed"} /\ tries \in Nat
  BY <1>1 DEF FlowTyped
<1>4. tasks[f]["own"] \in Storing /\ flows[f].mark \in Bookmarks /\ flows[f].at <= instant
  BY <1>1 DEF TaskTyped, FlowTyped, Inside
<1> HIDE DEF step, tries
<1>5. First(step) \in Inside(step) /\ First(step) \in {"poll", "idle"}
  BY <1>3 DEF First, Inside, Storing
<1>6. flows[f] \in [step : FlowSteps, at : Nat, mark : Bookmarks \cup {Absent}, tries : Nat]
  BY <1>1 DEF BackupTyped, FlowsTyped
<1>7. x \in [step : FlowSteps, at : Nat, mark : Bookmarks \cup {Absent}, tries : Nat]
      /\ x.step = step /\ x.at = flows[f].at /\ x.mark = flows[f].mark
  BY <1>3, <1>6 DEF FlowSteps
<1>8. y \in [Slots -> Waits] /\ y["own"] = First(step) /\ y["late"] = tasks[f]["own"]
  BY <1>4, <1>5 DEF Slots, Waits, Storing
<1> HIDE DEF x, y
<1>9. y["own"] \in Inside(x.step) /\ x.at <= instant /\ y["late"] \in Storing \cup {"idle"}
      /\ (y["late"] # "idle" => x.step \in {"save", "prune", "done", "failed"})
      /\ (x.step \in {"save", "prune", "done"} \/ y["late"] # "idle" => x.mark \in Bookmarks)
  BY <1>3, <1>4, <1>5, <1>7, <1>8
<1>10. /\ instant' \in Nat /\ instant' <= LastInstant
       /\ flows' \in [Flows -> [step : FlowSteps, at : Nat, mark : Bookmarks \cup {Absent}, tries : Nat]]
       /\ tasks' \in [Flows -> [Slots -> Waits]]
       /\ \A g \in Flows : FlowTyped(g)' /\ TaskTyped(g)'
       /\ \A g \in Flows \ {f} : flows'[g] = flows[g] /\ tasks'[g] = tasks[g]
       /\ flows'[f] = x /\ tasks'[f] = y
  BY <1>1, <1>2, <1>7, <1>8, <1>9, OneFlowMoves
<1>11. FlowsTyped'
  BY <1>10 DEF FlowsTyped
<1>12. \A g \in Flows : Key(g)' = Key(g) /\ flows'[g].at = flows[g].at
  BY <1>7, <1>10 DEF Key
<1>13. tasks'[f]["late"] = tasks[f]["own"] /\ tasks'[f]["own"] \in {"poll", "idle"}
  BY <1>5, <1>8, <1>10
<1>14. InTime'
  <2>1. instant <= flows[f].at + Retention
    BY <1>1, <1>4 DEF BucketKept, InTime, Storing
  <2> QED BY <1>10, <1>12, <2>1 DEF BucketKept, InTime
<1>15. \A g \in Flows, t \in Slots : tasks'[g][t] \in Holding => \E u \in Slots : tasks[g][u] = tasks'[g][t]
  BY <1>1, <1>10, <1>13 DEF Slots, Holding
<1>16. \A g \in Flows, t \in Slots : tasks[g][t] \in Holding => \E u \in Slots : tasks'[g][u] = tasks[g][t]
  BY <1>1, <1>10, <1>13 DEF Slots, Holding
<1> QED BY <1>1, <1>11, <1>12, <1>14, <1>15, <1>16, NobodyDrops

\* Time passes while every task has some left.
LEMMA TickKeeps ==
  ASSUME BucketKept, Tick, contended' = contended
  PROVE  BucketKept'
<1>1. instant \in Nat /\ instant < LastInstant /\ instant' = instant + 1 /\ LastInstant \in Nat
      /\ flows' = flows /\ tasks' = tasks /\ dumps' = dumps /\ manifests' = manifests
      /\ covered' = covered /\ left' = left
  BY BackupAssumption DEF BucketKept, BackupTyped, FlowsTyped, Tick, bucket
<1>2. Keys' = Keys /\ \A g \in Flows : Key(g)' = Key(g)
  BY <1>1 DEF Keys, Instants, Key
<1>3. BackupTyped'
  <2>1. \A g \in Flows : FlowTyped(g)' /\ TaskTyped(g)'
    <3> TAKE g \in Flows
    <3>1. FlowTyped(g) /\ TaskTyped(g)
      BY DEF BucketKept, BackupTyped, FlowsTyped
    <3> QED BY <1>1, <3>1 DEF FlowTyped, TaskTyped
  <2>2. instant' \in Nat /\ instant' <= LastInstant
    BY <1>1
  <2> QED BY <1>1, <1>2, <2>1, <2>2 DEF BucketKept, BackupTyped, FlowsTyped
<1>4. InTime'
  <2> SUFFICES ASSUME NEW g \in Flows, NEW t \in Slots, tasks[g][t] \notin {"idle", "request", "prune"}
               PROVE  instant + 1 <= flows[g].at + Retention
    BY <1>1 DEF InTime
  <2>1. instant < flows[g].at + Retention /\ flows[g].at \in Nat
    BY DEF Tick, BucketKept, BackupTyped, FlowsTyped, FlowTyped
  <2> QED BY <1>1, <2>1, BackupAssumption
<1>5. ManifestsKept'
  <2> SUFFICES ASSUME NEW x \in Keys
               PROVE  /\ manifests[x] # Absent => x \in covered /\ x[1] <= manifests[x]
                      /\ x \in covered /\ manifests[x] = Absent => x[1] + Retention < instant + 1
    BY <1>1, <1>2 DEF ManifestsKept
  <2>1. /\ manifests[x] # Absent => x \in covered /\ x[1] <= manifests[x]
        /\ x \in covered /\ manifests[x] = Absent => x[1] + Retention < instant
    BY DEF BucketKept, ManifestsKept
  <2>2. x[1] \in Nat
    BY DEF Keys, Instants
  <2> QED BY <1>1, <2>1, <2>2, BackupAssumption
<1>6. ASSUME NEW x \in Keys, PastRetention(dumps[x].at)
      PROVE  PastRetention(dumps[x].at)'
  <2>1. dumps[x].at \in Nat /\ instant - dumps[x].at > Retention
    BY <1>6 DEF BucketKept, BackupTyped, PastRetention
  <2>2. instant + 1 - dumps[x].at > Retention
    BY <1>1, <2>1, BackupAssumption
  <2>3. dumps'[x].at = dumps[x].at /\ instant' = instant + 1 /\ instant \in Nat
    BY <1>1
  <2> QED BY <2>1, <2>2, <2>3, BackupAssumption DEF PastRetention
<1>7. ErasesBare' /\ BareHeld'
  BY <1>1, <1>2 DEF BucketKept, ErasesBare, BareHeld
<1>8. DumpBefore'
  <2> SUFFICES ASSUME NEW g \in Flows, NEW t \in Slots, tasks[g][t] = "manifest"
               PROVE  dumps[Key(g)].there \/ PastRetention(dumps[Key(g)].at)' \/ Key(g) \in contended
    BY <1>1, <1>2 DEF DumpBefore
  <2>1. Key(g) \in Keys
    BY StoresItsKey DEF Storing, BucketKept
  <2>2. dumps[Key(g)].there \/ PastRetention(dumps[Key(g)].at) \/ Key(g) \in contended
    BY DEF BucketKept, DumpBefore
  <2>3. CASE PastRetention(dumps[Key(g)].at)
    <3>1. PICK x \in Keys : x = Key(g)
      BY <2>1
    <3>2. PastRetention(dumps[x].at)'
      BY <1>6, <2>3, <3>1
    <3>3. instant' - dumps'[x].at > Retention
      BY <3>2 DEF PastRetention
    <3>4. instant' - dumps'[Key(g)'].at > Retention
      BY <1>2, <3>1, <3>3
    <3> QED BY <3>4 DEF PastRetention
  <2> QED BY <2>2, <2>3
<1>9. CoveredStay'
  <2> SUFFICES ASSUME NEW x \in covered
               PROVE  dumps[x].there \/ PastRetention(dumps[x].at)' \/ x \in contended
    BY <1>1 DEF CoveredStay
  <2>1. x \in Keys
    BY DEF BucketKept, BackupTyped
  <2> QED BY <1>6, <2>1 DEF BucketKept, CoveredStay
<1> QED BY <1>3, <1>4, <1>5, <1>7, <1>8, <1>9 DEF BucketKept

\* The invariant holds at first, and no step breaks it.
LEMMA BackupInitKept == BackupInit => BackupKept
<1> SUFFICES ASSUME BackupInit PROVE BackupKept
  OBVIOUS
<1>1. flows = [f \in Flows |-> [step |-> "off", at |-> 0, mark |-> Absent, tries |-> 0]]
      /\ tasks = [f \in Flows |-> [s \in Slots |-> "idle"]] /\ instant = 0
      /\ dumps = [k \in Keys |-> [at |-> 0, there |-> FALSE]] /\ manifests = [k \in Keys |-> Absent]
      /\ covered = {} /\ left = {} /\ contended = {}
  BY DEF BackupInit
<1>2. \A f \in Flows : flows[f] \in [step : FlowSteps, at : Nat, mark : Bookmarks \cup {Absent}, tries : Nat]
      /\ flows[f].step = "off" /\ flows[f].at = 0 /\ flows[f].mark = Absent /\ flows[f].tries = 0
  BY <1>1 DEF FlowSteps
<1>3. \A f \in Flows, s \in Slots : tasks[f][s] = "idle"
  BY <1>1
<1>4. \A f \in Flows : FlowTyped(f) /\ TaskTyped(f)
  <2> TAKE f \in Flows
  <2>1. FlowTyped(f)
    BY <1>1, <1>2 DEF FlowTyped, FlowSteps
  <2>2. tasks[f]["own"] = "idle" /\ tasks[f]["late"] = "idle"
    BY <1>3 DEF Slots
  <2> QED BY <1>2, <2>1, <2>2 DEF TaskTyped, Inside
<1>5. FlowsTyped
  <2>1. flows \in [Flows -> [step : FlowSteps, at : Nat, mark : Bookmarks \cup {Absent}, tries : Nat]]
    BY <1>1, <1>2
  <2>2. tasks \in [Flows -> [Slots -> Waits]]
    BY <1>1 DEF Waits
  <2> QED BY <1>1, <1>4, <2>1, <2>2, BackupAssumption DEF FlowsTyped
<1>6. BackupTyped
  BY <1>1, <1>5 DEF BackupTyped
<1>7. InTime /\ ManifestsKept /\ ErasesBare /\ DumpBefore /\ CoveredStay /\ BareHeld
  BY <1>1, <1>3 DEF InTime, ManifestsKept, ErasesBare, DumpBefore, CoveredStay, BareHeld
<1>8. Contended \subseteq contended
  BY <1>3 DEF Contended, Saving, TaskAt
<1> QED BY <1>6, <1>7, <1>8 DEF BackupKept, BucketKept

\* Every step of the engine, of its tasks and of time keeps the bucket.
LEMMA BackupStepKept == BackupKept /\ [BackupNext]_backup => BackupKept'
<1> SUFFICES ASSUME BackupKept, [BackupNext]_backup
             PROVE  BackupKept'
  OBVIOUS
<1>1. BucketKept /\ Contended \subseteq contended
  BY DEF BackupKept
<1>2. ASSUME NEW f \in Flows, FlowStep(f), UNCHANGED instant, contended' = contended \cup Contended'
      PROVE  BackupKept'
  <2>1. contended \subseteq contended' /\ instant' = instant /\ Contended' \subseteq contended'
    BY <1>2
  <2>2. BucketKept'
    <3>1. CASE Create(f) \/ RequestExport(f) \/ Open(f)
      BY <1>1, <2>1, <3>1, StartKeeps
    <3>2. CASE Prune(f)
      BY <1>1, <2>1, <3>2, PruneKeeps
    <3>3. CASE TimeOut(f)
      BY <1>1, <2>1, <3>3, TimeOutKeeps
    <3>4. ASSUME NEW s \in Slots,
                 Poll(f, s) \/ PutDump(f, s) \/ PutManifest(f, s) \/ Ask(f, s) \/ Erase(f, s) \/ Evict(f, s)
          PROVE  BucketKept'
      BY <1>1, <2>1, <3>4, PollKeeps, PutDumpKeeps, PutManifestKeeps, AskKeeps, EraseKeeps, EvictKeeps
    <3> QED BY <1>2, <3>1, <3>2, <3>3, <3>4 DEF FlowStep
  <2> QED BY <2>1, <2>2 DEF BackupKept
<1>3. CASE Tick /\ UNCHANGED contended
  <2>1. BucketKept'
    BY <1>1, <1>3, TickKeeps
  <2>2. Contended' = Contended
    BY <1>3 DEF Tick, Contended, Saving, Key, TaskAt, Keys, Instants
  <2> QED BY <1>1, <1>3, <2>1, <2>2 DEF BackupKept
<1>4. CASE UNCHANGED backup
  <2>1. instant' = instant /\ flows' = flows /\ tasks' = tasks /\ dumps' = dumps /\ manifests' = manifests
        /\ covered' = covered /\ left' = left /\ contended' = contended
    BY <1>4 DEF backup
  <2>2. Keys' = Keys /\ (\A g \in Flows : Key(g)' = Key(g)) /\ Contended' = Contended
    BY <2>1 DEF Keys, Instants, Key, Contended, Saving, TaskAt
  <2>3. FlowsTyped'
    BY <1>1, <2>1 DEF BucketKept, BackupTyped, FlowsTyped, FlowTyped, TaskTyped
  <2>4. InTime'
    BY <1>1, <2>1 DEF BucketKept, InTime
  <2>5. BucketKept'
    BY <1>1, <2>1, <2>2, <2>3, <2>4, NobodyDrops DEF bucket
  <2> QED BY <1>1, <2>1, <2>2, <2>5 DEF BackupKept
<1> QED BY <1>2, <1>3, <1>4 DEF BackupNext

\* A dump with a manifest stays, and none without one is forgotten
\* (saveD1ExportToR2, "never delete one a manifest already covers").
THEOREM BackupsWholeHolds == BackupSpec => []BackupsWhole
<1>1. BackupKept => BackupsWhole
  <2> SUFFICES ASSUME BackupKept, NEW k \in Keys \ contended
               PROVE  IF k \in covered THEN dumps[k].there \/ PastRetention(dumps[k].at)
                      ELSE k \in left \/ Saving(k) # {} \/ ~dumps[k].there
    BY DEF BackupsWhole
  <2>1. CASE k \in covered
    BY <2>1 DEF BackupKept, BucketKept, CoveredStay
  <2>2. CASE k \notin covered
    <3> SUFFICES ASSUME k \notin left, dumps[k].there
                 PROVE  Saving(k) # {}
      BY <2>2
    <3>1. PICK f \in Flows, s \in Slots : tasks[f][s] \in Holding /\ Key(f) = k
      BY <2>2 DEF BackupKept, BucketKept, BareHeld
    <3>2. <<f, s>> \in Saving(k)
      BY <3>1 DEF Saving, Holding
    <3> QED BY <3>2
  <2> QED BY <2>1, <2>2
<1>2. BackupInit => BackupKept
  BY BackupInitKept
<1>3. BackupKept /\ [BackupNext]_backup => BackupKept'
  BY BackupStepKept
<1> QED BY <1>1, <1>2, <1>3, PTL DEF BackupSpec

-----------------------------------------------------------------------------
(***************************************************************************)
(* The audit verifier's verdict, for every number of events and every size *)
(* of a batch: with one tick at a time the segments tile the ids, and each *)
(* is the rows of its range, in the order of their ids, as they were when  *)
(* the tick read them. What has no row when its range is sealed never gets *)
(* one. That ids can be counted off is the pigeonhole principle.           *)
(***************************************************************************)

\* The rank of a row orders rows as their ids do (ORDER BY id).
LEMMA RankOrders ==
  ASSUME NEW A, A \subseteq Ids
  PROVE  /\ IsFiniteSet(A) /\ Cardinality(A) \in Nat /\ Cardinality(A) <= MaxEvents
         /\ A = {} <=> Cardinality(A) = 0
         /\ \A n \in A : Rank(n, A) \in 1..Cardinality(A)
         /\ \A m, n \in A : m < n => Rank(m, A) < Rank(n, A)
<1>1. IsFiniteSet(Ids) /\ Cardinality(Ids) = MaxEvents
  BY ChainAssumption, FS_Interval DEF Ids
<1>2. IsFiniteSet(A) /\ Cardinality(A) \in Nat /\ Cardinality(A) <= MaxEvents
  BY <1>1, FS_Subset, FS_CardinalityType
<1>3. A = {} <=> Cardinality(A) = 0
  BY <1>2, FS_EmptySet
<1>4. ASSUME NEW n \in A
      PROVE  Rank(n, A) \in 1..Cardinality(A)
  <2> DEFINE B == {m \in A : m <= n}
  <2>1. B \in SUBSET A /\ n \in B
    BY <1>4 DEF Ids
  <2>2. IsFiniteSet(B) /\ Cardinality(B) <= Cardinality(A) /\ Cardinality(B) \in Nat
    BY <1>2, <2>1, FS_Subset, FS_CardinalityType
  <2>3. Cardinality(B) # 0
    BY <2>1, <2>2, FS_EmptySet
  <2> QED BY <1>2, <2>2, <2>3 DEF Rank
<1>5. ASSUME NEW m \in A, NEW n \in A, m < n
      PROVE  Rank(m, A) < Rank(n, A)
  <2> DEFINE B == {x \in A : x <= m}
             D == {x \in A : x <= n}
  <2>0. \A x \in A : x \in Int
    BY DEF Ids
  <2>1. B \in SUBSET D /\ n \in D /\ n \notin B
    BY <1>5, <2>0
  <2>2. IsFiniteSet(D) /\ Cardinality(D) \in Nat
    BY <1>2, FS_Subset, FS_CardinalityType
  <2>3. Cardinality(B) <= Cardinality(D) /\ Cardinality(D) # Cardinality(B) /\ Cardinality(B) \in Nat
    BY <2>1, <2>2, FS_Subset, FS_CardinalityType
  <2> QED BY <2>2, <2>3 DEF Rank
<1> QED BY <1>2, <1>3, <1>4, <1>5

\* Every rank is taken: as many ranks as rows, and no two rows of one rank.
LEMMA RankTaken ==
  ASSUME NEW A, A \subseteq Ids
  PROVE  \A k \in 1..Cardinality(A) : \E x \in A : Rank(x, A) = k
<1> DEFINE c == Cardinality(A)
           f == [n \in A |-> Rank(n, A)]
<1>1. c \in Nat /\ \A n \in A : Rank(n, A) \in 1..c
  BY RankOrders
<1>2. IsFiniteSet(1..c) /\ Cardinality(1..c) = c
  BY <1>1, FS_Interval
<1>3. \A m, n \in A : f[m] = f[n] => m = n
  <2> SUFFICES ASSUME NEW m \in A, NEW n \in A, Rank(m, A) = Rank(n, A)
               PROVE  m = n
    OBVIOUS
  <2>1. m \in Int /\ n \in Int /\ Rank(m, A) \in Int /\ ~(Rank(m, A) < Rank(n, A)) /\ ~(Rank(n, A) < Rank(m, A))
    BY <1>1 DEF Ids
  <2>2. \A x, y \in A : x < y => Rank(x, A) < Rank(y, A)
    BY RankOrders
  <2>3. ~(m < n) /\ ~(n < m)
    BY <2>1, <2>2
  <2> QED BY <2>1, <2>3
<1>4. f \in Injection(A, 1..c)
  BY <1>1, <1>3 DEF Injection, IsInjective
<1>5. f \in Surjection(A, 1..c)
  BY <1>2, <1>4, FS_Injection
<1> QED BY <1>5 DEF Surjection

\* The rows of a set of ids, each at its rank.
AnyContent == Contents \cup {NoRecord}
RowLists == Seq(Ids \X AnyContent)

LEMMA RowsOrdered ==
  ASSUME NEW A, A \subseteq Ids, NEW row \in [Ids -> AnyContent]
  PROVE  /\ InIdOrder(A, row) \in RowLists
         /\ Len(InIdOrder(A, row)) = Cardinality(A) /\ DOMAIN InIdOrder(A, row) = 1..Cardinality(A)
         /\ \A n \in A : /\ Rank(n, A) \in 1..Cardinality(A)
                         /\ InIdOrder(A, row)[Rank(n, A)] = <<n, row[n]>>
         /\ \A k \in 1..Cardinality(A) : \E n \in A : Rank(n, A) = k /\ InIdOrder(A, row)[k] = <<n, row[n]>>
<1> DEFINE c == Cardinality(A)
           s == InIdOrder(A, row)
<1>1. c \in Nat /\ (\A n \in A : Rank(n, A) \in 1..c) /\ \A k \in 1..c : \E x \in A : Rank(x, A) = k
  BY RankOrders, RankTaken
<1>2. \A m, n \in A : Rank(m, A) = Rank(n, A) => m = n
  <2> SUFFICES ASSUME NEW m \in A, NEW n \in A, Rank(m, A) = Rank(n, A)
               PROVE  m = n
    OBVIOUS
  <2>1. m \in Int /\ n \in Int /\ Rank(m, A) \in Int /\ ~(Rank(m, A) < Rank(n, A)) /\ ~(Rank(n, A) < Rank(m, A))
    BY <1>1 DEF Ids
  <2>2. \A x, y \in A : x < y => Rank(x, A) < Rank(y, A)
    BY RankOrders
  <2>3. ~(m < n) /\ ~(n < m)
    BY <2>1, <2>2
  <2> QED BY <2>1, <2>3
<1>3. DOMAIN s = 1..c
  BY DEF InIdOrder
<1>4. ASSUME NEW n \in A
      PROVE  s[Rank(n, A)] = <<n, row[n]>>
  <2>1. s[Rank(n, A)] = LET m == CHOOSE x \in A : Rank(x, A) = Rank(n, A) IN <<m, row[m]>>
    BY <1>1 DEF InIdOrder
  <2>2. (CHOOSE x \in A : Rank(x, A) = Rank(n, A)) = n
    BY <1>2
  <2> QED BY <2>1, <2>2
<1>5. ASSUME NEW k \in 1..c
      PROVE  \E n \in A : Rank(n, A) = k /\ s[k] = <<n, row[n]>>
  BY <1>1, <1>4
<1>6. s \in [1..c -> Ids \X AnyContent]
  <2>1. \A k \in 1..c : s[k] \in Ids \X AnyContent
    BY <1>5
  <2> DEFINE e(k) == LET n == CHOOSE x \in A : Rank(x, A) = k IN <<n, row[n]>>
  <2>2. s = [k \in 1..c |-> e(k)]
    BY DEF InIdOrder
  <2> HIDE DEF s, e
  <2> QED BY <2>1, <2>2
<1> HIDE DEF s
<1>7. s \in RowLists /\ Len(s) = c
  BY <1>1, <1>3, <1>6 DEF RowLists
<1> QED BY <1>1, <1>3, <1>4, <1>5, <1>7 DEF s

\* Rows that say the same are the same.
LEMMA SameRows ==
  ASSUME NEW A, A \subseteq Ids, NEW f \in [Ids -> AnyContent], NEW g \in [Ids -> AnyContent], \A n \in A : f[n] = g[n]
  PROVE  InIdOrder(A, f) = InIdOrder(A, g)
<1> DEFINE s == InIdOrder(A, f)
           w == InIdOrder(A, g)
           c == Cardinality(A)
           d(k) == LET n == CHOOSE x \in A : Rank(x, A) = k IN <<n, f[n]>>
           e(k) == LET n == CHOOSE x \in A : Rank(x, A) = k IN <<n, g[n]>>
<1>1. s = [k \in 1..c |-> d(k)] /\ w = [k \in 1..c |-> e(k)]
  BY DEF InIdOrder
<1>2. \A k \in 1..c : s[k] = w[k]
  <2> TAKE k \in 1..c
  <2>1. PICK n \in A : Rank(n, A) = k /\ s[k] = <<n, f[n]>>
    BY RowsOrdered
  <2>2. w[Rank(n, A)] = <<n, g[n]>>
    BY RowsOrdered
  <2> QED BY <2>1, <2>2
<1> HIDE DEF s, w, d, e
<1>3. s = w
  BY <1>1, <1>2
<1> QED BY <1>3 DEF s, w

\* Equal rows say the same of the same ids.
LEMMA RowsTell ==
  ASSUME NEW A, A \subseteq Ids, NEW B, B \subseteq Ids, NEW f \in [Ids -> AnyContent], NEW g \in [Ids -> AnyContent],
         InIdOrder(A, f) = InIdOrder(B, g)
  PROVE  \A n \in A : n \in B /\ f[n] = g[n]
<1> TAKE n \in A
<1>1. InIdOrder(A, f)[Rank(n, A)] = <<n, f[n]>> /\ Rank(n, A) \in DOMAIN InIdOrder(A, f)
  BY RowsOrdered
<1>2. Rank(n, A) \in 1..Cardinality(B)
  BY <1>1, RowsOrdered
<1>3. PICK m \in B : InIdOrder(B, g)[Rank(n, A)] = <<m, g[m]>>
  BY <1>2, RowsOrdered
<1> QED BY <1>1, <1>3

\* The first rows of a batch are those up to the last of them (LIMIT AUDIT_DIGEST_BATCH).
LEMMA FirstRows ==
  ASSUME NEW K, K \subseteq Ids, K # {}, NEW limit \in Nat \ {0}, NEW row \in [Ids -> AnyContent]
  PROVE  LET T == {n \in K : Rank(n, K) <= limit}
         IN \E x \in T : T = {n \in K : n <= x} /\ InIdOrder(T, row)[Len(InIdOrder(T, row))][1] = x
<1> DEFINE T == {n \in K : Rank(n, K) <= limit}
           s == InIdOrder(T, row)
<1>0. Cardinality(K) \in Nat /\ \A n \in K : Rank(n, K) \in 1..Cardinality(K)
  BY RankOrders
<1>1. \E n \in K : Rank(n, K) = 1
  <2>1. Cardinality(K) # 0
    BY RankOrders
  <2> QED BY <1>0, <2>1, RankTaken
<1>2. T \subseteq Ids /\ T # {}
  BY <1>1
<1>3. Cardinality(T) \in Nat /\ Cardinality(T) # 0 /\ \A n \in T : Rank(n, T) \in 1..Cardinality(T)
  <2> HIDE DEF T
  <2> QED BY <1>2, RankOrders
<1>4. PICK x \in T : Rank(x, T) = Cardinality(T) /\ s[Cardinality(T)] = <<x, row[x]>>
  <2> HIDE DEF T
  <2>1. Cardinality(T) \in 1..Cardinality(T)
    BY <1>3
  <2> QED BY <1>2, <2>1, RowsOrdered
<1>5. Len(s) = Cardinality(T)
  BY <1>2, RowsOrdered
<1>6. ASSUME NEW n \in T
      PROVE  n <= x
  <2>1. Rank(n, T) <= Rank(x, T) /\ Rank(n, T) \in Int /\ Rank(x, T) \in Int
    <3> HIDE DEF T
    <3> QED BY <1>3, <1>4
  <2>2. ~(x < n)
    <3> HIDE DEF T
    <3> QED BY <1>2, <2>1, RankOrders
  <2>3. x \in Int /\ n \in Int
    BY DEF Ids
  <2> QED BY <2>2, <2>3
<1>7. ASSUME NEW n \in K, n <= x
      PROVE  n \in T
  <2>1. n \in Int /\ x \in Int /\ x \in K /\ Rank(x, K) <= limit
    BY DEF Ids
  <2>0. \A y, z \in K : y < z => Rank(y, K) < Rank(z, K)
    BY RankOrders
  <2>2. n = x \/ Rank(n, K) < Rank(x, K)
    BY <1>7, <2>0, <2>1
  <2>3. Rank(n, K) \in Int /\ Rank(x, K) \in Int /\ limit \in Int
    BY <1>0, <2>1
  <2> QED BY <2>1, <2>2, <2>3
<1>8. T = {n \in K : n <= x}
  BY <1>6, <1>7
<1>9. s[Len(s)][1] = x
  BY <1>4, <1>5
<1> QED BY <1>8, <1>9

\* The verifier's query has no limit that matters.
LEMMA AllRows ==
  ASSUME NEW K, K \subseteq Ids
  PROVE  {n \in K : Rank(n, K) <= MaxEvents} = K
<1>1. ASSUME NEW n \in K PROVE Rank(n, K) <= MaxEvents
  <2>1. Rank(n, K) \in 1..Cardinality(K) /\ Cardinality(K) \in Nat /\ Cardinality(K) <= MaxEvents
    BY RankOrders
  <2> QED BY <2>1, ChainAssumption
<1> QED BY <1>1

-----------------------------------------------------------------------------
(* Segments, and what a tick has read *)

Segments == [upTo : Ids, count : Nat, prev : Seq(RowLists), digest : Seq(RowLists)]
Sealings == [pc : {"idle", "read", "append"}, upTo : Ids \cup {0}, prev : Seq(RowLists), rows : RowLists]

ChainTyped ==
  /\ events \in [Ids -> AnyContent] /\ sealed \in [Ids -> AnyContent] /\ logged \in 0..MaxEvents
  /\ digests \in Seq(Segments) /\ seals \in [Sealers -> Sealings]

\* What comes before a segment, where a chain ends, and what is covered of a range.
StartOf(chained, k) == IF k = 1 THEN 0 ELSE chained[k - 1].upTo
DigestBefore(chained, k) == IF k = 1 THEN NoDigest ELSE chained[k - 1].digest
EndOf(chained) == IF chained = <<>> THEN 0 ELSE chained[Len(chained)].upTo
Covered(content, from, to) == {n \in Ids : from < n /\ n <= to /\ content[n] # NoRecord}

\* A segment follows the one before it and commits to the rows of its range.
SegmentKept(chained, content, k) ==
  LET from == StartOf(chained, k)
      to == chained[k].upTo
      ids == Covered(content, from, to)
  IN /\ from < to /\ to <= EndOf(chained)
     /\ chained[k].prev = DigestBefore(chained, k)
     /\ chained[k].digest = Append(DigestBefore(chained, k), InIdOrder(ids, content))
     /\ chained[k].count = Cardinality(ids)

\* The segments cover all that was sealed, and nothing comes up behind them.
RangesKept ==
  /\ EndOf(digests) <= logged
  /\ \A n \in Ids : sealed[n] # NoRecord =>
       n <= EndOf(digests) /\ \E k \in DOMAIN digests : StartOf(digests, k) < n /\ n <= digests[k].upTo
  /\ \A n \in Ids : n <= EndOf(digests) /\ sealed[n] = NoRecord => events[n] = NoRecord

\* Rows a tick has read behind the id from: those there were, up to the last of them.
Batched(found, from) ==
  \E A \in SUBSET Ids, x \in Ids, was \in [Ids -> AnyContent] :
    /\ found = InIdOrder(A, was) /\ found[Len(found)][1] = x
    /\ x \in A /\ x <= logged
    /\ \A n \in A : from < n /\ n <= x /\ was[n] # NoRecord
    /\ \A n \in Ids \ A : from < n /\ n <= x => events[n] = NoRecord

\* A tick that has read the last segment knows it as the last.
TickKept(t) ==
  /\ seals[t].pc # "idle" => seals[t].upTo = EndOf(digests) /\ seals[t].prev = LastDigest.digest
  /\ seals[t].pc = "append" => Batched(seals[t].rows, seals[t].upTo)

ChainKept ==
  /\ ChainTyped /\ RangesKept
  /\ \A k \in DOMAIN digests : SegmentKept(digests, sealed, k)
  /\ \A t \in Sealers : TickKept(t)

-----------------------------------------------------------------------------
\* A digest commits to its rows (computeSegmentDigest, without collisions).
LEMMA DigestsTell ==
  ASSUME NEW p \in Seq(RowLists), NEW r \in RowLists, NEW s \in RowLists
  PROVE  Digest(p, r) = Digest(p, s) <=> r = s
<1>1. Append(p, r)[Len(p) + 1] = r /\ Append(p, s)[Len(p) + 1] = s
  OBVIOUS
<1> QED BY <1>1 DEF Digest

\* What the verifier recomputes for a segment is what the segment says exactly
\* when the rows of its range are those it commits to (verifyAuditChain).
LEMMA SegmentVerdict ==
  ASSUME ChainKept, NEW k \in DOMAIN digests
  PROVE  LET from == StartOf(digests, k)
             to == digests[k].upTo
         IN (LET before == IF k = 1 THEN [upTo |-> 0, digest |-> NoDigest] ELSE digests[k - 1]
                 found == RowsIn(before.upTo, digests[k].upTo, MaxEvents)
             IN /\ digests[k].prev = before.digest
                /\ Len(found) = digests[k].count
                /\ Digest(before.digest, found) = digests[k].digest)
            <=> InIdOrder(Covered(events, from, to), events) = InIdOrder(Covered(sealed, from, to), sealed)
<1> DEFINE before == IF k = 1 THEN [upTo |-> 0, digest |-> NoDigest] ELSE digests[k - 1]
           from == StartOf(digests, k)
           to == digests[k].upTo
           E == Covered(events, from, to)
           S == Covered(sealed, from, to)
           r == InIdOrder(E, events)
           s == InIdOrder(S, sealed)
           found == RowsIn(before.upTo, digests[k].upTo, MaxEvents)
<1>1. before.upTo = from /\ before.digest = DigestBefore(digests, k)
  BY DEF StartOf, DigestBefore
<1>2. E \subseteq Ids /\ S \subseteq Ids /\ events \in [Ids -> AnyContent] /\ sealed \in [Ids -> AnyContent]
  BY DEF ChainKept, ChainTyped, Covered
<1>3. found = r
  <2> DEFINE K == {n \in Ids : before.upTo < n /\ n <= digests[k].upTo /\ events[n] # NoRecord}
  <2>1. K = E
    BY <1>1 DEF Covered
  <2>2. {n \in K : Rank(n, K) <= MaxEvents} = K
    <3> HIDE DEF K
    <3> QED BY <1>2, <2>1, AllRows
  <2>3. found = InIdOrder({n \in K : Rank(n, K) <= MaxEvents}, events)
    BY DEF RowsIn
  <2> QED BY <2>1, <2>2, <2>3
<1>4. /\ digests[k].prev = DigestBefore(digests, k)
      /\ digests[k].digest = Append(DigestBefore(digests, k), s)
      /\ digests[k].count = Cardinality(S)
  BY DEF ChainKept, SegmentKept
<1>5. DigestBefore(digests, k) \in Seq(RowLists)
  <2>1. digests \in Seq(Segments) /\ digests[k] \in Segments
    BY DEF ChainKept, ChainTyped
  <2> QED BY <1>4, <2>1 DEF Segments
<1>6. r \in RowLists /\ s \in RowLists /\ Len(s) = Cardinality(S)
  BY <1>2, RowsOrdered
<1>7. Digest(DigestBefore(digests, k), r) = Digest(DigestBefore(digests, k), s) <=> r = s
  BY <1>5, <1>6, DigestsTell
<1>8. Digest(DigestBefore(digests, k), s) = digests[k].digest
  BY <1>4 DEF Digest
<1> HIDE DEF before, from, to, E, S, r, s, found
<1>9. (/\ digests[k].prev = before.digest
       /\ Len(found) = digests[k].count
       /\ Digest(before.digest, found) = digests[k].digest) <=> r = s
  BY <1>1, <1>3, <1>4, <1>6, <1>7, <1>8
<1> QED BY <1>9 DEF before, from, to, E, S, r, s, found

\* Equal rows mean that no sealed event was touched, and the other way round.
LEMMA KeptVerdict == ChainKept => VerdictTrue
<1> SUFFICES ASSUME ChainKept PROVE VerifierAccepts <=> Intact
  BY DEF VerdictTrue
<1> DEFINE Same(k) == LET from == StartOf(digests, k)
                          to == digests[k].upTo
                      IN InIdOrder(Covered(events, from, to), events) = InIdOrder(Covered(sealed, from, to), sealed)
<1>1. VerifierAccepts <=> \A k \in DOMAIN digests : Same(k)
  BY SegmentVerdict DEF VerifierAccepts
<1>2. events \in [Ids -> AnyContent] /\ sealed \in [Ids -> AnyContent] /\ RangesKept
  BY DEF ChainKept, ChainTyped
<1>3. ASSUME \A k \in DOMAIN digests : Same(k), NEW n \in Ids, sealed[n] # NoRecord
      PROVE  events[n] = sealed[n]
  <2>1. PICK k \in DOMAIN digests : StartOf(digests, k) < n /\ n <= digests[k].upTo
    BY <1>2, <1>3 DEF RangesKept
  <2> DEFINE E == Covered(events, StartOf(digests, k), digests[k].upTo)
             S == Covered(sealed, StartOf(digests, k), digests[k].upTo)
  <2>2. E \subseteq Ids /\ S \subseteq Ids /\ n \in S
    BY <1>3, <2>1 DEF Covered
  <2>3. InIdOrder(S, sealed) = InIdOrder(E, events)
    BY <1>3
  <2> HIDE DEF E, S
  <2>4. sealed[n] = events[n]
    BY <1>2, <2>2, <2>3, RowsTell
  <2> QED BY <2>4
<1>4. ASSUME Intact, NEW k \in DOMAIN digests
      PROVE  Same(k)
  <2> DEFINE from == StartOf(digests, k)
             to == digests[k].upTo
             E == Covered(events, from, to)
             S == Covered(sealed, from, to)
  <2>1. to <= EndOf(digests) /\ to \in Int /\ EndOf(digests) \in Int
    <3>1. digests \in Seq(Segments) /\ digests[k] \in Segments
      BY DEF ChainKept, ChainTyped
    <3>2. digests # <<>> /\ digests[Len(digests)] \in Segments
      BY <3>1
    <3> QED BY <3>1, <3>2 DEF ChainKept, SegmentKept, EndOf, Segments, Ids
  <2>2. \A n \in Ids : n <= to /\ sealed[n] = NoRecord => events[n] = NoRecord
    <3> TAKE n \in Ids
    <3>1. n \in Int
      BY DEF Ids
    <3> HIDE DEF to
    <3>2. n <= to => n <= EndOf(digests)
      BY <2>1, <3>1
    <3> QED BY <1>2, <3>2 DEF RangesKept
  <2>3. \A n \in Ids : n <= to => (events[n] # NoRecord <=> sealed[n] # NoRecord)
    BY <1>4, <2>2 DEF Intact
  <2>4. E = S
    BY <2>3 DEF Covered
  <2>5. S \subseteq Ids /\ \A n \in S : events[n] = sealed[n]
    BY <1>4 DEF Covered, Intact
  <2> HIDE DEF E, S
  <2>6. InIdOrder(S, events) = InIdOrder(S, sealed)
    BY <1>2, <2>5, SameRows
  <2> QED BY <2>4, <2>6 DEF E, S
<1> QED BY <1>1, <1>3, <1>4 DEF Intact

-----------------------------------------------------------------------------
(* The steps of ticks, of mutations and of whoever tampers *)

\* lastDigest, as a place in the chain.
LEMMA LastIsEnd ==
  ASSUME ChainTyped
  PROVE  /\ LastDigest.upTo = EndOf(digests) /\ EndOf(digests) \in Ids \cup {0} /\ EndOf(digests) \in Nat
         /\ LastDigest.digest \in Seq(RowLists)
         /\ LastDigest.digest = DigestBefore(digests, Len(digests) + 1)
         /\ EndOf(digests) = StartOf(digests, Len(digests) + 1)
         /\ Len(digests) \in Nat
<1>1. digests \in Seq(Segments) /\ Len(digests) \in Nat
  BY DEF ChainTyped
<1>2. CASE digests = <<>>
  <2>1. Len(digests) = 0
    BY <1>2
  <2> QED BY <1>2, <2>1 DEF LastDigest, EndOf, StartOf, DigestBefore, NoDigest
<1>3. CASE digests # <<>>
  <2>1. digests[Len(digests)] \in Segments /\ Len(digests) + 1 # 1 /\ Len(digests) + 1 - 1 = Len(digests)
    BY <1>1, <1>3
  <2>2. digests[Len(digests)].upTo \in Ids /\ digests[Len(digests)].digest \in Seq(RowLists)
    BY <2>1 DEF Segments
  <2>3. digests[Len(digests)].upTo \in Nat
    BY <2>2 DEF Ids
  <2> QED BY <1>1, <1>3, <2>1, <2>2, <2>3 DEF LastDigest, EndOf, StartOf, DigestBefore
<1> QED BY <1>2, <1>3

\* No rows, no segments and no ticks.
LEMMA ChainStarts == ChainInit => ChainKept
<1> SUFFICES ASSUME ChainInit PROVE ChainKept
  OBVIOUS
<1>1. events = [n \in Ids |-> NoRecord] /\ logged = 0 /\ digests = <<>> /\ seals = [t \in Sealers |-> AtRest]
      /\ sealed = [n \in Ids |-> NoRecord]
  BY DEF ChainInit
<1>2. AtRest \in Sealings /\ AtRest.pc = "idle"
  BY DEF AtRest, Sealings, NoDigest, RowLists
<1>3. ChainTyped
  <2>1. logged \in 0..MaxEvents
    BY <1>1, ChainAssumption
  <2>2. digests \in Seq(Segments)
    BY <1>1
  <2> QED BY <1>1, <1>2, <2>1, <2>2 DEF ChainTyped, AnyContent
<1>4. EndOf(digests) = 0 /\ DOMAIN digests = {}
  BY <1>1 DEF EndOf
<1>5. RangesKept
  BY <1>1, <1>4 DEF RangesKept, Ids
<1>6. \A t \in Sealers : TickKept(t)
  BY <1>1, <1>2 DEF TickKept
<1> QED BY <1>3, <1>4, <1>5, <1>6 DEF ChainKept

\* Events come up at the end, change or go; what has no row gets none.
LEMMA EventsMove ==
  ASSUME ChainKept, UNCHANGED <<digests, seals, sealed>>, logged' \in 0..MaxEvents, logged <= logged',
         events' \in [Ids -> AnyContent],
         \A n \in Ids : n <= logged /\ events[n] = NoRecord => events'[n] = NoRecord
  PROVE  ChainKept'
<1>1. digests' = digests /\ seals' = seals /\ sealed' = sealed /\ ChainTyped /\ logged \in Int
  BY DEF ChainKept, ChainTyped
<1>2. ChainTyped'
  BY <1>1 DEF ChainTyped
<1>3. RangesKept'
  <2>1. EndOf(digests) \in Nat /\ EndOf(digests) <= logged /\ logged' \in Int
    BY <1>1, LastIsEnd DEF ChainKept, RangesKept
  <2>2. ASSUME NEW n \in Ids, n <= EndOf(digests), sealed[n] = NoRecord
        PROVE  events'[n] = NoRecord
    <3>1. n <= logged
      BY <1>1, <2>1, <2>2 DEF Ids
    <3> QED BY <2>2, <3>1 DEF ChainKept, RangesKept
  <2>3. EndOf(digests) <= logged'
    BY <1>1, <2>1
  <2> QED BY <1>1, <2>2, <2>3 DEF ChainKept, RangesKept
<1>4. \A k \in DOMAIN digests' : SegmentKept(digests', sealed', k)
  BY <1>1 DEF ChainKept
<1>5. ASSUME NEW t \in Sealers
      PROVE  TickKept(t)'
  <2>1. TickKept(t)
    BY DEF ChainKept
  <2>2. ASSUME seals[t].pc = "append"
        PROVE  Batched(seals[t].rows, seals[t].upTo)'
    <3> DEFINE found == seals[t].rows
               from == seals[t].upTo
    <3>1. PICK A \in SUBSET Ids, x \in Ids, was \in [Ids -> AnyContent] :
            /\ found = InIdOrder(A, was) /\ found[Len(found)][1] = x
            /\ x \in A /\ x <= logged
            /\ \A n \in A : from < n /\ n <= x /\ was[n] # NoRecord
            /\ \A n \in Ids \ A : from < n /\ n <= x => events[n] = NoRecord
      BY <2>1, <2>2 DEF TickKept, Batched
    <3>2. x <= logged'
      BY <1>1, <3>1 DEF Ids
    <3>3. ASSUME NEW n \in Ids \ A, from < n, n <= x
          PROVE  events'[n] = NoRecord
      <4>1. n <= logged
        BY <1>1, <3>1, <3>3 DEF Ids
      <4> QED BY <3>1, <3>3, <4>1
    <3>4. found' = found /\ from' = from
      BY <1>1
    <3> HIDE DEF found, from
    <3>5. Batched(found, from)'
      BY <3>1, <3>2, <3>3, <3>4 DEF Batched
    <3> QED BY <3>5 DEF found, from
  <2> QED BY <1>1, <2>1, <2>2 DEF TickKept, LastDigest, EndOf
<1> QED BY <1>2, <1>3, <1>4, <1>5 DEF ChainKept

\* A tick goes on or stops, and the tables are as they were.
LEMMA SealMoves ==
  ASSUME ChainKept, NEW t \in Sealers, NEW q \in Sealings, seals' = [seals EXCEPT ![t] = q],
         UNCHANGED <<events, logged, digests, sealed>>,
         q.pc # "idle" => q.upTo = EndOf(digests) /\ q.prev = LastDigest.digest,
         q.pc = "append" => Batched(q.rows, q.upTo)
  PROVE  ChainKept'
<1>1. digests' = digests /\ events' = events /\ sealed' = sealed /\ logged' = logged /\ ChainTyped
  BY DEF ChainKept
<1>2. ChainTyped' /\ seals'[t] = q /\ \A u \in Sealers \ {t} : seals'[u] = seals[u]
  BY <1>1 DEF ChainTyped
<1>3. RangesKept'
  BY <1>1 DEF ChainKept, RangesKept
<1>4. \A k \in DOMAIN digests' : SegmentKept(digests', sealed', k)
  BY <1>1 DEF ChainKept
<1>5. ASSUME NEW u \in Sealers
      PROVE  TickKept(u)'
  <2>1. PICK y : y = seals'[u]
    OBVIOUS
  <2>2. /\ y.pc # "idle" => y.upTo = EndOf(digests) /\ y.prev = LastDigest.digest
        /\ y.pc = "append" => Batched(y.rows, y.upTo)
    BY <1>2, <2>1 DEF ChainKept, TickKept
  <2>3. y.pc = "append" => Batched(y.rows, y.upTo)'
    BY <1>1, <2>2 DEF Batched
  <2> QED BY <1>1, <2>1, <2>2, <2>3 DEF TickKept, LastDigest, EndOf, Batched
<1> QED BY <1>2, <1>3, <1>4, <1>5 DEF ChainKept

\* The query of a tick: the first rows behind the last segment.
LEMMA ReadEventsKeeps ==
  ASSUME ChainKept, NEW t \in Sealers, ReadEvents(t)
  PROVE  ChainKept'
<1> DEFINE from == seals[t].upTo
           K == {n \in Ids : from < n /\ n <= logged /\ events[n] # NoRecord}
           T == {n \in K : Rank(n, K) <= Batch}
           found == InIdOrder(T, events)
           q == [seals[t] EXCEPT !.pc = "append", !.rows = found]
<1>1. seals[t].pc = "read" /\ UNCHANGED <<events, logged, digests, sealed>>
      /\ seals' = [seals EXCEPT ![t] = IF found = <<>> THEN AtRest ELSE q]
  BY DEF ReadEvents, RowsIn
<1>2. ChainTyped /\ seals[t] \in Sealings /\ events \in [Ids -> AnyContent]
  BY DEF ChainKept, ChainTyped
<1>3. AtRest \in Sealings /\ AtRest.pc = "idle"
  BY DEF AtRest, Sealings, NoDigest, RowLists
<1>4. CASE found = <<>>
  <2>1. seals' = [seals EXCEPT ![t] = AtRest]
    BY <1>1, <1>4
  <2> QED BY <1>1, <1>3, <2>1, SealMoves
<1>5. CASE found # <<>>
  <2>1. T \subseteq Ids /\ K \subseteq Ids
    OBVIOUS
  <2>2. found \in RowLists
    <3> HIDE DEF T
    <3> QED BY <1>2, <2>1, RowsOrdered
  <2>3. K # {}
    <3> SUFFICES ASSUME K = {} PROVE found = <<>>
      BY <1>5
    <3>1. T = {}
      OBVIOUS
    <3> HIDE DEF T
    <3>2. Cardinality(T) = 0
      BY <2>1, <3>1, RankOrders
    <3>3. Len(found) = 0
      BY <1>2, <2>1, <3>2, RowsOrdered
    <3> HIDE DEF found
    <3> QED BY <2>2, <3>3 DEF RowLists
  <2>4. PICK x \in T : T = {n \in K : n <= x} /\ found[Len(found)][1] = x
    <3>1. Batch \in Nat \ {0}
      BY ChainAssumption
    <3> HIDE DEF K
    <3>2. PICK k, e, l : k = K /\ e = events /\ l = Batch
      OBVIOUS
    <3>3. k \subseteq Ids /\ k # {} /\ l \in Nat \ {0} /\ e \in [Ids -> AnyContent]
      BY <1>2, <2>1, <2>3, <3>1, <3>2
    <3>4. LET F == {n \in k : Rank(n, k) <= l}
          IN \E x \in F : F = {n \in k : n <= x} /\ InIdOrder(F, e)[Len(InIdOrder(F, e))][1] = x
      BY <3>3, FirstRows
    <3>5. \E x \in {n \in K : Rank(n, K) <= Batch} :
             /\ {n \in K : Rank(n, K) <= Batch} = {n \in K : n <= x}
             /\ InIdOrder({n \in K : Rank(n, K) <= Batch}, events)
                    [Len(InIdOrder({n \in K : Rank(n, K) <= Batch}, events))][1] = x
      BY <3>2, <3>4
    <3> QED BY <3>5
  <2>5. x \in Ids /\ x <= logged /\ \A n \in T : from < n /\ n <= x /\ events[n] # NoRecord
    BY <2>4
  <2>6. ASSUME NEW n \in Ids \ T, from < n, n <= x
        PROVE  events[n] = NoRecord
    <3>1. n <= logged
      BY <1>2, <2>5, <2>6 DEF Ids, ChainTyped
    <3>2. n \in K => n \in T
      BY <2>4, <2>6
    <3> QED BY <2>6, <3>1, <3>2
  <2> HIDE DEF T, found
  <2>7. found = InIdOrder(T, events)
    BY DEF found
  <2>8. Batched(found, from)
    BY <1>2, <2>1, <2>4, <2>5, <2>6, <2>7 DEF Batched
  <2>9. q \in Sealings /\ q.pc = "append" /\ q.rows = found /\ q.upTo = from /\ q.prev = seals[t].prev
    BY <1>2, <2>2 DEF Sealings
  <2>10. seals' = [seals EXCEPT ![t] = q]
    BY <1>1, <1>5
  <2>11. from = EndOf(digests) /\ seals[t].prev = LastDigest.digest
    BY <1>1 DEF ChainKept, TickKept
  <2> HIDE DEF q, from
  <2> QED BY <1>1, <2>8, <2>9, <2>10, <2>11, SealMoves
<1> QED BY <1>4, <1>5

\* One tick at a time.
Alone == \A s, t \in Sealers : s = t

\* What the insert makes of the history: the rows of the batch are sealed as they
\* were read, the others as before.
LEMMA SealsBatch ==
  ASSUME NEW A, A \subseteq Ids, NEW was \in [Ids -> AnyContent], NEW before \in [Ids -> AnyContent], NEW found,
         found = InIdOrder(A, was), \A n \in A : before[n] = NoRecord
  PROVE  [n \in Ids |-> IF before[n] = NoRecord /\ \E k \in DOMAIN found : found[k][1] = n
                        THEN found[CHOOSE k \in DOMAIN found : found[k][1] = n][2] ELSE before[n]]
         = [n \in Ids |-> IF n \in A THEN was[n] ELSE before[n]]
<1>1. DOMAIN found = 1..Cardinality(A)
  BY RowsOrdered
<1>2. \A k \in DOMAIN found : \E n \in A : found[k] = <<n, was[n]>>
  BY <1>1, RowsOrdered
<1>3. \A n \in A : \E k \in DOMAIN found : found[k] = <<n, was[n]>>
  BY <1>1, RowsOrdered
<1>4. ASSUME NEW n \in Ids
      PROVE  (IF before[n] = NoRecord /\ \E k \in DOMAIN found : found[k][1] = n
              THEN found[CHOOSE k \in DOMAIN found : found[k][1] = n][2] ELSE before[n])
             = IF n \in A THEN was[n] ELSE before[n]
  <2>1. CASE n \in A
    <3> DEFINE k == CHOOSE j \in DOMAIN found : found[j][1] = n
    <3>1. \E j \in DOMAIN found : found[j][1] = n
      BY <1>3, <2>1
    <3>2. k \in DOMAIN found /\ found[k][1] = n
      BY <3>1
    <3> HIDE DEF k
    <3>3. found[k][2] = was[n]
      BY <1>2, <3>2
    <3> QED BY <2>1, <3>1, <3>3 DEF k
  <2>2. CASE n \notin A
    <3>1. ~\E j \in DOMAIN found : found[j][1] = n
      BY <1>2, <2>2
    <3> QED BY <2>2, <3>1
  <2> QED BY <2>1, <2>2
<1> QED BY <1>4

\* The insert of a tick that nobody overtook: one segment more, and the others
\* stay what they are.
LEMMA AppendKeeps ==
  ASSUME ChainKept, Alone, NEW t \in Sealers, AppendSegment(t)
  PROVE  ChainKept'
<1> DEFINE found == seals[t].rows
           from == EndOf(digests)
           last == LastDigest.digest
<1>1. /\ seals[t].pc = "append" /\ events' = events /\ logged' = logged
      /\ digests' = Append(digests, [upTo |-> found[Len(found)][1], count |-> Len(found), prev |-> seals[t].prev,
                                     digest |-> Digest(seals[t].prev, found)])
      /\ sealed' = [n \in Ids |-> IF sealed[n] = NoRecord /\ \E k \in DOMAIN found : found[k][1] = n
                                  THEN found[CHOOSE k \in DOMAIN found : found[k][1] = n][2] ELSE sealed[n]]
      /\ seals' = [seals EXCEPT ![t] = AtRest]
  BY DEF AppendSegment
<1>2. /\ ChainTyped /\ RangesKept /\ TickKept(t) /\ \A k \in DOMAIN digests : SegmentKept(digests, sealed, k)
      /\ events \in [Ids -> AnyContent] /\ sealed \in [Ids -> AnyContent] /\ logged \in Int
      /\ digests \in Seq(Segments) /\ seals \in [Sealers -> Sealings]
  BY DEF ChainKept, ChainTyped
<1>3. seals[t].upTo = from /\ seals[t].prev = last
  BY <1>1, <1>2 DEF TickKept
<1>4. PICK A \in SUBSET Ids, x \in Ids, was \in [Ids -> AnyContent] :
        /\ found = InIdOrder(A, was) /\ found[Len(found)][1] = x
        /\ x \in A /\ x <= logged
        /\ \A n \in A : from < n /\ n <= x /\ was[n] # NoRecord
        /\ \A n \in Ids \ A : from < n /\ n <= x => events[n] = NoRecord
  <2>1. Batched(found, from)
    BY <1>1, <1>2, <1>3 DEF TickKept
  <2> HIDE DEF found, from
  <2> QED BY <2>1 DEF Batched
<1>5. /\ from \in Nat /\ last \in Seq(RowLists) /\ Len(digests) \in Nat
      /\ last = DigestBefore(digests, Len(digests) + 1) /\ from = StartOf(digests, Len(digests) + 1)
  BY <1>2, LastIsEnd
<1>6. \A n \in Ids : n \in Int
  BY DEF Ids
<1>7. \A n \in Ids : from < n => sealed[n] = NoRecord
  BY <1>2, <1>5, <1>6 DEF RangesKept
<1>8. sealed' = [n \in Ids |-> IF n \in A THEN was[n] ELSE sealed[n]]
  <2>1. \A n \in A : sealed[n] = NoRecord
    BY <1>4, <1>7
  <2>2. PICK b, w : b = sealed /\ w = found
    OBVIOUS
  <2>3. sealed' = [n \in Ids |-> IF b[n] = NoRecord /\ \E k \in DOMAIN w : w[k][1] = n
                                 THEN w[CHOOSE k \in DOMAIN w : w[k][1] = n][2] ELSE b[n]]
    BY <1>1, <2>2
  <2>4. b \in [Ids -> AnyContent] /\ w = InIdOrder(A, was) /\ \A n \in A : b[n] = NoRecord
    BY <1>2, <1>4, <2>1, <2>2
  <2>5. A \subseteq Ids
    OBVIOUS
  <2>6. [n \in Ids |-> IF b[n] = NoRecord /\ \E k \in DOMAIN w : w[k][1] = n
                       THEN w[CHOOSE k \in DOMAIN w : w[k][1] = n][2] ELSE b[n]]
        = [n \in Ids |-> IF n \in A THEN was[n] ELSE b[n]]
    BY ONLY <2>4, <2>5, was \in [Ids -> AnyContent], SealsBatch
  <2> QED BY <2>2, <2>3, <2>6
<1>9. sealed' \in [Ids -> AnyContent] /\ (\A n \in A : sealed'[n] = was[n]) /\ \A n \in Ids \ A : sealed'[n] = sealed[n]
  BY <1>2, <1>8
<1>10. found \in RowLists /\ Len(found) = Cardinality(A) /\ Cardinality(A) \in Nat
  BY <1>4, RowsOrdered, RankOrders
<1> DEFINE s == [upTo |-> x, count |-> Cardinality(A), prev |-> last, digest |-> Append(last, found)]
<1>11. digests' = Append(digests, s)
  BY <1>1, <1>3, <1>4, <1>10 DEF Digest
<1>12. s \in Segments
  BY <1>5, <1>10 DEF Segments
<1> HIDE DEF found, from, last
<1>13. /\ digests' \in Seq(Segments) /\ Len(digests') = Len(digests) + 1 /\ DOMAIN digests' = 1..(Len(digests) + 1)
       /\ digests'[Len(digests) + 1] = s /\ DOMAIN digests = 1..Len(digests)
       /\ \A k \in 1..Len(digests) : digests'[k] = digests[k]
       /\ digests' # <<>>
  <2> HIDE DEF s
  <2> QED BY <1>2, <1>5, <1>11, <1>12
<1>14. EndOf(digests') = x
  BY <1>13 DEF EndOf
<1>15. \A k \in 1..(Len(digests) + 1) :
         StartOf(digests', k) = StartOf(digests, k) /\ DigestBefore(digests', k) = DigestBefore(digests, k)
  <2> TAKE k \in 1..(Len(digests) + 1)
  <2>1. k # 1 => k - 1 \in 1..Len(digests)
    BY <1>5
  <2> QED BY <1>13, <2>1 DEF StartOf, DigestBefore
<1>16. ChainTyped'
  <2>1. AtRest \in Sealings
    BY DEF AtRest, Sealings, NoDigest, RowLists
  <2>2. seals' \in [Sealers -> Sealings]
    BY <1>1, <1>2, <2>1
  <2> QED BY <1>1, <1>2, <1>9, <1>13, <2>2 DEF ChainTyped
<1>17. from < x
  BY <1>4
<1>18. RangesKept'
  <2>1. ASSUME NEW n \in Ids, sealed'[n] # NoRecord
        PROVE  n <= x /\ \E k \in DOMAIN digests' : StartOf(digests', k) < n /\ n <= digests'[k].upTo
    <3>1. CASE n \in A
      <4>1. n <= x /\ StartOf(digests', Len(digests) + 1) < n /\ digests'[Len(digests) + 1].upTo = x
        BY <1>4, <1>5, <1>13, <1>15, <3>1
      <4> QED BY <1>5, <1>13, <4>1
    <3>2. CASE n \notin A
      <4>1. n <= from /\ \E k \in DOMAIN digests : StartOf(digests, k) < n /\ n <= digests[k].upTo
        BY <1>2, <1>9, <2>1, <3>2 DEF RangesKept, from
      <4>2. PICK k \in 1..Len(digests) : StartOf(digests, k) < n /\ n <= digests[k].upTo
        BY <1>13, <4>1
      <4>3. k \in 1..(Len(digests) + 1)
        BY <1>5
      <4>4. n <= x
        BY <1>5, <1>6, <1>17, <4>1
      <4> QED BY <1>13, <1>15, <4>2, <4>3, <4>4
    <3> QED BY <3>1, <3>2
  <2>2. ASSUME NEW n \in Ids, n <= x, sealed'[n] = NoRecord
        PROVE  events[n] = NoRecord
    <3>1. n \notin A
      BY <1>4, <1>9, <2>2
    <3>2. CASE from < n
      BY <1>4, <2>2, <3>1, <3>2
    <3>3. CASE n <= from
      BY <1>2, <1>9, <2>2, <3>1, <3>3 DEF RangesKept, from
    <3> QED BY <1>5, <1>6, <3>2, <3>3
  <2> QED BY <1>1, <1>4, <1>14, <2>1, <2>2 DEF RangesKept
<1>19. ASSUME NEW k \in 1..Len(digests)
       PROVE  SegmentKept(digests', sealed', k)
  <2> DEFINE low == StartOf(digests, k)
             top == digests[k].upTo
             S == Covered(sealed, low, top)
  <2>1. k \in DOMAIN digests /\ k \in 1..(Len(digests) + 1)
    BY <1>5, <1>13
  <2>2. /\ low < top /\ top <= from
        /\ digests[k].prev = DigestBefore(digests, k)
        /\ digests[k].digest = Append(DigestBefore(digests, k), InIdOrder(S, sealed))
        /\ digests[k].count = Cardinality(S)
    BY <1>2, <2>1 DEF SegmentKept, from
  <2>3. top \in Int
    <3>1. digests[k] \in Segments
      BY <1>2, <1>13
    <3> QED BY <1>6, <3>1 DEF Segments
  <2>4. \A n \in Ids : n <= top => n \notin A /\ sealed'[n] = sealed[n]
    <3> HIDE DEF top
    <3> QED BY <1>4, <1>5, <1>6, <1>9, <2>2, <2>3
  <2>5. Covered(sealed', low, top) = S
    BY <2>4 DEF Covered
  <2>6. S \subseteq Ids /\ \A n \in S : sealed'[n] = sealed[n]
    BY <2>4 DEF Covered
  <2>7. InIdOrder(S, sealed') = InIdOrder(S, sealed)
    <3> HIDE DEF S
    <3> QED BY <1>2, <1>9, <2>6, SameRows
  <2>8. top <= x
    <3> HIDE DEF top
    <3> QED BY <1>5, <1>6, <1>17, <2>2, <2>3
  <2> QED BY <1>13, <1>14, <1>15, <2>1, <2>2, <2>5, <2>7, <2>8 DEF SegmentKept
<1>20. SegmentKept(digests', sealed', Len(digests) + 1)
  <2>1. StartOf(digests', Len(digests) + 1) = from /\ DigestBefore(digests', Len(digests) + 1) = last
    BY <1>5, <1>15
  <2>2. Covered(sealed', from, x) = A
    <3>1. ASSUME NEW n \in Ids, from < n, n <= x, sealed'[n] # NoRecord
          PROVE  n \in A
      BY <1>7, <1>9, <3>1
    <3> QED BY <1>4, <1>9, <3>1 DEF Covered
  <2>3. InIdOrder(A, sealed') = found
    BY <1>4, <1>9, SameRows
  <2>4. x <= x
    BY <1>6
  <2> QED BY <1>13, <1>14, <1>17, <2>1, <2>2, <2>3, <2>4 DEF SegmentKept
<1>21. \A k \in DOMAIN digests' : SegmentKept(digests', sealed', k)
  <2>1. \A k \in DOMAIN digests' : k \in 1..Len(digests) \/ k = Len(digests) + 1
    BY <1>5, <1>13
  <2> QED BY <1>19, <1>20, <2>1
<1>22. \A u \in Sealers : TickKept(u)'
  <2> TAKE u \in Sealers
  <2>1. u = t
    BY DEF Alone
  <2>2. seals'[u] = AtRest
    BY <1>1, <1>2, <2>1
  <2> QED BY <2>2 DEF TickKept, AtRest
<1> QED BY <1>16, <1>18, <1>21, <1>22 DEF ChainKept

\* Every step of a lone tick, of mutations and of whoever tampers.
LEMMA ChainStepKept == Alone /\ ChainKept /\ [ChainNext]_chain => ChainKept'
<1> SUFFICES ASSUME Alone, ChainKept, [ChainNext]_chain
             PROVE  ChainKept'
  OBVIOUS
<1>1. ChainTyped /\ logged \in 0..MaxEvents /\ events \in [Ids -> AnyContent] /\ MaxEvents \in Nat
  BY ChainAssumption DEF ChainKept, ChainTyped
<1>2. AtRest \in Sealings /\ AtRest.pc = "idle" /\ AtRest.rows \in RowLists
  BY DEF AtRest, Sealings, NoDigest, RowLists
<1>3. CASE LogEvent
  <2>1. PICK c \in Contents : events' = [events EXCEPT ![logged'] = c]
    BY <1>3 DEF LogEvent
  <2>2. logged' = logged + 1 /\ logged < MaxEvents /\ UNCHANGED <<digests, seals, sealed>>
    BY <1>3 DEF LogEvent
  <2>3. events' \in [Ids -> AnyContent] /\ \A n \in Ids : n <= logged => events'[n] = events[n]
    BY <1>1, <2>1, <2>2 DEF AnyContent, Ids
  <2>4. logged' \in 0..MaxEvents /\ logged <= logged'
    BY <1>1, <2>2
  <2> QED BY <2>2, <2>3, <2>4, EventsMove
<1>4. ASSUME NEW n \in Ids, Tamper(n)
      PROVE  ChainKept'
  <2>1. PICK c \in AnyContent : events' = [events EXCEPT ![n] = c]
    BY <1>4 DEF Tamper, AnyContent
  <2>2. events[n] # NoRecord /\ UNCHANGED <<logged, digests, seals, sealed>>
    BY <1>4 DEF Tamper
  <2>3. events' \in [Ids -> AnyContent] /\ \A m \in Ids : events[m] = NoRecord => events'[m] = NoRecord
    BY <1>1, <2>1, <2>2
  <2>4. logged' \in 0..MaxEvents /\ logged <= logged'
    BY <1>1, <2>2
  <2> QED BY <2>2, <2>3, <2>4, EventsMove
<1>5. ASSUME NEW t \in Sealers, ReadLast(t)
      PROVE  ChainKept'
  <2> DEFINE q == [AtRest EXCEPT !.pc = "read", !.upTo = LastDigest.upTo, !.prev = LastDigest.digest]
  <2>1. seals' = [seals EXCEPT ![t] = q] /\ UNCHANGED <<events, logged, digests, sealed>>
    BY <1>5 DEF ReadLast
  <2>2. LastDigest.upTo = EndOf(digests) /\ EndOf(digests) \in Ids \cup {0} /\ LastDigest.digest \in Seq(RowLists)
    BY <1>1, LastIsEnd
  <2>3. q \in Sealings /\ q.pc = "read" /\ q.upTo = EndOf(digests) /\ q.prev = LastDigest.digest
    BY <1>2, <2>2 DEF Sealings
  <2> HIDE DEF q
  <2> QED BY <2>1, <2>3, SealMoves
<1>6. ASSUME NEW t \in Sealers, SealFails(t)
      PROVE  ChainKept'
  <2>1. seals' = [seals EXCEPT ![t] = AtRest] /\ UNCHANGED <<events, logged, digests, sealed>>
    BY <1>6 DEF SealFails
  <2> QED BY <1>2, <2>1, SealMoves
<1>7. ASSUME NEW t \in Sealers, ReadEvents(t)
      PROVE  ChainKept'
  BY <1>7, ReadEventsKeeps
<1>8. ASSUME NEW t \in Sealers, AppendSegment(t)
      PROVE  ChainKept'
  BY <1>8, AppendKeeps
<1>9. CASE UNCHANGED chain
  <2>1. UNCHANGED <<events, logged, digests, seals, sealed>>
    BY <1>9 DEF chain
  <2>2. logged' \in 0..MaxEvents /\ logged <= logged' /\ events' \in [Ids -> AnyContent]
        /\ \A n \in Ids : events[n] = NoRecord => events'[n] = NoRecord
    BY <1>1, <2>1
  <2> QED BY <2>1, <2>2, EventsMove
<1> QED BY <1>3, <1>4, <1>5, <1>6, <1>7, <1>8, <1>9 DEF ChainNext, Seal

\* With one tick at a time the verifier accepts the chain exactly as long as no
\* sealed event was altered or deleted (verifyAuditChain), whichever ticks fail.
THEOREM VerdictTrueHolds == (\A s, t \in Sealers : s = t) => (ChainSpec => []VerdictTrue)
<1>1. ChainInit => ChainKept
  BY ChainStarts
<1>2. Alone /\ ChainKept /\ [ChainNext]_chain => ChainKept'
  BY ChainStepKept
<1>3. ChainKept => VerdictTrue
  BY KeptVerdict
<1>4. Alone <=> \A s, t \in Sealers : s = t
  BY DEF Alone
<1>5. ASSUME Alone PROVE ChainSpec => []VerdictTrue
  <2>1. ChainKept /\ [ChainNext]_chain => ChainKept'
    BY <1>2, <1>5
  <2> QED BY <1>1, <1>3, <2>1, PTL DEF ChainSpec
<1> QED BY <1>4, <1>5

-----------------------------------------------------------------------------
(***************************************************************************)
(* Imports of the catalog: what a preview read stands as long as the       *)
(* generation does, because whatever changes a row counts it up.           *)
(***************************************************************************)

\* What a preview shows of the rows its manifest names is what there is.
Showing(m, before) ==
  /\ before = [e \in Entries |-> IF e \in Named(m) THEN rows[e] ELSE None]
  /\ Dependable(m)

\* A manifest has the plan of every plan feature it has.
Nested(m) == \A s \in DOMAIN PlanFeatures : m[s] # None => m[PlanFeatures[s].plan] # None

\* A request that is under way waits where its kind goes, and what a preview
\* has read is still there unless the generation went on.
PostKept(x) ==
  /\ x.pc \notin {"new", "done"} =>
       /\ x = [pc |-> x.pc, req |-> x.req, seen |-> x.seen, generation |-> x.generation,
               over |-> x.over, tries |-> x.tries]
       /\ x.req \in Asked /\ x.generation \in Nat /\ x.generation <= generation
  /\ x.pc = "dedup" => x.req.op # "preview"
  /\ x.pc \in {"snapshot", "persist"} => x.req.op = "preview"
  /\ x.pc \in {"load", "apply"} => x.req.op = "import"
  /\ x.pc \in {"depends", "read", "write"} => x.req.op \in Edits
  /\ x.pc = "persist" /\ x.generation = generation => Showing(x.req.manifest, x.seen)

\* A preview that can be applied shows what is there unless the generation went on.
ShownKept(v) ==
  v.state = "open" =>
    /\ v = [state |-> v.state, actor |-> v.actor, generation |-> v.generation, manifest |-> v.manifest,
            before |-> v.before, lapsed |-> v.lapsed]
    /\ v.generation \in Nat /\ v.generation <= generation
    /\ Nested(v.manifest)
    /\ v.generation = generation => Showing(v.manifest, v.before)

CatalogTables ==
  /\ rows = [e \in Entries |-> rows[e]] /\ generation \in Nat
  /\ trail = [e \in Entries |-> trail[e]] /\ \A e \in Entries : \E S : trail[e] \in Seq(S)
  /\ shown = [p \in Previews |-> shown[p]]
  /\ calls = [c \in Calls |-> calls[c]]

CatalogKept ==
  /\ CatalogTables
  /\ \A c \in Calls : PostKept(calls[c])
  /\ \A p \in Previews : ShownKept(shown[p])

\* Rows change only when the generation goes on.
Ahead == generation' \in Nat /\ generation <= generation' /\ (generation' = generation => rows' = rows)

\* What was kept is kept by whatever counts the generation up.
LEMMA StaysKept ==
  ASSUME CatalogKept, Ahead, NEW x
  PROVE  /\ PostKept(x) => PostKept(x)'
         /\ ShownKept(x) => ShownKept(x)'
<1>0. generation \in Nat
  BY DEF CatalogKept, CatalogTables
<1>1. generation' = generation => \A m, b : Showing(m, b) => Showing(m, b)'
  BY DEF Ahead, Showing, Dependable, Named, Usable
<1>2. ASSUME PostKept(x) PROVE PostKept(x)'
  <2>1. x.generation \in Nat /\ x.generation <= generation /\ x.generation = generation' => generation' = generation
    BY <1>0 DEF Ahead
  <2>2. x.generation \in Nat /\ x.generation <= generation => x.generation <= generation'
    BY <1>0 DEF Ahead
  <2>3. x.pc = "persist" /\ x.generation = generation' => Showing(x.req.manifest, x.seen)'
    BY <1>1, <1>2, <2>1 DEF PostKept
  <2> QED BY <1>2, <2>2, <2>3 DEF PostKept
<1>3. ASSUME ShownKept(x) PROVE ShownKept(x)'
  <2>1. x.generation \in Nat /\ x.generation <= generation /\ x.generation = generation' => generation' = generation
    BY <1>0 DEF Ahead
  <2>2. x.generation \in Nat /\ x.generation <= generation => x.generation <= generation'
    BY <1>0 DEF Ahead
  <2>3. x.state = "open" /\ x.generation = generation' => Showing(x.manifest, x.before)'
    BY <1>1, <1>3, <2>1 DEF ShownKept
  <2> QED BY <1>3, <2>2, <2>3 DEF ShownKept, Nested
<1> QED BY <1>2, <1>3

\* A step in which one request goes on, or none does, and no row or preview changes.
LEMMA PostsKeep ==
  ASSUME CatalogKept, Ahead, NEW c \in Calls, NEW y, calls' = [calls EXCEPT ![c] = y], PostKept(y)',
         rows' = [e \in Entries |-> rows'[e]],
         trail' = [e \in Entries |-> trail'[e]], \A e \in Entries : \E S : trail'[e] \in Seq(S),
         shown' = [p \in Previews |-> shown'[p]],
         \A p \in Previews : shown'[p] = shown[p] \/ \E v : v = shown'[p] /\ ShownKept(v)'
  PROVE  CatalogKept'
<1>1. calls' = [d \in Calls |-> calls'[d]] /\ \A d \in Calls : calls'[d] = IF d = c THEN y ELSE calls[d]
  BY DEF CatalogKept, CatalogTables
<1>2. CatalogTables'
  BY <1>1 DEF CatalogTables, Ahead
<1>3. ASSUME NEW d \in Calls PROVE PostKept(calls[d])'
  <2>1. PICK z : z = calls'[d]
    OBVIOUS
  <2>2. PostKept(z)'
    <3>1. CASE d = c
      BY <1>1, <2>1, <3>1
    <3>2. CASE d # c
      BY <1>1, <2>1, <3>2, StaysKept DEF CatalogKept
    <3> QED BY <3>1, <3>2
  <2> QED BY <2>1, <2>2 DEF PostKept, Showing, Dependable, Named, Usable
<1>4. ASSUME NEW p \in Previews PROVE ShownKept(shown[p])'
  <2>1. PICK z : z = shown'[p]
    OBVIOUS
  <2>2. ShownKept(z)'
    BY <2>1, StaysKept DEF CatalogKept
  <2> QED BY <2>1, <2>2 DEF ShownKept, Showing, Dependable, Named, Usable, Nested
<1> QED BY <1>2, <1>3, <1>4 DEF CatalogKept

\* A step that changes no table keeps them and what is known of them.
LEMMA ReadsKept ==
  ASSUME CatalogKept, NEW c \in Calls, NEW y, calls' = [calls EXCEPT ![c] = y], PostKept(y), UNCHANGED tables
  PROVE  CatalogKept'
<1>1. rows' = rows /\ trail' = trail /\ generation' = generation /\ shown' = shown
  BY DEF tables
<1>2. Ahead
  BY <1>1 DEF Ahead, CatalogKept, CatalogTables
<1>3. PostKept(y)'
  BY <1>2, StaysKept
<1>4. /\ rows' = [e \in Entries |-> rows'[e]] /\ trail' = [e \in Entries |-> trail'[e]]
      /\ shown' = [p \in Previews |-> shown'[p]]
      /\ \A e \in Entries : \E S : trail'[e] \in Seq(S)
  BY <1>1 DEF CatalogKept, CatalogTables
<1> QED BY <1>1, <1>2, <1>3, <1>4, PostsKeep

\* An answered request is about nothing.
LEMMA DoneKept ==
  ASSUME NEW c \in Calls, Done(c)
  PROVE  \E y : calls' = [calls EXCEPT ![c] = y] /\ y.pc = "done" /\ PostKept(y)
<1>1. PICK y : y = [pc |-> "done"]
  OBVIOUS
<1>2. y.pc = "done" /\ calls' = [calls EXCEPT ![c] = y]
  BY <1>1 DEF Done
<1>3. PostKept(y)
  BY <1>2 DEF PostKept
<1> QED BY <1>2, <1>3

\* A request that goes on is still what it was.
LEMMA GoesKept ==
  ASSUME CatalogKept, NEW c \in Calls, calls[c].pc \notin {"new", "done"}, NEW pc, Goto(c, pc)
  PROVE  \E y : /\ calls' = [calls EXCEPT ![c] = y]
                /\ y = [pc |-> pc, req |-> Req(c), seen |-> calls[c].seen, generation |-> calls[c].generation,
                        over |-> calls[c].over, tries |-> calls[c].tries]
                /\ Req(c) \in Asked /\ y.generation \in Nat /\ y.generation <= generation
<1>1. PICK x : x = calls[c]
  OBVIOUS
<1>2. /\ x = [pc |-> x.pc, req |-> x.req, seen |-> x.seen, generation |-> x.generation,
              over |-> x.over, tries |-> x.tries]
      /\ x.req \in Asked /\ x.generation \in Nat /\ x.generation <= generation
  BY <1>1 DEF CatalogKept, PostKept
<1>3. [x EXCEPT !.pc = pc] = [pc |-> pc, req |-> x.req, seen |-> x.seen, generation |-> x.generation,
                              over |-> x.over, tries |-> x.tries]
  BY <1>2
<1>4. calls' = [calls EXCEPT ![c] = [x EXCEPT !.pc = pc]]
  BY <1>1 DEF Goto
<1> QED BY <1>1, <1>2, <1>3, <1>4 DEF Req

\* A request goes on to where its kind goes.
LEMMA TurnsKept ==
  ASSUME CatalogKept, NEW c \in Calls, calls[c].pc \notin {"new", "done"}, NEW pc, Goto(c, pc),
         \/ pc \in {"settle", "remember"}
         \/ pc \in {"depends", "read", "write"} /\ Req(c).op \in Edits
         \/ pc \in {"load", "apply"} /\ Req(c).op = "import",
         UNCHANGED tables
  PROVE  CatalogKept'
<1>1. PICK y : /\ calls' = [calls EXCEPT ![c] = y]
               /\ y = [pc |-> pc, req |-> Req(c), seen |-> calls[c].seen, generation |-> calls[c].generation,
                       over |-> calls[c].over, tries |-> calls[c].tries]
               /\ Req(c) \in Asked /\ y.generation \in Nat /\ y.generation <= generation
  BY GoesKept
<1>2. y.pc = pc /\ y.req = Req(c)
  BY <1>1
<1>3. PostKept(y)
  BY <1>1, <1>2 DEF PostKept
<1> QED BY <1>1, <1>3, ReadsKept

\* What a request under way waits for says what it asks.
LEMMA PostIs ==
  ASSUME CatalogKept, NEW c \in Calls
  PROVE  /\ calls[c].pc \notin {"new", "done"} => Req(c) \in Asked /\ calls[c].generation \in Nat
         /\ calls[c].pc = "dedup" => Req(c).op # "preview"
         /\ calls[c].pc \in {"snapshot", "persist"} => Req(c).op = "preview"
         /\ calls[c].pc \in {"load", "apply"} => Req(c).op = "import"
         /\ calls[c].pc \in {"depends", "read", "write"} => Req(c).op \in Edits
BY DEF CatalogKept, PostKept, Req

\* What a parsed request may ask.
LEMMA AskedIs ==
  ASSUME CatalogAssumption, NEW r \in Asked
  PROVE  /\ r.op \in Edits \cup {"preview", "import"}
         /\ r.op \in Edits => r.entry \in Entries
         /\ r.op = "import" => r.preview \in Previews
         /\ r.op = "preview" => Nested(r.manifest)
BY DEF CatalogAssumption, Parsed, Nested

\* Arrival and the steps that only read.
LEMMA LooksKept ==
  ASSUME CatalogAssumption, CatalogKept, NEW c \in Calls,
         \/ \E r \in Asked : Arrive(c, r)
         \/ Dedup(c) \/ Depends(c) \/ ReadEntry(c) \/ Settle(c) \/ Load(c) \/ Stop(c)
  PROVE  CatalogKept'
<1>0. CASE Done(c) /\ UNCHANGED tables
  BY <1>0, DoneKept, ReadsKept
<1>1. CASE \E r \in Asked : Arrive(c, r)
  <2>1. PICK r \in Asked : Arrive(c, r)
    BY <1>1
  <2>2. PICK y : y = [pc |-> IF r.op = "preview" THEN "snapshot" ELSE "dedup", req |-> r, seen |-> None,
                      generation |-> 0, over |-> Over, tries |-> 1]
    OBVIOUS
  <2>3. calls' = [calls EXCEPT ![c] = y] /\ UNCHANGED tables
    BY <2>1, <2>2 DEF Arrive
  <2>4. y.pc = (IF r.op = "preview" THEN "snapshot" ELSE "dedup") /\ y.req = r /\ y.generation = 0
    BY <2>2
  <2>5. 0 <= generation
    BY DEF CatalogKept, CatalogTables
  <2>6. PostKept(y)
    BY <2>2, <2>4, <2>5 DEF PostKept
  <2> QED BY <2>3, <2>6, ReadsKept
<1>2. CASE Dedup(c)
  <2> DEFINE first == CASE Req(c).op = "create" -> "write" [] Req(c).op = "save" -> "depends"
                        [] Req(c).op = "import" -> "load" [] OTHER -> "read"
  <2>1. calls[c].pc = "dedup" /\ UNCHANGED tables
        /\ (Done(c) \/ calls' = [calls EXCEPT ![c].pc = first, ![c].over = Over])
    BY <1>2 DEF Dedup, At
  <2>2. PICK x : x = calls[c]
    OBVIOUS
  <2>3. /\ x = [pc |-> x.pc, req |-> x.req, seen |-> x.seen, generation |-> x.generation,
                over |-> x.over, tries |-> x.tries]
        /\ x.req \in Asked /\ x.generation \in Nat /\ x.generation <= generation
        /\ x.req.op # "preview" /\ x.req = Req(c)
    BY <2>1, <2>2 DEF CatalogKept, PostKept, Req
  <2>4. \/ first \in {"write", "depends", "read"} /\ x.req.op \in Edits
        \/ first = "load" /\ x.req.op = "import"
    BY <2>3, AskedIs DEF Edits, Switches
  <2> HIDE DEF first
  <2>5. CASE calls' = [calls EXCEPT ![c].pc = first, ![c].over = Over]
    <3>1. PICK y : y = [pc |-> first, req |-> x.req, seen |-> x.seen, generation |-> x.generation,
                        over |-> Over, tries |-> x.tries]
      OBVIOUS
    <3>2. PICK z : z = [x EXCEPT !.pc = first]
      OBVIOUS
    <3>3. calls' = [calls EXCEPT ![c] = y]
      <4>1. z = [pc |-> first, req |-> x.req, seen |-> x.seen, generation |-> x.generation,
                 over |-> x.over, tries |-> x.tries]
        BY <2>3, <3>2
      <4>2. [z EXCEPT !.over = Over] = y
        BY <3>1, <4>1
      <4>3. calls' = [calls EXCEPT ![c] = [z EXCEPT !.over = Over]]
        BY <2>2, <2>5, <3>2
      <4> QED BY <4>2, <4>3
    <3>4. y.pc = first /\ y.req = x.req /\ y.generation = x.generation
      BY <3>1
    <3>5. PostKept(y)
      BY <2>3, <2>4, <3>1, <3>4 DEF PostKept
    <3> QED BY <2>1, <3>3, <3>5, ReadsKept
  <2> QED BY <1>0, <2>1, <2>5
<1>3. CASE Depends(c)
  BY <1>0, <1>3, PostIs, TurnsKept DEF Depends, At
<1>4. CASE ReadEntry(c)
  <2>1. calls[c].pc = "read" /\ UNCHANGED tables
        /\ (Done(c) \/ calls' = [calls EXCEPT ![c].pc = "write", ![c].seen = rows[Req(c).entry]])
    BY <1>4 DEF ReadEntry, At
  <2>2. PICK x, row : x = calls[c] /\ row = rows[Req(c).entry]
    OBVIOUS
  <2>3. /\ x = [pc |-> x.pc, req |-> x.req, seen |-> x.seen, generation |-> x.generation,
                over |-> x.over, tries |-> x.tries]
        /\ x.req \in Asked /\ x.generation \in Nat /\ x.generation <= generation
        /\ x.req.op \in Edits
    BY <2>1, <2>2 DEF CatalogKept, PostKept
  <2>4. CASE calls' = [calls EXCEPT ![c].pc = "write", ![c].seen = rows[Req(c).entry]]
    <3>1. PICK y : y = [pc |-> "write", req |-> x.req, seen |-> row, generation |-> x.generation,
                        over |-> x.over, tries |-> x.tries]
      OBVIOUS
    <3>2. PICK z : z = [x EXCEPT !.pc = "write"]
      OBVIOUS
    <3>3. calls' = [calls EXCEPT ![c] = y]
      <4>1. z = [pc |-> "write", req |-> x.req, seen |-> x.seen, generation |-> x.generation,
                 over |-> x.over, tries |-> x.tries]
        BY <2>3, <3>2
      <4>2. [z EXCEPT !.seen = row] = y
        BY <3>1, <4>1
      <4>3. calls' = [calls EXCEPT ![c] = [z EXCEPT !.seen = row]]
        BY <2>2, <2>4, <3>2
      <4> QED BY <4>2, <4>3
    <3>4. y.pc = "write" /\ y.req = x.req /\ y.generation = x.generation
      BY <3>1
    <3>5. PostKept(y)
      BY <2>3, <3>1, <3>4 DEF PostKept
    <3> QED BY <2>1, <3>3, <3>5, ReadsKept
  <2> QED BY <1>0, <2>1, <2>4
<1>5. CASE Settle(c)
  BY <1>0, <1>5, TurnsKept DEF Settle, At
<1>6. CASE Load(c)
  BY <1>0, <1>6, PostIs, TurnsKept DEF Load, At
<1>7. CASE Stop(c)
  BY <1>0, <1>7 DEF Stop
<1> QED BY <1>1, <1>2, <1>3, <1>4, <1>5, <1>6, <1>7

\* The reads of a preview.
LEMMA SnapshotKept ==
  ASSUME CatalogKept, NEW c \in Calls, Snapshot(c)
  PROVE  CatalogKept'
<1> DEFINE m == Req(c).manifest
           seen == [e \in Entries |-> IF e \in Named(m) THEN rows[e] ELSE None]
<1>1. CASE Done(c) /\ UNCHANGED tables
  BY <1>1, DoneKept, ReadsKept
<1>2. CASE Dependable(m) /\ calls' = [calls EXCEPT ![c].pc = "persist", ![c].generation = generation, ![c].seen = seen]
  <2>1. calls[c].pc = "snapshot" /\ UNCHANGED tables
    BY DEF Snapshot, At
  <2>2. Showing(m, seen)
    BY <1>2 DEF Showing
  <2> HIDE DEF seen, m
  <2>3. PICK x : x = calls[c]
    OBVIOUS
  <2>4. /\ x = [pc |-> x.pc, req |-> x.req, seen |-> x.seen, generation |-> x.generation,
                over |-> x.over, tries |-> x.tries]
        /\ x.req \in Asked /\ x.req.op = "preview" /\ m = x.req.manifest
    BY <2>1, <2>3 DEF CatalogKept, PostKept, Req, m
  <2>5. PICK y : y = [pc |-> "persist", req |-> x.req, seen |-> seen, generation |-> generation,
                      over |-> x.over, tries |-> x.tries]
    OBVIOUS
  <2>6. PICK z : z = [x EXCEPT !.pc = "persist"]
    OBVIOUS
  <2>7. PICK w : w = [z EXCEPT !.generation = generation]
    OBVIOUS
  <2>8. z = [pc |-> "persist", req |-> x.req, seen |-> x.seen, generation |-> x.generation,
             over |-> x.over, tries |-> x.tries]
    BY <2>4, <2>6
  <2>9. w = [pc |-> "persist", req |-> x.req, seen |-> x.seen, generation |-> generation,
             over |-> x.over, tries |-> x.tries]
    BY <2>7, <2>8
  <2>10. [w EXCEPT !.seen = seen] = y
    BY <2>5, <2>9
  <2>11. calls' = [calls EXCEPT ![c] = [w EXCEPT !.seen = seen]]
    BY <1>2, <2>3, <2>6, <2>7
  <2>12. y.pc = "persist" /\ y.req = x.req /\ y.seen = seen /\ y.generation = generation
    BY <2>5
  <2>13. generation \in Nat /\ generation <= generation
    BY DEF CatalogKept, CatalogTables
  <2>14. PostKept(y)
    BY <2>2, <2>4, <2>5, <2>12, <2>13 DEF PostKept
  <2> QED BY <2>1, <2>10, <2>11, <2>14, ReadsKept
<1> QED BY <1>1, <1>2 DEF Snapshot

\* A preview is stored only while what it read stands.
LEMMA PersistKept ==
  ASSUME CatalogAssumption, CatalogKept, NEW c \in Calls, Persist(c)
  PROVE  CatalogKept'
<1> DEFINE unused == {p \in Previews : shown[p].state = "none"}
           id == CHOOSE p \in unused : TRUE
           made == [state |-> "open", actor |-> Req(c).actor, generation |-> generation, manifest |-> Req(c).manifest,
                    before |-> calls[c].seen, lapsed |-> FALSE]
<1>1. calls[c].pc = "persist" /\ unused # {} /\ UNCHANGED <<rows, trail, generation>>
  BY DEF Persist, At
<1>2. Ahead
  BY <1>1 DEF Ahead, CatalogKept, CatalogTables
<1>3. PICK x : x = calls[c]
  OBVIOUS
<1>4. /\ x = [pc |-> x.pc, req |-> x.req, seen |-> x.seen, generation |-> x.generation,
              over |-> x.over, tries |-> x.tries]
      /\ x.req \in Asked /\ x.req.op = "preview" /\ x.req = Req(c)
      /\ x.generation \in Nat /\ x.generation <= generation
      /\ x.generation = generation => Showing(x.req.manifest, x.seen)
  BY <1>1, <1>3 DEF CatalogKept, PostKept, Req
<1>5. id \in Previews
  BY <1>1
<1>6. \E y : calls' = [calls EXCEPT ![c] = y] /\ PostKept(y)'
  <2>1. CASE Done(c)
    BY <1>2, <2>1, DoneKept, StaysKept
  <2>2. CASE calls' = [calls EXCEPT ![c].pc = "snapshot", ![c].tries = @ + 1]
    <3>1. PICK z, n : z = [x EXCEPT !.pc = "snapshot"] /\ n = x.tries + 1
      OBVIOUS
    <3>2. z = [pc |-> "snapshot", req |-> x.req, seen |-> x.seen, generation |-> x.generation,
               over |-> x.over, tries |-> x.tries]
      BY <1>4, <3>1
    <3>3. PICK y : y = [pc |-> "snapshot", req |-> x.req, seen |-> x.seen, generation |-> x.generation,
                        over |-> x.over, tries |-> n]
      OBVIOUS
    <3>4. [z EXCEPT !.tries = n] = y
      BY <3>2, <3>3
    <3>5. calls' = [calls EXCEPT ![c] = [z EXCEPT !.tries = n]]
      BY <1>3, <2>2, <3>1
    <3>6. y.pc = "snapshot" /\ y.req = x.req /\ y.generation = x.generation
      BY <3>3
    <3>7. PostKept(y)
      BY <1>4, <3>3, <3>6 DEF PostKept
    <3> QED BY <1>2, <3>4, <3>5, <3>7, StaysKept
  <2> QED BY <2>1, <2>2 DEF Persist
<1>7. \/ shown' = CleanedUp(c)
      \/ shown' = [CleanedUp(c) EXCEPT ![id] = made] /\ x.generation = generation
  BY <1>3 DEF Persist
<1>8. shown' = [p \in Previews |-> shown'[p]]
  BY <1>7 DEF CleanedUp
<1>9. ASSUME NEW p \in Previews PROVE shown'[p] = shown[p] \/ \E v : v = shown'[p] /\ ShownKept(v)'
  <2>1. PICK gone : gone = [state |-> "gone"]
    OBVIOUS
  <2>2. CleanedUp(c)[p] = shown[p] \/ CleanedUp(c)[p] = gone
    BY <2>1 DEF CleanedUp
  <2>3. shown'[p] = CleanedUp(c)[p] \/ (shown'[p] = made /\ x.generation = generation)
    BY <1>5, <1>7 DEF CleanedUp
  <2>4. ShownKept(gone)'
    BY <2>1 DEF ShownKept
  <2>5. ASSUME x.generation = generation, NEW v, v = made PROVE ShownKept(v)'
    <3>1. /\ v = [state |-> v.state, actor |-> v.actor, generation |-> v.generation, manifest |-> v.manifest,
                  before |-> v.before, lapsed |-> v.lapsed]
          /\ v.state = "open" /\ v.generation = generation /\ v.manifest = x.req.manifest /\ v.before = x.seen
      BY <1>3, <1>4, <2>5
    <3>2. generation \in Nat /\ generation <= generation
      BY DEF CatalogKept, CatalogTables
    <3>3. Nested(v.manifest)
      BY <1>4, <3>1, AskedIs
    <3>4. ShownKept(v)
      BY <1>4, <2>5, <3>1, <3>2, <3>3 DEF ShownKept
    <3> QED BY <1>2, <3>4, StaysKept
  <2> HIDE DEF made, id, unused
  <2> QED BY <2>2, <2>3, <2>4, <2>5
<1>10. /\ rows' = [e \in Entries |-> rows'[e]] /\ trail' = [e \in Entries |-> trail'[e]]
       /\ \A e \in Entries : \E S : trail'[e] \in Seq(S)
  BY <1>1 DEF CatalogKept, CatalogTables
<1> QED BY <1>2, <1>6, <1>8, <1>9, <1>10, PostsKeep

\* An entry and its event are added to a trail.
LEMMA TrailGrows ==
  ASSUME NEW s, \E S : s \in Seq(S), NEW x
  PROVE  /\ \E S : Append(s, x) \in Seq(S)
         /\ Len(s) \in Nat /\ Len(Append(s, x)) = Len(s) + 1 /\ Append(s, x)[Len(s) + 1] = x
<1>1. PICK S : s \in Seq(S)
  OBVIOUS
<1>2. s \in Seq(S \cup {x})
  BY <1>1
<1>3. Append(s, x) \in Seq(S \cup {x})
  BY <1>2
<1>4. Len(s) \in Nat /\ Len(Append(s, x)) = Len(s) + 1 /\ Append(s, x)[Len(s) + 1] = x
  BY <1>2
<1> QED BY <1>3, <1>4

\* A row and its event are written in one batch, and the generation goes on
\* with a row that changes.
LEMMA WriteKept ==
  ASSUME CatalogAssumption, CatalogKept, NEW c \in Calls, WriteEntry(c)
  PROVE  /\ CatalogKept'
         /\ \A e \in Entries : trail'[e] = trail[e] \/ \E x : trail'[e] = Append(trail[e], x) /\ x.preview = None
<1> DEFINE next == IF Lands(c) THEN Wanted(c) ELSE rows[Req(c).entry]
<1>1. PICK e : e = Req(c).entry
  OBVIOUS
<1>2. calls[c].pc = "write" /\ e \in Entries
  BY <1>1, PostIs, AskedIs DEF WriteEntry, At
<1>3. /\ rows' = [rows EXCEPT ![e] = next]
      /\ generation' = IF Lands(c) THEN generation + 1 ELSE generation
      /\ shown' = shown
      /\ \/ trail' = trail
         \/ trail' = [trail EXCEPT ![e] = Append(@, Told(c, next))]
      /\ Goto(c, "settle") \/ Done(c)
  BY <1>1 DEF WriteEntry
<1>4. ~Lands(c) => next = rows[e]
  BY <1>1
<1> HIDE DEF next
<1>5. rows' = [f \in Entries |-> rows'[f]] /\ Ahead
  <2>1. rows = [f \in Entries |-> rows[f]] /\ generation \in Nat
    BY DEF CatalogKept, CatalogTables
  <2>2. rows' = [f \in Entries |-> IF f = e THEN next ELSE rows[f]]
    BY <1>3, <2>1
  <2>3. ~Lands(c) => rows' = rows
    BY <1>4, <2>1, <2>2
  <2>4. generation' \in Nat /\ generation <= generation' /\ (Lands(c) => generation' # generation)
    BY <1>3, <2>1
  <2> QED BY <2>2, <2>3, <2>4 DEF Ahead
<1>6. PICK t : t = Told(c, next)
  OBVIOUS
<1>7. t.preview = None
  BY <1>6 DEF Told, Event
<1>8. trail' = [f \in Entries |-> trail'[f]]
      /\ \A f \in Entries : trail'[f] = trail[f] \/ trail'[f] = Append(trail[f], t)
  BY <1>2, <1>3, <1>6 DEF CatalogKept, CatalogTables
<1>9. ASSUME NEW f \in Entries PROVE \E S : trail'[f] \in Seq(S)
  <2>1. PICK s : s = trail[f] /\ \E S : s \in Seq(S)
    BY DEF CatalogKept, CatalogTables
  <2>2. \E S : Append(s, t) \in Seq(S)
    BY <2>1, TrailGrows
  <2> QED BY <1>8, <2>1, <2>2
<1>10. \E y : calls' = [calls EXCEPT ![c] = y] /\ PostKept(y)'
  <2>1. CASE Done(c)
    BY <1>5, <2>1, DoneKept, StaysKept
  <2>2. CASE Goto(c, "settle")
    <3>1. PICK y : /\ calls' = [calls EXCEPT ![c] = y]
                   /\ y = [pc |-> "settle", req |-> Req(c), seen |-> calls[c].seen, generation |-> calls[c].generation,
                           over |-> calls[c].over, tries |-> calls[c].tries]
                   /\ Req(c) \in Asked /\ y.generation \in Nat /\ y.generation <= generation
      BY <1>2, <2>2, GoesKept
    <3>2. y.pc = "settle" /\ y.req = Req(c)
      BY <3>1
    <3>3. PostKept(y)
      BY <3>1, <3>2 DEF PostKept
    <3> QED BY <1>5, <3>1, <3>3, StaysKept
  <2> QED BY <1>3, <2>1, <2>2
<1>11. shown' = [p \in Previews |-> shown'[p]] /\ \A p \in Previews : shown'[p] = shown[p]
  BY <1>3 DEF CatalogKept, CatalogTables
<1>12. CatalogKept'
  BY <1>5, <1>8, <1>9, <1>10, <1>11, PostsKeep
<1> QED BY <1>7, <1>8, <1>12

\* What a claimed preview shows is there.
LEMMA ClaimShows ==
  ASSUME CatalogAssumption, CatalogKept, NEW c \in Calls, At(c, "apply"), Claimable(c)
  PROVE  LET p == shown[Req(c).preview]
         IN /\ Req(c).preview \in Previews /\ p.state = "open" /\ p.actor = Req(c).actor
            /\ Nested(p.manifest) /\ Showing(p.manifest, p.before)
            /\ Actions(p.manifest, p.before) \subseteq Named(p.manifest)
            /\ Named(p.manifest) \subseteq Entries
            /\ \A e \in Named(p.manifest) : rows[e] = p.before[e]
            /\ Cardinality(Actions(p.manifest, p.before)) \in Nat
            /\ Cardinality(Actions(p.manifest, p.before)) = 0 => Actions(p.manifest, p.before) = {}
<1>1. Req(c) \in Asked /\ Req(c).op = "import"
  BY PostIs DEF At
<1>2. Req(c).preview \in Previews
  BY <1>1, AskedIs
<1>3. PICK p : p = shown[Req(c).preview]
  OBVIOUS
<1>4. p.state = "open" /\ p.actor = Req(c).actor /\ p.generation = generation
  BY <1>3 DEF Claimable
<1>5. ShownKept(p)
  BY <1>2, <1>3 DEF CatalogKept
<1>6. Nested(p.manifest) /\ Showing(p.manifest, p.before)
  BY <1>4, <1>5 DEF ShownKept
<1>7. PICK A : A = Actions(p.manifest, p.before)
  OBVIOUS
<1>8. A \subseteq Named(p.manifest) /\ Named(p.manifest) \subseteq Entries
  BY <1>7 DEF Actions, Named
<1>9. IsFiniteSet(A)
  BY <1>8, FS_Subset DEF CatalogAssumption
<1>10. Cardinality(A) \in Nat /\ (Cardinality(A) = 0 => A = {})
  BY <1>9, FS_CardinalityType, FS_EmptySet
<1>11. \A e \in Named(p.manifest) : rows[e] = p.before[e]
  BY <1>6, <1>8 DEF Showing
<1> QED BY <1>2, <1>3, <1>4, <1>6, <1>7, <1>8, <1>10, <1>11

\* An import that is applied writes the rows of its preview with their events.
LEMMA AppliedKept ==
  ASSUME CatalogAssumption, CatalogKept, NEW c \in Calls, ApplyImport(c)
  PROVE  CatalogKept'
<1> DEFINE id == Req(c).preview
           p == shown[id]
           A == Actions(p.manifest, p.before)
<1>1. PICK y : calls' = [calls EXCEPT ![c] = y] /\ y.pc = "done" /\ PostKept(y)
  BY DoneKept DEF ApplyImport
<1>2. CASE UNCHANGED <<rows, trail, generation, spent, shown>>
  <2>1. Ahead
    BY <1>2 DEF Ahead, CatalogKept, CatalogTables
  <2>2. PostKept(y)'
    BY <1>1, <2>1, StaysKept
  <2>3. /\ rows' = [e \in Entries |-> rows'[e]] /\ trail' = [e \in Entries |-> trail'[e]]
        /\ shown' = [q \in Previews |-> shown'[q]]
        /\ \A e \in Entries : \E S : trail'[e] \in Seq(S)
    BY <1>2 DEF CatalogKept, CatalogTables
  <2> QED BY <1>1, <1>2, <2>1, <2>2, <2>3, PostsKeep
<1>3. CASE /\ Claimable(c)
           /\ rows' = ImportedRows(p) /\ trail' = ImportedTrail(id)
           /\ generation' = generation + Cardinality(A)
           /\ shown' = [shown EXCEPT ![id].state = "used"]
  <2>1. id \in Previews /\ p.state = "open" /\ Cardinality(A) \in Nat /\ (Cardinality(A) = 0 => A = {})
    BY <1>3, ClaimShows DEF ApplyImport
  <2>2. rows' = [e \in Entries |-> IF e \in A THEN p.manifest[e] ELSE rows[e]]
    BY <1>3 DEF ImportedRows
  <2>3. generation' \in Nat /\ generation <= generation' /\ (generation' = generation => Cardinality(A) = 0)
    <3>1. generation \in Nat
      BY DEF CatalogKept, CatalogTables
    <3> HIDE DEF A
    <3> QED BY <1>3, <2>1, <3>1
  <2>4. A = {} => rows' = rows
    BY <2>2 DEF CatalogKept, CatalogTables
  <2>5. Ahead
    BY <2>1, <2>3, <2>4 DEF Ahead
  <2>6. PostKept(y)'
    BY <1>1, <2>5, StaysKept
  <2>7. rows' = [e \in Entries |-> rows'[e]]
    BY <2>2
  <2>8. /\ trail' = [e \in Entries |-> trail'[e]]
        /\ \A e \in Entries : trail'[e] = trail[e] \/ \E x : trail'[e] = Append(trail[e], x)
    BY <1>3 DEF ImportedTrail
  <2>9. ASSUME NEW e \in Entries PROVE \E S : trail'[e] \in Seq(S)
    <3>1. PICK s : s = trail[e] /\ \E S : s \in Seq(S)
      BY DEF CatalogKept, CatalogTables
    <3>2. \A x : \E S : Append(s, x) \in Seq(S)
      BY <3>1, TrailGrows
    <3> QED BY <2>8, <3>1, <3>2
  <2>10. shown' = [q \in Previews |-> shown'[q]]
    BY <1>3 DEF CatalogKept, CatalogTables
  <2>11. ASSUME NEW q \in Previews PROVE shown'[q] = shown[q] \/ \E v : v = shown'[q] /\ ShownKept(v)'
    <3>1. CASE q # id
      BY <1>3, <3>1 DEF CatalogKept, CatalogTables
    <3>2. CASE q = id
      <4>1. PICK u, v : u = p /\ v = shown'[q]
        OBVIOUS
      <4>2. ShownKept(u) /\ u.state = "open"
        BY <2>1, <4>1 DEF CatalogKept
      <4>3. v = [u EXCEPT !.state = "used"]
        BY <1>3, <2>1, <3>2, <4>1 DEF CatalogKept, CatalogTables
      <4>4. v.state = "used"
        BY <4>2, <4>3 DEF ShownKept
      <4> QED BY <4>1, <4>4 DEF ShownKept
    <3> QED BY <3>1, <3>2
  <2> QED BY <1>1, <2>5, <2>6, <2>7, <2>8, <2>9, <2>10, <2>11, PostsKeep
<1> QED BY <1>2, <1>3 DEF ApplyImport

\* The rest: a key that is stored, another writer, and a preview that is over.
LEMMA OthersKept ==
  ASSUME CatalogKept, \/ \E c \in Calls : Remember(c)
                      \/ Elsewhere
                      \/ \E p \in Previews : Lapse(p)
  PROVE  CatalogKept'
<1>0. generation \in Nat
  BY DEF CatalogKept, CatalogTables
<1>1. CASE \E c \in Calls : Remember(c)
  <2>1. PICK c \in Calls : Remember(c)
    BY <1>1
  <2>2. PICK y : calls' = [calls EXCEPT ![c] = y] /\ y.pc = "done" /\ PostKept(y)
    BY <2>1, DoneKept DEF Remember
  <2>3. UNCHANGED <<rows, trail, generation, shown>>
    BY <2>1 DEF Remember
  <2>4. Ahead
    BY <1>0, <2>3 DEF Ahead
  <2>5. PostKept(y)'
    BY <2>2, <2>4, StaysKept
  <2>6. /\ rows' = [e \in Entries |-> rows'[e]] /\ trail' = [e \in Entries |-> trail'[e]]
        /\ shown' = [q \in Previews |-> shown'[q]]
        /\ \A e \in Entries : \E S : trail'[e] \in Seq(S)
    BY <2>3 DEF CatalogKept, CatalogTables
  <2> QED BY <2>2, <2>3, <2>4, <2>5, <2>6, PostsKeep
<1>2. CASE Elsewhere \/ \E p \in Previews : Lapse(p)
  <2>1. UNCHANGED <<rows, trail, calls>> /\ Ahead
    BY <1>0, <1>2 DEF Elsewhere, Lapse, Ahead
  <2>2. /\ shown' = [p \in Previews |-> shown'[p]]
        /\ \A p \in Previews : shown'[p] = shown[p] \/ (shown[p].state = "open" /\ shown'[p] = [shown[p] EXCEPT !.lapsed = TRUE])
    BY <1>2 DEF Elsewhere, Lapse, CatalogKept, CatalogTables
  <2>3. CatalogTables'
    BY <2>1, <2>2 DEF CatalogKept, CatalogTables, Ahead
  <2>4. ASSUME NEW c \in Calls PROVE PostKept(calls[c])'
    <3>1. PICK x : x = calls[c] /\ x = calls'[c]
      BY <2>1
    <3>2. PostKept(x)'
      BY <2>1, <3>1, StaysKept DEF CatalogKept
    <3> QED BY <3>1, <3>2 DEF PostKept, Showing, Dependable, Named, Usable
  <2>5. ASSUME NEW p \in Previews PROVE ShownKept(shown[p])'
    <3>1. PICK u, v : u = shown[p] /\ v = shown'[p]
      OBVIOUS
    <3>2. ShownKept(u)
      BY <3>1 DEF CatalogKept
    <3>3. v = u \/ (u.state = "open" /\ v = [u EXCEPT !.lapsed = TRUE])
      BY <2>2, <3>1
    <3>4. ShownKept(v)
      <4>1. CASE u.state = "open" /\ v = [u EXCEPT !.lapsed = TRUE]
        <5>1. u = [state |-> u.state, actor |-> u.actor, generation |-> u.generation, manifest |-> u.manifest,
                   before |-> u.before, lapsed |-> u.lapsed]
          BY <3>2, <4>1 DEF ShownKept
        <5>2. v = [state |-> u.state, actor |-> u.actor, generation |-> u.generation, manifest |-> u.manifest,
                   before |-> u.before, lapsed |-> TRUE]
          BY <4>1, <5>1
        <5>3. /\ v.state = u.state /\ v.actor = u.actor /\ v.generation = u.generation
              /\ v.manifest = u.manifest /\ v.before = u.before /\ v.lapsed = TRUE
          BY <5>2
        <5> QED BY <3>2, <4>1, <5>2, <5>3 DEF ShownKept
      <4> QED BY <3>2, <3>3, <4>1
    <3>5. ShownKept(v)'
      BY <2>1, <3>4, StaysKept
    <3> QED BY <3>1, <3>5 DEF ShownKept, Showing, Dependable, Named, Usable, Nested
  <2> QED BY <2>3, <2>4, <2>5 DEF CatalogKept
<1> QED BY <1>1, <1>2

\* What is known of requests and previews stays known.
LEMMA CatalogKeeps ==
  ASSUME CatalogAssumption, CatalogKept, [Next]_vars
  PROVE  CatalogKept'
<1>1. CASE UNCHANGED vars
  <2>1. UNCHANGED <<rows, trail, generation, shown, calls>>
    BY <1>1 DEF vars
  <2>2. Ahead
    BY <2>1 DEF Ahead, CatalogKept, CatalogTables
  <2>3. CatalogTables'
    BY <2>1 DEF CatalogKept, CatalogTables
  <2>4. ASSUME NEW c \in Calls PROVE PostKept(calls[c])'
    <3>1. PICK x : x = calls[c] /\ x = calls'[c]
      BY <2>1
    <3>2. PostKept(x)'
      BY <2>2, <3>1, StaysKept DEF CatalogKept
    <3> QED BY <3>1, <3>2 DEF PostKept, Showing, Dependable, Named, Usable
  <2>5. ASSUME NEW p \in Previews PROVE ShownKept(shown[p])'
    <3>1. PICK v : v = shown[p] /\ v = shown'[p]
      BY <2>1
    <3>2. ShownKept(v)'
      BY <2>2, <3>1, StaysKept DEF CatalogKept
    <3> QED BY <3>1, <3>2 DEF ShownKept, Showing, Dependable, Named, Usable, Nested
  <2> QED BY <2>3, <2>4, <2>5 DEF CatalogKept
<1>2. CASE Next
  <2>1. ASSUME NEW c \in Calls, Step(c) \/ \E r \in Asked : Arrive(c, r)
        PROVE  CatalogKept'
    BY <2>1, LooksKept, SnapshotKept, PersistKept, WriteKept, AppliedKept, OthersKept DEF Step
  <2> QED BY <1>2, <2>1, OthersKept DEF Next
<1> QED BY <1>1, <1>2

\* An import is applied once, as a whole, and does what its preview showed, while
\* catalog writes, other imports and other tables change around it
\* (applyCatalogImport, claimGuardSql).
THEOREM ImportedAsPreviewedHolds == CatalogAssumption => (CatalogSpec => ImportedAsPreviewed)
<1> SUFFICES ASSUME CatalogAssumption PROVE CatalogSpec => ImportedAsPreviewed
  OBVIOUS
<1> DEFINE Shown == \A p \in Previews : (\E e \in Entries : ImportedBy(p, e)) =>
       LET v == shown[p]
       IN /\ v.state = "open"
          /\ \E c \in Calls : At(c, "apply") /\ calls'[c].pc = "done" /\ Req(c).preview = p
                                /\ Req(c).actor = v.actor /\ ~Replayed(c)
          /\ \A e \in Named(v.manifest) : rows[e] = v.before[e] /\ rows'[e] = v.manifest[e]
          /\ \A e \in Entries \ Named(v.manifest) : rows'[e] = rows[e]
          /\ \A e \in Actions(v.manifest, v.before) :
               ImportedBy(p, e) /\ Newest(e)'.prev = rows[e] /\ Newest(e)'.next = rows'[e]
          /\ \A s \in DOMAIN PlanFeatures \cap Named(v.manifest) :
               Usable(v.manifest[s].policy) /\ \A e \in {PlanFeatures[s].plan, PlanFeatures[s].feature} : rows'[e] # None
<1>1. Init => CatalogKept
  <2> SUFFICES ASSUME Init PROVE CatalogKept
    OBVIOUS
  <2>1. rows = [e \in Entries |-> rows[e]]
    BY DEF Init, CatalogAssumption
  <2>2. \A e \in Entries : trail[e] \in Seq({})
    BY DEF Init
  <2>3. CatalogTables
    BY <2>1, <2>2 DEF Init, CatalogTables
  <2>4. \A c \in Calls : PostKept(calls[c])
    BY DEF Init, Idle, PostKept
  <2>5. \A p \in Previews : ShownKept(shown[p])
    BY DEF Init, NoPreview, ShownKept
  <2> QED BY <2>3, <2>4, <2>5 DEF CatalogKept
<1>2. CatalogKept /\ [Next]_vars => CatalogKept'
  BY CatalogKeeps
<1>3. CatalogKept /\ [Next]_vars => [Shown]_vars
  <2> SUFFICES ASSUME CatalogKept, Next, NEW p \in Previews, NEW f \in Entries, ImportedBy(p, f)
               PROVE  LET v == shown[p]
                      IN /\ v.state = "open"
                         /\ \E c \in Calls : At(c, "apply") /\ calls'[c].pc = "done" /\ Req(c).preview = p
                                               /\ Req(c).actor = v.actor /\ ~Replayed(c)
                         /\ \A e \in Named(v.manifest) : rows[e] = v.before[e] /\ rows'[e] = v.manifest[e]
                         /\ \A e \in Entries \ Named(v.manifest) : rows'[e] = rows[e]
                         /\ \A e \in Actions(v.manifest, v.before) :
                              ImportedBy(p, e) /\ Newest(e)'.prev = rows[e] /\ Newest(e)'.next = rows'[e]
                         /\ \A s \in DOMAIN PlanFeatures \cap Named(v.manifest) :
                              /\ Usable(v.manifest[s].policy)
                              /\ \A e \in {PlanFeatures[s].plan, PlanFeatures[s].feature} : rows'[e] # None
    BY DEF Shown
  <2>1. \A e \in Entries : \E S : trail[e] \in Seq(S)
    BY DEF CatalogKept, CatalogTables
  <2>2. trail'[f] # trail[f]
    <3>1. PICK s : s = trail[f] /\ \E S : s \in Seq(S)
      BY <2>1
    <3>2. Len(s) \in Nat
      BY <3>1, TrailGrows
    <3> QED BY <3>1, <3>2 DEF ImportedBy
  <2>3. PICK c \in Calls : WriteEntry(c) \/ ApplyImport(c)
    <3>1. trail' = trail \/ \E c \in Calls : WriteEntry(c) \/ ApplyImport(c)
      BY DEF Next, Step, Arrive, Dedup, Depends, ReadEntry, Settle, Remember, Snapshot, Persist, Load, Stop,
             Elsewhere, Lapse, tables
    <3> QED BY <2>2, <3>1
  <2>4. CASE WriteEntry(c)
    <3>1. PICK x : trail'[f] = Append(trail[f], x) /\ x.preview = None
      BY <2>2, <2>4, WriteKept
    <3>2. PICK s : s = trail[f] /\ \E S : s \in Seq(S)
      BY <2>1
    <3>3. Append(s, x)[Len(Append(s, x))] = x
      BY <3>2, TrailGrows
    <3>4. Newest(f)' = x
      BY <3>1, <3>2, <3>3 DEF Newest
    <3> QED BY <3>1, <3>4 DEF ImportedBy, CatalogAssumption
  <2>5. CASE ApplyImport(c)
    <3> DEFINE id == Req(c).preview
               v == shown[id]
               A == Actions(v.manifest, v.before)
    <3>1. /\ At(c, "apply") /\ Claimable(c) /\ Applicable(c) /\ ~Replayed(c) /\ Done(c)
          /\ rows' = ImportedRows(v) /\ trail' = ImportedTrail(id)
      BY <2>2, <2>5 DEF ApplyImport
    <3>2. /\ id \in Previews /\ v.state = "open" /\ v.actor = Req(c).actor
          /\ Nested(v.manifest) /\ Showing(v.manifest, v.before)
          /\ A \subseteq Named(v.manifest) /\ Named(v.manifest) \subseteq Entries
          /\ \A e \in Named(v.manifest) : rows[e] = v.before[e]
      BY <3>1, ClaimShows
    <3>3. \A e \in Entries : rows'[e] = IF e \in A THEN v.manifest[e] ELSE rows[e]
      BY <3>1 DEF ImportedRows
    <3>4. ASSUME NEW e \in A
          PROVE  /\ Len(trail'[e]) > Len(trail[e]) /\ Newest(e)'.preview = id
                 /\ Newest(e)'.prev = v.before[e] /\ Newest(e)'.next = v.manifest[e]
      <4>1. PICK x : x = Event(Effect(v.before[e], v.manifest[e]), v.before[e], v.manifest[e], id)
        OBVIOUS
      <4>2. trail'[e] = Append(trail[e], x)
        BY <3>1, <3>2, <4>1 DEF ImportedTrail
      <4>3. PICK s : s = trail[e] /\ \E S : s \in Seq(S)
        BY <2>1, <3>2
      <4>4. Len(s) \in Nat /\ Len(Append(s, x)) = Len(s) + 1 /\ Append(s, x)[Len(Append(s, x))] = x
        BY <4>3, TrailGrows
      <4>5. Newest(e)' = x /\ Len(trail'[e]) > Len(trail[e])
        BY <4>2, <4>3, <4>4 DEF Newest
      <4>6. x.preview = id /\ x.prev = v.before[e] /\ x.next = v.manifest[e]
        BY <4>1 DEF Event
      <4> QED BY <4>5, <4>6
    <3>5. f \in A
      BY <2>2, <3>1 DEF ImportedTrail
    <3>6. p = id
      BY <3>4, <3>5 DEF ImportedBy
    <3>7. calls'[c].pc = "done"
      BY <3>1 DEF Done, CatalogKept, CatalogTables
    <3>8. \A e \in Named(v.manifest) : rows[e] = v.before[e] /\ rows'[e] = v.manifest[e]
      BY <3>2, <3>3 DEF Actions
    <3>9. \A e \in Entries \ Named(v.manifest) : rows'[e] = rows[e]
      BY <3>2, <3>3
    <3>10. \A e \in A : ImportedBy(id, e) /\ Newest(e)'.prev = rows[e] /\ Newest(e)'.next = rows'[e]
      BY <3>2, <3>4, <3>8 DEF ImportedBy
    <3>11. ASSUME NEW s \in DOMAIN PlanFeatures \cap Named(v.manifest)
           PROVE  /\ Usable(v.manifest[s].policy)
                  /\ \A e \in {PlanFeatures[s].plan, PlanFeatures[s].feature} : rows'[e] # None
      <4>1. /\ Usable(v.manifest[s].policy)
            /\ v.manifest[PlanFeatures[s].feature] # None \/ rows[PlanFeatures[s].feature] # None
        BY <3>2 DEF Showing, Dependable
      <4>2. v.manifest[PlanFeatures[s].plan] # None
        BY <3>2 DEF Nested, Named
      <4>3. {PlanFeatures[s].plan, PlanFeatures[s].feature} \subseteq Entries
        BY DEF CatalogAssumption
      <4>4. \A e \in Entries : v.manifest[e] # None => rows'[e] # None
        BY <3>8 DEF Named
      <4>5. \A e \in Entries : v.manifest[e] = None => rows'[e] = rows[e]
        BY <3>9 DEF Named
      <4> QED BY <4>1, <4>2, <4>3, <4>4, <4>5
    <3> HIDE DEF A, v, id
    <3>12. v = shown[id] /\ A = Actions(v.manifest, v.before) /\ Req(c).preview = id
      BY DEF v, A, id
    <3> QED BY <3>1, <3>2, <3>6, <3>7, <3>8, <3>9, <3>10, <3>11, <3>12
  <2> QED BY <2>3, <2>4, <2>5
<1> HIDE DEF Shown
<1>4. CatalogSpec => [][Shown]_vars
  BY <1>1, <1>2, <1>3, PTL DEF CatalogSpec
<1> QED BY <1>4 DEF ImportedAsPreviewed, Shown
=============================================================================
