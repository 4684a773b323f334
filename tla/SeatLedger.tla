---------------------------- MODULE SeatLedger ----------------------------
(***************************************************************************)
(* What device-bound licensing promises of seats, without saying how: a    *)
(* license has a number of seats; a seat is taken by one holder, is held   *)
(* at least until everything granted on it has run out, and is in use      *)
(* again only after that.                                                  *)
(***************************************************************************)
EXTENDS Integers, FiniteSets

CONSTANTS
  Seats, Licenses, Holders, NoOne,
  Times,     \* the times at which something may happen or run out
  Sizes      \* the numbers of seats a license may have

ASSUME LedgerAssumption ==
  /\ IsFiniteSet(Seats)
  /\ 0 \in Times /\ Times \subseteq Nat /\ Sizes \subseteq Nat

VARIABLES
  now,
  cap,       \* the seats each license has
  seats,     \* who sits where and until when
  granted    \* everything ever granted: [seat, license, holder, until]

ledger == <<now, cap, seats, granted>>

SeatRow == [state: {"free", "open", "closed"}, license: Licenses \cup {NoOne},
            holder: Holders \cup {NoOne}, hold: Times]

InUse(l) == {s \in Seats : /\ seats[s].license = l
                           /\ \/ seats[s].state = "open"
                              \/ seats[s].state = "closed" /\ seats[s].hold > now}

LedgerInit ==
  /\ now = 0
  /\ cap \in [Licenses -> Sizes]
  /\ seats = [s \in Seats |-> [state |-> "free", license |-> NoOne, holder |-> NoOne, hold |-> 0]]
  /\ granted = {}

Grant(s, l, h, until) == granted' = granted \cup {[seat |-> s, license |-> l, holder |-> h, until |-> until]}

\* A holder without an open seat takes a free one, if the license has room.
Take(s, l, h, until) ==
  /\ seats[s].state = "free"
  /\ ~\E t \in Seats : seats[t].state = "open" /\ seats[t].license = l /\ seats[t].holder = h
  /\ Cardinality(InUse(l)) < cap[l]
  /\ seats' = [seats EXCEPT ![s] = [state |-> "open", license |-> l, holder |-> h, hold |-> until]]
  /\ Grant(s, l, h, until)
  /\ UNCHANGED <<now, cap>>

\* Slip: the hold follows the last grant.
LastHold(hold, until) == until

LatestHold(hold, until) == IF hold >= until THEN hold ELSE until

\* An open seat is granted more time.
Extend(s, until) ==
  /\ seats[s].state = "open"
  /\ seats' = [seats EXCEPT ![s].hold = LatestHold(@, until)]
  /\ Grant(s, seats[s].license, seats[s].holder, until)
  /\ UNCHANGED <<now, cap>>

\* Seats are given up; they stay in use until their hold has passed.
Close(S) ==
  /\ \A s \in S : seats[s].state = "open"
  /\ seats' = [s \in Seats |-> IF s \in S THEN [seats[s] EXCEPT !.state = "closed"] ELSE seats[s]]
  /\ UNCHANGED <<now, cap, granted>>

Fits(l, n) == Cardinality(InUse(l)) <= n

\* A license may not be cut below the seats in use.
Resize(l, n) ==
  /\ Fits(l, n)
  /\ cap' = [cap EXCEPT ![l] = n]
  /\ UNCHANGED <<now, seats, granted>>

Pass ==
  /\ now' \in Times /\ now' > now
  /\ UNCHANGED <<cap, seats, granted>>

LedgerNext ==
  \/ \E s \in Seats, l \in Licenses, h \in Holders, until \in Times : Take(s, l, h, until)
  \/ \E s \in Seats, until \in Times : Extend(s, until)
  \/ \E S \in SUBSET Seats : Close(S)
  \/ \E l \in Licenses, n \in Sizes : Resize(l, n)
  \/ Pass

LedgerSpec == LedgerInit /\ [][LedgerNext]_ledger

LedgerTypeOK ==
  /\ now \in Times
  /\ cap \in [Licenses -> Sizes]
  /\ seats \in [Seats -> SeatRow]
  /\ \A s \in Seats : seats[s].state # "free" => seats[s].license \in Licenses /\ seats[s].holder \in Holders
  /\ granted \subseteq [seat: Seats, license: Licenses, holder: Holders, until: Times]

\* No license ever has more seats in use than it has seats.
SeatsWithinCap == \A l \in Licenses : Cardinality(InUse(l)) <= cap[l]

\* A seat is held for its holder at least until every grant made on it has run out.
GrantsHeld ==
  \A g \in granted : /\ seats[g.seat].state # "free"
                     /\ seats[g.seat].license = g.license /\ seats[g.seat].holder = g.holder
                     /\ g.until <= seats[g.seat].hold

\* The holders of grants of license l that have not run out.
LiveHolders(l) == {g.holder : g \in {x \in granted : x.license = l /\ x.until > now}}

\* However seats are given up, taken again and resized, no license ever has
\* more holders with a live grant than it has seats.
LiveHoldersWithinCap == \A l \in Licenses : Cardinality(LiveHolders(l)) <= cap[l]
=============================================================================
