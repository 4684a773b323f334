------------------------------ MODULE OrderBook ------------------------------
(***************************************************************************)
(* What order ingest promises about each grant: an order takes effect at   *)
(* most once, and never over a newer one, however orders are duplicated,   *)
(* reordered, retried or interrupted.                                      *)
(***************************************************************************)
EXTENDS Integers, Sequences

CONSTANTS Orders,         \* payloads, with id, fp (the grant) and at (epoch, seq)
          Fingerprints    \* grants

VARIABLE book             \* the orders that took effect on each grant, in turn

\* The order of commerce events: by epoch, then by sequence number.
Before(x, y) == x[1] < y[1] \/ (x[1] = y[1] /\ x[2] < y[2])

Entry(o) == [id |-> o.id, at |-> o.at]

Taken(e) == \E f \in Fingerprints : \E i \in 1..Len(book[f]) : book[f][i].id = e

BookInit == book = [f \in Fingerprints |-> <<>>]

\* Slip: an order takes effect whatever took effect before it.
SlipTakeEffect(o) ==
  /\ ~Taken(o.id)
  /\ book' = [book EXCEPT ![o.fp] = Append(@, Entry(o))]

TakeEffect(o) ==
  /\ ~Taken(o.id)
  /\ \A i \in 1..Len(book[o.fp]) : Before(book[o.fp][i].at, o.at)
  /\ book' = [book EXCEPT ![o.fp] = Append(@, Entry(o))]

BookNext == \E o \in Orders : TakeEffect(o)

BookSpec == BookInit /\ [][BookNext]_book

-----------------------------------------------------------------------------
BookTypeOK == book \in [Fingerprints -> Seq({Entry(o) : o \in Orders})]

\* The orders that took effect on a grant are in (epoch, seq) order: what the
\* floor of order_ingest.mjs (FLOOR_PREDICATE_UPDATE) is for.
InOrder ==
  \A f \in Fingerprints : \A i, j \in 1..Len(book[f]) : i < j => Before(book[f][i].at, book[f][j].at)

\* No order takes effect twice, on the same grant or on another.
OncePerOrder ==
  \A f, g \in Fingerprints : \A i \in 1..Len(book[f]), j \in 1..Len(book[g]) :
    book[f][i].id = book[g][j].id => f = g /\ i = j

\* What order ingest promises of every grant: exactly once and in order
\* (order_ingest.mjs runExactlyOnce).
OnceAndInOrder == InOrder /\ OncePerOrder
=============================================================================
