------------------------------ MODULE MCOrders ------------------------------
(***************************************************************************)
(* Order payloads for TLC: what a commerce provider may send about one or  *)
(* two subscriptions.                                                      *)
(***************************************************************************)
EXTENDS OrderIngest, TLC

CONSTANTS e1, e2, e3, s1, s2, u1, u2, f1, l1

Order(e, s, at, intent, u, until) ==
  [id |-> e, sub |-> s, at |-> at, intent |-> intent, fp |-> f1, customer |-> u,
   license |-> None, until |-> until, limit |-> None]

\* Activation, renewal and a failed payment in the next epoch.
LifeOrders ==
  {Order(e1, s1, <<0, 1>>, "active", u1, 1),
   Order(e2, s1, <<0, 2>>, "renewed", u1, 2),
   Order(e3, s1, <<1, 0>>, "disabled", u1, 0)}

\* Two renewals, the older one for longer; and a change of the device limit.
RenewalOrders ==
  {Order(e1, s1, <<0, 1>>, "renewed", u1, 2),
   Order(e2, s1, <<0, 2>>, "renewed", u1, 1),
   [Order(e3, s1, <<0, 3>>, "quantity", u1, 0) EXCEPT !.limit = 0]}

\* Two orders about a grant that may not exist.
PairOrders == {Order(e1, s1, <<0, 1>>, "renewed", u1, 2), Order(e2, s1, <<0, 2>>, "resumed", u1, 0)}

\* Two subscriptions of two customers name the same grant and license; an
\* event id is used twice, and so is a sequence number.
ClashOrders ==
  {[Order(e1, s1, <<0, 1>>, "active", u1, 1) EXCEPT !.license = l1],
   [Order(e2, s2, <<0, 1>>, "active", u2, 1) EXCEPT !.license = l1],
   Order(e2, s1, <<0, 2>>, "revoked", u1, 0),
   [Order(e3, s1, <<0, 2>>, "quantity", u1, 0) EXCEPT !.limit = 0]}

AllOrders == LifeOrders \cup RenewalOrders \cup PairOrders \cup ClashOrders

VARIABLE feed             \* the orders that are sent in a behaviour

Sent == \E c \in Calls, o \in feed : Receive(c, o)
Steps == \E c \in Calls : Step(c)
Crashes == \E c \in Calls : Crash(c)
Others == \E f \in Fingerprints : Administer(f) \/ Occupy(f)

\* Calls are interchangeable.
Interchangeable == Permutations(Calls)

\* Orders come in and calls may stop; or the administration and the devices
\* act on the grant meanwhile.
OrdersNext ==
  /\ UNCHANGED feed
  /\ \/ Sent \/ Steps
     \/ feed = LifeOrders /\ Crashes
     \/ feed = ClashOrders /\ Others

OrdersSpec == Init /\ feed \in {LifeOrders, ClashOrders} /\ [][OrdersNext]_<<vars, feed>>

\* Two renewals.
WindowSpec == Init /\ feed = RenewalOrders /\ [][UNCHANGED feed /\ (Sent \/ Steps)]_<<vars, feed>>

\* A period lapses, calls stop, senders repeat; the grant is nobody else's.
EndsNext == UNCHANGED feed /\ (Sent \/ Steps \/ Crashes \/ Lapse(e1))
EndsSpec == Init /\ feed = PairOrders /\ [][EndsNext]_<<vars, feed>> /\ Fairness
=============================================================================
