----------------------------- MODULE MCClients -----------------------------
(***************************************************************************)
(* What reaches the services from outside: the orders of a commerce        *)
(* provider, a customer's sign-ins, and the renewals of a licensed         *)
(* machine. A behaviour is about one of them; the others stand still.      *)
(***************************************************************************)
EXTENDS MCOrders, PortalSignIn, NativeClient

CONSTANTS google, github

VARIABLE about            \* what a behaviour is about

Room(c, r, s, n) == [codes |-> c, resets |-> r, salts |-> s, sessions |-> n]
Account(email, secret, ids, sends, bounds) ==
  [contact |-> email, password |-> secret, identities |-> ids, mail |-> sends, room |-> bounds]

\* Customers who registered with a password, with a code, with a provider, and
\* one the console made, who connected two providers and can be sent no code.
Owners ==
  {Account(TRUE, 1, {}, FALSE, Room(0, 1, 2, 2)),
   Account(TRUE, 0, {}, TRUE, Room(2, 0, 0, 1)),
   Account(TRUE, 0, {google}, TRUE, Room(1, 0, 1, 2)),
   Account(FALSE, 0, {google, github}, TRUE, Room(0, 0, 1, 3))}

orders == <<vars, feed>>

\* Of the initial states of what stands still, one; the machine has one copy of
\* its first statement, and makes the other.
Rest(p) ==
  /\ p = "orders" \/ (feed = LifeOrders /\ \A f \in Fingerprints : grants[f] = NoGrant)
  /\ p = "portal" \/ room.codes = 2
  /\ files[1].seen = NoStatement

ClientsInit ==
  /\ about \in {"orders", "portal", "native"}
  /\ Init /\ feed \in {LifeOrders, ClashOrders} /\ PortalInit /\ NativeInit
  /\ Rest(about)

OthersRest ==
  /\ about # "orders" => UNCHANGED orders
  /\ about # "portal" => UNCHANGED portal
  /\ about # "native" => UNCHANGED native

ClientsNext ==
  /\ UNCHANGED about
  /\ \/ about = "orders" /\ OrdersNext /\ OthersRest
     \/ about = "portal" /\ PortalNext /\ OthersRest
     \/ about = "native" /\ NativeNext /\ OthersRest

ClientsSpec == ClientsInit /\ [][ClientsNext]_<<about, orders, portal, native>>
=============================================================================
