--------------------------- MODULE OrderSignature ---------------------------
(***************************************************************************)
(* The door of POST /v1/orders: a signed request is let in while its       *)
(* timestamp is within the allowed skew, and its nonce row keeps an exact  *)
(* repetition out. A signature binds audience, timestamp and body, so a    *)
(* request is its timestamp and an opaque rest. Each delivery of it reads  *)
(* the clock twice, for the skew and for its nonce, and awaits between     *)
(* these reads, the new row and the removal of old ones, while the clock   *)
(* and the other deliveries go on.                                         *)
(***************************************************************************)
EXTENDS Integers

CONSTANTS Signed,         \* signed requests
          Deliveries,     \* deliveries of any of them
          MaxSkew,        \* ORDER_MAX_SKEW_SECONDS after clampMaxSkew
          MaxTime         \* bound of the clock

ASSUME SkewAssumption == MaxSkew \in Nat \ {0} /\ MaxTime \in Nat

VARIABLES clock, stamp,   \* the time, and the timestamp a request was signed with
          nonces,         \* order_ingest_nonces: expires_at of a spent request
          delivered,      \* the deliveries: what of, how far, and now as they read it
          admitted        \* history: how often a request was let in

door == <<clock, stamp, nonces, delivered, admitted>>

NoRow == -1

DoorInit ==
  /\ clock = 0
  /\ stamp \in [Signed -> 0..MaxTime]
  /\ nonces = [s \in Signed |-> NoRow]
  /\ delivered \in [Deliveries -> [of : Signed, at : {"sent"}, now : {0}]]
  /\ admitted = [s \in Signed |-> 0]

Goes(d, at) == delivered' = [delivered EXCEPT ![d].at = at]

\* verifyOrderHmac: too old and too far ahead are both refused.
WithinSkew(s) == clock - stamp[s] <= MaxSkew /\ stamp[s] - clock <= MaxSkew

Verify(d) ==
  /\ delivered[d].at = "sent" /\ WithinSkew(delivered[d].of)
  /\ Goes(d, "verified") /\ UNCHANGED <<clock, stamp, nonces, admitted>>

\* handleOrderIngest: the time of the order and of its nonce.
ReadNow(d) ==
  /\ delivered[d].at = "verified"
  /\ delivered' = [delivered EXCEPT ![d].at = "dated", ![d].now = clock]
  /\ UNCHANGED <<clock, stamp, nonces, admitted>>

\* Slip: the row lives as long as the skew on one side.
SlipExpiry(now) == now + MaxSkew

\* TTL = 2*maxSkew: the skew on both sides.
Expiry(now) == now + 2 * MaxSkew

WithNonce(d) == [nonces EXCEPT ![delivered[d].of] = Expiry(delivered[d].now)]

\* spendOrderNonce: the new row. A request whose row exists, expired or not, is
\* answered "replayed"; after an error, with the row or without, it is refused.
SpendNonce(d) ==
  /\ delivered[d].at = "dated" /\ UNCHANGED <<clock, stamp>>
  /\ \/ nonces[delivered[d].of] # NoRow /\ Goes(d, "over") /\ UNCHANGED <<nonces, admitted>>
     \/ /\ nonces[delivered[d].of] = NoRow /\ nonces' = WithNonce(d) /\ Goes(d, "fresh")
        /\ admitted' = [admitted EXCEPT ![delivered[d].of] = @ + 1]
     \/ nonces[delivered[d].of] = NoRow /\ nonces' \in {nonces, WithNonce(d)} /\ Goes(d, "over") /\ UNCHANGED admitted

Expired(s, now) == nonces[s] # NoRow /\ nonces[s] < now

\* spendOrderNonce: the best-effort removal of old rows.
Purge(d) ==
  /\ delivered[d].at = "fresh" /\ Goes(d, "over")
  /\ \E gone \in {{}, {s \in Signed : Expired(s, delivered[d].now)}} :
       nonces' = [s \in Signed |-> IF s \in gone THEN NoRow ELSE nonces[s]]
  /\ UNCHANGED <<clock, stamp, admitted>>

DoorTick == clock < MaxTime /\ clock' = clock + 1 /\ UNCHANGED <<stamp, nonces, delivered, admitted>>

Deliver(d) == Verify(d) \/ ReadNow(d) \/ SpendNonce(d) \/ Purge(d)

DoorNext == DoorTick \/ \E d \in Deliveries : Deliver(d)

DoorSpec == DoorInit /\ [][DoorNext]_door

-----------------------------------------------------------------------------
DoorTypeOK ==
  /\ clock \in 0..MaxTime
  /\ stamp \in [Signed -> 0..MaxTime]
  /\ nonces \in [Signed -> {NoRow} \cup Nat]
  /\ delivered \in [Deliveries -> [of : Signed, at : {"sent", "verified", "dated", "fresh", "over"}, now : 0..MaxTime]]
  /\ admitted \in [Signed -> Nat]

\* What a delivery has read is not ahead of the clock, and the timestamp of one
\* that was verified is not too far ahead of what it has read since.
NowWithinSkew ==
  \A d \in Deliveries :
    /\ delivered[d].now <= clock
    /\ delivered[d].at # "sent" => stamp[delivered[d].of] - clock <= MaxSkew
    /\ delivered[d].at \in {"dated", "fresh"} => stamp[delivered[d].of] - delivered[d].now <= MaxSkew

\* The row of a request that was let in is there for as long as its timestamp
\* is accepted (the comment on spendOrderNonce).
RowOutlivesSkew ==
  \A s \in Signed : admitted[s] > 0 => nonces[s] >= stamp[s] + MaxSkew \/ (nonces[s] = NoRow /\ clock > stamp[s] + MaxSkew)

\* As long as its timestamp is accepted, a signed request is let in at most once,
\* at whichever end of the skew window it first arrives and however many of its
\* deliveries are between their reads (spendOrderNonce). That is all: a delivery
\* verified at the end of the window whose INSERT comes after it finds no row
\* once a later request has purged it, and is let in a second time.
AdmittedOnce == [][\A s \in Signed : admitted'[s] > admitted[s] /\ clock <= stamp[s] + MaxSkew => admitted[s] = 0]_door
=============================================================================
