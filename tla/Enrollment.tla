----------------------------- MODULE Enrollment -----------------------------
(***************************************************************************)
(* bound_enrollment.mjs: a device opens an authorization attempt and asks  *)
(* for single-use challenges. Each handler makes one statement, so each is *)
(* one step; a refusal (404, 503) leaves every table alone.                *)
(***************************************************************************)
EXTENDS DeviceTables

\* createBoundAuthorization: a fresh handle for the device key k.
CreateAuthorization(a, k) ==
  /\ attempts[a].status = "none"
  /\ attempts' = [attempts EXCEPT ![a] =
       [NoAttempt EXCEPT !.status = "pending", !.key = k, !.expires = now + AttemptTTL]]
  /\ UNCHANGED <<now, customers, entitlements, devices, bindings, challenges, operations, leases,
                 denials, denyCache, requests, consents, retires, replies>>

\* The operation row that consumed attempt a, while it can still be replayed.
ConsumingOperation(a) ==
  LET at == attempts[a] IN
  {o \in OpKeys : /\ o[1] = at.key /\ o[2] = "exchange" /\ o[3] = at.op
                  /\ operations[o].exists /\ operations[o].inv = at.inv
                  /\ operations[o].customer = at.customer /\ operations[o].response}

\* exchangeSubject: the deadlines under which attempt a admits a challenge for op.
ExchangeDeadlines(a, op) ==
  LET at == attempts[a] IN
  IF \/ at.status = "pending" /\ at.expires > now
     \/ at.status = "approved" /\ at.expires > now /\ at.codeExpires > now
  THEN {at.expires}
  ELSE IF at.status = "consumed" /\ at.op = op /\ at.recovery > now
  THEN {Lesser(at.recovery, operations[o].retain) :
          o \in {p \in ConsumingOperation(a) : operations[p].retain > now}}
  ELSE {}

AddChallenge(c, purpose, subject, key, op, deadline) ==
  /\ challenges[c].status = "none"
  /\ deadline > now
  /\ challenges' = [challenges EXCEPT ![c] =
       [status |-> "open", purpose |-> purpose, subject |-> subject, key |-> key, op |-> op,
        expires |-> Lesser(now + ChallengeTTL, deadline), inv |-> None]]
  /\ UNCHANGED <<now, customers, entitlements, devices, bindings, attempts, operations, leases,
                 denials, denyCache, requests, consents, retires, replies>>

\* createBoundChallenge for an exchange.
ExchangeChallenge(c, a, op) ==
  \E deadline \in ExchangeDeadlines(a, op) :
    AddChallenge(c, "exchange", a, attempts[a].key, op, deadline)

\* createBoundChallenge for a renewal: every existing binding is admitted,
\* whatever the state of its license, account, device or of itself.
RenewChallenge(c, b, op) ==
  /\ bindings[b].state # "none"
  /\ AddChallenge(c, "renew", b, bindings[b].key, op, now + ChallengeTTL)

EnrollmentNext ==
  \/ \E a \in Attempts, k \in Keys : CreateAuthorization(a, k)
  \/ \E c \in Challenges, a \in Attempts, op \in OpIds : ExchangeChallenge(c, a, op)
  \/ \E c \in Challenges, b \in Bindings, op \in OpIds : RenewChallenge(c, b, op)
=============================================================================
