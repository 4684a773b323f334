----------------------- MODULE DeviceLicensing_proofs -----------------------
(***************************************************************************)
(* The device handlers implement the seat ledger, for every number of      *)
(* devices, licenses and invocations. A binding is a seat and a lease a    *)
(* grant: a commit takes or extends a seat, a retirement or a disabled     *)
(* device closes seats, a change of the limit resizes, the clock passes,   *)
(* and every other step leaves the ledger alone. What the ledger promises  *)
(* then holds of the handlers.                                             *)
(***************************************************************************)
EXTENDS DeviceLicensing, FiniteSetTheorems, TLAPS

-----------------------------------------------------------------------------
(***************************************************************************)
(* Type correctness of device-bound licensing for every set of keys,       *)
(* licenses and invocations. The state of a request is a wide record, so   *)
(* what may be stored in each of its fields is stated once, field by field. *)
(***************************************************************************)


\* An invocation with a typed pc written into it is still an invocation.
LEMMA SetPc ==
  ASSUME NEW q \in RequestState,
         NEW x \in {"idle", "lookup", "reread", "license", "device", "capacity", "recheck", "commit", "recover", "done"}
  PROVE  [q EXCEPT !.pc = x] \in RequestState
BY DEF RequestState

\* An invocation with a typed code written into it is still an invocation.
LEMMA SetCode ==
  ASSUME NEW q \in RequestState,
         NEW x \in Codes
  PROVE  [q EXCEPT !.code = x] \in RequestState
BY DEF RequestState

\* An invocation with a typed purpose written into it is still an invocation.
LEMMA SetPurpose ==
  ASSUME NEW q \in RequestState,
         NEW x \in {"exchange", "renew"}
  PROVE  [q EXCEPT !.purpose = x] \in RequestState
BY DEF RequestState

\* An invocation with a typed subject written into it is still an invocation.
LEMMA SetSubject ==
  ASSUME NEW q \in RequestState,
         NEW x \in Attempts \cup Bindings \cup {None}
  PROVE  [q EXCEPT !.subject = x] \in RequestState
BY DEF RequestState

\* An invocation with a typed arg written into it is still an invocation.
LEMMA SetArg ==
  ASSUME NEW q \in RequestState,
         NEW x \in Nat
  PROVE  [q EXCEPT !.arg = x] \in RequestState
BY DEF RequestState

\* An invocation with a typed op written into it is still an invocation.
LEMMA SetOp ==
  ASSUME NEW q \in RequestState,
         NEW x \in OpIds \cup {None}
  PROVE  [q EXCEPT !.op = x] \in RequestState
BY DEF RequestState

\* An invocation with a typed chal written into it is still an invocation.
LEMMA SetChal ==
  ASSUME NEW q \in RequestState,
         NEW x \in Challenges \cup {None}
  PROVE  [q EXCEPT !.chal = x] \in RequestState
BY DEF RequestState

\* An invocation with a typed key written into it is still an invocation.
LEMMA SetKey ==
  ASSUME NEW q \in RequestState,
         NEW x \in Keys \cup {None}
  PROVE  [q EXCEPT !.key = x] \in RequestState
BY DEF RequestState

\* An invocation with a typed customer written into it is still an invocation.
LEMMA SetCustomer ==
  ASSUME NEW q \in RequestState,
         NEW x \in Customers \cup {None}
  PROVE  [q EXCEPT !.customer = x] \in RequestState
BY DEF RequestState

\* An invocation with a typed license written into it is still an invocation.
LEMMA SetLicense ==
  ASSUME NEW q \in RequestState,
         NEW x \in Licenses \cup {None}
  PROVE  [q EXCEPT !.license = x] \in RequestState
BY DEF RequestState

\* An invocation with a typed status written into it is still an invocation.
LEMMA SetStatus ==
  ASSUME NEW q \in RequestState,
         NEW x \in {"none", "pending", "approved", "denied", "consumed", "purged"}
  PROVE  [q EXCEPT !.status = x] \in RequestState
BY DEF RequestState

\* An invocation with a typed live written into it is still an invocation.
LEMMA SetLive ==
  ASSUME NEW q \in RequestState,
         NEW x \in BOOLEAN
  PROVE  [q EXCEPT !.live = x] \in RequestState
BY DEF RequestState

\* An invocation with a typed attRev written into it is still an invocation.
LEMMA SetAttRev ==
  ASSUME NEW q \in RequestState,
         NEW x \in Nat
  PROVE  [q EXCEPT !.attRev = x] \in RequestState
BY DEF RequestState

\* An invocation with a typed attOp written into it is still an invocation.
LEMMA SetAttOp ==
  ASSUME NEW q \in RequestState,
         NEW x \in OpIds \cup {None}
  PROVE  [q EXCEPT !.attOp = x] \in RequestState
BY DEF RequestState

\* An invocation with a typed attInv written into it is still an invocation.
LEMMA SetAttInv ==
  ASSUME NEW q \in RequestState,
         NEW x \in Requests \cup {None}
  PROVE  [q EXCEPT !.attInv = x] \in RequestState
BY DEF RequestState

\* An invocation with a typed prior written into it is still an invocation.
LEMMA SetPrior ==
  ASSUME NEW q \in RequestState,
         NEW x \in Requests \cup Retires \cup {None}
  PROVE  [q EXCEPT !.prior = x] \in RequestState
BY DEF RequestState

\* An invocation with a typed priorBinding written into it is still an invocation.
LEMMA SetPriorBinding ==
  ASSUME NEW q \in RequestState,
         NEW x \in Bindings \cup {None}
  PROVE  [q EXCEPT !.priorBinding = x] \in RequestState
BY DEF RequestState

\* An invocation with a typed custRev written into it is still an invocation.
LEMMA SetCustRev ==
  ASSUME NEW q \in RequestState,
         NEW x \in Nat
  PROVE  [q EXCEPT !.custRev = x] \in RequestState
BY DEF RequestState

\* An invocation with a typed entRev written into it is still an invocation.
LEMMA SetEntRev ==
  ASSUME NEW q \in RequestState,
         NEW x \in Nat
  PROVE  [q EXCEPT !.entRev = x] \in RequestState
BY DEF RequestState

\* An invocation with a typed limit written into it is still an invocation.
LEMMA SetLimit ==
  ASSUME NEW q \in RequestState,
         NEW x \in Nat
  PROVE  [q EXCEPT !.limit = x] \in RequestState
BY DEF RequestState

\* An invocation with a typed issued written into it is still an invocation.
LEMMA SetIssued ==
  ASSUME NEW q \in RequestState,
         NEW x \in Nat
  PROVE  [q EXCEPT !.issued = x] \in RequestState
BY DEF RequestState

\* An invocation with a typed expires written into it is still an invocation.
LEMMA SetExpires ==
  ASSUME NEW q \in RequestState,
         NEW x \in 0 .. MaxTime + LeaseMax
  PROVE  [q EXCEPT !.expires = x] \in RequestState
BY DEF RequestState

\* An invocation with a typed stamp written into it is still an invocation.
LEMMA SetStamp ==
  ASSUME NEW q \in RequestState,
         NEW x \in BOOLEAN
  PROVE  [q EXCEPT !.stamp = x] \in RequestState
BY DEF RequestState

\* An invocation with a typed known written into it is still an invocation.
LEMMA SetKnown ==
  ASSUME NEW q \in RequestState,
         NEW x \in BOOLEAN
  PROVE  [q EXCEPT !.known = x] \in RequestState
BY DEF RequestState

\* An invocation with a typed devRev written into it is still an invocation.
LEMMA SetDevRev ==
  ASSUME NEW q \in RequestState,
         NEW x \in Nat
  PROVE  [q EXCEPT !.devRev = x] \in RequestState
BY DEF RequestState

\* An invocation with a typed binding written into it is still an invocation.
LEMMA SetBinding ==
  ASSUME NEW q \in RequestState,
         NEW x \in Bindings \cup {None}
  PROVE  [q EXCEPT !.binding = x] \in RequestState
BY DEF RequestState

\* An invocation with a typed bindRev written into it is still an invocation.
LEMMA SetBindRev ==
  ASSUME NEW q \in RequestState,
         NEW x \in Nat
  PROVE  [q EXCEPT !.bindRev = x] \in RequestState
BY DEF RequestState

\* An invocation with a typed gen written into it is still an invocation.
LEMMA SetGen ==
  ASSUME NEW q \in RequestState,
         NEW x \in Nat
  PROVE  [q EXCEPT !.gen = x] \in RequestState
BY DEF RequestState

\* An invocation that has not started is typed.
LEMMA IdleRequestTyped == IdleRequest \in RequestState
BY TimingAssumption DEF IdleRequest, RequestState, Codes

-----------------------------------------------------------------------------
(* The exchange and renew routes. *)

RequestsOK ==
  /\ requests \in [Requests -> RequestState]
  /\ \A r \in Requests : requests[r].pc \notin {"idle", "done"} => requests[r].key \in Keys

\* Writing a typed row that names a key keeps the invocations typed.
LEMMA RowTyped ==
  ASSUME TypeOK, NEW r \in Requests, NEW row \in RequestState, row.key \in Keys,
         requests' = [requests EXCEPT ![r] = row]
  PROVE  RequestsOK'
BY DEF TypeOK, KeysKnown, RequestsOK

\* An invocation that ends with a code keeps the invocations typed.
LEMMA AnswerTyped ==
  ASSUME TypeOK, NEW r \in Requests, NEW code \in Codes, Answer(r, code)
  PROVE  RequestsOK'
<1> DEFINE row == [IdleRequest EXCEPT !.pc = "done", !.code = code]
<1>1. row \in RequestState
  BY IdleRequestTyped, SetPc, SetCode
<1>2. row.pc = "done"
  BY DEF IdleRequest
<1> HIDE DEF row
<1>3. requests' = [requests EXCEPT ![r] = row]
  BY DEF Answer, row
<1> QED BY <1>1, <1>2, <1>3 DEF TypeOK, KeysKnown, RequestsOK

\* A denial, or the recheck it leads to, keeps the invocations typed.
LEMMA DenyTyped ==
  ASSUME TypeOK, NEW r \in Requests, requests[r].key \in Keys, NEW code \in Codes, Deny(r, code)
  PROVE  RequestsOK'
<1>1. requests[r] \in RequestState
  BY DEF TypeOK
<1>2. CASE requests[r].prior = None /\ code \in Rechecked
  <2> DEFINE row == [requests[r] EXCEPT !.pc = "recheck", !.code = code]
  <2>1. row \in RequestState /\ row.key = requests[r].key
    <3>1. row \in RequestState
      BY <1>1, SetPc, SetCode
    <3> QED BY <1>1, <3>1 DEF RequestState
  <2>3. requests' = [requests EXCEPT ![r] = row]
    BY <1>2 DEF Deny
  <2> QED BY <2>1, <2>3, RowTyped
<1>3. CASE ~(requests[r].prior = None /\ code \in Rechecked)
  BY <1>3, AnswerTyped DEF Deny
<1> QED BY <1>2, <1>3

\* A step that touches nothing but the requests and the denial events.
LEMMA RequestStepTyped ==
  ASSUME TypeOK, RequestsOK', OnlyRequests,
         denials' \subseteq [license: Licenses, key: Keys, ts: Nat]
  PROVE  TypeOK'
BY DEF TypeOK, KeysKnown, RequestsOK, OnlyRequests

\* What an invocation copies from an attempt is typed.
LEMMA AttemptReadTyped ==
  ASSUME TypeOK, NEW q \in RequestState, NEW a \in Attempts
  PROVE  AttemptRead(q, a) \in RequestState /\ AttemptRead(q, a).key = q.key
<1>1. attempts[a] \in AttemptRow
  BY DEF TypeOK
<1>2. /\ attempts[a].status \in {"none", "pending", "approved", "denied", "consumed", "purged"}
      /\ attempts[a].rev \in Nat
      /\ attempts[a].customer \in Customers \cup {None}
      /\ attempts[a].license \in Licenses \cup {None}
      /\ attempts[a].op \in OpIds \cup {None}
      /\ attempts[a].inv \in Requests \cup {None}
  BY <1>1 DEF AttemptRow
<1>3. (attempts[a].expires > now /\ attempts[a].codeExpires > now) \in BOOLEAN
  OBVIOUS
<1> DEFINE half == [q EXCEPT !.status = attempts[a].status, !.attRev = attempts[a].rev,
                             !.customer = attempts[a].customer, !.license = attempts[a].license]
           whole == [half EXCEPT !.attOp = attempts[a].op, !.attInv = attempts[a].inv,
                                 !.live = attempts[a].expires > now /\ attempts[a].codeExpires > now]
<1>4. AttemptRead(q, a) \in RequestState
  <2>1. half \in RequestState
    BY <1>2, SetStatus, SetAttRev, SetCustomer, SetLicense
  <2>2. AttemptRead(q, a) = whole
    BY DEF AttemptRead
  <2> HIDE DEF half
  <2>3. whole \in RequestState
    BY <1>2, <1>3, <2>1, SetAttOp, SetAttInv, SetLive
  <2> QED BY <2>2, <2>3
<1>5. AttemptRead(q, a).key = q.key
  BY DEF AttemptRead, RequestState
<1> QED BY <1>4, <1>5

\* An invocation that passed proof is typed and names the key of its subject.
LEMMA ProvedTyped ==
  ASSUME TypeOK, NEW in \in RequestInputs, SubjectExists(in)
  PROVE  Proved(in) \in RequestState /\ Proved(in).key \in Keys
<1>1. SubjectKey(in) \in Keys
  <2>1. CASE in.purpose = "exchange"
    BY <2>1 DEF TypeOK, KeysKnown, SubjectExists, SubjectKey
  <2>2. CASE in.purpose # "exchange"
    BY <2>2 DEF TypeOK, KeysKnown, SubjectExists, SubjectKey
  <2> QED BY <2>1, <2>2
<1>2. /\ in.purpose \in {"exchange", "renew"} /\ in.subject \in Attempts \cup Bindings \cup {None}
      /\ in.arg \in Nat /\ in.op \in OpIds \cup {None} /\ in.chal \in Challenges \cup {None}
  <2>1. CASE in \in [purpose: {"exchange"}, subject: Attempts, arg: {0, 1}, op: OpIds, chal: Challenges]
    BY <2>1
  <2>2. CASE in \in [purpose: {"renew"}, subject: Bindings, arg: Generations, op: OpIds, chal: Challenges]
    BY <2>2, SetsAssumption
  <2> QED BY <2>1, <2>2 DEF RequestInputs
<1> DEFINE q == [IdleRequest EXCEPT !.pc = "lookup", !.purpose = in.purpose, !.subject = in.subject,
                               !.arg = in.arg, !.op = in.op, !.chal = in.chal, !.key = SubjectKey(in)]
<1>3. q \in RequestState
  BY <1>1, <1>2, IdleRequestTyped, SetPc, SetPurpose, SetSubject, SetArg, SetOp, SetChal, SetKey
<1>4. q.key = SubjectKey(in)
  BY DEF IdleRequest
<1>5. CASE in.purpose = "exchange"
  <2>1. in.subject \in Attempts
    BY <1>5, SetsAssumption DEF RequestInputs
  <2>2. Proved(in) = AttemptRead(q, in.subject)
    BY <1>5 DEF Proved
  <2> HIDE DEF q
  <2> QED BY <1>1, <1>3, <1>4, <2>1, <2>2, AttemptReadTyped
<1>6. CASE in.purpose = "renew"
  <2>1. /\ in.subject \in Bindings /\ bindings[in.subject].state # "none"
    BY <1>6 DEF RequestInputs, SubjectExists
  <2>2. /\ bindings[in.subject].license \in Licenses \cup {None}
        /\ devices[bindings[in.subject].key].customer \in Customers \cup {None}
    <3>1. bindings[in.subject].key \in Keys /\ bindings[in.subject].license \in Licenses
      BY <2>1 DEF TypeOK, KeysKnown
    <3>2. devices[bindings[in.subject].key] \in DeviceRow
      BY <3>1 DEF TypeOK
    <3> QED BY <3>1, <3>2 DEF DeviceRow
  <2> DEFINE license == bindings[in.subject].license
             customer == devices[bindings[in.subject].key].customer
  <2>3. Proved(in) = [q EXCEPT !.license = license, !.customer = customer]
    BY <1>6 DEF Proved
  <2> HIDE DEF q, license, customer
  <2>4. Proved(in) \in RequestState
    <3>1. license \in Licenses \cup {None} /\ customer \in Customers \cup {None}
      BY <2>2 DEF license, customer
    <3>2. [q EXCEPT !.license = license] \in RequestState
      BY <1>3, <3>1, SetLicense
    <3>3. [q EXCEPT !.license = license, !.customer = customer] \in RequestState
      BY <3>1, <3>2, SetCustomer
    <3> QED BY <2>3, <3>3
  <2>5. Proved(in).key = q.key
    BY <1>3, <2>3 DEF RequestState
  <2> QED BY <1>1, <1>4, <2>4, <2>5
<1> QED BY <1>2, <1>5, <1>6

\* The proof step (verifyProof in issueBoundLease) keeps the types.
LEMMA ProveTyped ==
  ASSUME TypeOK, NEW r \in Requests, NEW in \in RequestInputs, Prove(r, in)
  PROVE  TypeOK'
<1>1. CASE ProveRefusal(in) = "none"
  <2>1. SubjectExists(in)
    BY <1>1 DEF ProveRefusal
  <2>2. requests' = [requests EXCEPT ![r] = Proved(in)]
    BY <1>1 DEF Prove
  <2>3. RequestsOK'
    BY <2>1, <2>2, ProvedTyped, RowTyped
  <2> QED BY <2>3, RequestStepTyped DEF Prove, TypeOK
<1>2. CASE ProveRefusal(in) # "none"
  <2>1. ProveRefusal(in) \in Codes
    BY DEF ProveRefusal, Codes
  <2>2. RequestsOK'
    BY <1>2, <2>1, AnswerTyped DEF Prove
  <2> QED BY <2>2, RequestStepTyped DEF Prove, TypeOK
<1> QED BY <1>1, <1>2

\* Looking the operation up keeps the types.
LEMMA LookUpTyped ==
  ASSUME TypeOK, NEW r \in Requests, LookUp(r)
  PROVE  TypeOK'
<1> DEFINE q == requests[r]
<1>1. q \in RequestState /\ q.key \in Keys
  BY DEF TypeOK, KeysKnown, LookUp
<1>2. PICK o \in OpKeys :
        IF ~operations[o].exists
        THEN requests' = [requests EXCEPT ![r].pc = "license"]
        ELSE IF \/ operations[o].digest # RequestDigest(q)
                \/ ~operations[o].response \/ operations[o].retain <= now
        THEN Answer(r, "idempotency_conflict")
        ELSE requests' = [requests EXCEPT ![r] =
               [q EXCEPT !.prior = operations[o].inv, !.priorBinding = operations[o].binding,
                         !.pc = IF q.purpose = "exchange" THEN "reread" ELSE "license"]]
  BY DEF LookUp
<1> DEFINE fresh == [q EXCEPT !.pc = "license"]
           replay == [q EXCEPT !.prior = operations[o].inv, !.priorBinding = operations[o].binding,
                               !.pc = IF q.purpose = "exchange" THEN "reread" ELSE "license"]
<1>3. fresh \in RequestState /\ fresh.key \in Keys
  <2>1. fresh \in RequestState
    BY <1>1, SetPc
  <2>2. fresh.key = q.key
    BY <1>1 DEF RequestState
  <2> QED BY <1>1, <2>1, <2>2
<1>4. replay \in RequestState /\ replay.key \in Keys
  <2>1. operations[o].inv \in Requests \cup Retires \cup {None} /\ operations[o].binding \in Bindings \cup {None}
    BY DEF TypeOK, OperationRow
  <2>2. replay \in RequestState
    BY <1>1, <2>1, SetPrior, SetPriorBinding, SetPc
  <2>3. replay.key = q.key
    BY <1>1 DEF RequestState
  <2> QED BY <1>1, <2>2, <2>3
<1>5. RequestsOK'
  <2>1. CASE requests' = [requests EXCEPT ![r].pc = "license"]
    BY <2>1, <1>3, RowTyped
  <2>2. CASE Answer(r, "idempotency_conflict")
    BY <2>2, AnswerTyped DEF Codes
  <2>3. CASE requests' = [requests EXCEPT ![r] = replay]
    <3> HIDE DEF replay
    <3> QED BY <2>3, <1>4, RowTyped
  <2> QED BY <1>2, <2>1, <2>2, <2>3
<1> QED BY <1>5, RequestStepTyped DEF LookUp, TypeOK

\* Rereading the attempt after the lookup keeps the types.
LEMMA RereadTyped ==
  ASSUME TypeOK, NEW r \in Requests, Reread(r)
  PROVE  TypeOK'
<1> DEFINE q == requests[r]
<1>1. q \in RequestState /\ q.key \in Keys
  BY DEF TypeOK, KeysKnown, Reread
<1>2. CASE \E a \in Attempts : a = q.subject /\ attempts[a].status \notin {"none", "purged"}
  <2> DEFINE row == [AttemptRead(q, q.subject) EXCEPT !.pc = "license"]
  <2>1. AttemptRead(q, q.subject) \in RequestState /\ AttemptRead(q, q.subject).key \in Keys
    BY <1>1, <1>2, AttemptReadTyped
  <2>2. row \in RequestState
    BY <2>1, SetPc
  <2>5. row.key = AttemptRead(q, q.subject).key
    BY <2>1 DEF RequestState
  <2>3. requests' = [requests EXCEPT ![r] = row]
    BY <1>2 DEF Reread
  <2>4. RequestsOK'
    BY <2>1, <2>2, <2>5, <2>3, RowTyped
  <2> QED BY <2>4, RequestStepTyped DEF Reread, TypeOK
<1>3. CASE ~\E a \in Attempts : a = q.subject /\ attempts[a].status \notin {"none", "purged"}
  <2>1. RequestsOK'
    BY <1>3, AnswerTyped DEF Reread, Codes
  <2> QED BY <2>1, RequestStepTyped DEF Reread, TypeOK
<1> QED BY <1>2, <1>3

\* The lease of a request ends within the bound of the model.
LEMMA LeaseEndTyped ==
  ASSUME TypeOK, NEW l \in Licenses
  PROVE  LeaseEnd(l, entitlements[l]) \in 0 .. MaxTime + LeaseMax
<1> DEFINE e == entitlements[l]
<1>1. e \in EntitlementRow /\ now \in 0 .. MaxTime
  BY DEF TypeOK
<1>2. e.until \in Nat /\ e.lease \in Nat /\ e.started \in Time
  BY <1>1 DEF EntitlementRow
<1>3. now \in Nat /\ now <= MaxTime /\ MaxTime \in Nat /\ LeaseMax \in Nat /\ TrialSeconds \in Nat
  BY <1>1, TimingAssumption
<1> HIDE DEF e
<1>4. TrialEnd(l, e, now) \in Nat
  BY <1>2, <1>3 DEF TrialEnd, Time, NoTime
<1>5. \A x, y \in Nat : Lesser(x, y) \in Nat /\ Lesser(x, y) <= y
  BY DEF Lesser
<1> DEFINE paid == Lesser(e.until, IF e.lease > 0 THEN now + e.lease ELSE now + LeaseMax)
           open == IF l \in Trials THEN Lesser(paid, TrialEnd(l, e, now)) ELSE paid
<1>6. paid \in Nat
  <2>1. (IF e.lease > 0 THEN now + e.lease ELSE now + LeaseMax) \in Nat
    BY <1>2, <1>3
  <2> QED BY <1>2, <1>5, <2>1
<1>7. open \in Nat
  BY <1>4, <1>5, <1>6
<1>8. LeaseEnd(l, e) = Lesser(open, now + LeaseMax)
  BY DEF LeaseEnd
<1> HIDE DEF open
<1>9. now + LeaseMax \in Nat /\ now + LeaseMax <= MaxTime + LeaseMax
  BY <1>3
<1>10. LeaseEnd(l, e) \in Nat /\ LeaseEnd(l, e) <= now + LeaseMax
  BY <1>5, <1>7, <1>8, <1>9
<1> QED BY <1>3, <1>9, <1>10 DEF e

\* Reading the license keeps the types.
LEMMA ReadLicenseTyped ==
  ASSUME TypeOK, NEW r \in Requests, ReadLicense(r)
  PROVE  TypeOK'
<1> DEFINE q == requests[r]
<1>1. q \in RequestState /\ q.key \in Keys
  BY DEF TypeOK, KeysKnown, ReadLicense
<1>2. CASE LicenseRefusal(q) # "none"
  <2>1. LicenseRefusal(q) \in Codes
    BY DEF LicenseRefusal, AttemptRefusal, Codes
  <2>2. RequestsOK'
    BY <1>1, <1>2, <2>1, DenyTyped DEF ReadLicense
  <2> QED BY <2>2, RequestStepTyped DEF ReadLicense, TypeOK
<1>3. CASE LicenseRefusal(q) = "none"
  <2>1. q.license \in Licenses /\ q.customer \in Customers
    BY <1>3 DEF LicenseRefusal
  <2> DEFINE e == entitlements[q.license]
             custRev == customers[q.customer].rev
             end == LeaseEnd(q.license, e)
             stamp == q.license \in Trials /\ e.started = NoTime
             row == [q EXCEPT !.pc = "device", !.custRev = custRev, !.entRev = e.rev, !.limit = e.max,
                              !.issued = now, !.expires = end, !.stamp = stamp]
  <2>2. e.rev \in Nat /\ e.max \in Nat
    <3>1. e \in EntitlementRow
      BY <2>1 DEF TypeOK
    <3>2. e.rev \in Revisions /\ e.max \in Limits
      BY <3>1 DEF EntitlementRow
    <3>3. e.rev \in Nat
      BY <3>2, TimingAssumption DEF Revisions
    <3>4. e.max \in Nat
      BY <3>2, SetsAssumption
    <3> QED BY <3>3, <3>4
  <2>3. custRev \in Nat
    BY <2>1 DEF TypeOK, CustomerRow, Revisions
  <2>4. end \in 0 .. MaxTime + LeaseMax
    BY <2>1, LeaseEndTyped
  <2>5. now \in Nat /\ stamp \in BOOLEAN
    BY DEF TypeOK
  <2>6. requests' = [requests EXCEPT ![r] = row]
    BY <1>3 DEF ReadLicense
  <2> HIDE DEF e, custRev, end, stamp
  <2>7. row \in RequestState
    <3>1. [q EXCEPT !.pc = "device", !.custRev = custRev, !.entRev = e.rev] \in RequestState
      BY <1>1, <2>2, <2>3, SetPc, SetCustRev, SetEntRev
    <3> QED BY <3>1, <2>2, <2>4, <2>5, SetLimit, SetIssued, SetExpires, SetStamp
  <2>8. row.key = q.key
    BY <1>1 DEF RequestState
  <2>9. RequestsOK'
    <3> HIDE DEF row
    <3> QED BY <1>1, <2>6, <2>7, <2>8, RowTyped
  <2> QED BY <2>9, RequestStepTyped DEF ReadLicense, TypeOK
<1> QED BY <1>2, <1>3

\* Reading the device and its binding keeps the types.
LEMMA ReadDeviceTyped ==
  ASSUME TypeOK, NEW r \in Requests, ReadDevice(r)
  PROVE  TypeOK'
<1> DEFINE q == requests[r]
           d == devices[q.key]
           b == IF TargetBinding(q) # None THEN TargetBinding(q)
                ELSE IF d.status = "none" THEN None ELSE ActiveBindingOf(q.license, q.key)
           known == [q EXCEPT !.known = d.status # "none", !.devRev = d.rev]
<1>1. q \in RequestState /\ q.key \in Keys
  BY DEF TypeOK, KeysKnown, ReadDevice
<1>2. known \in RequestState /\ known.key = q.key
  <2>1. d.rev \in Nat /\ (d.status # "none") \in BOOLEAN
    BY <1>1 DEF TypeOK, DeviceRow, Revisions
  <2>2. known \in RequestState
    BY <1>1, <2>1, SetKnown, SetDevRev
  <2>3. known.key = q.key
    BY <1>1 DEF RequestState
  <2> QED BY <2>2, <2>3
<1>3. CASE DeviceRefusal(q, b) # "none"
  <2>1. DeviceRefusal(q, b) \in Codes
    BY DEF DeviceRefusal, Codes
  <2>2. Deny(r, DeviceRefusal(q, b))
    BY <1>3 DEF ReadDevice
  <2>3. RequestsOK'
    BY <1>1, <2>1, <2>2, DenyTyped
  <2> QED BY <2>3, RequestStepTyped DEF ReadDevice, TypeOK
<1>4. CASE DeviceRefusal(q, b) = "none" /\ b = None
  <2> DEFINE row == [known EXCEPT !.pc = "capacity"]
  <2>1. requests' = [requests EXCEPT ![r] = row]
    BY <1>4 DEF ReadDevice
  <2> HIDE DEF known
  <2>2. row \in RequestState
    BY <1>2, SetPc
  <2>3. row.key = known.key
    BY <1>2 DEF RequestState
  <2>4. RequestsOK'
    BY <1>1, <1>2, <2>1, <2>2, <2>3, RowTyped
  <2> QED BY <2>4, RequestStepTyped DEF ReadDevice, TypeOK
<1>5. CASE DeviceRefusal(q, b) = "none" /\ b # None /\ Ready(q) = "refused"
  <2>1. Answer(r, "access_denied")
    BY <1>5 DEF ReadDevice
  <2>2. RequestsOK'
    BY <2>1, AnswerTyped DEF Codes
  <2> QED BY <2>2, RequestStepTyped DEF ReadDevice, TypeOK
<1>6. CASE DeviceRefusal(q, b) = "none" /\ b # None /\ Ready(q) # "refused"
  <2>1. b \in Bindings
    <3>1. CASE TargetBinding(q) # None
      BY <1>6, <3>1 DEF DeviceRefusal
    <3>2. CASE TargetBinding(q) = None
      BY <1>6, <3>2 DEF ActiveBindingOf
    <3> QED BY <3>1, <3>2
  <2>2. bindings[b].rev \in Nat /\ bindings[b].gen \in Nat
    BY <2>1 DEF TypeOK, BindingRow, Revisions
  <2> DEFINE bindRev == bindings[b].rev
             gen == bindings[b].gen
             row == [known EXCEPT !.pc = Ready(q), !.binding = b, !.bindRev = bindRev, !.gen = gen]
  <2>3. requests' = [requests EXCEPT ![r] = row]
    BY <1>6 DEF ReadDevice
  <2>4. Ready(q) \in {"recover", "commit"}
    BY <1>6 DEF Ready
  <2> HIDE DEF known, b, bindRev, gen
  <2>5. row \in RequestState
    BY <1>2, <2>1, <2>2, <2>4, SetPc, SetBinding, SetBindRev, SetGen DEF bindRev, gen
  <2>6. row.key = known.key
    BY <1>2 DEF RequestState
  <2>7. RequestsOK'
    <3> HIDE DEF row
    <3> QED BY <1>1, <1>2, <2>3, <2>5, <2>6, RowTyped
  <2> QED BY <2>7, RequestStepTyped DEF ReadDevice, TypeOK
<1> QED BY <1>3, <1>4, <1>5, <1>6

\* Counting the occupied slots keeps the types.
LEMMA CheckCapacityTyped ==
  ASSUME TypeOK, NEW r \in Requests, CheckCapacity(r)
  PROVE  TypeOK'
<1> DEFINE q == requests[r]
<1>1. q \in RequestState /\ q.key \in Keys
  BY DEF TypeOK, KeysKnown, CheckCapacity
<1>2. PICK l \in Licenses, k \in Keys :
        \/ /\ Cardinality(Occupied(l)) >= q.limit
           /\ IF ActiveBindingOf(l, k) # None
              THEN Answer(r, "temporarily_unavailable") /\ UNCHANGED denials
              ELSE Deny(r, "device_limit_reached") /\ (RecordDenial(l, k) \/ UNCHANGED denials)
        \/ /\ Cardinality(Occupied(l)) < q.limit
           /\ IF Ready(q) = "refused" THEN Answer(r, "access_denied")
              ELSE requests' = [requests EXCEPT ![r] = [@ EXCEPT !.pc = "commit", !.gen = 1]]
           /\ UNCHANGED denials
  BY DEF CheckCapacity
<1>3. denials' \subseteq [license: Licenses, key: Keys, ts: Nat]
  <2>1. now \in Nat /\ denials \subseteq [license: Licenses, key: Keys, ts: Nat]
    BY DEF TypeOK
  <2> QED BY <1>2, <2>1 DEF RecordDenial
<1>4. RequestsOK'
  <2> DEFINE row == [q EXCEPT !.pc = "commit", !.gen = 1]
  <2>1. row \in RequestState
    BY <1>1, SetPc, SetGen
  <2>2. row.key = q.key
    BY <1>1 DEF RequestState
  <2>3. CASE Answer(r, "temporarily_unavailable") \/ Answer(r, "access_denied")
    BY <2>3, AnswerTyped DEF Codes
  <2>4. CASE Deny(r, "device_limit_reached")
    BY <1>1, <2>4, DenyTyped DEF Codes
  <2>5. CASE requests' = [requests EXCEPT ![r] = row]
    BY <1>1, <2>1, <2>2, <2>5, RowTyped
  <2> HIDE DEF row
  <2>6. requests' = [requests EXCEPT ![r] = [@ EXCEPT !.pc = "commit", !.gen = 1]] => requests' = [requests EXCEPT ![r] = row]
    BY DEF row
  <2> QED BY <1>2, <2>3, <2>4, <2>5, <2>6
<1> QED BY <1>3, <1>4, RequestStepTyped DEF CheckCapacity

\* The steps that only answer.
LEMMA AnsweringTyped ==
  ASSUME TypeOK, NEW r \in Requests, Recheck(r) \/ Fail(r) \/ CommitAborts(r) \/ RecoverAborts(r)
  PROVE  TypeOK'
<1>1. requests[r].code \in Codes
  BY DEF TypeOK, RequestState
<1>2. \E code \in Codes : Answer(r, code)
  <2>1. CASE Recheck(r)
    BY <1>1, <2>1 DEF Recheck, Codes
  <2>2. CASE Fail(r) \/ CommitAborts(r) \/ RecoverAborts(r)
    BY <2>2 DEF Fail, CommitAborts, RecoverAborts, Codes
  <2> QED BY <2>1, <2>2
<1>3. RequestsOK'
  BY <1>2, AnswerTyped
<1>4. OnlyRequests /\ denials' = denials
  BY DEF Recheck, Fail, CommitAborts, RecoverAborts
<1> QED BY <1>3, <1>4, RequestStepTyped DEF TypeOK

\* Returning an answer keeps invocations and answers typed.
LEMMA ReplyTyped ==
  ASSUME TypeOK, NEW r \in Requests, NEW o \in OpKeys, NEW answer \in Requests \cup Retires,
         Reply(r, o, answer)
  PROVE  RequestsOK' /\ replies' \subseteq [opKey: OpKeys, answer: Requests \cup Retires]
BY AnswerTyped DEF Reply, Codes, TypeOK

\* Consuming the challenge keeps the challenges typed.
LEMMA SpendChallengeTyped ==
  ASSUME TypeOK, NEW r \in Requests, SpendChallenge(r)
  PROVE  challenges' \in [Challenges -> ChallengeRow]
<1>1. \A row \in ChallengeRow : [row EXCEPT !.status = "consumed", !.inv = r] \in ChallengeRow
  BY DEF ChallengeRow
<1> QED BY <1>1 DEF SpendChallenge, TypeOK

\* Recovering the stored response (recoverBoundDeviceLease) keeps the types.
LEMMA RecoverTyped ==
  ASSUME TypeOK, NEW r \in Requests, NEW o \in OpKeys, NEW l \in Licenses, NEW b \in Bindings,
         Recover(r, o, l, b)
  PROVE  TypeOK'
<1>1. operations[o].inv \in Requests \cup Retires
  BY DEF Recover, RecoverGuard, TypeOK, KeysKnown
<1>2. RequestsOK' /\ replies' \subseteq [opKey: OpKeys, answer: Requests \cup Retires]
  BY <1>1, ReplyTyped DEF Recover
<1>3. challenges' \in [Challenges -> ChallengeRow]
  BY SpendChallengeTyped DEF Recover
<1> QED BY <1>2, <1>3 DEF TypeOK, KeysKnown, RequestsOK, Recover

\* Inserting or extending the binding keeps the bindings typed: a hold never passes the horizon.
LEMMA CommitBindingTyped ==
  ASSUME TypeOK, NEW r \in Requests, NEW o \in OpKeys, NEW l \in Licenses, NEW b \in Bindings,
         Commit(r, o, l, b)
  PROVE  /\ bindings' \in [Bindings -> BindingRow]
         /\ \A x \in Bindings : bindings'[x].state # "none" => bindings'[x].key \in Keys /\ bindings'[x].license \in Licenses
<1> DEFINE q == requests[r]
<1>1. q \in RequestState /\ q.key \in Keys
  BY DEF TypeOK, KeysKnown, Commit
<1>2. bindings[b] \in BindingRow
  BY DEF TypeOK
<1>3. bindings[b].rev + 1 \in Revisions
  BY <1>2, TimingAssumption DEF BindingRow, Revisions, Commit, CommitGuard
<1>4. \A h \in 0 .. Horizon : Held(h, q) \in 0 .. Horizon
  <2>1. q.expires \in 0 .. MaxTime + LeaseMax
    BY <1>1 DEF RequestState
  <2>2. AcceptUntil(q) \in 0 .. Horizon
    BY <2>1, TimingAssumption DEF AcceptUntil, Horizon
  <2> QED BY <2>2 DEF Held, Later
<1>5. 0 \in 0 .. Horizon /\ 1 \in Revisions
  BY TimingAssumption DEF Horizon, Revisions
<1> DEFINE row == BoundRow(bindings[b], l, q)
<1>6. row \in BindingRow /\ row.state # "none" /\ row.key \in Keys /\ row.license \in Licenses
  <2>1. CASE bindings[b].state = "none"
    BY <1>1, <1>4, <1>5, <2>1 DEF BoundRow, BindingRow
  <2>2. CASE bindings[b].state # "none"
    <3>1. Held(bindings[b].hold, q) \in 0 .. Horizon
      BY <1>2, <1>4 DEF BindingRow
    <3>2. bindings[b].key \in Keys /\ bindings[b].license \in Licenses
      BY <2>2 DEF TypeOK, KeysKnown
    <3> QED BY <1>2, <1>3, <2>2, <3>1, <3>2 DEF BoundRow, BindingRow
  <2> QED BY <2>1, <2>2
<1>7. bindings' = [bindings EXCEPT ![b] = row]
  BY DEF Commit, HoldBinding
<1> HIDE DEF row
<1> QED BY <1>6, <1>7 DEF TypeOK, KeysKnown

\* Starting a trial (stampTrial) keeps the entitlements typed.
LEMMA CommitTrialTyped ==
  ASSUME TypeOK, NEW r \in Requests, NEW o \in OpKeys, NEW l \in Licenses, NEW b \in Bindings,
         Commit(r, o, l, b)
  PROVE  entitlements' \in [Licenses -> EntitlementRow]
<1> DEFINE q == requests[r]
<1>1. q.key \in Keys /\ entitlements[l] \in EntitlementRow /\ now \in Time
  BY DEF TypeOK, KeysKnown, Commit, Time
<1>2. CASE ~q.stamp
  BY <1>2 DEF Commit, StampTrial, TypeOK
<1>3. CASE q.stamp
  <2>1. entitlements[l].rev + 1 \in Revisions
    BY <1>1, <1>3, TimingAssumption DEF Commit, CommitGuard, AuthorityHolds, EntitlementRow, Revisions
  <2> DEFINE row == [entitlements[l] EXCEPT !.started = now, !.trialKey = q.key, !.rev = @ + 1]
  <2>2. row \in EntitlementRow
    BY <1>1, <2>1 DEF EntitlementRow
  <2>3. entitlements' = [entitlements EXCEPT ![l] = row]
    BY <1>3 DEF Commit, StampTrial
  <2> HIDE DEF row
  <2> QED BY <2>2, <2>3 DEF TypeOK
<1> QED BY <1>2, <1>3

\* An attempt with a typed consumer written into it is still an attempt.
LEMMA SetConsumer ==
  ASSUME NEW row \in AttemptRow, NEW x \in Requests \cup {None}
  PROVE  [row EXCEPT !.inv = x] \in AttemptRow
BY DEF AttemptRow

\* An attempt with a typed operation id written into it is still an attempt.
LEMMA SetConsumedOp ==
  ASSUME NEW row \in AttemptRow, NEW x \in OpIds \cup {None}
  PROVE  [row EXCEPT !.op = x] \in AttemptRow
BY DEF AttemptRow

\* An attempt with a typed recovery deadline written into it is still an attempt.
LEMMA SetRecovery ==
  ASSUME NEW row \in AttemptRow, NEW x \in Time
  PROVE  [row EXCEPT !.recovery = x] \in AttemptRow
BY DEF AttemptRow

\* Consuming the attempt keeps the attempts typed.
LEMMA CommitAttemptTyped ==
  ASSUME TypeOK, NEW r \in Requests, NEW o \in OpKeys, NEW l \in Licenses, NEW b \in Bindings,
         Commit(r, o, l, b)
  PROVE  /\ attempts' \in [Attempts -> AttemptRow]
         /\ \A a \in Attempts : attempts'[a].status \notin {"none", "purged"} => attempts'[a].key \in Keys
<1> DEFINE q == requests[r]
           spent(a) == [attempts[a] EXCEPT !.status = "consumed", !.rev = @ + 1, !.sealed = FALSE,
                                           !.inv = r, !.op = q.op, !.recovery = now + RecoveryTTL]
<1>1. q.op \in OpIds \cup {None} /\ now + RecoveryTTL \in Nat
  BY TimingAssumption DEF TypeOK, RequestState
<1>2. ASSUME NEW a \in Attempts, q.purpose = "exchange" /\ a = q.subject
      PROVE  spent(a) \in AttemptRow /\ spent(a).key \in Keys
  <2>1. attempts[a] \in AttemptRow /\ attempts[a].status = "approved"
    BY <1>2 DEF TypeOK, Commit, CommitGuard, ApprovedAttempt
  <2>2. attempts[a].key \in Keys /\ attempts[a].rev + 1 \in Nat
    BY <2>1 DEF TypeOK, KeysKnown, AttemptRow
  <2> DEFINE half == [attempts[a] EXCEPT !.status = "consumed", !.rev = @ + 1, !.sealed = FALSE]
             rest == [half EXCEPT !.inv = r, !.op = q.op, !.recovery = now + RecoveryTTL]
  <2>3. half \in AttemptRow
    BY <2>1, <2>2 DEF AttemptRow
  <2>4. spent(a) = rest
    OBVIOUS
  <2>5. now + RecoveryTTL \in Time
    BY <1>1 DEF Time
  <2>6. spent(a).key = attempts[a].key
    BY <2>1 DEF AttemptRow
  <2> HIDE DEF half, q
  <2>7. rest \in AttemptRow
    BY <1>1, <2>3, <2>5, SetConsumer, SetConsumedOp, SetRecovery
  <2> HIDE DEF rest, spent
  <2> QED BY <2>2, <2>4, <2>6, <2>7
<1>3. attempts' = [a \in Attempts |-> IF q.purpose = "exchange" /\ a = q.subject THEN spent(a) ELSE attempts[a]]
  BY DEF Commit, ConsumeApproval
<1> HIDE DEF spent
<1> QED BY <1>2, <1>3 DEF TypeOK, KeysKnown

\* Storing the operation and its lease keeps both tables typed.
LEMMA CommitOperationTyped ==
  ASSUME TypeOK, NEW r \in Requests, NEW o \in OpKeys, NEW l \in Licenses, NEW b \in Bindings,
         Commit(r, o, l, b)
  PROVE  /\ operations' \in [OpKeys -> OperationRow]
         /\ \A x \in OpKeys : operations'[x].exists => operations'[x].inv \in Requests \cup Retires
         /\ leases' \in [Requests -> LeaseRow]
<1> DEFINE q == requests[r]
           op == [exists |-> TRUE, digest |-> RequestDigest(q), inv |-> r, customer |-> q.customer,
                  binding |-> b, response |-> TRUE, committed |-> now, retain |-> now + RecoveryTTL,
                  release |-> 0, rev |-> 0, gen |-> 0]
           lease == [row |-> "stored", opKey |-> o, subject |-> q.subject, license |-> l, binding |-> b,
                     gen |-> q.gen, entRev |-> q.entRev + (IF q.stamp THEN 1 ELSE 0),
                     issued |-> q.issued, expires |-> q.expires, accept |-> AcceptUntil(q)]
<1>1. q \in RequestState /\ now \in Nat /\ RecoveryTTL \in Nat
  BY TimingAssumption DEF TypeOK
<1>2. /\ q.subject \in Attempts \cup Bindings \cup {None} /\ q.arg \in Nat
      /\ q.customer \in Customers \cup {None} /\ q.gen \in Nat /\ q.entRev \in Nat /\ q.issued \in Nat
      /\ q.expires \in 0 .. MaxTime + LeaseMax
  BY <1>1 DEF RequestState
<1>3. op \in OperationRow
  <2>1. RequestDigest(q) \in Digest
    BY <1>2 DEF RequestDigest, Digest, Actors
  <2> QED BY <1>1, <1>2, <2>1 DEF OperationRow
<1>4. lease \in LeaseRow
  <2>1. AcceptUntil(q) \in 0 .. Horizon /\ q.expires \in Nat
    BY <1>2, TimingAssumption DEF AcceptUntil, Horizon
  <2>2. q.entRev + (IF q.stamp THEN 1 ELSE 0) \in Nat
    BY <1>2
  <2> QED BY <1>2, <2>1, <2>2 DEF LeaseRow
<1>5. operations' = [operations EXCEPT ![o] = op] /\ leases' = [leases EXCEPT ![r] = lease]
  BY DEF Commit, StoreOperation, IssueLease
<1>6. op.inv = r
  OBVIOUS
<1> HIDE DEF op, lease
<1> QED BY <1>3, <1>4, <1>5, <1>6 DEF TypeOK, KeysKnown

\* The commit batch of a lease keeps the types.
LEMMA CommitTyped ==
  ASSUME TypeOK, NEW r \in Requests, NEW o \in OpKeys, NEW l \in Licenses, NEW b \in Bindings,
         Commit(r, o, l, b)
  PROVE  TypeOK'
<1>1. RequestsOK' /\ replies' \subseteq [opKey: OpKeys, answer: Requests \cup Retires]
  BY ReplyTyped DEF Commit
<1>2. challenges' \in [Challenges -> ChallengeRow]
  BY SpendChallengeTyped DEF Commit
<1>3. devices' \in [Keys -> DeviceRow]
  <2>1. requests[r].customer \in Customers /\ 0 \in Revisions
    BY TimingAssumption DEF Commit, CommitGuard, Revisions
  <2>2. [status |-> "active", customer |-> requests[r].customer, rev |-> 0] \in DeviceRow
    BY <2>1 DEF DeviceRow
  <2> QED BY <2>2 DEF Commit, CreateDevice, TypeOK
<1>4. UNCHANGED <<now, customers, denials, denyCache, consents, retires>>
  BY DEF Commit
<1> QED
  BY <1>1, <1>2, <1>3, <1>4, CommitBindingTyped, CommitTrialTyped, CommitAttemptTyped, CommitOperationTyped
  DEF TypeOK, KeysKnown, RequestsOK

\* Every step of lease issue keeps the types.
LEMMA IssueTyped == TypeOK /\ IssueNext => TypeOK'
BY ProveTyped, LookUpTyped, RereadTyped, ReadLicenseTyped, ReadDeviceTyped, CheckCapacityTyped,
   AnsweringTyped, CommitTyped, RecoverTyped
DEF IssueNext, IssueStep

-----------------------------------------------------------------------------
(* Enrollment. *)

\* A fresh attempt keeps the types.
LEMMA CreateAuthorizationTyped ==
  ASSUME TypeOK, NEW a \in Attempts, NEW k \in Keys, CreateAuthorization(a, k)
  PROVE  TypeOK'
<1> DEFINE row == [NoAttempt EXCEPT !.status = "pending", !.key = k, !.expires = now + AttemptTTL]
<1>1. now + AttemptTTL \in Nat
  BY TimingAssumption DEF TypeOK
<1>2. row \in AttemptRow /\ row.key = k
  BY <1>1 DEF NoAttempt, AttemptRow, Time, NoTime
<1>3. attempts' = [attempts EXCEPT ![a] = row]
  BY DEF CreateAuthorization
<1> HIDE DEF row
<1> QED BY <1>2, <1>3 DEF TypeOK, KeysKnown, CreateAuthorization

\* A fresh challenge for a known key keeps the types.
LEMMA AddChallengeTyped ==
  ASSUME TypeOK, NEW c \in Challenges, NEW purpose \in {"exchange", "renew"},
         NEW subject \in Attempts \cup Bindings, NEW key \in Keys \cup {None}, NEW op \in OpIds,
         NEW deadline \in Nat, AddChallenge(c, purpose, subject, key, op, deadline)
  PROVE  TypeOK'
<1> DEFINE row == [status |-> "open", purpose |-> purpose, subject |-> subject, key |-> key, op |-> op,
                   expires |-> Lesser(now + ChallengeTTL, deadline), inv |-> None]
<1>1. Lesser(now + ChallengeTTL, deadline) \in Nat
  BY TimingAssumption DEF TypeOK, Lesser
<1>2. row \in ChallengeRow
  BY <1>1 DEF ChallengeRow
<1>3. challenges' = [challenges EXCEPT ![c] = row]
  BY DEF AddChallenge
<1> HIDE DEF row
<1> QED BY <1>2, <1>3 DEF TypeOK, KeysKnown, AddChallenge

\* Every step of enrollment keeps the types.
LEMMA EnrollmentTyped == TypeOK /\ EnrollmentNext => TypeOK'
<1> SUFFICES ASSUME TypeOK, EnrollmentNext PROVE TypeOK'
  OBVIOUS
<1>1. ASSUME NEW c \in Challenges, NEW a \in Attempts, NEW op \in OpIds, ExchangeChallenge(c, a, op)
      PROVE  TypeOK'
  <2>1. attempts[a] \in AttemptRow
    BY DEF TypeOK
  <2>2. attempts[a].expires \in Nat /\ attempts[a].key \in Keys \cup {None} /\ attempts[a].recovery \in Time
    BY <2>1 DEF AttemptRow
  <2>3. \A o \in OpKeys : operations[o].retain \in Nat
    BY DEF TypeOK, OperationRow
  <2>4. PICK deadline \in ExchangeDeadlines(a, op) :
          AddChallenge(c, "exchange", a, attempts[a].key, op, deadline)
    BY <1>1 DEF ExchangeChallenge
  <2>5. deadline \in Nat
    <3>1. CASE deadline = attempts[a].expires
      BY <2>2, <3>1
    <3>2. CASE deadline # attempts[a].expires
      <4>1. attempts[a].recovery > now /\ now \in Nat
        BY <3>2, <2>4 DEF ExchangeDeadlines, TypeOK
      <4>2. attempts[a].recovery \in Nat
        BY <2>2, <4>1 DEF Time, NoTime
      <4>3. \E o \in OpKeys : deadline = Lesser(attempts[a].recovery, operations[o].retain)
        BY <3>2, <2>4 DEF ExchangeDeadlines, ConsumingOperation
      <4> QED BY <2>3, <4>2, <4>3 DEF Lesser
    <3> QED BY <3>1, <3>2
  <2> QED BY <2>2, <2>4, <2>5, AddChallengeTyped
<1>2. ASSUME NEW c \in Challenges, NEW b \in Bindings, NEW op \in OpIds, RenewChallenge(c, b, op)
      PROVE  TypeOK'
  <2>1. bindings[b].key \in Keys /\ now + ChallengeTTL \in Nat
    BY <1>2, TimingAssumption DEF TypeOK, KeysKnown, RenewChallenge
  <2> QED BY <1>2, <2>1, AddChallengeTyped DEF RenewChallenge
<1> QED BY <1>1, <1>2, CreateAuthorizationTyped DEF EnrollmentNext

-----------------------------------------------------------------------------
(* Consent. *)

\* An invocation ends with a code.
LEMMA FinishTyped ==
  ASSUME TypeOK, NEW s \in Consents, NEW code \in Codes, Finish(s, code)
  PROVE  consents' \in [Consents -> ConsentState]
<1>1. [IdleConsent EXCEPT !.pc = "done", !.code = code] \in ConsentState
  BY DEF IdleConsent, ConsentState
<1> QED BY <1>1 DEF Finish, TypeOK

\* Returning the authorization code keeps the consents typed.
LEMMA ReturnCodeTyped ==
  ASSUME TypeOK, NEW s \in Consents, NEW a \in Attempts, NEW code \in Consents \cup {None},
         ReturnCode(s, a, code)
  PROVE  consents' \in [Consents -> ConsentState]
<1>1. [IdleConsent EXCEPT !.pc = "done", !.code = "ok", !.attempt = a, !.answer = code] \in ConsentState
  BY DEF IdleConsent, ConsentState, Codes
<1> QED BY <1>1, FinishTyped DEF ReturnCode, TypeOK, Codes

\* A consent that goes on to open the sealed response keeps the consents typed.
LEMMA OpenSealedTyped ==
  ASSUME TypeOK, NEW s \in Consents, NEW q \in ConsentState, NEW a \in Attempts, OpenSealed(s, q, a)
  PROVE  consents' \in [Consents -> ConsentState]
<1> DEFINE refusal == SealRefusal(a, q.customer, q.license, q.expected, q.op)
           row == [q EXCEPT !.pc = "open", !.attRev = attempts[a].rev, !.answer = attempts[a].code]
<1>1. refusal \in Codes
  BY DEF SealRefusal, Codes
<1>2. row \in ConsentState
  <2>1. attempts[a].rev \in Nat /\ attempts[a].code \in Consents \cup {None}
    BY DEF TypeOK, AttemptRow
  <2> QED BY <2>1 DEF ConsentState
<1>3. Finish(s, refusal) \/ consents' = [consents EXCEPT ![s] = row]
  BY DEF OpenSealed
<1> HIDE DEF refusal, row
<1> QED BY <1>1, <1>2, <1>3, FinishTyped DEF TypeOK

\* A consent is typed from its first read on.
LEMMA ConsentTyped ==
  ASSUME NEW a \in Attempts, NEW c \in Customers, NEW l \in Licenses \cup {None}, NEW expected \in Nat,
         NEW op \in OpIds
  PROVE  Consent(a, c, l, expected, op) \in ConsentState
BY DEF Consent, IdleConsent, ConsentState, Codes

\* A step that writes only consents keeps the types.
LEMMA ConsentStepTyped ==
  ASSUME TypeOK, OnlyConsents, UNCHANGED <<attempts, denyCache>>, consents' \in [Consents -> ConsentState]
  PROVE  TypeOK'
BY DEF TypeOK, KeysKnown, OnlyConsents

\* A refused consent answers one of the codes.
LEMMA RefusalTyped ==
  ASSUME NEW a \in Attempts, NEW c \in Customers
  PROVE  CustomerRefusal(a, c) \in Codes
BY DEF CustomerRefusal, Codes

\* The reads of an approval keep the types.
LEMMA ReadApprovalTyped ==
  ASSUME TypeOK, NEW s \in Consents, NEW a \in Attempts, NEW c \in Customers, NEW l \in Licenses,
         NEW expected \in SeenRevisions, NEW op \in OpIds, ReadApproval(s, a, c, l, expected, op)
  PROVE  TypeOK'
<1> DEFINE q == Consent(a, c, l, expected, op)
           custRev == customers[c].rev
           entRev == entitlements[l].rev
           end == Lesser(attempts[a].expires, now + CodeTTL)
           row == [q EXCEPT !.pc = "approve", !.attRev = attempts[a].rev, !.custRev = custRev,
                            !.entRev = entRev, !.expires = end]
<1>1. q \in ConsentState
  BY ConsentTyped DEF SeenRevisions
<1>2. row \in ConsentState
  <2>1. custRev \in Nat /\ entRev \in Nat
    BY TimingAssumption DEF TypeOK, CustomerRow, EntitlementRow, Revisions
  <2>2. attempts[a].rev \in Nat /\ attempts[a].expires \in Nat
    BY DEF TypeOK, AttemptRow
  <2>3. end \in Nat
    BY <2>2, TimingAssumption DEF Lesser, TypeOK
  <2> HIDE DEF q, custRev, entRev, end
  <2> QED BY <1>1, <2>1, <2>2, <2>3 DEF ConsentState
<1>3. consents' \in [Consents -> ConsentState]
  <2>1. CASE \E code \in Codes : Finish(s, code)
    BY <2>1, FinishTyped
  <2>2. CASE OpenSealed(s, q, a)
    BY <1>1, <2>2, OpenSealedTyped
  <2>3. CASE consents' = [consents EXCEPT ![s] = row]
    <3> HIDE DEF row
    <3> QED BY <1>2, <2>3 DEF TypeOK
  <2>4. (\E code \in Codes : Finish(s, code)) \/ OpenSealed(s, q, a) \/ consents' = [consents EXCEPT ![s] = row]
    BY RefusalTyped DEF ReadApproval, Codes
  <2> QED BY <2>1, <2>2, <2>3, <2>4
<1> QED BY <1>3, ConsentStepTyped DEF ReadApproval

\* The guarded update of an approval keeps the types.
LEMMA ApproveTyped ==
  ASSUME TypeOK, NEW s \in Consents, NEW a \in Attempts, NEW c \in Customers, NEW l \in Licenses,
         Approve(s, a, c, l)
  PROVE  TypeOK'
<1> DEFINE q == consents[s]
           row == Approved(attempts[a], s, c, l, q)
<1>1. q.expires \in Time /\ q.op \in OpIds \cup {None}
  BY DEF TypeOK, ConsentState, Time
<1>2. attempts[a] \in AttemptRow /\ attempts[a].status = "pending"
  BY DEF TypeOK, Approve, ApproveGuard
<1>3. attempts[a].key \in Keys /\ attempts[a].rev + 1 \in Nat
  BY <1>2 DEF TypeOK, KeysKnown, AttemptRow
<1>4. row \in AttemptRow /\ row.key = attempts[a].key
  BY <1>1, <1>2, <1>3 DEF AttemptRow, Approved
<1>5. attempts' = [attempts EXCEPT ![a] = row]
  BY DEF Approve
<1>6. consents' \in [Consents -> ConsentState]
  BY ReturnCodeTyped DEF Approve
<1> HIDE DEF row
<1> QED BY <1>3, <1>4, <1>5, <1>6 DEF TypeOK, KeysKnown, Approve, OnlyConsents

\* The read after a lost approval race keeps the types.
LEMMA RereadApprovalTyped ==
  ASSUME TypeOK, NEW s \in Consents, NEW a \in Attempts, NEW c \in Customers, RereadApproval(s, a, c)
  PROVE  TypeOK'
<1>1. consents[s] \in ConsentState
  BY DEF TypeOK
<1>2. (\E code \in Codes : Finish(s, code)) \/ OpenSealed(s, consents[s], a)
  BY RefusalTyped DEF RereadApproval, Codes
<1>3. consents' \in [Consents -> ConsentState]
  BY <1>1, <1>2, FinishTyped, OpenSealedTyped
<1> QED BY <1>3, ConsentStepTyped DEF RereadApproval

\* Opening the sealed response keeps the types.
LEMMA OpenApprovalTyped ==
  ASSUME TypeOK, NEW s \in Consents, NEW a \in Attempts, NEW c \in Customers, NEW l \in Licenses,
         OpenApproval(s, a, c, l)
  PROVE  TypeOK'
<1>1. consents[s].answer \in Consents \cup {None}
  BY DEF TypeOK, ConsentState
<1>2. (\E code \in Codes : Finish(s, code)) \/ ReturnCode(s, a, consents[s].answer)
  BY DEF OpenApproval, Codes
<1>3. consents' \in [Consents -> ConsentState]
  BY <1>1, <1>2, FinishTyped, ReturnCodeTyped
<1> QED BY <1>3, ConsentStepTyped DEF OpenApproval

\* The reads of a denial keep the types.
LEMMA ReadDenialTyped ==
  ASSUME TypeOK, NEW s \in Consents, NEW a \in Attempts, NEW c \in Customers,
         NEW expected \in SeenRevisions, NEW op \in OpIds, ReadDenial(s, a, c, expected, op)
  PROVE  TypeOK'
<1> DEFINE q == Consent(a, c, None, expected, op)
           custRev == customers[c].rev
           pending == attempts[a].status = "pending" /\ attempts[a].rev = expected
           row == [q EXCEPT !.pc = "deny", !.custRev = custRev, !.pending = pending]
<1>1. q \in ConsentState
  BY ConsentTyped DEF SeenRevisions
<1>2. row \in ConsentState
  <2>1. custRev \in Nat /\ pending \in BOOLEAN
    BY TimingAssumption DEF TypeOK, CustomerRow, Revisions
  <2> HIDE DEF q, custRev, pending
  <2> QED BY <1>1, <2>1 DEF ConsentState
<1>3. (\E code \in Codes : Finish(s, code)) \/ consents' = [consents EXCEPT ![s] = row]
  BY RefusalTyped DEF ReadDenial, Codes
<1>4. consents' \in [Consents -> ConsentState]
  <2> HIDE DEF row
  <2> QED BY <1>2, <1>3, FinishTyped DEF TypeOK
<1> QED BY <1>4, ConsentStepTyped DEF ReadDenial

\* The denial batch keeps the types.
LEMMA DenyBatchTyped ==
  ASSUME TypeOK, NEW s \in Consents, NEW a \in Attempts, NEW c \in Customers, DenyBatch(s, a, c)
  PROVE  TypeOK'
<1> DEFINE q == consents[s]
           row == Denied(attempts[a])
           entry == [customer |-> c, attempt |-> a, op |-> q.op, expected |-> q.expected]
<1>1. consents' \in [Consents -> ConsentState]
  BY DEF DenyBatch, TypeOK, ConsentState
<1>2. CASE /\ DenyGuard(a, c, q)
           /\ attempts' = [attempts EXCEPT ![a] = row]
           /\ denyCache' = denyCache \cup {entry}
  <2>1. attempts[a] \in AttemptRow /\ attempts[a].status = "pending"
    BY <1>2 DEF TypeOK, DenyGuard
  <2>2. attempts[a].key \in Keys /\ attempts[a].rev + 1 \in Nat
    BY <2>1 DEF TypeOK, KeysKnown, AttemptRow
  <2>3. row \in AttemptRow /\ row.key = attempts[a].key
    BY <2>1, <2>2 DEF AttemptRow, Denied
  <2>4. q.op \in OpIds \cup {None} /\ q.expected \in Nat
    BY DEF TypeOK, ConsentState
  <2>5. entry \in [customer: Customers, attempt: Attempts, op: OpIds \cup {None}, expected: Nat]
    BY <2>4
  <2> HIDE DEF row, entry
  <2> QED BY <1>1, <1>2, <2>2, <2>3, <2>5 DEF TypeOK, KeysKnown, DenyBatch, OnlyConsents
<1>3. CASE UNCHANGED <<attempts, denyCache>>
  BY <1>1, <1>3, ConsentStepTyped DEF DenyBatch
<1> QED BY <1>2, <1>3 DEF DenyBatch

\* Every step of consent keeps the types.
LEMMA ConsentsTyped == TypeOK /\ ConsentNext => TypeOK'
<1> SUFFICES ASSUME TypeOK, ConsentNext PROVE TypeOK'
  OBVIOUS
<1>1. ASSUME NEW s \in Consents, ApproveLoses(s) PROVE TypeOK'
  <2> DEFINE row == [consents[s] EXCEPT !.pc = "reread"]
  <2>0. row \in ConsentState
    <3>1. consents[s] \in ConsentState
      BY DEF TypeOK
    <3> QED BY <3>1 DEF ConsentState
  <2>1. consents' = [consents EXCEPT ![s] = row]
    BY <1>1 DEF ApproveLoses, TypeOK
  <2>2. consents' \in [Consents -> ConsentState]
    <3> HIDE DEF row
    <3> QED BY <2>0, <2>1 DEF TypeOK
  <2> QED BY <1>1, <2>2, ConsentStepTyped DEF ApproveLoses
<1>2. ASSUME NEW s \in Consents, ConsentFails(s) PROVE TypeOK'
  <2>1. consents' \in [Consents -> ConsentState]
    BY <1>2, FinishTyped DEF ConsentFails, Codes
  <2> QED BY <1>2, <2>1, ConsentStepTyped DEF ConsentFails
<1>3. ASSUME NEW s \in Consents, NEW a \in Attempts, NEW c \in Customers, ReconcileDenial(s, a, c)
      PROVE  TypeOK'
  <2>1. \E code \in Codes : Finish(s, code)
    BY <1>3 DEF ReconcileDenial, Codes
  <2>2. consents' \in [Consents -> ConsentState]
    BY <2>1, FinishTyped
  <2> QED BY <1>3, <2>2, ConsentStepTyped DEF ReconcileDenial
<1> QED
  BY <1>1, <1>2, <1>3, ReadApprovalTyped, ApproveTyped, RereadApprovalTyped, OpenApprovalTyped,
     ReadDenialTyped, DenyBatchTyped
  DEF ConsentNext, ConsentStep

-----------------------------------------------------------------------------
(* Retirement. *)

\* The part of KeysKnown about retirements.
RetiresKnown ==
  \A t \in Retires : retires[t].pc \in {"batch", "cached", "current"} => retires[t].key \in Keys /\ retires[t].op \in OpIds

\* A retirement that ends keeps the retirements typed.
LEMMA EndRetireTyped ==
  ASSUME TypeOK, NEW t \in Retires, NEW code \in Codes, EndRetire(t, code)
  PROVE  retires' \in [Retires -> RetireState] /\ RetiresKnown'
<1>1. [IdleRetire EXCEPT !.pc = "done", !.code = code] \in RetireState
  BY DEF IdleRetire, RetireState, Actors
<1> HIDE DEF RetireState
<1>2. retires' \in [Retires -> RetireState]
  BY <1>1 DEF EndRetire, TypeOK
<1>3. retires'[t].pc = "done" /\ \A x \in Retires \ {t} : retires'[x] = retires[x]
  BY DEF EndRetire, TypeOK, IdleRetire
<1> QED BY <1>2, <1>3 DEF RetiresKnown, TypeOK, KeysKnown

\* A retirement answered from its operation keeps retirements and answers typed.
LEMMA AnswerCachedTyped ==
  ASSUME TypeOK, NEW t \in Retires, NEW o \in OpKeys, operations[o].exists, NEW b, NEW c, NEW q,
         AnswerCached(t, o, b, c, q)
  PROVE  /\ retires' \in [Retires -> RetireState] /\ RetiresKnown'
         /\ replies' \subseteq [opKey: OpKeys, answer: Requests \cup Retires]
<1>1. operations[o].inv \in Requests \cup Retires
  BY DEF TypeOK, KeysKnown
<1>2. \E code \in Codes : EndRetire(t, code)
  BY DEF AnswerCached, ReturnRetired, CacheRefusal, Codes
<1>3. replies' = replies \/ replies' = replies \cup {[opKey |-> o, answer |-> operations[o].inv]}
  BY DEF AnswerCached, ReturnRetired
<1> QED BY <1>1, <1>2, <1>3, EndRetireTyped DEF TypeOK

\* A retirement step that writes neither bindings nor operations keeps the types.
LEMMA RetireStepTyped ==
  ASSUME TypeOK, OnlyRetires, UNCHANGED <<bindings, operations>>,
         retires' \in [Retires -> RetireState], RetiresKnown',
         replies' \subseteq [opKey: OpKeys, answer: Requests \cup Retires]
  PROVE  TypeOK'
BY DEF TypeOK, KeysKnown, OnlyRetires, RetiresKnown

\* The ownership read of a retirement keeps the types.
LEMMA ReadRetireTyped ==
  ASSUME TypeOK, NEW t \in Retires, NEW b \in Bindings, NEW c \in Customers,
         NEW actor \in {"customer", "operator"}, NEW expected \in Revisions, NEW op \in OpIds,
         ReadRetire(t, b, c, actor, expected, op)
  PROVE  TypeOK'
<1> DEFINE key == bindings[b].key
           gen == bindings[b].gen
           custRev == customers[c].rev
           devRev == devices[bindings[b].key].rev
           entRev == entitlements[bindings[b].license].rev
           q == [IdleRetire EXCEPT !.pc = "batch", !.binding = b, !.customer = c, !.actor = actor,
                   !.expected = expected, !.op = op, !.key = key, !.gen = gen,
                   !.custRev = custRev, !.devRev = devRev, !.entRev = entRev]
<1>1. CASE ~OwnedBy(b, c)
  <2>1. EndRetire(t, "binding_unavailable") /\ UNCHANGED replies
    BY <1>1 DEF ReadRetire
  <2>2. retires' \in [Retires -> RetireState] /\ RetiresKnown'
    BY <2>1, EndRetireTyped DEF Codes
  <2> QED BY <2>1, <2>2, RetireStepTyped DEF ReadRetire, TypeOK
<1>2. CASE OwnedBy(b, c)
  <2>1. key \in Keys /\ bindings[b].license \in Licenses /\ bindings[b] \in BindingRow
    BY <1>2 DEF OwnedBy, TypeOK
  <2>2. /\ gen \in Nat /\ custRev \in Nat /\ devRev \in Nat /\ entRev \in Nat /\ expected \in Nat
    <3>1. customers[c] \in CustomerRow /\ devices[key] \in DeviceRow
          /\ entitlements[bindings[b].license] \in EntitlementRow
      BY <2>1 DEF TypeOK
    <3> QED BY <2>1, <3>1, TimingAssumption DEF BindingRow, CustomerRow, DeviceRow, EntitlementRow, Revisions
  <2>3. q \in RetireState
    <3>1. key \in Keys
      BY <2>1
    <3> HIDE DEF key, gen, custRev, devRev, entRev
    <3> QED BY <2>2, <3>1 DEF IdleRetire, RetireState, Actors, Codes
  <2>7. q.key \in Keys /\ q.op \in OpIds
    BY <2>1 DEF IdleRetire
  <2>4. RetireOpKey(q) \in OpKeys
    BY <2>1 DEF RetireOpKey, OpKeys, Purposes, IdleRetire
  <2>5. \/ operations[RetireOpKey(q)].exists /\ AnswerCached(t, RetireOpKey(q), b, c, q)
        \/ EndRetire(t, "revision_conflict") /\ UNCHANGED replies
        \/ retires' = [retires EXCEPT ![t] = q] /\ UNCHANGED replies
    BY <1>2 DEF ReadRetire
  <2> HIDE DEF q
  <2>6. /\ retires' \in [Retires -> RetireState] /\ RetiresKnown'
        /\ replies' \subseteq [opKey: OpKeys, answer: Requests \cup Retires]
    <3>1. CASE operations[RetireOpKey(q)].exists /\ AnswerCached(t, RetireOpKey(q), b, c, q)
      BY <2>4, <3>1, AnswerCachedTyped
    <3>2. CASE EndRetire(t, "revision_conflict") /\ UNCHANGED replies
      BY <3>2, EndRetireTyped DEF Codes, TypeOK
    <3>3. CASE retires' = [retires EXCEPT ![t] = q] /\ UNCHANGED replies
      BY <2>3, <2>7, <3>3 DEF TypeOK, KeysKnown, RetiresKnown
    <3> QED BY <2>5, <3>1, <3>2, <3>3
  <2> QED BY <2>6, RetireStepTyped DEF ReadRetire
<1> QED BY <1>1, <1>2

\* A retirement that goes on to its next read keeps the retirements typed.
LEMMA CachedTyped ==
  ASSUME TypeOK, NEW t \in Retires, retires[t].pc \in {"batch", "cached"}, NEW pc \in {"cached", "current"},
         retires' = [retires EXCEPT ![t].pc = pc]
  PROVE  retires' \in [Retires -> RetireState] /\ RetiresKnown'
<1> DEFINE row == [retires[t] EXCEPT !.pc = pc]
<1>1. retires[t] \in RetireState /\ retires[t].key \in Keys /\ retires[t].op \in OpIds
  BY DEF TypeOK, KeysKnown
<1>2. row \in RetireState /\ row.key \in Keys /\ row.op \in OpIds
  BY <1>1 DEF RetireState
<1>3. retires' = [retires EXCEPT ![t] = row]
  BY DEF TypeOK
<1> HIDE DEF row
<1> QED BY <1>2, <1>3 DEF TypeOK, KeysKnown, RetiresKnown

\* The retirement batch keeps the types.
LEMMA RetireBatchTyped ==
  ASSUME TypeOK, NEW t \in Retires, NEW o \in OpKeys, NEW b \in Bindings, RetireBatch(t, o, b)
  PROVE  TypeOK'
<1> DEFINE q == retires[t]
           op == [exists |-> TRUE, digest |-> RetireDigest(q), inv |-> t, customer |-> q.customer,
                  binding |-> b, response |-> TRUE, committed |-> now, retain |-> now + RecoveryTTL,
                  release |-> Later(bindings[b].hold, now), rev |-> bindings[b].rev + 1,
                  gen |-> bindings[b].gen + 1]
           row == Retired(bindings[b])
<1>1. bindings[b] \in BindingRow /\ bindings[b].state = "active" /\ RetireGuard(o, b, q)
  BY DEF TypeOK, RetireBatch, RetireGuard
<1>2. bindings[b].rev + 1 \in Revisions /\ bindings[b].gen + 1 \in Revisions /\ bindings[b].hold \in Nat
  BY <1>1, TimingAssumption DEF RetireGuard, BindingRow, Revisions, Horizon
<1>3. row \in BindingRow /\ row.key = bindings[b].key /\ row.license = bindings[b].license
  BY <1>1, <1>2 DEF Retired, BindingRow
<1>4. op \in OperationRow /\ op.inv = t
  <2>1. /\ q.binding \in Bindings \cup {None} /\ q.expected \in Nat /\ q.actor \in Actors
        /\ q.customer \in Customers \cup {None}
    BY DEF TypeOK, RetireState
  <2>2. RetireDigest(q) \in Digest
    BY <2>1 DEF RetireDigest, Digest
  <2>3. now \in Nat /\ now + RecoveryTTL \in Nat /\ Later(bindings[b].hold, now) \in Nat
        /\ bindings[b].rev + 1 \in Nat /\ bindings[b].gen + 1 \in Nat
    BY <1>2, TimingAssumption DEF TypeOK, Later, Revisions
  <2> QED BY <2>1, <2>2, <2>3 DEF OperationRow
<1>5. operations' = [operations EXCEPT ![o] = op] /\ bindings' = [bindings EXCEPT ![b] = row]
  BY DEF RetireBatch
<1>6. retires' \in [Retires -> RetireState] /\ RetiresKnown'
  <2>1. CASE EndRetire(t, "ok")
    BY <2>1, EndRetireTyped DEF Codes
  <2>2. CASE retires' = [retires EXCEPT ![t].pc = "cached"]
    BY <2>2, CachedTyped DEF RetireBatch
  <2> QED BY <2>1, <2>2 DEF RetireBatch
<1>7. replies' \subseteq [opKey: OpKeys, answer: Requests \cup Retires]
  BY DEF RetireBatch, TypeOK
<1>8. bindings[b].key \in Keys /\ bindings[b].license \in Licenses
  BY <1>1 DEF TypeOK, KeysKnown
<1> HIDE DEF op, row
<1>9. bindings' \in [Bindings -> BindingRow] /\ operations' \in [OpKeys -> OperationRow]
  BY <1>3, <1>4, <1>5 DEF TypeOK
<1>10. /\ \A x \in Bindings : bindings'[x].state # "none" => bindings'[x].key \in Keys /\ bindings'[x].license \in Licenses
       /\ \A x \in OpKeys : operations'[x].exists => operations'[x].inv \in Requests \cup Retires
  <2>1. \A x \in Bindings : bindings'[x] = IF x = b THEN row ELSE bindings[x]
    BY <1>5 DEF TypeOK
  <2>2. \A x \in OpKeys : operations'[x] = IF x = o THEN op ELSE operations[x]
    BY <1>5 DEF TypeOK
  <2> QED BY <1>3, <1>4, <1>8, <2>1, <2>2 DEF TypeOK, KeysKnown
<1> QED BY <1>6, <1>7, <1>9, <1>10 DEF TypeOK, KeysKnown, RetiresKnown, RetireBatch, OnlyRetires

\* The reads after a retirement batch without effect keep the types.
LEMMA RetireRestTyped ==
  ASSUME TypeOK, NEW t \in Retires,
         \/ RetireAborts(t) \/ RetireFails(t)
         \/ \E b \in Bindings, c \in Customers : RetireCached(t, b, c) \/ RetireCurrent(t, b, c)
  PROVE  TypeOK'
<1>1. CASE RetireAborts(t)
  <2>1. retires' \in [Retires -> RetireState] /\ RetiresKnown'
    BY <1>1, CachedTyped DEF RetireAborts
  <2> QED BY <1>1, <2>1, RetireStepTyped DEF RetireAborts, TypeOK
<1>2. CASE RetireFails(t)
  <2>1. retires' \in [Retires -> RetireState] /\ RetiresKnown'
    BY <1>2, EndRetireTyped DEF RetireFails, Codes
  <2> QED BY <1>2, <2>1, RetireStepTyped DEF RetireFails, TypeOK
<1>3. ASSUME NEW b \in Bindings, NEW c \in Customers, RetireCached(t, b, c)
      PROVE  TypeOK'
  <2> DEFINE q == retires[t]
             o == RetireOpKey(q)
  <2>1. q.key \in Keys /\ q.op \in OpIds
    BY <1>3 DEF RetireCached, TypeOK, KeysKnown
  <2>2. o \in OpKeys
    BY <2>1 DEF RetireOpKey, OpKeys, Purposes
  <2>3. \/ operations[o].exists /\ AnswerCached(t, o, b, c, q)
        \/ UNCHANGED replies /\ retires' = [retires EXCEPT ![t].pc = "current"]
    BY <1>3 DEF RetireCached
  <2>4. /\ retires' \in [Retires -> RetireState] /\ RetiresKnown'
        /\ replies' \subseteq [opKey: OpKeys, answer: Requests \cup Retires]
    <3> HIDE DEF q, o
    <3>1. CASE operations[o].exists /\ AnswerCached(t, o, b, c, q)
      BY <2>2, <3>1, AnswerCachedTyped
    <3>2. CASE UNCHANGED replies /\ retires' = [retires EXCEPT ![t].pc = "current"]
      <4>1. retires' \in [Retires -> RetireState] /\ RetiresKnown'
        BY <1>3, <3>2, CachedTyped DEF RetireCached
      <4> QED BY <3>2, <4>1 DEF TypeOK
    <3> QED BY <2>3, <3>1, <3>2
  <2> QED BY <1>3, <2>4, RetireStepTyped DEF RetireCached
<1>4. ASSUME NEW b \in Bindings, NEW c \in Customers, RetireCurrent(t, b, c)
      PROVE  TypeOK'
  <2>1. \E code \in Codes : EndRetire(t, code)
    BY <1>4 DEF RetireCurrent, Codes
  <2>2. retires' \in [Retires -> RetireState] /\ RetiresKnown'
    BY <2>1, EndRetireTyped
  <2> QED BY <1>4, <2>2, RetireStepTyped DEF RetireCurrent, TypeOK
<1> QED BY <1>1, <1>2, <1>3, <1>4

\* Every step of retirement keeps the types.
LEMMA RetireTyped == TypeOK /\ RetireNext => TypeOK'
BY ReadRetireTyped, RetireBatchTyped, RetireRestTyped DEF RetireNext, RetireStep

-----------------------------------------------------------------------------
(* Administration. *)

\* Writing an entitlement column and counting the revision keeps the types.
LEMMA WriteEntitlementTyped ==
  ASSUME TypeOK, NEW l \in Licenses, NEW e \in EntitlementRow, WriteEntitlement(l, e)
  PROVE  TypeOK'
<1> DEFINE row == Counted(e)
<1>1. e.rev + 1 \in Revisions
  BY TimingAssumption DEF WriteEntitlement, EntitlementRow, Revisions
<1>2. row \in EntitlementRow
  BY <1>1 DEF Counted, EntitlementRow
<1>3. entitlements' = [entitlements EXCEPT ![l] = row]
  BY DEF WriteEntitlement
<1> HIDE DEF row
<1> QED BY <1>2, <1>3 DEF TypeOK, KeysKnown, WriteEntitlement, OnlyAuthority

\* Every writer of entitlements keeps the types.
LEMMA EntitlementWritersTyped ==
  ASSUME TypeOK, NEW l \in Licenses,
         \/ \E status \in {"active", "disabled", "revoked"} : TransitionEntitlement(l, status)
         \/ \E from \in Starts, until \in Ends, owner \in Customers : UpdateEntitlement(l, from, until, owner)
         \/ \E max \in Limits, lease \in LeaseTerms : SetEntitlementCapacity(l, max, lease)
  PROVE  TypeOK'
<1>1. entitlements[l] \in EntitlementRow
  BY DEF TypeOK
<1>2. ASSUME NEW status \in {"active", "disabled", "revoked"}, TransitionEntitlement(l, status)
      PROVE  TypeOK'
  <2>1. [entitlements[l] EXCEPT !.status = status] \in EntitlementRow
    BY <1>1 DEF EntitlementRow
  <2> QED BY <1>2, <2>1, WriteEntitlementTyped DEF TransitionEntitlement
<1>3. ASSUME NEW from \in Starts, NEW until \in Ends, NEW owner \in Customers,
             UpdateEntitlement(l, from, until, owner)
      PROVE  TypeOK'
  <2>1. from \in Nat /\ until \in Nat
    BY SetsAssumption
  <2>2. [entitlements[l] EXCEPT !.from = from, !.until = until, !.owner = owner] \in EntitlementRow
    BY <1>1, <2>1 DEF EntitlementRow
  <2> QED BY <1>3, <2>2, WriteEntitlementTyped DEF UpdateEntitlement
<1>4. ASSUME NEW max \in Limits, NEW lease \in LeaseTerms, SetEntitlementCapacity(l, max, lease)
      PROVE  TypeOK'
  <2>1. lease \in Nat
    BY SetsAssumption
  <2>2. [entitlements[l] EXCEPT !.max = max, !.lease = lease] \in EntitlementRow
    BY <1>1, <2>1 DEF EntitlementRow
  <2> QED BY <1>4, <2>2, WriteEntitlementTyped DEF SetEntitlementCapacity
<1> QED BY <1>2, <1>3, <1>4

\* Disabling and enabling a customer keeps the types.
LEMMA TransitionCustomerTyped ==
  ASSUME TypeOK, NEW c \in Customers, TransitionCustomer(c)
  PROVE  TypeOK'
<1> DEFINE row == [status |-> IF customers[c].status = "active" THEN "disabled" ELSE "active",
                   rev |-> customers[c].rev + 1]
<1>1. customers[c] \in CustomerRow
  BY DEF TypeOK
<1>2. customers[c].rev + 1 \in Revisions
  BY <1>1, TimingAssumption DEF TransitionCustomer, CustomerRow, Revisions
<1>3. row \in CustomerRow
  BY <1>2 DEF CustomerRow
<1>4. customers' = [customers EXCEPT ![c] = row]
  BY DEF TransitionCustomer
<1> HIDE DEF row
<1> QED BY <1>3, <1>4 DEF TypeOK, KeysKnown, TransitionCustomer, OnlyAuthority

\* Disabling and enabling a device, with the trigger's retirements, keeps the types.
LEMMA TransitionDeviceTyped ==
  ASSUME TypeOK, NEW k \in Keys, TransitionDevice(k)
  PROVE  TypeOK'
<1> DEFINE disabling == devices[k].status = "active"
           row == [devices[k] EXCEPT !.status = IF disabling THEN "disabled" ELSE "active", !.rev = @ + 1]
           hit == {b \in Bindings : disabling /\ bindings[b].key = k /\ bindings[b].state = "active"}
<1>1. devices[k] \in DeviceRow
  BY DEF TypeOK
<1>2. devices[k].rev + 1 \in Revisions
  BY <1>1, TimingAssumption DEF TransitionDevice, DeviceRow, Revisions
<1>3. row \in DeviceRow
  BY <1>1, <1>2 DEF DeviceRow
<1>4. devices' = [devices EXCEPT ![k] = row]
  BY DEF TransitionDevice, TypeOK
<1>5. ASSUME NEW b \in hit
      PROVE  /\ Retired(bindings[b]) \in BindingRow
             /\ Retired(bindings[b]).key = bindings[b].key /\ Retired(bindings[b]).license = bindings[b].license
  <2>1. bindings[b] \in BindingRow
    BY DEF TypeOK
  <2>2. bindings[b].rev + 1 \in Revisions /\ bindings[b].gen + 1 \in Revisions
    BY <2>1, TimingAssumption DEF TransitionDevice, BindingRow, Revisions
  <2> QED BY <2>1, <2>2 DEF Retired, BindingRow
<1>6. bindings' = [b \in Bindings |-> IF b \in hit THEN Retired(bindings[b]) ELSE bindings[b]]
  BY DEF TransitionDevice
<1>7. /\ devices' \in [Keys -> DeviceRow]
      /\ UNCHANGED <<customers, entitlements>> /\ OnlyAuthority
  <2> HIDE DEF row
  <2>1. devices' \in [Keys -> DeviceRow]
    BY <1>3, <1>4 DEF TypeOK
  <2> QED BY <2>1 DEF TransitionDevice
<1>8. \A b \in hit : bindings[b].state # "none"
  OBVIOUS
<1> HIDE DEF hit
<1>9. bindings' \in [Bindings -> BindingRow]
  BY <1>5, <1>6 DEF TypeOK
<1>10. \A b \in Bindings : bindings'[b].state # "none" => bindings'[b].key \in Keys /\ bindings'[b].license \in Licenses
  <2> TAKE b \in Bindings
  <2>1. CASE b \in hit
    BY <2>1, <1>5, <1>6, <1>8 DEF TypeOK, KeysKnown
  <2>2. CASE b \notin hit
    BY <2>2, <1>6 DEF TypeOK, KeysKnown
  <2> QED BY <2>1, <2>2
<1> QED BY <1>7, <1>9, <1>10 DEF TypeOK, KeysKnown, OnlyAuthority

\* Every administrative write keeps the types.
LEMMA AdminTyped == TypeOK /\ AdminNext => TypeOK'
BY EntitlementWritersTyped, TransitionCustomerTyped, TransitionDeviceTyped DEF AdminNext

-----------------------------------------------------------------------------
(* Cleanup, time and the theorem. *)

\* Replacing rows of attempts by typed ones keeps the types.
LEMMA AttemptsTyped ==
  ASSUME TypeOK, OnlyCleanup, UNCHANGED <<challenges, operations, leases>>, NEW S \in SUBSET Attempts,
         NEW new \in [Attempts -> AttemptRow],
         \A a \in S : new[a].status \in {"none", "purged"} \/ new[a].key \in Keys,
         attempts' = [a \in Attempts |-> IF a \in S THEN new[a] ELSE attempts[a]]
  PROVE  TypeOK'
<1>1. attempts' \in [Attempts -> AttemptRow]
  BY DEF TypeOK
<1>2. \A a \in Attempts : attempts'[a].status \notin {"none", "purged"} => attempts'[a].key \in Keys
  BY DEF TypeOK, KeysKnown
<1> QED BY <1>1, <1>2 DEF TypeOK, KeysKnown, OnlyCleanup

\* Purging attempts keeps the types.
LEMMA PurgeTyped ==
  ASSUME TypeOK, OnlyCleanup, UNCHANGED <<challenges, operations, leases>>, NEW S \in SUBSET Attempts,
         attempts' = [a \in Attempts |-> IF a \in S THEN Purged ELSE attempts[a]]
  PROVE  TypeOK'
<1> DEFINE new == [a \in Attempts |-> Purged]
<1>1. Purged \in AttemptRow /\ Purged.status = "purged"
  BY DEF Purged, NoAttempt, AttemptRow, Time, NoTime
<1>2. new \in [Attempts -> AttemptRow] /\ \A a \in Attempts : new[a] = Purged
  BY <1>1
<1>3. attempts' = [a \in Attempts |-> IF a \in S THEN new[a] ELSE attempts[a]]
  BY <1>2
<1> HIDE DEF new
<1> QED BY <1>1, <1>2, <1>3, AttemptsTyped

\* Erasing expired sealed codes keeps the types.
LEMMA EraseTyped == ASSUME TypeOK, EraseExpiredApprovals PROVE TypeOK'
<1> DEFINE new == [a \in Attempts |-> [attempts[a] EXCEPT !.sealed = FALSE]]
<1>1. PICK S \in SUBSET Attempts :
        attempts' = [a \in Attempts |-> IF a \in S THEN [attempts[a] EXCEPT !.sealed = FALSE] ELSE attempts[a]]
  BY DEF EraseExpiredApprovals
<1>2. ASSUME NEW a \in Attempts
      PROVE  new[a] \in AttemptRow /\ new[a].key = attempts[a].key /\ new[a].status = attempts[a].status
  <2>1. attempts[a] \in AttemptRow
    BY DEF TypeOK
  <2> QED BY <2>1 DEF AttemptRow
<1>3. new \in [Attempts -> AttemptRow]
  BY <1>2
<1>4. \A a \in Attempts : new[a].status \in {"none", "purged"} \/ new[a].key \in Keys
  BY <1>2 DEF TypeOK, KeysKnown
<1>5. attempts' = [a \in Attempts |-> IF a \in S THEN new[a] ELSE attempts[a]]
  BY <1>1
<1> HIDE DEF new
<1> QED BY <1>3, <1>4, <1>5, AttemptsTyped DEF EraseExpiredApprovals

\* Purging challenges keeps the types.
LEMMA PurgeChallengesTyped == ASSUME TypeOK, PurgeChallenges PROVE TypeOK'
<1> DEFINE purged == [NoChallenge EXCEPT !.status = "purged"]
<1>1. PICK S \in SUBSET Challenges :
        challenges' = [c \in Challenges |-> IF c \in S THEN purged ELSE challenges[c]]
  BY DEF PurgeChallenges
<1>2. purged \in ChallengeRow
  BY DEF NoChallenge, ChallengeRow
<1> HIDE DEF purged
<1> QED BY <1>1, <1>2 DEF TypeOK, KeysKnown, PurgeChallenges, OnlyCleanup

\* Erasing expired stored responses keeps the types.
LEMMA ExpireResponsesTyped == ASSUME TypeOK, ExpireResponses PROVE TypeOK'
<1>1. PICK S \in SUBSET OpKeys :
        operations' = [o \in OpKeys |-> IF o \in S THEN WithoutResponse(o) ELSE operations[o]]
  BY DEF ExpireResponses
<1>2. ASSUME NEW o \in OpKeys
      PROVE  /\ WithoutResponse(o) \in OperationRow
             /\ WithoutResponse(o).exists = operations[o].exists /\ WithoutResponse(o).inv = operations[o].inv
  <2>1. operations[o] \in OperationRow
    BY DEF TypeOK
  <2> QED BY <2>1 DEF OperationRow, WithoutResponse
<1>3. operations' \in [OpKeys -> OperationRow]
  BY <1>1, <1>2 DEF TypeOK
<1>4. \A o \in OpKeys : operations'[o].exists => operations'[o].inv \in Requests \cup Retires
  BY <1>1, <1>2 DEF TypeOK, KeysKnown
<1> QED BY <1>3, <1>4 DEF TypeOK, KeysKnown, ExpireResponses, OnlyCleanup

\* Purging leases keeps the types.
LEMMA PurgeLeasesTyped == ASSUME TypeOK, PurgeLeases PROVE TypeOK'
<1>1. PICK S \in SUBSET Requests :
        leases' = [r \in Requests |-> IF r \in S THEN [leases[r] EXCEPT !.row = "purged"] ELSE leases[r]]
  BY DEF PurgeLeases
<1>2. ASSUME NEW r \in Requests
      PROVE  [leases[r] EXCEPT !.row = "purged"] \in LeaseRow
  <2>1. leases[r] \in LeaseRow
    BY DEF TypeOK
  <2> QED BY <2>1 DEF LeaseRow
<1>3. leases' \in [Requests -> LeaseRow]
  BY <1>1, <1>2 DEF TypeOK
<1> QED BY <1>3 DEF TypeOK, KeysKnown, PurgeLeases, OnlyCleanup

\* Every cleanup statement keeps the types.
LEMMA CleanupTyped == TypeOK /\ CleanupNext => TypeOK'
<1>1. ASSUME TypeOK, PurgeUnconsumedAttempts PROVE TypeOK'
  <2>1. PICK S \in SUBSET Attempts : attempts' = [a \in Attempts |-> IF a \in S THEN Purged ELSE attempts[a]]
    BY <1>1 DEF PurgeUnconsumedAttempts, PurgeAttempts
  <2> QED BY <1>1, <2>1, PurgeTyped DEF PurgeUnconsumedAttempts
<1>2. ASSUME TypeOK, PurgeConsumedAttempts PROVE TypeOK'
  <2>1. PICK S \in SUBSET Attempts : attempts' = [a \in Attempts |-> IF a \in S THEN Purged ELSE attempts[a]]
    BY <1>2 DEF PurgeConsumedAttempts, PurgeAttempts
  <2> QED BY <1>2, <2>1, PurgeTyped DEF PurgeConsumedAttempts
<1> QED BY <1>1, <1>2, EraseTyped, PurgeChallengesTyped, ExpireResponsesTyped, PurgeLeasesTyped DEF CleanupNext

\* The clock keeps the types.
LEMMA TickTyped == TypeOK /\ Tick => TypeOK'
BY TimingAssumption DEF TypeOK, KeysKnown, Tick

\* The initial state is typed.
LEMMA InitTyped == Init => TypeOK
<1> SUFFICES ASSUME Init PROVE TypeOK
  OBVIOUS
<1>1. 0 \in Revisions /\ 0 \in Nat /\ NoTime \in Time /\ 0 \in 0 .. Horizon
  BY TimingAssumption DEF Revisions, Time, Horizon
<1>2. customers \in [Customers -> CustomerRow] /\ now \in 0 .. MaxTime
  BY <1>1, TimingAssumption DEF Init, CustomerRow
<1>3. entitlements \in [Licenses -> EntitlementRow]
  <2>1. ASSUME NEW l \in Licenses PROVE entitlements[l] \in EntitlementRow
    <3>1. PICK c \in Customers, m \in Limits, u \in Ends :
            entitlements[l] = [status |-> "active", owner |-> c, rev |-> 0, max |-> m, from |-> 0, until |-> u,
                               lease |-> LeaseMax, started |-> NoTime, trialKey |-> None]
      BY DEF Init
    <3>2. u \in Nat /\ LeaseMax \in Nat
      BY SetsAssumption, TimingAssumption
    <3> QED BY <1>1, <3>1, <3>2 DEF EntitlementRow
  <2> QED BY <2>1 DEF Init
<1>4. devices \in [Keys -> DeviceRow] /\ bindings \in [Bindings -> BindingRow]
  BY <1>1 DEF Init, NoDevice, DeviceRow, NoBinding, BindingRow
<1>5. attempts \in [Attempts -> AttemptRow] /\ challenges \in [Challenges -> ChallengeRow]
  BY <1>1 DEF Init, NoAttempt, AttemptRow, NoChallenge, ChallengeRow
<1>6. operations \in [OpKeys -> OperationRow]
  <2>1. NoDigest \in Digest
    BY DEF NoDigest, Digest, Actors
  <2> QED BY <2>1 DEF Init, NoOperation, OperationRow
<1>7. leases \in [Requests -> LeaseRow]
  BY <1>1 DEF Init, NoLease, LeaseRow
<1>8. requests \in [Requests -> RequestState]
  <2>1. IdleRequest \in RequestState
    BY IdleRequestTyped
  <2> QED BY <2>1 DEF Init
<1>9. consents \in [Consents -> ConsentState] /\ retires \in [Retires -> RetireState]
  BY DEF Init, IdleConsent, ConsentState, IdleRetire, RetireState, Codes, Actors
<1>10. KeysKnown
  BY DEF Init, KeysKnown, NoAttempt, NoBinding, IdleRequest, NoOperation, IdleRetire
<1> QED BY <1>2, <1>3, <1>4, <1>5, <1>6, <1>7, <1>8, <1>9, <1>10 DEF TypeOK, Init

\* Whatever the handlers, administrators and cleanup do, in any order, every
\* row and every invocation keeps its shape, revisions and holds stay within
\* their bounds and existing rows name existing keys.
THEOREM TypeCorrect == Spec => []TypeOK
<1>1. TypeOK /\ [Next]_vars => TypeOK'
  <2>1. TypeOK /\ UNCHANGED vars => TypeOK'
    BY DEF TypeOK, KeysKnown, vars
  <2> QED BY <2>1, EnrollmentTyped, ConsentsTyped, IssueTyped, RetireTyped, AdminTyped, CleanupTyped, TickTyped DEF Next
<1> QED BY <1>1, InitTyped, PTL DEF Spec

-----------------------------------------------------------------------------
LedgerFacts == INSTANCE SeatLedger_proofs WITH
  Seats <- Bindings, Holders <- Keys, NoOne <- None, Times <- 0 .. Horizon, Sizes <- Limits,
  cap <- CapTable, seats <- SeatTable, granted <- Grants

\* An invocation has a lease only once it has answered.
LeasesAnswered == \A r \in Requests : leases[r].row # "none" => requests[r].pc = "done"

-----------------------------------------------------------------------------
(* Only the commit of an invocation gives it a lease. *)

\* A step that issues nothing and leaves every answered invocation alone.
LEMMA NothingIssued ==
  ASSUME TypeOK, LeasesAnswered, UNCHANGED leases,
         \A r \in Requests : requests[r].pc = "done" => requests'[r].pc = "done"
  PROVE  LeasesAnswered'
BY DEF LeasesAnswered

\* A step of one unanswered invocation that issues nothing.
LEMMA UnansweredStep ==
  ASSUME TypeOK, NEW r \in Requests, requests[r].pc # "done",
         \E row : requests' = [requests EXCEPT ![r] = row]
  PROVE  \A x \in Requests : requests[x].pc = "done" => requests'[x].pc = "done"
BY DEF TypeOK

\* An answer or a denial rewrites only the state of its own invocation.
LEMMA AnswerIsRow ==
  ASSUME NEW r, NEW code, Answer(r, code) \/ Deny(r, code)
  PROVE  \E row : requests' = [requests EXCEPT ![r] = row]
BY DEF Answer, Deny

\* Every step of an invocation but its commit rewrites its own state only.
LEMMA IssueStepsOwnRow ==
  ASSUME TypeOK, NEW r \in Requests,
         \/ \E in \in RequestInputs : Prove(r, in)
         \/ LookUp(r) \/ Reread(r) \/ ReadLicense(r) \/ ReadDevice(r) \/ CheckCapacity(r)
         \/ Recheck(r) \/ CommitAborts(r) \/ RecoverAborts(r) \/ Fail(r)
         \/ \E o \in OpKeys, l \in Licenses, b \in Bindings : Recover(r, o, l, b)
  PROVE  /\ UNCHANGED <<now, entitlements, bindings, leases>>
         /\ requests[r].pc # "done"
         /\ \E row : requests' = [requests EXCEPT ![r] = row]
<1>1. CASE \E in \in RequestInputs : Prove(r, in)
  BY <1>1, AnswerIsRow DEF Prove, OnlyRequests
<1>2. CASE LookUp(r)
  BY <1>2, AnswerIsRow DEF LookUp, OnlyRequests
<1>3. CASE Reread(r)
  BY <1>3, AnswerIsRow DEF Reread, OnlyRequests
<1>4. CASE ReadLicense(r)
  BY <1>4, AnswerIsRow DEF ReadLicense, OnlyRequests
<1>5. CASE ReadDevice(r)
  BY <1>5, AnswerIsRow DEF ReadDevice, OnlyRequests
<1>6. CASE CheckCapacity(r)
  BY <1>6, AnswerIsRow DEF CheckCapacity, OnlyRequests
<1>7. CASE Recheck(r) \/ CommitAborts(r) \/ RecoverAborts(r) \/ Fail(r)
  BY <1>7, AnswerIsRow DEF Recheck, CommitAborts, RecoverAborts, Fail, OnlyRequests
<1>8. CASE \E o \in OpKeys, l \in Licenses, b \in Bindings : Recover(r, o, l, b)
  BY <1>8, AnswerIsRow DEF Recover, Reply
<1> QED BY <1>1, <1>2, <1>3, <1>4, <1>5, <1>6, <1>7, <1>8

\* The commit (commitBoundDeviceLease) answers the invocation it gives a lease.
LEMMA CommitAnswers ==
  ASSUME TypeOK, LeasesAnswered, NEW r \in Requests, NEW o \in OpKeys, NEW l \in Licenses, NEW b \in Bindings,
         Commit(r, o, l, b)
  PROVE  LeasesAnswered'
<1>1. requests'[r].pc = "done" /\ \A x \in Requests \ {r} : requests'[x] = requests[x]
  <2>1. PICK code \in {"ok", "temporarily_unavailable"} : Answer(r, code)
    BY DEF Commit, Reply
  <2>2. [IdleRequest EXCEPT !.pc = "done", !.code = code].pc = "done"
    BY DEF IdleRequest
  <2> QED BY <2>1, <2>2 DEF Answer, TypeOK
<1>2. \A x \in Requests \ {r} : leases'[x] = leases[x]
  BY DEF Commit, IssueLease, TypeOK
<1> QED BY <1>1, <1>2 DEF LeasesAnswered

\* A retirement touches only its own state, the operations and the bindings,
\* and the bindings only by its batch.
LEMMA RetireSteps ==
  ASSUME NEW t \in Retires,
         \/ RetireStep(t) \/ RetireFails(t)
         \/ \E b \in Bindings, c \in Customers, actor \in {"customer", "operator"},
               expected \in Revisions, op \in OpIds : ReadRetire(t, b, c, actor, expected, op)
  PROVE  /\ UNCHANGED <<now, entitlements, leases, requests>>
         /\ UNCHANGED bindings \/ \E o \in OpKeys, b \in Bindings : RetireBatch(t, o, b)
<1>1. CASE RetireAborts(t)
  BY <1>1 DEF RetireAborts, OnlyRetires
<1>2. CASE \E o \in OpKeys, b \in Bindings : RetireBatch(t, o, b)
  BY <1>2 DEF RetireBatch, OnlyRetires
<1>3. CASE \E b \in Bindings, c \in Customers : RetireCached(t, b, c) \/ RetireCurrent(t, b, c)
  BY <1>3 DEF RetireCached, RetireCurrent, OnlyRetires
<1>4. CASE RetireFails(t)
  BY <1>4 DEF RetireFails, OnlyRetires
<1>5. CASE \E b \in Bindings, c \in Customers, actor \in {"customer", "operator"},
             expected \in Revisions, op \in OpIds : ReadRetire(t, b, c, actor, expected, op)
  <2>1. ASSUME NEW b \in Bindings, NEW c \in Customers, NEW actor \in {"customer", "operator"},
               NEW expected \in Revisions, NEW op \in OpIds, ReadRetire(t, b, c, actor, expected, op)
        PROVE  OnlyRetires /\ UNCHANGED bindings
    BY <2>1, Zenon DEF ReadRetire
  <2> QED BY <1>5, <2>1 DEF OnlyRetires
<1> QED BY <1>1, <1>2, <1>3, <1>4, <1>5 DEF RetireStep

\* Enrollment and consent touch neither requests nor what the ledger is read from.
LEMMA EnrollmentSteps ==
  ASSUME EnrollmentNext
  PROVE  UNCHANGED <<now, entitlements, bindings, leases, requests>>
BY DEF EnrollmentNext, CreateAuthorization, ExchangeChallenge, RenewChallenge, AddChallenge

\* Approvals and denials touch neither requests nor what the ledger is read from.
LEMMA ConsentSteps ==
  ASSUME ConsentNext
  PROVE  UNCHANGED <<now, entitlements, bindings, leases, requests>>
<1>1. PICK s \in Consents :
        \/ ConsentStep(s) \/ ConsentFails(s)
        \/ \E a \in Attempts, c \in Customers, expected \in SeenRevisions, op \in OpIds :
             \/ ReadDenial(s, a, c, expected, op)
             \/ \E l \in Licenses : ReadApproval(s, a, c, l, expected, op)
  BY DEF ConsentNext
<1>2. CASE OnlyConsents
  BY <1>2 DEF OnlyConsents
<1>3. ConsentFails(s) \/ ApproveLoses(s) => OnlyConsents
  BY DEF ConsentFails, ApproveLoses
<1>4. ASSUME NEW a \in Attempts, NEW c \in Customers
      PROVE  RereadApproval(s, a, c) \/ DenyBatch(s, a, c) \/ ReconcileDenial(s, a, c) => OnlyConsents
  BY DEF RereadApproval, DenyBatch, ReconcileDenial
<1>5. ASSUME NEW a \in Attempts, NEW c \in Customers, NEW l \in Licenses
      PROVE  Approve(s, a, c, l) \/ OpenApproval(s, a, c, l) => OnlyConsents
  BY DEF Approve, OpenApproval
<1>6. ASSUME NEW a \in Attempts, NEW c \in Customers, NEW expected \in SeenRevisions, NEW op \in OpIds
      PROVE  /\ ReadDenial(s, a, c, expected, op) => OnlyConsents
             /\ \A l \in Licenses : ReadApproval(s, a, c, l, expected, op) => OnlyConsents
  BY DEF ReadDenial, ReadApproval
<1> QED BY <1>1, <1>2, <1>3, <1>4, <1>5, <1>6 DEF ConsentStep

\* Administration and cleanup do not touch requests.
LEMMA AdminSteps ==
  ASSUME AdminNext
  PROVE  UNCHANGED <<now, leases, requests>>
BY DEF AdminNext, TransitionEntitlement, UpdateEntitlement, SetEntitlementCapacity, WriteEntitlement,
       TransitionCustomer, TransitionDevice, OnlyAuthority

\* Of all that, cleanup changes only leases, by one statement.
LEMMA CleanupSteps ==
  ASSUME CleanupNext
  PROVE  UNCHANGED <<now, entitlements, bindings, requests>> /\ (UNCHANGED leases \/ PurgeLeases)
BY DEF CleanupNext, EraseExpiredApprovals, PurgeChallenges, PurgeUnconsumedAttempts, ExpireResponses,
       PurgeConsumedAttempts, PurgeLeases, OnlyCleanup

\* No step gives a lease to an invocation that has not answered.
LEMMA LeasesAnsweredHolds == TypeOK /\ LeasesAnswered /\ [Next]_vars => LeasesAnswered'
<1> SUFFICES ASSUME TypeOK, LeasesAnswered, [Next]_vars
             PROVE  LeasesAnswered'
  OBVIOUS
<1>1. CASE IssueNext
  <2>1. PICK r \in Requests : (\E in \in RequestInputs : Prove(r, in)) \/ IssueStep(r) \/ Fail(r)
    BY <1>1 DEF IssueNext
  <2>2. CASE \E o \in OpKeys, l \in Licenses, b \in Bindings : Commit(r, o, l, b)
    BY <2>2, CommitAnswers
  <2>3. CASE ~\E o \in OpKeys, l \in Licenses, b \in Bindings : Commit(r, o, l, b)
    <3>1. /\ UNCHANGED leases
          /\ \A x \in Requests : requests[x].pc = "done" => requests'[x].pc = "done"
      BY <2>1, <2>3, IssueStepsOwnRow, UnansweredStep DEF IssueStep
    <3> QED BY <3>1, NothingIssued
  <2> QED BY <2>2, <2>3
<1>2. CASE UNCHANGED requests /\ UNCHANGED leases
  BY <1>2 DEF LeasesAnswered
<1>3. CASE UNCHANGED requests /\ PurgeLeases
  <2>1. PICK S \in SUBSET {r \in Requests : leases[r].row = "stored" /\ leases[r].accept <= now} :
          leases' = [r \in Requests |-> IF r \in S THEN [leases[r] EXCEPT !.row = "purged"] ELSE leases[r]]
    BY <1>3 DEF PurgeLeases
  <2>2. \A r \in Requests : leases'[r].row # "none" => leases[r].row # "none"
    BY <2>1
  <2> QED BY <1>3, <2>2 DEF LeasesAnswered
<1>4. CASE RetireNext
  <2>1. UNCHANGED <<requests, leases>>
    BY <1>4, RetireSteps DEF RetireNext
  <2> QED BY <1>2, <2>1
<1>5. CASE Tick \/ UNCHANGED vars
  BY <1>2, <1>5 DEF Tick, vars
<1> QED BY <1>1, <1>2, <1>3, <1>4, <1>5, EnrollmentSteps, ConsentSteps, AdminSteps, CleanupSteps DEF Next

-----------------------------------------------------------------------------
(* The refinement mapping. *)

\* Counting means the same on both sides of the mapping.
LEMMA SameCount == \A S : Ledger!Cardinality(S) = Cardinality(S)
BY DEF Cardinality, Ledger!Cardinality

\* The seats and grants of the mapping, row by row.
LEMMA Mapped ==
  /\ \A b \in Bindings : SeatTable[b] = SeatOf(b)
  /\ \A b \in Bindings : SeatTable'[b] = SeatOf(b)'
  /\ \A l \in Licenses : CapTable[l] = entitlements[l].max
  /\ \A l \in Licenses : CapTable'[l] = entitlements'[l].max
BY DEF SeatTable, CapTable

\* The fields of a seat and the state of its binding.
LEMMA SeatFields ==
  ASSUME TypeOK, NEW b \in Bindings
  PROVE  /\ SeatOf(b).license = bindings[b].license /\ SeatOf(b).holder = bindings[b].key
         /\ SeatOf(b).hold = bindings[b].hold
         /\ SeatOf(b).state = "free" <=> bindings[b].state = "none"
         /\ SeatOf(b).state = "open" <=> bindings[b].state = "active"
         /\ SeatOf(b).state = "closed" <=> bindings[b].state = "retiring"
<1>1. bindings[b].state \in {"none", "active", "retiring"}
  BY DEF TypeOK, BindingRow
<1>2. SeatOf(b) = [state |-> SeatState(bindings[b].state), license |-> bindings[b].license,
                   holder |-> bindings[b].key, hold |-> bindings[b].hold]
  BY DEF SeatOf
<1>3. SeatState("none") = "free" /\ SeatState("active") = "open" /\ SeatState("retiring") = "closed"
  BY DEF SeatState
<1> QED BY <1>1, <1>2, <1>3

\* The seats in use are the occupied bindings.
LEMMA InUseIsOccupied ==
  ASSUME TypeOK, NEW l
  PROVE  Ledger!InUse(l) = Occupied(l)
BY SeatFields, Mapped DEF Ledger!InUse, Occupied, Occupies

\* A step that issues nothing leaves the grants alone.
LEMMA GrantsKept ==
  ASSUME UNCHANGED leases
  PROVE  UNCHANGED Grants
BY DEF Grants, Issued, GrantOf

\* A step that leaves bindings, leases and limits alone is a stuttering step of the ledger.
LEMMA Stutter ==
  ASSUME UNCHANGED <<now, bindings, leases>>,
         \A l \in Licenses : entitlements'[l].max = entitlements[l].max
  PROVE  UNCHANGED Ledger!ledger
<1>1. UNCHANGED CapTable
  BY DEF CapTable
<1>2. UNCHANGED SeatTable
  BY DEF SeatTable, SeatOf
<1> QED BY <1>1, <1>2, GrantsKept DEF Ledger!ledger

\* Cleanup of leases does not revoke the grants they were.
LEMMA PurgeLeasesStutters ==
  ASSUME TypeOK, PurgeLeases
  PROVE  UNCHANGED Ledger!ledger
<1>1. PICK S \in SUBSET {r \in Requests : leases[r].row = "stored" /\ leases[r].accept <= now} :
        leases' = [r \in Requests |-> IF r \in S THEN [leases[r] EXCEPT !.row = "purged"] ELSE leases[r]]
  BY DEF PurgeLeases
<1>2. ASSUME NEW r \in Requests
      PROVE  /\ leases'[r].row # "none" <=> leases[r].row # "none"
             /\ GrantOf(r)' = GrantOf(r)
  <2>1. leases[r] \in LeaseRow
    BY DEF TypeOK
  <2> QED BY <1>1, <2>1 DEF LeaseRow, GrantOf
<1>3. UNCHANGED Grants
  <2>1. UNCHANGED Issued
    BY <1>2 DEF Issued
  <2>2. \A r \in Issued : GrantOf(r)' = GrantOf(r)
    BY <1>2 DEF Issued
  <2> QED BY <2>1, <2>2 DEF Grants
<1>4. UNCHANGED <<now, CapTable, SeatTable>>
  BY DEF PurgeLeases, OnlyCleanup, CapTable, SeatTable, SeatOf
<1> QED BY <1>3, <1>4 DEF Ledger!ledger

\* A commit grants the lease that its invocation did not have before.
LEMMA CommitGrants ==
  ASSUME TypeOK, LeasesAnswered, NEW r \in Requests, NEW o \in OpKeys, NEW l \in Licenses, NEW b \in Bindings,
         Commit(r, o, l, b)
  PROVE  Grants' = Grants \cup {[seat |-> b, license |-> l, holder |-> requests[r].key,
                                 until |-> AcceptUntil(requests[r])]}
<1> DEFINE q == requests[r]
           lease == [row |-> "stored", opKey |-> o, subject |-> q.subject, license |-> l, binding |-> b,
                     gen |-> q.gen, entRev |-> q.entRev + (IF q.stamp THEN 1 ELSE 0),
                     issued |-> q.issued, expires |-> q.expires, accept |-> AcceptUntil(q)]
           grant == [seat |-> b, license |-> l, holder |-> q.key, until |-> AcceptUntil(q)]
<1>1. leases[r].row = "none"
  BY DEF LeasesAnswered, Commit
<1>2. o[1] = q.key
  BY DEF Commit, CommitGuard, RequestOpKey
<1>3. leases' = [leases EXCEPT ![r] = lease]
  BY DEF Commit, IssueLease
<1>4. /\ lease.row = "stored" /\ lease.opKey = o /\ lease.license = l /\ lease.binding = b
      /\ lease.accept = AcceptUntil(q)
  OBVIOUS
<1> HIDE DEF lease, q
<1>5. leases'[r] = lease /\ \A x \in Requests \ {r} : leases'[x] = leases[x]
  BY <1>3 DEF TypeOK
<1>6. Issued' = Issued \cup {r} /\ r \notin Issued
  BY <1>1, <1>4, <1>5 DEF Issued
<1>7. GrantOf(r)' = grant
  BY <1>2, <1>4, <1>5 DEF GrantOf
<1>8. \A x \in Issued : GrantOf(x)' = GrantOf(x)
  BY <1>5, <1>6 DEF GrantOf, Issued
<1>9. Grants' = {GrantOf(x)' : x \in Issued \cup {r}}
  BY <1>6 DEF Grants
<1> HIDE DEF grant
<1>10. Grants' = Grants \cup {grant}
  BY <1>7, <1>8, <1>9 DEF Grants
<1> QED BY <1>10 DEF grant, q

\* The commit batch of a lease is a Take or an Extend of the ledger.
LEMMA CommitRefines ==
  ASSUME TypeOK, LeasesAnswered, NEW r \in Requests, NEW o \in OpKeys, NEW l \in Licenses, NEW b \in Bindings,
         Commit(r, o, l, b)
  PROVE  Ledger!LedgerNext
<1> DEFINE q == requests[r]
           until == AcceptUntil(q)
<1>1. q \in RequestState /\ q.key \in Keys
  BY DEF TypeOK, KeysKnown, Commit
<1>2. until \in 0 .. Horizon
  <2>1. q.expires \in 0 .. MaxTime + LeaseMax
    BY <1>1 DEF RequestState
  <2> QED BY <2>1, TimingAssumption DEF AcceptUntil, Horizon
<1>3. now' = now /\ CapTable' = CapTable
  <2>1. \A x \in Licenses : entitlements'[x].max = entitlements[x].max
    <3>1. \A x \in Licenses : entitlements[x] \in EntitlementRow
      BY DEF TypeOK
    <3> QED BY <3>1 DEF Commit, StampTrial, TypeOK, EntitlementRow
  <2> QED BY <2>1 DEF Commit, CapTable
<1>4. Grants' = Grants \cup {[seat |-> b, license |-> l, holder |-> q.key, until |-> until]}
  BY CommitGrants
<1>5. bindings' = [bindings EXCEPT ![b] = BoundRow(bindings[b], l, q)]
  BY DEF Commit, HoldBinding
<1>6. SeatTable' = [SeatTable EXCEPT ![b] = SeatOf(b)']
  BY <1>5 DEF SeatTable, SeatOf, TypeOK
<1>7. bindings[b] \in BindingRow /\ bindings'[b] = BoundRow(bindings[b], l, q)
  BY <1>5 DEF TypeOK
<1>8. MayUseBinding(b, l, q)
  BY DEF Commit, CommitGuard
<1>9. l = q.license
  BY DEF Commit, CommitGuard
<1> HIDE DEF q, until
<1>10. CASE ActiveBinding(b, q)
  <2>1. bindings[b].state = "active" /\ bindings[b].license = l /\ bindings[b].key = q.key
    BY <1>9, <1>10 DEF ActiveBinding
  <2>2. bindings'[b] = [bindings[b] EXCEPT !.hold = Held(@, q), !.rev = @ + 1]
    BY <1>7, <2>1 DEF BoundRow
  <2>3. Held(bindings[b].hold, q) = Ledger!LatestHold(bindings[b].hold, until)
    BY DEF Held, Later, Ledger!LatestHold, until
  <2>4. SeatTable[b].state = "open" /\ SeatTable[b].license = l /\ SeatTable[b].holder = q.key
        /\ SeatTable[b].hold = bindings[b].hold
    BY <2>1, SeatFields, Mapped
  <2>5. SeatOf(b)' = [SeatTable[b] EXCEPT !.hold = Ledger!LatestHold(SeatTable[b].hold, until)]
    <3>1. /\ bindings'[b].state = bindings[b].state /\ bindings'[b].license = bindings[b].license
          /\ bindings'[b].key = bindings[b].key /\ bindings'[b].hold = Ledger!LatestHold(bindings[b].hold, until)
      BY <1>7, <2>2, <2>3 DEF BindingRow
    <3>2. SeatTable[b] = [state |-> SeatState(bindings[b].state), license |-> bindings[b].license,
                          holder |-> bindings[b].key, hold |-> bindings[b].hold]
      BY Mapped DEF SeatOf
    <3>3. SeatOf(b)' = [state |-> SeatState(bindings[b].state), license |-> bindings[b].license,
                        holder |-> bindings[b].key, hold |-> Ledger!LatestHold(bindings[b].hold, until)]
      BY <3>1 DEF SeatOf, SeatState
    <3> QED BY <3>2, <3>3
  <2>6. Ledger!Extend(b, until)
    BY <1>3, <1>4, <1>6, <2>4, <2>5 DEF Ledger!Extend, Ledger!Grant
  <2> QED BY <1>2, <2>6 DEF Ledger!LedgerNext
<1>11. CASE /\ bindings[b].state = "none" /\ ActiveBindingOf(l, q.key) = None
            /\ Cardinality(Occupied(l)) < entitlements[l].max
  <2>1. bindings'[b] = [state |-> "active", license |-> l, key |-> q.key, gen |-> 1, rev |-> 1, hold |-> Held(0, q)]
    BY <1>7, <1>11 DEF BoundRow
  <2>2. Held(0, q) = until
    BY <1>2, TimingAssumption DEF Held, Later, until, Horizon
  <2>3. SeatOf(b)' = [state |-> "open", license |-> l, holder |-> q.key, hold |-> until]
    BY <2>1, <2>2 DEF SeatOf, SeatState
  <2>4. SeatTable[b].state = "free"
    BY <1>11, SeatFields, Mapped
  <2>5. ~\E x \in Bindings : SeatTable[x].state = "open" /\ SeatTable[x].license = l /\ SeatTable[x].holder = q.key
    <3>1. ~\E x \in Bindings : bindings[x].state = "active" /\ bindings[x].license = l /\ bindings[x].key = q.key
      BY <1>11, SetsAssumption DEF ActiveBindingOf
    <3> QED BY <3>1, SeatFields, Mapped
  <2>6. Ledger!Cardinality(Ledger!InUse(l)) < CapTable[l]
    BY <1>11, InUseIsOccupied, Mapped, SameCount
  <2>7. Ledger!Take(b, l, q.key, until)
    BY <1>3, <1>4, <1>6, <2>3, <2>4, <2>5, <2>6 DEF Ledger!Take, Ledger!Grant
  <2>8. q.key \in Keys
    BY <1>1
  <2> QED BY <1>2, <2>7, <2>8 DEF Ledger!LedgerNext
<1> QED BY <1>8, <1>10, <1>11 DEF MayUseBinding

\* Retired bindings are closed seats.
LEMMA RetiredCloses ==
  ASSUME TypeOK, UNCHANGED <<now, entitlements, leases>>, NEW S \in SUBSET Bindings,
         \A b \in S : bindings[b].state = "active",
         bindings' = [b \in Bindings |-> IF b \in S THEN Retired(bindings[b]) ELSE bindings[b]]
  PROVE  Ledger!LedgerNext
<1>1. ASSUME NEW b \in S
      PROVE  SeatOf(b)' = [SeatOf(b) EXCEPT !.state = "closed"]
  <2>1. bindings[b] \in BindingRow /\ bindings'[b] = Retired(bindings[b])
    BY DEF TypeOK
  <2>2. /\ bindings'[b].state = "retiring" /\ bindings'[b].license = bindings[b].license
        /\ bindings'[b].key = bindings[b].key /\ bindings'[b].hold = bindings[b].hold
    BY <2>1 DEF Retired, BindingRow
  <2>3. SeatOf(b)' = [state |-> "closed", license |-> bindings[b].license, holder |-> bindings[b].key,
                      hold |-> bindings[b].hold]
    BY <2>2 DEF SeatOf, SeatState
  <2> QED BY <2>3 DEF SeatOf
<1>2. \A b \in Bindings \ S : SeatOf(b)' = SeatOf(b)
  BY DEF SeatOf
<1>3. SeatTable' = [b \in Bindings |-> IF b \in S THEN [SeatTable[b] EXCEPT !.state = "closed"] ELSE SeatTable[b]]
  BY <1>1, <1>2 DEF SeatTable
<1>4. \A b \in S : SeatTable[b].state = "open"
  BY SeatFields, Mapped
<1>5. UNCHANGED <<now, CapTable, Grants>>
  BY GrantsKept DEF CapTable
<1>6. Ledger!Close(S)
  BY <1>3, <1>4, <1>5 DEF Ledger!Close
<1> QED BY <1>6 DEF Ledger!LedgerNext

\* The retirement batch closes one seat of the ledger.
LEMMA RetireBatchRefines ==
  ASSUME TypeOK, NEW t \in Retires, NEW o \in OpKeys, NEW b \in Bindings, RetireBatch(t, o, b)
  PROVE  Ledger!LedgerNext
<1>1. bindings[b].state = "active" /\ UNCHANGED <<now, entitlements, leases>>
  BY DEF RetireBatch, RetireGuard, OnlyRetires
<1>2. bindings' = [bindings EXCEPT ![b] = Retired(bindings[b])]
  BY DEF RetireBatch
<1> DEFINE S == {b}
<1>3. /\ bindings' = [x \in Bindings |-> IF x \in S THEN Retired(bindings[x]) ELSE bindings[x]]
      /\ S \in SUBSET Bindings /\ \A x \in S : bindings[x].state = "active"
  BY <1>1, <1>2 DEF TypeOK
<1> HIDE DEF S
<1> QED BY <1>1, <1>3, RetiredCloses

\* Disabling a device (tr_bound_device_disable) closes all its seats at once.
LEMMA TransitionDeviceRefines ==
  ASSUME TypeOK, NEW k \in Keys, TransitionDevice(k)
  PROVE  Ledger!LedgerNext
<1> DEFINE hit == {b \in Bindings : devices[k].status = "active" /\ bindings[b].key = k /\ bindings[b].state = "active"}
<1>1. UNCHANGED <<now, entitlements, leases>>
  BY DEF TransitionDevice, OnlyAuthority
<1>2. bindings' = [b \in Bindings |-> IF b \in hit THEN Retired(bindings[b]) ELSE bindings[b]]
  BY DEF TransitionDevice
<1>3. hit \in SUBSET Bindings /\ \A b \in hit : bindings[b].state = "active"
  OBVIOUS
<1> HIDE DEF hit
<1> QED BY <1>1, <1>2, <1>3, RetiredCloses

\* Writing a license resizes it when the limit changes and is a stutter otherwise.
LEMMA WriteRefines ==
  ASSUME TypeOK, NEW l \in Licenses, NEW e \in EntitlementRow, WriteEntitlement(l, e), RoomFor(l, e.max)
  PROVE  Ledger!LedgerNext \/ UNCHANGED Ledger!ledger
<1>1. UNCHANGED <<now, bindings, leases>>
  BY DEF WriteEntitlement, OnlyAuthority
<1>2. Counted(e).max = e.max /\ entitlements' = [entitlements EXCEPT ![l] = Counted(e)]
  BY DEF WriteEntitlement, Counted, EntitlementRow
<1>3. /\ entitlements'[l].max = e.max
      /\ \A x \in Licenses \ {l} : entitlements'[x].max = entitlements[x].max
  BY <1>2 DEF TypeOK
<1>4. CASE e.max = entitlements[l].max
  BY <1>1, <1>3, <1>4, Stutter
<1>5. CASE e.max # entitlements[l].max
  <2>1. e.max \in Limits
    BY DEF EntitlementRow
  <2>2. Ledger!Cardinality(Ledger!InUse(l)) <= e.max
    BY <1>5, InUseIsOccupied, SameCount DEF RoomFor
  <2>3. CapTable' = [CapTable EXCEPT ![l] = e.max]
    BY <1>3 DEF CapTable
  <2>4. UNCHANGED <<now, SeatTable, Grants>>
    BY <1>1, GrantsKept DEF SeatTable, SeatOf
  <2>5. Ledger!Resize(l, e.max)
    BY <2>2, <2>3, <2>4 DEF Ledger!Resize, Ledger!Fits
  <2> QED BY <2>1, <2>5 DEF Ledger!LedgerNext
<1> QED BY <1>4, <1>5

\* Every administrative write is a resize, a close or a stutter of the ledger.
LEMMA AdminRefines ==
  ASSUME TypeOK, AdminNext
  PROVE  Ledger!LedgerNext \/ UNCHANGED Ledger!ledger
<1>1. ASSUME NEW l \in Licenses
      PROVE  entitlements[l] \in EntitlementRow
  BY DEF TypeOK
<1>2. ASSUME NEW l \in Licenses, NEW status \in {"active", "disabled", "revoked"}, TransitionEntitlement(l, status)
      PROVE  Ledger!LedgerNext \/ UNCHANGED Ledger!ledger
  <2> DEFINE e == [entitlements[l] EXCEPT !.status = status]
  <2>1. e \in EntitlementRow /\ e.max = entitlements[l].max
    BY <1>1 DEF EntitlementRow
  <2>2. WriteEntitlement(l, e)
    BY <1>2 DEF TransitionEntitlement
  <2> HIDE DEF e
  <2> QED BY <2>1, <2>2, WriteRefines DEF RoomFor
<1>3. ASSUME NEW l \in Licenses, NEW from \in Starts, NEW until \in Ends, NEW owner \in Customers,
             UpdateEntitlement(l, from, until, owner)
      PROVE  Ledger!LedgerNext \/ UNCHANGED Ledger!ledger
  <2> DEFINE e == [entitlements[l] EXCEPT !.from = from, !.until = until, !.owner = owner]
  <2>1. from \in Nat /\ until \in Nat
    BY SetsAssumption
  <2>2. e \in EntitlementRow /\ e.max = entitlements[l].max
    BY <1>1, <2>1 DEF EntitlementRow
  <2>3. WriteEntitlement(l, e)
    BY <1>3 DEF UpdateEntitlement
  <2> HIDE DEF e
  <2> QED BY <2>2, <2>3, WriteRefines DEF RoomFor
<1>4. ASSUME NEW l \in Licenses, NEW max \in Limits, NEW lease \in LeaseTerms, SetEntitlementCapacity(l, max, lease)
      PROVE  Ledger!LedgerNext \/ UNCHANGED Ledger!ledger
  <2> DEFINE e == [entitlements[l] EXCEPT !.max = max, !.lease = lease]
  <2>1. lease \in Nat
    BY SetsAssumption
  <2>2. e \in EntitlementRow /\ e.max = max
    BY <1>1, <2>1 DEF EntitlementRow
  <2>3. WriteEntitlement(l, e) /\ RoomFor(l, max)
    BY <1>4 DEF SetEntitlementCapacity
  <2> HIDE DEF e
  <2> QED BY <2>2, <2>3, WriteRefines
<1>5. ASSUME NEW c \in Customers, TransitionCustomer(c)
      PROVE  UNCHANGED Ledger!ledger
  BY <1>5, Stutter DEF TransitionCustomer, OnlyAuthority
<1> QED BY <1>2, <1>3, <1>4, <1>5, TransitionDeviceRefines DEF AdminNext

\* The step lemma of the refinement.
LEMMA StepRefines ==
  ASSUME TypeOK, LeasesAnswered, [Next]_vars
  PROVE  [Ledger!LedgerNext]_Ledger!ledger
<1>1. CASE UNCHANGED <<now, entitlements, bindings, leases>>
  BY <1>1, Stutter
<1>2. CASE IssueNext
  <2>1. PICK r \in Requests : (\E in \in RequestInputs : Prove(r, in)) \/ IssueStep(r) \/ Fail(r)
    BY <1>2 DEF IssueNext
  <2>2. CASE \E o \in OpKeys, l \in Licenses, b \in Bindings : Commit(r, o, l, b)
    BY <2>2, CommitRefines
  <2>3. CASE ~\E o \in OpKeys, l \in Licenses, b \in Bindings : Commit(r, o, l, b)
    BY <1>1, <2>1, <2>3, IssueStepsOwnRow DEF IssueStep
  <2> QED BY <2>2, <2>3
<1>3. CASE RetireNext
  <2>1. PICK t \in Retires :
          \/ RetireStep(t) \/ RetireFails(t)
          \/ \E b \in Bindings, c \in Customers, actor \in {"customer", "operator"},
                expected \in Revisions, op \in OpIds : ReadRetire(t, b, c, actor, expected, op)
    BY <1>3 DEF RetireNext
  <2> QED BY <1>1, <2>1, RetireSteps, RetireBatchRefines
<1>4. CASE AdminNext
  BY <1>4, AdminRefines
<1>5. CASE CleanupNext
  BY <1>1, <1>5, CleanupSteps, PurgeLeasesStutters
<1>6. CASE Tick
  <2>1. now' \in 0 .. Horizon /\ now' > now
    BY <1>6, TimingAssumption DEF Tick, TypeOK, Horizon
  <2>2. UNCHANGED <<CapTable, SeatTable, Grants>>
    BY <1>6, GrantsKept DEF Tick, CapTable, SeatTable, SeatOf
  <2> QED BY <2>1, <2>2 DEF Ledger!LedgerNext, Ledger!Pass
<1>7. CASE UNCHANGED vars
  BY <1>1, <1>7 DEF vars
<1> QED BY <1>1, <1>2, <1>3, <1>4, <1>5, <1>6, <1>7, EnrollmentSteps, ConsentSteps DEF Next

\* The empty database is an initial state of the ledger.
LEMMA InitRefines ==
  ASSUME Init, TypeOK
  PROVE  Ledger!LedgerInit /\ LeasesAnswered
<1>1. SeatTable = [b \in Bindings |-> [state |-> "free", license |-> None, holder |-> None, hold |-> 0]]
  BY DEF Init, SeatTable, SeatOf, SeatState, NoBinding
<1>2. CapTable \in [Licenses -> Limits]
  BY DEF TypeOK, CapTable, EntitlementRow
<1>3. Grants = {} /\ LeasesAnswered
  BY DEF Init, NoLease, Grants, Issued, LeasesAnswered
<1>4. now = 0
  BY DEF Init
<1> QED BY <1>1, <1>2, <1>3, <1>4 DEF Ledger!LedgerInit

\* Whatever the interleaving of handlers, administrators and cleanup, each of
\* their steps is one the seat ledger allows (bound_store.mjs,
\* bound_retire.mjs and the capacity triggers together).
THEOREM ImplementsLedgerHolds == Spec => ImplementsLedger
<1>1. Init => Ledger!LedgerInit /\ LeasesAnswered
  BY InitTyped, InitRefines
<1>2. TypeOK /\ LeasesAnswered /\ [Next]_vars => LeasesAnswered' /\ [Ledger!LedgerNext]_Ledger!ledger
  BY LeasesAnsweredHolds, StepRefines
<1> QED BY <1>1, <1>2, TypeCorrect, PTL DEF Spec, ImplementsLedger, Ledger!LedgerSpec

-----------------------------------------------------------------------------
(* What the handlers inherit from the ledger. *)

\* The ledger the theorems of SeatLedger_proofs are about is the same one.
LEMMA SameLedger ==
  /\ Ledger!LedgerInit => LedgerFacts!LedgerInit
  /\ [Ledger!LedgerNext]_Ledger!ledger => [LedgerFacts!LedgerNext]_LedgerFacts!ledger
<1>1. \A l : LedgerFacts!InUse(l) = Ledger!InUse(l)
  BY DEF LedgerFacts!InUse, Ledger!InUse
<1>2. \A S : LedgerFacts!Cardinality(S) = Ledger!Cardinality(S)
  BY DEF Ledger!Cardinality, LedgerFacts!Cardinality
<1>3. \A s, l, h, u : Ledger!Take(s, l, h, u) => LedgerFacts!Take(s, l, h, u)
  BY <1>1, <1>2 DEF Ledger!Take, LedgerFacts!Take, Ledger!Grant, LedgerFacts!Grant
<1>4. \A s, u : Ledger!Extend(s, u) => LedgerFacts!Extend(s, u)
  BY DEF Ledger!Extend, LedgerFacts!Extend, Ledger!Grant, LedgerFacts!Grant, Ledger!LatestHold,
         LedgerFacts!LatestHold
<1>5. \A S : Ledger!Close(S) => LedgerFacts!Close(S)
  BY DEF Ledger!Close, LedgerFacts!Close
<1>6. \A l, n : Ledger!Resize(l, n) => LedgerFacts!Resize(l, n)
  BY <1>1, <1>2 DEF Ledger!Resize, LedgerFacts!Resize, Ledger!Fits, LedgerFacts!Fits
<1>7. Ledger!Pass => LedgerFacts!Pass
  BY DEF Ledger!Pass, LedgerFacts!Pass
<1>8. Ledger!LedgerInit => LedgerFacts!LedgerInit
  BY DEF Ledger!LedgerInit, LedgerFacts!LedgerInit
<1>9. Ledger!LedgerNext => LedgerFacts!LedgerNext
  BY <1>3, <1>4, <1>5, <1>6, <1>7 DEF Ledger!LedgerNext, LedgerFacts!LedgerNext
<1> QED BY <1>8, <1>9 DEF Ledger!ledger, LedgerFacts!ledger

\* LedgerAssumption of SeatLedger, which its theorems rest on, holds of the mapping.
LEMMA MappedAssumption ==
  /\ LedgerFacts!IsFiniteSet(Bindings)
  /\ 0 \in 0 .. Horizon /\ 0 .. Horizon \subseteq Nat /\ Limits \subseteq Nat
<1>1. LedgerFacts!IsFiniteSet(Bindings)
  BY BindingsFinite DEF IsFiniteSet, LedgerFacts!IsFiniteSet
<1> QED BY <1>1, SetsAssumption, TimingAssumption DEF Horizon

\* The handlers behave as the ledger that SeatLedger_proofs is about.
LEMMA FactsApply == Spec => LedgerFacts!LedgerSpec
BY SameLedger, ImplementsLedgerHolds, PTL DEF ImplementsLedger, Ledger!LedgerSpec, LedgerFacts!LedgerSpec

\* The occupied slots of a license never exceed max_active_devices, however
\* enrollments, retirements and changes of the limit interleave.
THEOREM WithinCapacityHolds == Spec => []WithinCapacity
<1>1. TypeOK /\ LedgerFacts!SeatsWithinCap => WithinCapacity
  <2>1. \A S : LedgerFacts!Cardinality(S) = Cardinality(S)
    BY DEF Cardinality, LedgerFacts!Cardinality
  <2>2. \A l : LedgerFacts!InUse(l) = Ledger!InUse(l)
    BY DEF LedgerFacts!InUse, Ledger!InUse
  <2> QED BY <2>1, <2>2, InUseIsOccupied, Mapped DEF LedgerFacts!SeatsWithinCap, WithinCapacity
<1>2. LedgerFacts!LedgerSpec => []LedgerFacts!SeatsWithinCap
  BY MappedAssumption, LedgerFacts!SeatsWithinCapHolds
<1> QED BY <1>1, <1>2, TypeCorrect, FactsApply, PTL

\* No license ever has more devices with a lease that would still be accepted
\* than it allows, across retirement, re-enrollment, renewal and lost answers.
THEOREM LiveDevicesWithinLimitHolds == Spec => []LiveDevicesWithinLimit
<1>1. TypeOK /\ LedgerFacts!LiveHoldersWithinCap => LiveDevicesWithinLimit
  <2>1. \A S : LedgerFacts!Cardinality(S) = Cardinality(S)
    BY DEF Cardinality, LedgerFacts!Cardinality
  <2>2. \A l : LedgerFacts!LiveHolders(l) = LiveDevices(l)
    <3>1. \A r \in Issued : /\ GrantOf(r).license = leases[r].license /\ GrantOf(r).until = leases[r].accept
                            /\ GrantOf(r).holder = leases[r].opKey[1]
      BY DEF GrantOf
    <3> QED BY <3>1 DEF LedgerFacts!LiveHolders, LiveDevices, Grants
  <2> QED BY <2>1, <2>2, Mapped DEF LedgerFacts!LiveHoldersWithinCap, LiveDevicesWithinLimit
<1>2. LedgerFacts!LedgerSpec => []LedgerFacts!LiveHoldersWithinCap
  BY MappedAssumption, LedgerFacts!LiveHoldersWithinCapHolds
<1> QED BY <1>1, <1>2, TypeCorrect, FactsApply, PTL
=============================================================================
