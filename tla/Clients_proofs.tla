--------------------------- MODULE Clients_proofs ---------------------------
(***************************************************************************)
(* What is proved of a customer's sign-ins (PortalSignIn) and of the bound *)
(* client (NativeClient): types, and the safety invariants the runs check. *)
(***************************************************************************)
EXTENDS PortalSignIn, NativeClient, TLAPS

-----------------------------------------------------------------------------
(* The portal: types *)

Ways == {"none", "otp", "password", "oauth"}
Hash == Nat \cup {NoHash}
CodeRow ==
  [attempts : Nat, consumed : BOOLEAN, expired : BOOLEAN, replaced : BOOLEAN, checks : Nat, opened : Nat,
   late : BOOLEAN]
ResetRow == [hash : Nat, live : BOOLEAN]
SessionRow == [by : Ways, with : Hash, born : Nat, live : BOOLEAN, recent : BOOLEAN]

\* What a request holds, by where it is.
Asking == [pc : {"idle", "supersede", "issue"}, session : {0}]
Minting == [pc : {"mint"}, by : Ways, with : Hash, session : {0}]
Changing == [pc : {"credential", "change"}, session : Sessions, seen : Nat, verified : BOOLEAN]
Sending == [pc : {"send"}, seen : Nat, session : {0}]
Completing == [pc : {"complete"}, reset : Nat, session : {0}]
Connecting == [pc : {"exchange", "link", "unlink"}, provider : Providers, session : Sessions]
Request == Asking \cup Minting \cup Changing \cup Sending \cup Completing \cup Connecting

Bounds == {"codes", "resets", "salts", "sessions"}

AccountTyped ==
  contact \in BOOLEAN /\ mail \in BOOLEAN /\ password \in Nat /\ salts \in Nat /\ identities \subseteq Providers

PortalTyped ==
  /\ AccountTyped
  /\ codes \in Seq(CodeRow) /\ resets \in Seq(ResetRow)
  /\ sessions \in [Sessions -> SessionRow]
  /\ room \in [Bounds -> Nat]
  /\ tabs \in [Tabs -> Request]

\* A request that asks for a code holds no session (requestOtp).
LEMMA AskingHolds == \A pc \in {"idle", "supersede", "issue"} : [pc |-> pc, session |-> 0] \in Request
BY DEF Request, Asking

\* Of a request that proved who asks, mintSession knows how (redeemOtp, login).
LEMMA ProvedHolds == \A by \in Ways, with \in Hash : Proved(by, with) \in Request
BY DEF Request, Minting, Proved

\* Where a request is tells what it holds (the handlers of the portal).
LEMMA RequestShapes ==
  ASSUME NEW call \in Request
  PROVE  /\ call.pc = "mint" => call \in Minting
         /\ call.pc \in {"credential", "change"} => call \in Changing
         /\ call.pc = "send" => call \in Sending
         /\ call.pc = "complete" => call \in Completing
         /\ call.pc \in {"exchange", "link", "unlink"} => call \in Connecting
BY DEF Request, Asking, Minting, Changing, Sending, Completing, Connecting

\* A step of a request leaves the other requests where they are.
LEMMA GoesTyped ==
  ASSUME PortalTyped, NEW t \in Tabs, NEW call \in Request, TabGoes(t, call)
  PROVE  tabs' \in [Tabs -> Request]
BY DEF PortalTyped, TabGoes

\* A request that ends is idle again.
LEMMA FinishTyped ==
  ASSUME PortalTyped, NEW t \in Tabs, Finish(t)
  PROVE  tabs' \in [Tabs -> Request]
<1>1. IdleTab \in Request
  BY AskingHolds DEF IdleTab
<1> QED BY <1>1, GoesTyped DEF Finish

\* What is bounded stays a number (the bounds of a behaviour).
LEMMA MadeTyped ==
  ASSUME PortalTyped, NEW kind \in Bounds, Made(kind)
  PROVE  room' \in [Bounds -> Nat]
BY DEF PortalTyped, Made

\* A table whose rows are each replaced is a table again.
LEMMA RowsReplaced ==
  ASSUME NEW R, NEW S, NEW table \in Seq(R), NEW rows,
         rows = [n \in DOMAIN table |-> rows[n]], \A n \in DOMAIN table : rows[n] \in S
  PROVE  rows \in Seq(S) /\ DOMAIN rows = DOMAIN table /\ Len(rows) = Len(table)
<1>1. DOMAIN table = 1..Len(table) /\ Len(table) \in Nat
  OBVIOUS
<1>2. rows \in [1..Len(table) -> S]
  BY <1>1
<1> QED BY <1>1, <1>2

\* A row that is added is the last (INSERT of requestOtp and issueLink).
LEMMA RowAppended ==
  ASSUME NEW R, NEW table \in Seq(R), NEW row \in R
  PROVE  /\ Append(table, row) \in Seq(R)
         /\ DOMAIN Append(table, row) = DOMAIN table \cup {Len(table) + 1}
         /\ Append(table, row)[Len(table) + 1] = row
         /\ \A n \in DOMAIN table : Append(table, row)[n] = table[n]
OBVIOUS

\* The rows of a table are rows.
LEMMA RowOf ==
  ASSUME NEW R, NEW table \in Seq(R), NEW n \in DOMAIN table
  PROVE  table[n] \in R
OBVIOUS

\* A row that changes leaves the others (UPDATE ... WHERE id = ?).
LEMMA RowChanged ==
  ASSUME NEW R, NEW table \in Seq(R), NEW n \in DOMAIN table, NEW row \in R
  PROVE  /\ [table EXCEPT ![n] = row] \in Seq(R)
         /\ DOMAIN [table EXCEPT ![n] = row] = DOMAIN table
         /\ [table EXCEPT ![n] = row][n] = row
         /\ \A m \in DOMAIN table \ {n} : [table EXCEPT ![n] = row][m] = table[m]
OBVIOUS

-----------------------------------------------------------------------------
(* The portal: every step keeps the types *)

\* A check counts, and leaves a row of portal_otp (redeemOtp).
LEMMA CheckedTyped ==
  ASSUME NEW row \in CodeRow, NEW right \in BOOLEAN
  PROVE  Checked(row, right) \in CodeRow
<1> DEFINE usable == Usable(row)
           opens == right /\ usable
<1>1. usable \in BOOLEAN /\ opens \in BOOLEAN
  BY DEF Usable
<1> DEFINE late == row.late \/ (opens /\ (row.replaced \/ row.checks >= MaxAttempts))
           spent == row.consumed \/ opens
           attempts == IF usable THEN row.attempts + 1 ELSE row.attempts
           checks == IF row.consumed \/ row.checks > MaxAttempts THEN row.checks ELSE row.checks + 1
           opened == IF opens /\ row.opened < 2 THEN row.opened + 1 ELSE row.opened
<1>2. late \in BOOLEAN /\ spent \in BOOLEAN
  BY <1>1 DEF CodeRow
<1>3. attempts \in Nat /\ checks \in Nat /\ opened \in Nat
  BY DEF CodeRow
<1>4. Checked(row, right) = [row EXCEPT !.attempts = attempts, !.consumed = spent, !.checks = checks,
                                        !.opened = opened, !.late = late]
  BY DEF Checked
<1> HIDE DEF usable, opens, late, spent, attempts, checks, opened
<1> QED BY <1>2, <1>3, <1>4 DEF CodeRow

\* A code that is replaced is consumed (passwordInvalidations, requestOtp).
LEMMA SpentTyped ==
  ASSUME PortalTyped
  PROVE  Spent \in Seq(CodeRow) /\ DOMAIN Spent = DOMAIN codes
<1>1. codes \in Seq(CodeRow)
  BY DEF PortalTyped
<1>2. \A n \in DOMAIN codes : codes[n] \in CodeRow
  BY <1>1, RowOf
<1>3. \A n \in DOMAIN codes : Spent[n] \in CodeRow
  BY <1>2 DEF Spent, CodeRow
<1>4. Spent = [n \in DOMAIN codes |-> Spent[n]]
  BY DEF Spent
<1> QED BY <1>1, <1>3, <1>4, RowsReplaced

\* A session that is over is a session still (revokeSession).
LEMMA RevokeTyped ==
  ASSUME PortalTyped, NEW gone, Revoke(gone)
  PROVE  sessions' \in [Sessions -> SessionRow]
<1>1. Over \in SessionRow
  BY DEF Over, SessionRow, Ways, Hash
<1> QED BY <1>1 DEF PortalTyped, Revoke

\* A new password is known by a fresh salt (passwordInvalidations).
LEMMA NewPasswordTyped ==
  ASSUME PortalTyped, NEW t \in Tabs, NewPassword(t)
  PROVE  /\ salts' \in Nat /\ password' \in Nat /\ codes' \in Seq(CodeRow)
         /\ sessions' \in [Sessions -> SessionRow] /\ room' \in [Bounds -> Nat] /\ tabs' \in [Tabs -> Request]
<1>1. salts \in Nat /\ salts + 1 \in Nat
  BY DEF PortalTyped, AccountTyped
<1>2. "salts" \in Bounds /\ "password" \in Ways
  BY DEF Bounds, Ways
<1>3. Proved("password", salts + 1) \in Request
  BY <1>1, <1>2, ProvedHolds DEF Hash
<1>4. tabs' \in [Tabs -> Request]
  BY <1>3, GoesTyped DEF NewPassword
<1>5. room' \in [Bounds -> Nat]
  BY <1>2, MadeTyped DEF NewPassword
<1>6. sessions' \in [Sessions -> SessionRow]
  BY RevokeTyped DEF NewPassword
<1> QED BY <1>1, <1>4, <1>5, <1>6, SpentTyped DEF NewPassword

\* The first states (the account the customer has).
LEMMA PortalInitTyped == ASSUME PortalInit PROVE PortalTyped
<1>1. PICK a \in Accounts :
        contact = a.contact /\ password = a.password /\ identities = a.identities /\ mail = a.mail /\ room = a.room
  BY DEF PortalInit
<1>2. AccountTyped /\ room \in [Bounds -> Nat]
  BY <1>1, PortalAssumption DEF PortalInit, AccountTyped, Bounds
<1>3. codes \in Seq(CodeRow) /\ resets \in Seq(ResetRow)
  BY DEF PortalInit
<1>4. sessions \in [Sessions -> SessionRow]
  BY DEF PortalInit, Over, SessionRow, Ways, Hash
<1>5. tabs \in [Tabs -> Request]
  BY AskingHolds DEF PortalInit, IdleTab
<1> QED BY <1>2, <1>3, <1>4, <1>5 DEF PortalTyped

\* Requests that only move on (the reads of the portal's handlers).
Moves ==
  \E t \in Tabs :
    \/ AskCode(t) \/ Login(t) \/ ReadCredential(t) \/ AskReset(t) \/ FindIdentity(t)
    \/ \E n \in DOMAIN resets : FollowReset(t, n)
    \/ \E p \in Providers : SignInWith(t, p)
    \/ \E s \in Live : Change(t, s)
    \/ \E s \in Live, p \in Providers : Link(t, p, s) \/ Unlink(t, p, s)

\* A read changes what its request holds, and nothing else.
LEMMA MovesTyped ==
  ASSUME PortalTyped, Moves
  PROVE  tabs' \in [Tabs -> Request] /\ UNCHANGED <<account, codes, resets, sessions, mail, room>>
<1> USE DEF account
<1>0. PICK t \in Tabs :
        \/ AskCode(t) \/ Login(t) \/ ReadCredential(t) \/ AskReset(t) \/ FindIdentity(t)
        \/ \E n \in DOMAIN resets : FollowReset(t, n)
        \/ \E p \in Providers : SignInWith(t, p)
        \/ \E s \in Live : Change(t, s)
        \/ \E s \in Live, p \in Providers : Link(t, p, s) \/ Unlink(t, p, s)
  BY DEF Moves
<1>1. CASE AskCode(t)
  BY <1>1, AskingHolds, GoesTyped DEF AskCode
<1>2. CASE Login(t)
  <2>1. Proved("password", password) \in Request
    BY ProvedHolds DEF Ways, Hash, PortalTyped, AccountTyped
  <2> QED BY <1>2, <2>1, GoesTyped DEF Login
<1>3. CASE ReadCredential(t)
  <2>1. tabs[t] \in Request /\ tabs[t].pc = "credential"
    BY <1>3 DEF ReadCredential, TabAt, PortalTyped
  <2>2. tabs[t] \in Changing /\ password \in Nat
    BY <2>1, RequestShapes DEF PortalTyped, AccountTyped
  <2>3. [tabs[t] EXCEPT !.pc = "change", !.seen = password] \in Changing
    BY <2>2 DEF Changing
  <2>4. [tabs[t] EXCEPT !.pc = "change", !.seen = password] \in Request
    BY <2>3 DEF Request
  <2> QED BY <1>3, <2>4, GoesTyped, FinishTyped DEF ReadCredential
<1>4. CASE AskReset(t)
  <2>1. [pc |-> "send", seen |-> password, session |-> 0] \in Request
    BY DEF Request, Sending, PortalTyped, AccountTyped
  <2> QED BY <1>4, <2>1, GoesTyped DEF AskReset
<1>5. CASE FindIdentity(t)
  <2>1. tabs[t] \in Request /\ tabs[t].pc = "exchange"
    BY <1>5 DEF FindIdentity, TabAt, PortalTyped
  <2>2. tabs[t] \in Connecting
    BY <2>1, RequestShapes
  <2>3. [tabs[t] EXCEPT !.pc = "link"] \in Connecting
    BY <2>2 DEF Connecting
  <2>4. [tabs[t] EXCEPT !.pc = "link"] \in Request
    BY <2>3 DEF Request
  <2>5. Proved("oauth", NoHash) \in Request
    BY ProvedHolds DEF Ways, Hash
  <2>6. \/ Finish(t)
        \/ TabGoes(t, Proved("oauth", NoHash))
        \/ TabGoes(t, [tabs[t] EXCEPT !.pc = "link"])
    BY <1>5 DEF FindIdentity
  <2>7. tabs' \in [Tabs -> Request]
    BY <2>4, <2>5, <2>6, GoesTyped, FinishTyped
  <2> QED BY <1>5, <2>7 DEF FindIdentity
<1>6. ASSUME NEW n \in DOMAIN resets, FollowReset(t, n)
      PROVE  tabs' \in [Tabs -> Request] /\ UNCHANGED <<account, codes, resets, sessions, mail, room>>
  <2>1. n \in Nat
    BY DEF PortalTyped
  <2>2. [pc |-> "complete", reset |-> n, session |-> 0] \in Request
    BY <2>1 DEF Request, Completing
  <2> QED BY <1>6, <2>2, GoesTyped DEF FollowReset
<1>7. ASSUME NEW p \in Providers, SignInWith(t, p)
      PROVE  tabs' \in [Tabs -> Request] /\ UNCHANGED <<account, codes, resets, sessions, mail, room>>
  <2>1. Proved("oauth", NoHash) \in Request
    BY ProvedHolds DEF Ways, Hash
  <2> QED BY <1>7, <2>1, GoesTyped DEF SignInWith
<1>8. ASSUME NEW s \in Live, Change(t, s)
      PROVE  tabs' \in [Tabs -> Request] /\ UNCHANGED <<account, codes, resets, sessions, mail, room>>
  <2> DEFINE verified == sessions[s].recent /\ sessions[s].by # "password"
  <2>1. s \in Sessions /\ verified \in BOOLEAN
    BY DEF Live, PortalTyped, SessionRow
  <2>2. Change(t, s) => TabGoes(t, [pc |-> "credential", session |-> s, seen |-> 0, verified |-> verified])
                        /\ UNCHANGED <<account, codes, resets, sessions, mail, room>>
    BY DEF Change
  <2> HIDE DEF verified
  <2>3. [pc |-> "credential", session |-> s, seen |-> 0, verified |-> verified] \in Request
    BY <2>1 DEF Request, Changing
  <2> QED BY <1>8, <2>2, <2>3, GoesTyped
<1>9. ASSUME NEW s \in Live, NEW p \in Providers, Link(t, p, s) \/ Unlink(t, p, s)
      PROVE  tabs' \in [Tabs -> Request] /\ UNCHANGED <<account, codes, resets, sessions, mail, room>>
  <2>1. s \in Sessions
    BY DEF Live
  <2>2. \A pc \in {"exchange", "unlink"} : [pc |-> pc, provider |-> p, session |-> s] \in Request
    BY <2>1 DEF Request, Connecting
  <2> QED BY <1>9, <2>2, GoesTyped DEF Link, Unlink
<1> QED BY <1>0, <1>1, <1>2, <1>3, <1>4, <1>5, <1>6, <1>7, <1>8, <1>9

\* A check of the codes leaves codes (redeemOtp).
LEMMA CheckCodeTyped ==
  ASSUME PortalTyped, NEW t \in Tabs, NEW n \in {0} \cup DOMAIN codes, CheckCode(t, n)
  PROVE  PortalTyped'
<1>1. codes \in Seq(CodeRow) /\ \A m \in DOMAIN codes : codes[m] \in CodeRow
  BY RowOf DEF PortalTyped
<1>2. codes' = [m \in DOMAIN codes |-> Checked(codes[m], m = n)]
  BY DEF CheckCode
<1>3. ASSUME NEW m \in DOMAIN codes
      PROVE  codes'[m] \in CodeRow
  <2> DEFINE right == m = n
  <2>1. codes'[m] = Checked(codes[m], right) /\ right \in BOOLEAN
    BY <1>2
  <2> HIDE DEF right
  <2> QED BY <1>1, <2>1, CheckedTyped
<1>4. codes' = [m \in DOMAIN codes |-> codes'[m]]
  BY <1>2
<1>5. codes' \in Seq(CodeRow)
  BY <1>1, <1>3, <1>4, RowsReplaced
<1>6. Proved("otp", NoHash) \in Request
  BY ProvedHolds DEF Ways, Hash
<1>7. tabs' \in [Tabs -> Request]
  BY <1>6, GoesTyped DEF CheckCode, PortalTyped
<1> QED BY <1>5, <1>7 DEF CheckCode, PortalTyped, AccountTyped, account

\* So does the redemption of a link (redeemOtp).
LEMMA OpenLinkTyped ==
  ASSUME PortalTyped, NEW t \in Tabs, NEW n \in DOMAIN codes, OpenLink(t, n)
  PROVE  PortalTyped'
<1>1. codes \in Seq(CodeRow) /\ codes[n] \in CodeRow
  BY RowOf DEF PortalTyped
<1>2. Checked(codes[n], TRUE) \in CodeRow
  BY <1>1, CheckedTyped
<1>3. codes' = [codes EXCEPT ![n] = Checked(codes[n], TRUE)]
  BY DEF OpenLink
<1>4. codes' \in Seq(CodeRow)
  BY <1>1, <1>2, <1>3, RowChanged
<1>5. Proved("otp", NoHash) \in Request
  BY ProvedHolds DEF Ways, Hash
<1>6. tabs' \in [Tabs -> Request]
  BY <1>5, GoesTyped DEF OpenLink
<1> QED BY <1>4, <1>6 DEF OpenLink, PortalTyped, AccountTyped, account

\* The statements of requestOtp.
LEMMA SupersedeTyped == ASSUME PortalTyped, NEW t \in Tabs, Supersede(t) PROVE PortalTyped'
<1>1. tabs' \in [Tabs -> Request]
  BY AskingHolds, GoesTyped DEF Supersede
<1> QED BY <1>1, SpentTyped DEF Supersede, PortalTyped, AccountTyped, account

\* The row of a new code.
NewCode == [attempts |-> 0, consumed |-> FALSE, expired |-> FALSE, replaced |-> FALSE, checks |-> 0, opened |-> 0,
            late |-> FALSE]

\* The insert of a code (requestOtp).
LEMMA IssueCodeTyped == ASSUME PortalTyped, NEW t \in Tabs, IssueCode(t) PROVE PortalTyped'
<1>1. NewCode \in CodeRow
  BY DEF NewCode, CodeRow
<1>2. codes' = Append(codes, NewCode) /\ Finish(t)
  BY DEF IssueCode, NewCode
<1>3. codes' \in Seq(CodeRow)
  BY <1>1, <1>2, RowAppended DEF PortalTyped
<1>4. room' \in [Bounds -> Nat]
  BY MadeTyped DEF IssueCode, Bounds
<1> QED BY <1>2, <1>3, <1>4, FinishTyped DEF IssueCode, PortalTyped, AccountTyped, account

\* The session a request opens (mintSession).
LEMMA MintTyped == ASSUME PortalTyped, NEW t \in Tabs, Mint(t) PROVE PortalTyped'
<1>1. tabs[t] \in Request /\ tabs[t].pc = "mint"
  BY DEF Mint, TabAt, PortalTyped
<1>2. tabs[t] \in Minting
  BY <1>1, RequestShapes
<1>3. tabs[t].by \in Ways /\ tabs[t].with \in Hash
  BY <1>2 DEF Minting
<1>4. tabs' \in [Tabs -> Request]
  BY FinishTyped DEF Mint
<1>5. sessions' \in [Sessions -> SessionRow] /\ room' \in [Bounds -> Nat]
  <2>1. CASE ~Vouched(t)
    BY <2>1 DEF Mint, PortalTyped
  <2>2. CASE Vouched(t)
    <3>1. PICK s \in Free :
            /\ Made("sessions")
            /\ sessions' = [sessions EXCEPT ![s] = [by |-> tabs[t].by, with |-> tabs[t].with, born |-> password,
                                                    live |-> TRUE, recent |-> TRUE]]
      BY <2>2 DEF Mint
    <3>2. [by |-> tabs[t].by, with |-> tabs[t].with, born |-> password, live |-> TRUE, recent |-> TRUE]
            \in SessionRow
      BY <1>3 DEF SessionRow, PortalTyped, AccountTyped
    <3>3. room' \in [Bounds -> Nat]
      BY <3>1, MadeTyped DEF Bounds
    <3> QED BY <3>1, <3>2, <3>3 DEF PortalTyped
  <2> QED BY <2>1, <2>2
<1> QED BY <1>4, <1>5 DEF Mint, PortalTyped, AccountTyped, account

\* The batch of a changed password (settings).
LEMMA CommitChangeTyped == ASSUME PortalTyped, NEW t \in Tabs, CommitChange(t) PROVE PortalTyped'
<1>1. CASE NewPassword(t)
  BY <1>1, NewPasswordTyped DEF CommitChange, PortalTyped, AccountTyped
<1>2. CASE Finish(t) /\ UNCHANGED <<password, salts, codes, sessions, room>>
  BY <1>2, FinishTyped DEF CommitChange, PortalTyped, AccountTyped
<1> QED BY <1>1, <1>2 DEF CommitChange

\* The row of a reset link (issueLink).
LEMMA SendResetTyped == ASSUME PortalTyped, NEW t \in Tabs, SendReset(t) PROVE PortalTyped'
<1>1. tabs[t] \in Request /\ tabs[t].pc = "send"
  BY DEF SendReset, TabAt, PortalTyped
<1>2. tabs[t] \in Sending
  BY <1>1, RequestShapes
<1>3. [hash |-> tabs[t].seen, live |-> TRUE] \in ResetRow
  BY <1>2 DEF Sending, ResetRow
<1>4. resets' \in Seq(ResetRow)
  BY <1>3, RowAppended DEF SendReset, PortalTyped
<1>5. room' \in [Bounds -> Nat]
  BY MadeTyped DEF SendReset, Bounds
<1>6. Finish(t)
  BY DEF SendReset
<1> QED BY <1>4, <1>5, <1>6, FinishTyped DEF SendReset, PortalTyped, AccountTyped, account

\* The claim of a reset link spends it (complete).
LEMMA CompleteTyped == ASSUME PortalTyped, NEW t \in Tabs, Complete(t) PROVE PortalTyped'
<1> DEFINE link == tabs[t].reset
           changes == resets[link].live /\ password = resets[link].hash
           live(m) == resets[m].live /\ m # link /\ ~changes
<1>1. resets \in Seq(ResetRow) /\ \A m \in DOMAIN resets : resets[m] \in ResetRow
  BY RowOf DEF PortalTyped
<1>2. resets' = [m \in DOMAIN resets |-> [resets[m] EXCEPT !.live = live(m)]]
  BY DEF Complete
<1>3. ASSUME NEW m \in DOMAIN resets
      PROVE  resets'[m] \in ResetRow
  <2>1. live(m) \in BOOLEAN
    BY <1>1 DEF ResetRow
  <2>2. resets'[m] = [resets[m] EXCEPT !.live = live(m)]
    BY <1>2
  <2> HIDE DEF live
  <2> QED BY <1>1, <2>1, <2>2 DEF ResetRow
<1>4. resets' = [m \in DOMAIN resets |-> resets'[m]]
  BY <1>2
<1>5. resets' \in Seq(ResetRow)
  BY <1>1, <1>3, <1>4, RowsReplaced
<1>6. \/ NewPassword(t) /\ contact' = TRUE
      \/ Finish(t) /\ UNCHANGED <<password, salts, codes, sessions, contact, room>>
  BY DEF Complete
<1>7. UNCHANGED <<identities, mail>>
  BY DEF Complete
<1>8. CASE NewPassword(t) /\ contact' = TRUE
  BY <1>5, <1>7, <1>8, NewPasswordTyped DEF PortalTyped, AccountTyped
<1>9. CASE Finish(t) /\ UNCHANGED <<password, salts, codes, sessions, contact, room>>
  BY <1>5, <1>7, <1>9, FinishTyped DEF PortalTyped, AccountTyped
<1> QED BY <1>6, <1>8, <1>9

\* The insert of a provider's identity (callback).
LEMMA LinkIdentityTyped == ASSUME PortalTyped, NEW t \in Tabs, LinkIdentity(t) PROVE PortalTyped'
<1>1. tabs[t] \in Request /\ tabs[t].pc = "link"
  BY DEF LinkIdentity, TabAt, PortalTyped
<1>2. tabs[t].provider \in Providers
  BY <1>1, RequestShapes DEF Connecting
<1>3. Proved("oauth", NoHash) \in Request
  BY ProvedHolds DEF Ways, Hash
<1>4. tabs' \in [Tabs -> Request]
  BY <1>3, GoesTyped, FinishTyped DEF LinkIdentity
<1>5. identities' \subseteq Providers
  BY <1>2 DEF LinkIdentity, PortalTyped, AccountTyped
<1> QED BY <1>4, <1>5 DEF LinkIdentity, PortalTyped, AccountTyped

\* The batch that disconnects a provider (unlink).
LEMMA CommitUnlinkTyped == ASSUME PortalTyped, NEW t \in Tabs, CommitUnlink(t) PROVE PortalTyped'
<1>1. tabs' \in [Tabs -> Request]
  BY FinishTyped DEF CommitUnlink
<1>2. identities' \subseteq Providers /\ sessions' \in [Sessions -> SessionRow]
  <2>1. CASE UNCHANGED <<identities, sessions>>
    BY <2>1 DEF PortalTyped, AccountTyped
  <2>2. CASE /\ identities' = identities \ {tabs[t].provider}
             /\ Revoke({x \in Live : sessions[x].by = "oauth"} \ {tabs[t].session})
    BY <2>2, RevokeTyped DEF PortalTyped, AccountTyped
  <2> QED BY <2>1, <2>2 DEF CommitUnlink
<1> QED BY <1>1, <1>2 DEF CommitUnlink, PortalTyped, AccountTyped

\* Time, and signing out (revokeSession).
Passing ==
  \/ \E s \in Live : EndSession(s) \/ Age(s)
  \/ \E n \in DOMAIN codes : ExpireCode(n)
  \/ \E n \in DOMAIN resets : DropReset(n)

\* What time does to a session, a code and a link (expires_at).
LEMMA PassingTyped == ASSUME PortalTyped, Passing PROVE PortalTyped'
<1> USE DEF account
<1>1. ASSUME NEW s \in Live, EndSession(s) PROVE PortalTyped'
  BY <1>1, RevokeTyped DEF EndSession, PortalTyped, AccountTyped
<1>2. ASSUME NEW s \in Live, Age(s) PROVE PortalTyped'
  <2>1. s \in Sessions /\ sessions[s] \in SessionRow
    BY DEF Live, PortalTyped
  <2>2. [sessions[s] EXCEPT !.recent = FALSE] \in SessionRow
    BY <2>1 DEF SessionRow
  <2>3. sessions' = [sessions EXCEPT ![s] = [sessions[s] EXCEPT !.recent = FALSE]]
    BY <1>2 DEF Age
  <2> QED BY <1>2, <2>1, <2>2, <2>3 DEF Age, PortalTyped, AccountTyped
<1>3. ASSUME NEW n \in DOMAIN codes, ExpireCode(n) PROVE PortalTyped'
  <2>1. codes \in Seq(CodeRow) /\ codes[n] \in CodeRow
    BY RowOf DEF PortalTyped
  <2>2. [codes[n] EXCEPT !.expired = TRUE] \in CodeRow
    BY <2>1 DEF CodeRow
  <2>3. codes' = [codes EXCEPT ![n] = [codes[n] EXCEPT !.expired = TRUE]]
    BY <1>3 DEF ExpireCode
  <2>4. codes' \in Seq(CodeRow)
    BY <2>1, <2>2, <2>3, RowChanged
  <2> QED BY <1>3, <2>4 DEF ExpireCode, PortalTyped, AccountTyped
<1>4. ASSUME NEW n \in DOMAIN resets, DropReset(n) PROVE PortalTyped'
  <2>1. resets \in Seq(ResetRow) /\ resets[n] \in ResetRow
    BY RowOf DEF PortalTyped
  <2>2. [resets[n] EXCEPT !.live = FALSE] \in ResetRow
    BY <2>1 DEF ResetRow
  <2>3. resets' = [resets EXCEPT ![n] = [resets[n] EXCEPT !.live = FALSE]]
    BY <1>4 DEF DropReset
  <2>4. resets' \in Seq(ResetRow)
    BY <2>1, <2>2, <2>3, RowChanged
  <2> QED BY <1>4, <2>4 DEF DropReset, PortalTyped, AccountTyped
<1> QED BY <1>1, <1>2, <1>3, <1>4 DEF Passing

\* What a step of the portal may be: a read, a write of one of its handlers, or time.
LEMMA PortalSteps ==
  ASSUME PortalNext
  PROVE  \/ Moves
         \/ \E t \in Tabs :
              \/ Supersede(t) \/ IssueCode(t) \/ Mint(t) \/ CommitChange(t) \/ SendReset(t) \/ Complete(t)
              \/ LinkIdentity(t) \/ CommitUnlink(t)
              \/ \E n \in {0} \cup DOMAIN codes : CheckCode(t, n)
              \/ \E n \in DOMAIN codes : OpenLink(t, n)
         \/ Passing
BY ZenonT(60) DEF PortalNext, Moves, Passing

\* Every step keeps the types of the portal (all its handlers).
LEMMA PortalStepTyped == ASSUME PortalTyped, [PortalNext]_portal PROVE PortalTyped'
<1>1. CASE Moves
  BY <1>1, MovesTyped DEF PortalTyped, AccountTyped, account
<1>2. CASE Passing
  BY <1>2, PassingTyped
<1>3. ASSUME NEW t \in Tabs,
             \/ Supersede(t) \/ IssueCode(t) \/ Mint(t) \/ CommitChange(t) \/ SendReset(t) \/ Complete(t)
             \/ LinkIdentity(t) \/ CommitUnlink(t)
             \/ \E n \in {0} \cup DOMAIN codes : CheckCode(t, n)
             \/ \E n \in DOMAIN codes : OpenLink(t, n)
      PROVE  PortalTyped'
  BY <1>3, SupersedeTyped, IssueCodeTyped, MintTyped, CommitChangeTyped, SendResetTyped, CompleteTyped,
     LinkIdentityTyped, CommitUnlinkTyped, CheckCodeTyped, OpenLinkTyped
<1>4. CASE UNCHANGED portal
  BY <1>4 DEF portal, account, PortalTyped, AccountTyped
<1> QED BY <1>1, <1>2, <1>3, <1>4, PortalSteps

\* Every reachable state of the portal is typed.
THEOREM PortalTypeCorrect == PortalSpec => []PortalTyped
BY PortalInitTyped, PortalStepTyped, PTL DEF PortalSpec

-----------------------------------------------------------------------------
(* The portal: a code signs in once *)

\* What keeps a code from a second use: it signs in at most once and not late,
\* having signed in or been replaced it is consumed, and while it is good its
\* counter knows of every check.
CodeKept(row) ==
  /\ row.opened \in {0, 1} /\ ~row.late
  /\ row.opened = 1 => row.consumed
  /\ row.replaced => row.consumed
  /\ Usable(row) => row.checks = row.attempts

CodesKept == \A n \in DOMAIN codes : CodeKept(codes[n])

\* A check of a code keeps what bars it (redeemOtp's one statement counts and consumes).
LEMMA CheckedKept ==
  ASSUME NEW row \in CodeRow, NEW right \in BOOLEAN, CodeKept(row)
  PROVE  CodeKept(Checked(row, right))
<1> DEFINE next == Checked(row, right)
           opens == right /\ Usable(row)
           spent == row.consumed \/ opens
           late == row.late \/ (opens /\ (row.replaced \/ row.checks >= MaxAttempts))
<1>0. MaxAttempts \in Nat \ {0}
  BY PortalAssumption
<1>1. DOMAIN row = {"attempts", "consumed", "expired", "replaced", "checks", "opened", "late"}
  BY DEF CodeRow
<1>2. /\ next.attempts = IF Usable(row) THEN row.attempts + 1 ELSE row.attempts
      /\ next.checks = IF row.consumed \/ row.checks > MaxAttempts THEN row.checks ELSE row.checks + 1
      /\ next.opened = IF opens /\ row.opened < 2 THEN row.opened + 1 ELSE row.opened
      /\ next.expired = row.expired /\ next.replaced = row.replaced
  BY <1>1 DEF Checked
<1>3. next.consumed = spent /\ next.late = late
  BY <1>1 DEF Checked
<1> HIDE DEF next
<1>4. opens => ~row.consumed /\ row.checks = row.attempts /\ row.attempts < MaxAttempts
  BY DEF Usable, CodeKept
<1>5. row.attempts \in Nat /\ row.checks \in Nat
  BY DEF CodeRow
<1>6. ~late
  BY <1>0, <1>4, <1>5 DEF CodeKept
<1>7. /\ next.opened \in {0, 1}
      /\ next.opened = 1 => spent
      /\ next.replaced => spent
  <2>1. row.opened \in {0, 1} /\ (row.opened = 1 => row.consumed) /\ (row.replaced => row.consumed)
    BY DEF CodeKept
  <2> QED BY <1>2, <1>4, <2>1
<1>8. Usable(next) => next.checks = next.attempts
  <2> SUFFICES ASSUME Usable(next) PROVE next.checks = next.attempts
    OBVIOUS
  <2>1. ~next.consumed /\ ~next.expired /\ next.attempts < MaxAttempts
    BY DEF Usable
  <2>2. ~row.consumed /\ ~row.expired
    BY <1>2, <1>3, <2>1
  <2>3. row.attempts < MaxAttempts
    BY <1>0, <1>2, <1>5, <2>1
  <2>4. Usable(row) /\ row.checks = row.attempts
    BY <2>2, <2>3 DEF Usable, CodeKept
  <2> QED BY <1>0, <1>2, <1>5, <2>2, <2>3, <2>4
<1> HIDE DEF spent, late
<1>9. ~next.late /\ (next.opened = 1 => next.consumed) /\ (next.replaced => next.consumed)
  BY Zenon, <1>3, <1>6, <1>7
<1>10. CodeKept(next)
  BY Zenon, <1>7, <1>8, <1>9 DEF CodeKept
<1> QED BY <1>10 DEF next

\* Codes that are replaced are kept from use (requestOtp, passwordInvalidations).
LEMMA SpentKept ==
  ASSUME PortalTyped, CodesKept
  PROVE  \A n \in DOMAIN codes : CodeKept(Spent[n])
<1> TAKE n \in DOMAIN codes
<1>1. codes[n] \in CodeRow /\ CodeKept(codes[n])
  BY RowOf DEF PortalTyped, CodesKept
<1>2. Spent[n] = [codes[n] EXCEPT !.consumed = TRUE, !.replaced = TRUE]
  BY DEF Spent
<1> QED BY <1>1, <1>2 DEF CodeKept, Usable, CodeRow

\* The table of codes when it is replaced row by row.
LEMMA KeptThrough ==
  ASSUME DOMAIN codes' = DOMAIN codes, \A n \in DOMAIN codes : CodeKept(codes'[n])
  PROVE  CodesKept'
BY Zenon DEF CodesKept, CodeKept, Usable

\* Only these steps write portal_otp (requestOtp, redeemOtp, passwordInvalidations, expiry).
LEMMA CodeWriters ==
  ASSUME PortalTyped, [PortalNext]_portal
  PROVE  \/ UNCHANGED codes
         \/ codes' = Spent
         \/ codes' = Append(codes, NewCode)
         \/ \E n \in {0} \cup DOMAIN codes : codes' = [m \in DOMAIN codes |-> Checked(codes[m], m = n)]
         \/ \E n \in DOMAIN codes : codes' = [codes EXCEPT ![n] = Checked(codes[n], TRUE)]
         \/ \E n \in DOMAIN codes : codes' = [codes EXCEPT ![n] = [codes[n] EXCEPT !.expired = TRUE]]
<1>1. CASE Moves
  BY <1>1, MovesTyped
<1>2. CASE Passing
  BY <1>2 DEF Passing, EndSession, Age, ExpireCode, DropReset
<1>3. ASSUME NEW t \in Tabs, Supersede(t) \/ IssueCode(t) PROVE codes' = Spent \/ codes' = Append(codes, NewCode)
  BY <1>3 DEF Supersede, IssueCode, NewCode
<1>4. ASSUME NEW t \in Tabs, Mint(t) \/ SendReset(t) \/ LinkIdentity(t) \/ CommitUnlink(t) PROVE UNCHANGED codes
  BY <1>4 DEF Mint, SendReset, LinkIdentity, CommitUnlink
<1>5. ASSUME NEW t \in Tabs, CommitChange(t) \/ Complete(t) PROVE UNCHANGED codes \/ codes' = Spent
  BY <1>5 DEF CommitChange, Complete, NewPassword
<1>6. ASSUME NEW t \in Tabs, NEW n \in {0} \cup DOMAIN codes, CheckCode(t, n)
      PROVE  codes' = [m \in DOMAIN codes |-> Checked(codes[m], m = n)]
  BY <1>6 DEF CheckCode
<1>7. ASSUME NEW t \in Tabs, NEW n \in DOMAIN codes, OpenLink(t, n)
      PROVE  codes' = [codes EXCEPT ![n] = Checked(codes[n], TRUE)]
  BY <1>7 DEF OpenLink
<1>8. CASE UNCHANGED portal
  BY <1>8 DEF portal
<1> QED BY <1>1, <1>2, <1>3, <1>4, <1>5, <1>6, <1>7, <1>8, PortalSteps

\* Every step keeps each code from a second or a late use (redeemOtp).
LEMMA CodesKeptStep == ASSUME PortalTyped, CodesKept, [PortalNext]_portal PROVE CodesKept'
<1>0. codes \in Seq(CodeRow) /\ \A n \in DOMAIN codes : codes[n] \in CodeRow /\ CodeKept(codes[n])
  BY RowOf DEF PortalTyped, CodesKept
<1>1. CASE UNCHANGED codes
  BY <1>1 DEF CodesKept
<1>2. CASE codes' = Spent
  BY <1>2, SpentKept, SpentTyped, KeptThrough
<1>3. CASE codes' = Append(codes, NewCode)
  <2>1. NewCode \in CodeRow /\ CodeKept(NewCode)
    BY DEF NewCode, CodeRow, CodeKept, Usable
  <2>2. /\ DOMAIN codes' = DOMAIN codes \cup {Len(codes) + 1}
        /\ codes'[Len(codes) + 1] = NewCode
        /\ \A n \in DOMAIN codes : codes'[n] = codes[n]
    BY <1>0, <1>3, <2>1, RowAppended
  <2>3. \A n \in DOMAIN codes' : CodeKept(codes'[n])
    <3> TAKE n \in DOMAIN codes'
    <3>1. CASE n \in DOMAIN codes
      BY <1>0, <2>2, <3>1
    <3>2. CASE n = Len(codes) + 1
      BY <2>1, <2>2, <3>2
    <3> QED BY <2>2, <3>1, <3>2
  <2> QED BY <2>3 DEF CodesKept
<1>4. ASSUME NEW n \in {0} \cup DOMAIN codes, codes' = [m \in DOMAIN codes |-> Checked(codes[m], m = n)]
      PROVE  CodesKept'
  <2>1. ASSUME NEW m \in DOMAIN codes PROVE CodeKept(codes'[m])
    <3> DEFINE right == m = n
    <3>1. codes'[m] = Checked(codes[m], right) /\ right \in BOOLEAN
      BY <1>4
    <3> HIDE DEF right
    <3>2. CodeKept(Checked(codes[m], right))
      BY <1>0, <3>1, CheckedKept
    <3> QED BY <3>1, <3>2
  <2> QED BY <1>4, <2>1, KeptThrough
<1>5. ASSUME NEW n \in DOMAIN codes, codes' = [codes EXCEPT ![n] = Checked(codes[n], TRUE)]
      PROVE  CodesKept'
  <2>1. Checked(codes[n], TRUE) \in CodeRow /\ CodeKept(Checked(codes[n], TRUE))
    BY <1>0, CheckedTyped, CheckedKept
  <2>2. /\ DOMAIN codes' = DOMAIN codes
        /\ codes'[n] = Checked(codes[n], TRUE)
        /\ \A m \in DOMAIN codes \ {n} : codes'[m] = codes[m]
    BY <1>0, <1>5, <2>1, RowChanged
  <2>3. \A m \in DOMAIN codes : CodeKept(codes'[m])
    <3> TAKE m \in DOMAIN codes
    <3>1. CASE m = n
      BY <2>1, <2>2, <3>1
    <3>2. CASE m # n
      BY <1>0, <2>2, <3>2
    <3> QED BY <3>1, <3>2
  <2> QED BY <2>2, <2>3, KeptThrough
<1>6. ASSUME NEW n \in DOMAIN codes, codes' = [codes EXCEPT ![n] = [codes[n] EXCEPT !.expired = TRUE]]
      PROVE  CodesKept'
  <2> DEFINE row == [codes[n] EXCEPT !.expired = TRUE]
  <2>1. row \in CodeRow /\ CodeKept(row)
    BY <1>0 DEF CodeRow, CodeKept, Usable
  <2> HIDE DEF row
  <2>2. codes' = [codes EXCEPT ![n] = row]
    BY <1>6 DEF row
  <2>3. /\ DOMAIN codes' = DOMAIN codes
        /\ codes'[n] = row
        /\ \A m \in DOMAIN codes \ {n} : codes'[m] = codes[m]
    BY <1>0, <2>1, <2>2, RowChanged
  <2>4. \A m \in DOMAIN codes : CodeKept(codes'[m])
    <3> TAKE m \in DOMAIN codes
    <3>1. CASE m = n
      BY <2>1, <2>3, <3>1
    <3>2. CASE m # n
      BY <1>0, <2>3, <3>2
    <3> QED BY <3>1, <3>2
  <2> QED BY <2>3, <2>4, KeptThrough
<1> QED BY <1>1, <1>2, <1>3, <1>4, <1>5, <1>6, CodeWriters

\* A code and its link sign in once, within the attempts they survive, and not
\* after a newer one or a new password (redeemOtp).
THEOREM CodeSpentOnceHolds == PortalSpec => []CodeSpentOnce
<1>1. PortalInit => CodesKept
  BY DEF PortalInit, CodesKept
<1>2. CodesKept => CodeSpentOnce
  BY DEF CodesKept, CodeKept, CodeSpentOnce
<1> QED BY <1>1, <1>2, CodesKeptStep, PortalInitTyped, PortalStepTyped, PTL DEF PortalSpec

-----------------------------------------------------------------------------
(* The portal: an account stays with its owner *)

\* No step but the loss of a provider takes a way in, and that one leaves another (unlink).
LEMMA WayInKept == ASSUME PortalTyped, WayIn, [PortalNext]_portal PROVE WayIn'
<1> USE DEF account
<1>1. CASE Moves
  BY <1>1, MovesTyped DEF WayIn
<1>2. CASE Passing
  BY <1>2 DEF Passing, EndSession, Age, ExpireCode, DropReset, WayIn
<1>3. ASSUME NEW t \in Tabs,
             \/ Supersede(t) \/ IssueCode(t) \/ Mint(t) \/ SendReset(t)
             \/ \E n \in {0} \cup DOMAIN codes : CheckCode(t, n)
             \/ \E n \in DOMAIN codes : OpenLink(t, n)
      PROVE  WayIn'
  BY <1>3 DEF Supersede, IssueCode, Mint, SendReset, CheckCode, OpenLink, WayIn
<1>4. ASSUME NEW t \in Tabs, CommitChange(t) \/ Complete(t) PROVE WayIn'
  <2>1. CASE NewPassword(t)
    BY <2>1 DEF NewPassword, WayIn, PortalTyped, AccountTyped
  <2>2. CASE /\ UNCHANGED <<password, identities, mail, contact>>
    BY <2>2 DEF WayIn
  <2> QED BY <1>4, <2>1, <2>2 DEF CommitChange, Complete
<1>5. ASSUME NEW t \in Tabs, LinkIdentity(t) PROVE WayIn'
  BY <1>5 DEF LinkIdentity, WayIn
<1>6. ASSUME NEW t \in Tabs, CommitUnlink(t) PROVE WayIn'
  BY <1>6 DEF CommitUnlink, AnotherWay, WayIn
<1>7. CASE UNCHANGED portal
  BY <1>7 DEF portal, WayIn
<1> QED BY <1>1, <1>2, <1>3, <1>4, <1>5, <1>6, <1>7, PortalSteps

\* Revoking sessions leaves the others as they were (revokeSession, unlink).
LEMMA RevokedCurrent ==
  ASSUME PortalTyped, OldPasswordOpensNothing, NEW gone, Revoke(gone), UNCHANGED password
  PROVE  OldPasswordOpensNothing'
BY DEF OldPasswordOpensNothing, Live, Revoke, Over, PortalTyped

\* A step leaves no session of an older password (mintSession, passwordInvalidations).
LEMMA CurrentKept ==
  ASSUME PortalTyped, OldPasswordOpensNothing, [PortalNext]_portal
  PROVE  OldPasswordOpensNothing'
<1> USE DEF account
<1>1. CASE UNCHANGED <<password, sessions>>
  BY <1>1 DEF OldPasswordOpensNothing, Live
<1>2. CASE Moves
  BY <1>1, <1>2, MovesTyped
<1>3. CASE Passing
  <2>1. ASSUME NEW s \in Live, EndSession(s) PROVE OldPasswordOpensNothing'
    BY <2>1, RevokedCurrent DEF EndSession
  <2>2. ASSUME NEW s \in Live, Age(s) PROVE OldPasswordOpensNothing'
    <3>1. \A x \in Sessions : sessions[x] \in SessionRow
      BY DEF PortalTyped
    <3>2. sessions' = [sessions EXCEPT ![s] = [sessions[s] EXCEPT !.recent = FALSE]] /\ password' = password
      BY <2>2 DEF Age
    <3>3. \A x \in Sessions : /\ sessions'[x].live = sessions[x].live
                              /\ sessions'[x].born = sessions[x].born
                              /\ sessions'[x].with = sessions[x].with
      BY <3>1, <3>2 DEF PortalTyped, SessionRow
    <3> QED BY <3>2, <3>3 DEF OldPasswordOpensNothing, Live
  <2>3. ASSUME NEW n \in DOMAIN codes, ExpireCode(n) PROVE OldPasswordOpensNothing'
    BY <1>1, <2>3 DEF ExpireCode
  <2>4. ASSUME NEW n \in DOMAIN resets, DropReset(n) PROVE OldPasswordOpensNothing'
    BY <1>1, <2>4 DEF DropReset
  <2> QED BY <1>3, <2>1, <2>2, <2>3, <2>4 DEF Passing
<1>4. ASSUME NEW t \in Tabs,
             \/ Supersede(t) \/ IssueCode(t) \/ SendReset(t) \/ LinkIdentity(t)
             \/ \E n \in {0} \cup DOMAIN codes : CheckCode(t, n)
             \/ \E n \in DOMAIN codes : OpenLink(t, n)
      PROVE  OldPasswordOpensNothing'
  BY <1>1, <1>4 DEF Supersede, IssueCode, SendReset, LinkIdentity, CheckCode, OpenLink
<1>5. ASSUME NEW t \in Tabs, Mint(t) PROVE OldPasswordOpensNothing'
  <2>1. password' = password
    BY <1>5 DEF Mint
  <2>2. CASE UNCHANGED sessions
    BY <1>1, <2>1, <2>2
  <2>3. CASE Vouched(t)
    <3>1. PICK s \in Free :
            sessions' = [sessions EXCEPT ![s] = [by |-> tabs[t].by, with |-> tabs[t].with, born |-> password,
                                                 live |-> TRUE, recent |-> TRUE]]
      BY <1>5, <2>3 DEF Mint
    <3>2. s \in Sessions /\ sessions'[s].born = password /\ sessions'[s].with = tabs[t].with
      BY <3>1 DEF Free, PortalTyped
    <3>3. \A x \in Sessions \ {s} : sessions'[x] = sessions[x]
      BY <3>1 DEF PortalTyped
    <3> QED BY <2>1, <2>3, <3>2, <3>3 DEF OldPasswordOpensNothing, Live, Vouched
  <2> QED BY <1>5, <2>2, <2>3 DEF Mint
<1>6. ASSUME NEW t \in Tabs, CommitChange(t) \/ Complete(t) PROVE OldPasswordOpensNothing'
  <2>1. CASE NewPassword(t)
    <3>1. sessions' = [s \in Sessions |-> Over]
      BY <2>1 DEF NewPassword, Revoke
    <3> QED BY <3>1 DEF OldPasswordOpensNothing, Live, Over
  <2>2. CASE UNCHANGED <<password, sessions>>
    BY <1>1, <2>2
  <2> QED BY <1>6, <2>1, <2>2 DEF CommitChange, Complete
<1>7. ASSUME NEW t \in Tabs, CommitUnlink(t) PROVE OldPasswordOpensNothing'
  <2>1. password' = password
    BY <1>7 DEF CommitUnlink
  <2>2. CASE UNCHANGED sessions
    BY <1>1, <2>1, <2>2
  <2>3. CASE Revoke({x \in Live : sessions[x].by = "oauth"} \ {tabs[t].session})
    BY <2>1, <2>3, RevokedCurrent
  <2> QED BY <1>7, <2>2, <2>3 DEF CommitUnlink
<1>8. CASE UNCHANGED portal
  BY <1>1, <1>8 DEF portal
<1> QED BY <1>2, <1>3, <1>4, <1>5, <1>6, <1>7, <1>8, PortalSteps

\* The account stays with its owner: the owner can always sign in, and an old
\* password opens nothing (unlink, mintSession, passwordInvalidations).
THEOREM StaysWithItsOwnerHolds == PortalSpec => []StaysWithItsOwner
<1>1. PortalInit => StaysWithItsOwner
  BY DEF PortalInit, StaysWithItsOwner, OldPasswordOpensNothing, Live, Over
<1>2. PortalTyped /\ StaysWithItsOwner /\ [PortalNext]_portal => StaysWithItsOwner'
  BY WayInKept, CurrentKept DEF StaysWithItsOwner
<1> QED BY <1>1, <1>2, PortalInitTyped, PortalStepTyped, PTL DEF PortalSpec

-----------------------------------------------------------------------------
(* The bound client: types *)

Statement == [rev : Nat, at : Nat]
Held == Statement \cup {NoStatement}
Saving == {"write", "sync"}

Session ==
  [pc : {"off", "idle", "asking", "save"} \cup Saving, pending : BOOLEAN, answer : Held, accepted : Held,
   denied : BOOLEAN, cancelled : BOOLEAN, floor : Nat, resume : Held, target : {0, 1}, learned : Nat]
Copy == [seen : Held, kept : Held]

NativeTyped ==
  /\ procs \in [Procs -> Session] /\ files \in [{0, 1} -> Copy]
  /\ ops \in Nat /\ revision \in Nat /\ second \in Nat /\ acked \in Nat

\* A session that has a statement to save, and a floor under all it has learned
\* (BoundRenewalSession::check).
Sound(session) == session.floor >= session.learned /\ (session.pc # "off" => session.resume \in Statement)

\* No statement is one (the client has none before it enrolls).
LEMMA NoneIsNone == NoStatement \notin Statement
BY NativeAssumption DEF Statement

\* A process that is not running has learned nothing (create_for_resume).
LEMMA OffSound == Off \in Session /\ Sound(Off)
BY DEF Off, Session, Held, Saving, Sound

\* The order of statements (compare_bound_checkpoints).
LEMMA Ordered ==
  ASSUME NEW a \in Statement, NEW b \in Statement
  PROVE  /\ Compare(a, b) # "stale" => a.rev >= b.rev
         /\ Compare(a, b) = "replace" => a.rev >= b.rev
         /\ Compare(a, b) # "replace" => b.rev >= a.rev
<1>1. a.rev \in Nat /\ b.rev \in Nat /\ a.at \in Nat /\ b.at \in Nat
  BY DEF Statement
<1>2. CASE a = b
  BY <1>1, <1>2
<1>3. CASE a # b /\ (a.rev < b.rev \/ (a.rev = b.rev /\ a.at < b.at))
  BY <1>1, <1>3 DEF Compare
<1>4. CASE a # b /\ ~(a.rev < b.rev \/ (a.rev = b.rev /\ a.at < b.at))
  BY <1>1, <1>4 DEF Compare
<1> QED BY <1>2, <1>3, <1>4

\* The larger of two numbers is above both (std::max).
LEMMA LargerOf ==
  ASSUME NEW a \in Nat, NEW b \in Nat
  PROVE  /\ Larger(a, b) \in Nat /\ Larger(a, b) >= a /\ Larger(a, b) >= b
         /\ a >= b => Larger(a, b) = a
         /\ b >= a => Larger(a, b) = b
BY DEF Larger

\* A save that is given up leaves the session idle.
LEMMA GivenUp ==
  ASSUME NativeTyped, NEW p \in Procs
  PROVE  /\ [procs EXCEPT ![p].pc = "idle", ![p].target = 0] =
              [procs EXCEPT ![p] = [procs[p] EXCEPT !.pc = "idle", !.target = 0]]
         /\ [procs[p] EXCEPT !.pc = "idle", !.target = 0] \in Session
<1>1. procs \in [Procs -> Session] /\ procs[p] \in Session
  BY DEF NativeTyped
<1>2. [procs[p] EXCEPT !.pc = "idle", !.target = 0] \in Session
  BY <1>1 DEF Session
<1> QED BY <1>1, <1>2

-----------------------------------------------------------------------------
(* The bound client: a revision that was learned stands *)

\* One copy at least outlives a loss of power, and is no older than any save that was acknowledged.
Outlives(copy) == /\ copy.seen \in Statement /\ copy.kept \in Statement
                  /\ copy.seen.rev >= acked /\ copy.kept.rev >= acked

Durable == \E i \in {0, 1} : Outlives(files[i])

\* The lock of the files is one process's, which saves nothing older than what was acknowledged.
Locked ==
  /\ \A p, q \in Procs : procs[p].pc \in Saving /\ procs[q].pc \in Saving => p = q
  /\ \A p \in Procs : procs[p].pc \in Saving => procs[p].resume.rev >= acked
  /\ \A p \in Procs : procs[p].pc = "sync" => files[procs[p].target].seen = procs[p].resume

SavesStand == NativeTyped /\ (\A p \in Procs : Sound(procs[p])) /\ Locked /\ Durable

\* The copy that counts is no older than a save that was acknowledged (read_slots).
LEMMA WinnerStands ==
  ASSUME NativeTyped, Durable
  PROVE  Winner \in {0, 1} /\ files[Winner].seen \in Statement /\ files[Winner].seen.rev >= acked
<1>1. PICK i \in {0, 1} : Outlives(files[i])
  BY DEF Durable
<1>2. \A j \in {0, 1} : files[j].seen \in Held
  BY DEF NativeTyped, Copy
<1>3. \A j \in {0, 1} : files[j].seen \in Statement => files[j].seen.rev \in Nat
  BY DEF Statement
<1>4. acked \in Nat /\ files[i].seen \in Statement /\ files[i].seen.rev >= acked
  BY <1>1 DEF NativeTyped, Outlives
<1>5. CASE files[0].seen = NoStatement
  <2>1. i = 1
    BY <1>4, <1>5, NoneIsNone
  <2> QED BY <1>4, <1>5, <2>1 DEF Winner
<1>6. CASE files[0].seen # NoStatement /\ files[1].seen = NoStatement
  <2>1. i = 0
    BY <1>4, <1>6, NoneIsNone
  <2> QED BY <1>4, <1>6, <2>1 DEF Winner
<1>7. CASE files[0].seen # NoStatement /\ files[1].seen # NoStatement
  <2>1. files[0].seen \in Statement /\ files[1].seen \in Statement
    BY <1>2, <1>7 DEF Held
  <2>2. CASE Compare(files[1].seen, files[0].seen) = "replace"
    <3>1. Winner = 1 /\ files[1].seen.rev >= files[0].seen.rev
      BY <1>7, <2>1, <2>2, Ordered DEF Winner
    <3>2. files[1].seen.rev >= acked
      BY <1>3, <1>4, <2>1, <3>1
    <3> QED BY <2>1, <3>1, <3>2
  <2>3. CASE Compare(files[1].seen, files[0].seen) # "replace"
    <3>1. Winner = 0 /\ files[0].seen.rev >= files[1].seen.rev
      BY <1>7, <2>1, <2>3, Ordered DEF Winner
    <3>2. files[0].seen.rev >= acked
      BY <1>3, <1>4, <2>1, <3>1
    <3> QED BY <2>1, <3>1, <3>2
  <2> QED BY <2>2, <2>3
<1> QED BY <1>5, <1>6, <1>7

\* A step of one process outside the files: its session is sound, and it saves nothing.
Quiet(p) ==
  /\ UNCHANGED <<files, acked>>
  /\ \E session \in Session : procs' = [procs EXCEPT ![p] = session] /\ Sound(session) /\ session.pc \notin Saving

\* The first states: the device enrolled, nothing runs (lcc_device_bound_enroll).
LEMMA NativeInitStands == ASSUME NativeInit PROVE SavesStand
<1>1. First \in Statement
  BY DEF First, Statement
<1>2. procs \in [Procs -> Session] /\ \A p \in Procs : procs[p] = Off
  BY OffSound DEF NativeInit
<1>3. PICK t \in {First, NoStatement} :
        files = [i \in {0, 1} |-> IF i = 0 THEN [seen |-> First, kept |-> First] ELSE [seen |-> t, kept |-> t]]
  BY DEF NativeInit
<1>4. files \in [{0, 1} -> Copy] /\ files[0] = [seen |-> First, kept |-> First]
  BY <1>1, <1>3 DEF Copy, Held
<1>5. acked = 0 /\ First.rev = 0
  BY DEF NativeInit, First
<1>6. Outlives(files[0])
  BY <1>1, <1>4, <1>5 DEF Outlives
<1>7. NativeTyped
  BY <1>2, <1>4 DEF NativeTyped, NativeInit
<1>8. Locked
  BY <1>2 DEF Locked, Off, Saving
<1> QED BY <1>2, <1>6, <1>7, <1>8, OffSound DEF SavesStand, Durable

\* What is learned from the authority (begin_renewal).
LEMMA AnswerHolds == ASSUME NativeTyped, NEW p \in Procs PROVE AnswerTo(p) \in Statement
<1>1. procs[p].answer \in Held /\ revision \in Nat /\ second \in Nat
  BY DEF NativeTyped, Session
<1> QED BY <1>1 DEF AnswerTo, Held, Statement

\* A quiet step keeps what stands (the calls of BoundRenewalSession).
LEMMA QuietStands ==
  ASSUME SavesStand, NEW p \in Procs, Quiet(p), ops' \in Nat, revision' \in Nat, second' \in Nat
  PROVE  SavesStand'
<1>1. PICK session \in Session :
        procs' = [procs EXCEPT ![p] = session] /\ Sound(session) /\ session.pc \notin Saving
  BY DEF Quiet
<1>2. files' = files /\ acked' = acked
  BY DEF Quiet
<1>3. procs \in [Procs -> Session]
  BY DEF SavesStand, NativeTyped
<1>4. procs'[p] = session /\ \A q \in Procs \ {p} : procs'[q] = procs[q]
  BY <1>1, <1>3
<1>5. NativeTyped'
  BY <1>1, <1>2, <1>3 DEF SavesStand, NativeTyped
<1>6. \A q \in Procs : Sound(procs'[q])
  <2> TAKE q \in Procs
  <2>1. CASE q = p
    BY <1>1, <1>4, <2>1
  <2>2. CASE q # p
    BY <1>4, <2>2 DEF SavesStand
  <2> QED BY <2>1, <2>2
<1>7. Locked'
  <2>1. "sync" \in Saving
    BY DEF Saving
  <2>2. \A q \in Procs : procs'[q].pc \in Saving => q # p /\ procs'[q] = procs[q]
    BY <1>1, <1>4
  <2> QED BY <1>2, <2>1, <2>2 DEF SavesStand, Locked
<1>8. Durable'
  BY <1>2 DEF SavesStand, Durable, Outlives
<1> QED BY Zenon, <1>5, <1>6, <1>7, <1>8 DEF SavesStand, Sound

\* Open starts from the copy that counts, which is no older than what was acknowledged (open_bound_public).
LEMMA OpenQuiet == ASSUME SavesStand, NEW p \in Procs, Open(p) PROVE Quiet(p)
<1> DEFINE token == files[Winner].seen
           session == [Off EXCEPT !.pc = "idle", !.floor = token.rev, !.resume = token, !.learned = acked]
<1>1. token \in Statement /\ token.rev >= acked /\ acked \in Nat
  BY WinnerStands DEF SavesStand, NativeTyped
<1>2. procs' = [procs EXCEPT ![p] = session] /\ UNCHANGED <<files, acked>>
  BY DEF Open
<1> HIDE DEF token
<1>3. session \in Session /\ Sound(session) /\ session.pc \notin Saving
  BY <1>1, OffSound DEF Session, Sound, Saving, Statement, Held, Off
<1> QED BY <1>2, <1>3 DEF Quiet

\* A session that lost its lease is a session (lose_continuity).
LEMMA LostSound ==
  ASSUME NEW session \in Session, Sound(session)
  PROVE  /\ Lost(session) \in Session /\ Sound(Lost(session)) /\ Lost(session).pc = session.pc
         /\ Lost(session).resume = session.resume
BY DEF Session, Sound, Lost, Held

\* What a call returns is saved next (renew).
LEMMA ReturnQuiet ==
  ASSUME SavesStand, NEW p \in Procs, NEW session \in Session, Sound(session), session.pc # "off",
         Return(p, session), UNCHANGED <<files, acked>>
  PROVE  Quiet(p)
<1> DEFINE next == [session EXCEPT !.pc = "save"]
<1>1. next \in Session /\ Sound(next) /\ next.pc \notin Saving
  BY DEF Session, Sound, Saving
<1>2. procs' = [procs EXCEPT ![p] = next]
  BY DEF Return
<1> HIDE DEF next
<1> QED BY <1>1, <1>2 DEF Quiet

\* A lease that is authenticated raises the floor with what is learned (check).
LEMMA AuthenticatedSound ==
  ASSUME NEW session \in Session, Sound(session), NEW token \in Statement
  PROVE  /\ Authenticated(session, token) \in Session /\ Sound(Authenticated(session, token))
         /\ Authenticated(session, token).pc = session.pc
         /\ Authenticated(session, token).floor = Larger(session.floor, token.rev)
<1> DEFINE floor == Larger(session.floor, token.rev)
           learned == Larger(session.learned, token.rev)
<1>1. session.floor \in Nat /\ session.learned \in Nat /\ token.rev \in Nat /\ session.floor >= session.learned
  BY DEF Session, Sound, Statement
<1>2. floor \in Nat /\ learned \in Nat /\ floor >= learned
  BY <1>1 DEF Larger
<1>3. Authenticated(session, token) = [session EXCEPT !.resume = token, !.floor = floor, !.learned = learned]
  BY DEF Authenticated
<1> HIDE DEF floor, learned
<1>4. Authenticated(session, token).floor = floor
  BY <1>3 DEF Session
<1>5. /\ Authenticated(session, token) \in Session /\ Sound(Authenticated(session, token))
      /\ Authenticated(session, token).pc = session.pc
  BY <1>2, <1>3 DEF Session, Sound, Held
<1> QED BY <1>4, <1>5 DEF floor

\* Acceptance replaces the session's lease last of all (BoundRenewalSession::accept).
LEMMA AcceptQuiet == ASSUME SavesStand, NEW p \in Procs, AcceptLease(p) PROVE Quiet(p)
<1> DEFINE token == AnswerTo(p)
           session == [procs[p] EXCEPT !.answer = token]
           checked == Authenticated(session, token)
           accepted == [checked EXCEPT !.accepted = token, !.pending = FALSE, !.answer = NoStatement,
                                       !.denied = FALSE, !.floor = Larger(session.floor, token.rev)]
<1>1. token \in Statement
  BY AnswerHolds DEF SavesStand
<1>2. procs[p] \in Session /\ Sound(procs[p]) /\ procs[p].pc = "asking"
  BY DEF SavesStand, NativeTyped, AcceptLease, ProcAt
<1>3. \/ Return(p, Lost(session))
      \/ Return(p, session)
      \/ Return(p, checked)
      \/ Return(p, Lost(checked))
      \/ Return(p, accepted)
  BY DEF AcceptLease
<1>4. UNCHANGED <<files, acked>>
  BY DEF AcceptLease
<1> HIDE DEF token
<1>5. session \in Session /\ Sound(session) /\ session.pc = "asking"
  BY <1>1, <1>2 DEF Session, Sound, Held
<1> HIDE DEF session
<1>6. /\ checked \in Session /\ Sound(checked) /\ checked.pc = "asking"
      /\ checked.floor = Larger(session.floor, token.rev)
  BY <1>1, <1>5, AuthenticatedSound
<1> HIDE DEF checked
<1>7. accepted \in Session /\ Sound(accepted) /\ accepted.pc = "asking"
  <2> DEFINE floor == Larger(session.floor, token.rev)
  <2>1. floor = checked.floor /\ floor \in Nat
    BY <1>6 DEF Session
  <2> HIDE DEF floor
  <2>2. accepted = [checked EXCEPT !.accepted = token, !.pending = FALSE, !.answer = NoStatement, !.denied = FALSE,
                                   !.floor = floor]
    BY DEF floor
  <2> HIDE DEF accepted
  <2> QED BY <1>1, <1>6, <2>1, <2>2 DEF Session, Sound, Held
<1> HIDE DEF accepted
<1>8. /\ Lost(session) \in Session /\ Sound(Lost(session)) /\ Lost(session).pc = "asking"
      /\ Lost(checked) \in Session /\ Sound(Lost(checked)) /\ Lost(checked).pc = "asking"
  BY <1>5, <1>6, LostSound
<1> QED BY <1>3, <1>4, <1>5, <1>6, <1>7, <1>8, ReturnQuiet

\* The other calls of a session, and its death (record_outcome, abandon_renewal, lcc_device_bound_cancel).
LEMMA CallsQuiet ==
  ASSUME SavesStand, NEW p \in Procs,
         \/ BeginRenewal(p) \/ NoAnswer(p) \/ Deny(p) \/ Expire(p) \/ Abandon(p) \/ Cancel(p)
         \/ LoseContinuity(p) \/ Die(p)
  PROVE  Quiet(p)
<1>0. procs \in [Procs -> Session] /\ procs[p] \in Session /\ Sound(procs[p])
  BY DEF SavesStand, NativeTyped
<1>1. CASE BeginRenewal(p)
  <2> DEFINE next == [procs[p] EXCEPT !.pc = "asking", !.pending = TRUE]
  <2>1. procs' = [procs EXCEPT ![p] = next] /\ procs[p].pc = "idle" /\ UNCHANGED <<files, acked>>
    BY <1>0, <1>1 DEF BeginRenewal, ProcAt
  <2>2. next \in Session /\ Sound(next) /\ next.pc \notin Saving
    BY <1>0, <2>1 DEF Session, Sound, Saving
  <2> QED BY <2>1, <2>2 DEF Quiet
<1>2. CASE NoAnswer(p)
  <2>1. PICK answer \in {procs[p].answer, AnswerTo(p)} : Return(p, [procs[p] EXCEPT !.answer = answer])
    BY <1>2 DEF NoAnswer
  <2>2. answer \in Held /\ procs[p].pc = "asking"
    BY <1>0, <1>2, AnswerHolds DEF SavesStand, Session, Held, NoAnswer, ProcAt
  <2>3. [procs[p] EXCEPT !.answer = answer] \in Session
    BY <1>0, <2>2 DEF Session
  <2>4. Sound([procs[p] EXCEPT !.answer = answer]) /\ [procs[p] EXCEPT !.answer = answer].pc = "asking"
    BY <1>0, <2>2 DEF Session, Sound
  <2> QED BY <1>2, <2>1, <2>3, <2>4, ReturnQuiet DEF NoAnswer
<1>3. CASE Deny(p)
  <2> DEFINE lost == Lost(procs[p])
  <2>1. Return(p, [lost EXCEPT !.denied = TRUE]) /\ procs[p].pc = "asking" /\ UNCHANGED <<files, acked>>
    BY <1>3 DEF Deny, ProcAt
  <2>2. lost \in Session /\ Sound(lost) /\ lost.pc = "asking"
    BY <1>0, <2>1, LostSound
  <2> HIDE DEF lost
  <2>3. [lost EXCEPT !.denied = TRUE] \in Session /\ Sound([lost EXCEPT !.denied = TRUE])
        /\ [lost EXCEPT !.denied = TRUE].pc = "asking"
    BY <2>2 DEF Session, Sound
  <2> QED BY <2>1, <2>3, ReturnQuiet
<1>4. CASE Expire(p) \/ Abandon(p)
  <2> DEFINE next == [procs[p] EXCEPT !.pending = FALSE, !.answer = NoStatement]
  <2>1. Return(p, next) /\ procs[p].pc # "off" /\ UNCHANGED <<files, acked>>
    BY <1>4 DEF Expire, Abandon, ProcAt
  <2>2. next \in Session /\ Sound(next) /\ next.pc # "off"
    BY <1>0, <2>1 DEF Session, Sound, Held
  <2> HIDE DEF next
  <2> QED BY <2>1, <2>2, ReturnQuiet
<1>5. CASE Cancel(p)
  <2> DEFINE lost == Lost(procs[p])
             next == [lost EXCEPT !.cancelled = TRUE]
  <2>1. procs' = [procs EXCEPT ![p] = next] /\ procs[p].pc = "idle" /\ UNCHANGED <<files, acked>>
    BY <1>5 DEF Cancel, ProcAt
  <2>2. lost \in Session /\ Sound(lost) /\ lost.pc = "idle"
    BY <1>0, <2>1, LostSound
  <2> HIDE DEF lost
  <2>3. next \in Session /\ Sound(next) /\ next.pc \notin Saving
    BY <2>2 DEF Session, Sound, Saving
  <2> HIDE DEF next
  <2> QED BY <2>1, <2>3 DEF Quiet
<1>6. CASE LoseContinuity(p)
  <2>1. procs' = [procs EXCEPT ![p] = Lost(procs[p])] /\ procs[p].pc = "idle" /\ UNCHANGED <<files, acked>>
    BY <1>6 DEF LoseContinuity, ProcAt
  <2>2. Lost(procs[p]) \in Session /\ Sound(Lost(procs[p])) /\ Lost(procs[p]).pc \notin Saving
    BY <1>0, <2>1, LostSound DEF Saving
  <2> QED BY <2>1, <2>2 DEF Quiet
<1>7. CASE Die(p)
  <2>1. procs' = [procs EXCEPT ![p] = Off] /\ UNCHANGED <<files, acked>>
    BY <1>7 DEF Die
  <2>2. Off.pc \notin Saving
    BY DEF Off, Saving
  <2> QED BY <2>1, <2>2, OffSound DEF Quiet
<1> QED BY <1>1, <1>2, <1>3, <1>4, <1>5, <1>6, <1>7

\* A save that is given up, for its lock, its age or its storage, is quiet too (BoundCheckpointStore::save).
LEMMA GiveQuiet ==
  ASSUME SavesStand, NEW p \in Procs, procs[p].pc # "off", Give(p), UNCHANGED files
  PROVE  Quiet(p)
<1>0. procs[p] \in Session /\ Sound(procs[p])
  BY DEF SavesStand, NativeTyped
<1> DEFINE next == [procs[p] EXCEPT !.pc = "idle", !.target = 0]
<1>1. procs' = [procs EXCEPT ![p] = next] /\ next \in Session /\ acked' = acked
  BY GivenUp DEF SavesStand, Give
<1>2. Sound(next) /\ next.pc \notin Saving
  BY <1>0 DEF Sound, Session, Saving
<1> QED BY <1>1, <1>2 DEF Quiet

\* What a step of the process that saves leaves: its own session changed, the
\* others as they were (BoundCheckpointStore::save).
LEMMA SaverStands ==
  ASSUME SavesStand, NEW p \in Procs, NEW session \in Session, Sound(session),
         procs' = [procs EXCEPT ![p] = session],
         UNCHANGED <<ops, revision, second>>, files' \in [{0, 1} -> Copy], acked' \in Nat, Durable',
         \A q \in Procs \ {p} : procs[q].pc \notin Saving,
         session.pc \in Saving => session.resume.rev >= acked',
         session.pc = "sync" => files'[session.target].seen = session.resume
  PROVE  SavesStand'
<1>1. procs \in [Procs -> Session]
  BY DEF SavesStand, NativeTyped
<1>2. procs'[p] = session /\ \A q \in Procs \ {p} : procs'[q] = procs[q]
  BY <1>1
<1>3. NativeTyped'
  BY <1>1 DEF SavesStand, NativeTyped
<1>4. \A q \in Procs : Sound(procs'[q])
  <2> TAKE q \in Procs
  <2>1. CASE q = p
    BY <1>2, <2>1
  <2>2. CASE q # p
    BY <1>2, <2>2 DEF SavesStand
  <2> QED BY <2>1, <2>2
<1>5. Locked'
  <2>1. "sync" \in Saving
    BY DEF Saving
  <2>2. \A q \in Procs : procs'[q].pc \in Saving => q = p
    BY <1>2
  <2> QED BY <1>2, <2>1, <2>2 DEF Locked
<1> QED BY Zenon, <1>3, <1>4, <1>5 DEF SavesStand, Sound

\* A copy that is flushed outlives a loss of power as it is (sync_directory).
LEMMA FlushedOutlives ==
  ASSUME NEW token \in Statement, token.rev >= acked', NEW i \in {0, 1},
         files'[i] = [seen |-> token, kept |-> token]
  PROVE  Durable'
BY DEF Durable, Outlives

\* A save begins: what it writes is no older than the copy that counts (save).
LEMMA StartSaveStands == ASSUME SavesStand, NEW p \in Procs, StartSave(p) PROVE SavesStand'
<1> DEFINE token == procs[p].resume
           stored == files[Winner].seen
<1>0. NativeTyped /\ procs[p] \in Session /\ Sound(procs[p]) /\ procs[p].pc \in {"idle", "save"}
  BY DEF SavesStand, NativeTyped, StartSave
<1>1. token \in Statement
  BY <1>0 DEF Sound
<1>2. Winner \in {0, 1} /\ stored \in Statement /\ stored.rev >= acked /\ acked \in Nat
  BY WinnerStands DEF SavesStand, NativeTyped
<1>3. UNCHANGED <<ops, revision, second>>
  BY DEF StartSave
<1>4. CASE ~Unlocked \/ Compare(token, stored) = "stale"
  <2>1. Give(p) /\ UNCHANGED files
    BY <1>4 DEF StartSave
  <2>2. Quiet(p)
    BY <1>0, <2>1, GiveQuiet
  <2> QED BY <1>0, <1>3, <2>2, QuietStands DEF NativeTyped
<1>5. CASE /\ Unlocked /\ Compare(token, stored) # "stale"
           /\ \A i \in {0, 1} : files[i].seen = token
  <2> DEFINE next == [procs[p] EXCEPT !.pc = "idle", !.target = 0]
  <2>1. Acknowledge(p) /\ files' = [i \in {0, 1} |-> [seen |-> token, kept |-> token]]
    BY <1>5 DEF StartSave
  <2>2. procs' = [procs EXCEPT ![p] = next] /\ next \in Session /\ acked' = Larger(acked, token.rev)
    BY <1>0, <2>1, GivenUp DEF Acknowledge
  <2>3. stored = token /\ token.rev \in Nat
    BY <1>1, <1>2, <1>5 DEF Statement
  <2>4. acked' = token.rev
    BY <1>2, <2>2, <2>3, LargerOf
  <2>5. files' \in [{0, 1} -> Copy] /\ files'[0] = [seen |-> token, kept |-> token]
    BY <1>1, <2>1 DEF Copy, Held
  <2>6. Durable'
    BY <1>1, <2>3, <2>4, <2>5, FlushedOutlives
  <2>7. Sound(next) /\ next.pc = "idle" /\ "idle" \notin Saving /\ "idle" # "sync"
    BY <1>0 DEF Sound, Session, Saving
  <2>8. \A q \in Procs \ {p} : procs[q].pc \notin Saving
    BY <1>5 DEF Unlocked, Saving
  <2> HIDE DEF next
  <2> QED BY <1>3, <2>2, <2>3, <2>4, <2>5, <2>6, <2>7, <2>8, SaverStands
<1>6. CASE /\ Unlocked /\ Compare(token, stored) # "stale"
           /\ ~\A i \in {0, 1} : files[i].seen = token
  <2> DEFINE next == [procs[p] EXCEPT !.pc = "write", !.target = 1 - Winner]
  <2>1. procs' = [procs EXCEPT ![p].pc = "write", ![p].target = 1 - Winner] /\ UNCHANGED <<files, acked>>
    BY <1>6 DEF StartSave
  <2>2. procs' = [procs EXCEPT ![p] = next]
    BY <1>0, <2>1 DEF NativeTyped
  <2>3. 1 - Winner \in {0, 1}
    BY <1>2
  <2>4. next \in Session /\ Sound(next) /\ next.pc = "write" /\ next.resume = token
    BY <1>0, <1>1, <2>3 DEF Session, Sound, Saving
  <2>5. token.rev >= acked
    <3>1. token.rev >= stored.rev
      BY <1>1, <1>2, <1>6, Ordered
    <3>2. token.rev \in Nat /\ stored.rev \in Nat
      BY <1>1, <1>2 DEF Statement
    <3> HIDE DEF token, stored
    <3> QED BY <1>2, <3>1, <3>2
  <2>6. Durable' /\ files' \in [{0, 1} -> Copy] /\ acked' = acked
    BY <2>1 DEF SavesStand, Durable, Outlives, NativeTyped
  <2>7. \A q \in Procs \ {p} : procs[q].pc \notin Saving
    BY <1>6 DEF Unlocked, Saving
  <2> HIDE DEF next
  <2> QED BY <1>2, <1>3, <2>2, <2>4, <2>5, <2>6, <2>7, SaverStands
<1> QED BY <1>4, <1>5, <1>6

\* The copy that is replaced is replaced by one no older than what was
\* acknowledged; what a loss of power keeps of it is not touched (publish).
LEMMA RenameStands == ASSUME SavesStand, NEW p \in Procs, Rename(p) PROVE SavesStand'
<1> DEFINE i == procs[p].target
           token == procs[p].resume
           next == [procs[p] EXCEPT !.pc = "sync"]
<1>0. procs[p] \in Session /\ Sound(procs[p]) /\ procs[p].pc = "write" /\ "write" \in Saving
  BY DEF SavesStand, NativeTyped, Rename, ProcAt, Saving
<1>1. i \in {0, 1} /\ token \in Statement /\ token.rev >= acked
  BY <1>0 DEF Session, Sound, SavesStand, Locked
<1>2. files \in [{0, 1} -> Copy] /\ files[i] \in Copy /\ procs \in [Procs -> Session]
  BY <1>1 DEF SavesStand, NativeTyped
<1>3. files' = [files EXCEPT ![i] = [files[i] EXCEPT !.seen = token]] /\ UNCHANGED <<ops, revision, second, acked>>
  BY DEF Rename
<1>4. procs' = [procs EXCEPT ![p] = next]
  BY <1>2 DEF Rename
<1>5. [files[i] EXCEPT !.seen = token] \in Copy
  BY <1>1, <1>2 DEF Copy, Held
<1>6. files' \in [{0, 1} -> Copy] /\ files'[i].seen = token /\ files'[i].kept = files[i].kept
  BY <1>1, <1>2, <1>3, <1>5 DEF Copy
<1>7. \A j \in {0, 1} \ {i} : files'[j] = files[j]
  BY <1>2, <1>3
<1>8. Durable'
  <2>1. PICK j \in {0, 1} : Outlives(files[j])
    BY DEF SavesStand, Durable
  <2>2. CASE j = i
    BY <1>1, <1>3, <1>6, <2>1, <2>2 DEF Durable, Outlives
  <2>3. CASE j # i
    BY <1>3, <1>7, <2>1, <2>3 DEF Durable, Outlives
  <2> QED BY <2>2, <2>3
<1>9. next \in Session /\ Sound(next) /\ next.pc = "sync" /\ next.resume = token /\ next.target = i
  BY <1>0 DEF Session, Sound, Saving
<1>10. \A q \in Procs \ {p} : procs[q].pc \notin Saving
  BY <1>0 DEF SavesStand, Locked
<1>11. acked' = acked /\ acked \in Nat
  BY <1>3 DEF SavesStand, NativeTyped
<1> HIDE DEF next, i, token
<1> QED BY <1>1, <1>3, <1>4, <1>6, <1>8, <1>9, <1>10, <1>11, SaverStands

\* A flush makes both copies outlive a loss of power, and a save is
\* acknowledged when both are its statement (sync_directory, save).
LEMMA SyncStands == ASSUME SavesStand, NEW p \in Procs, Sync(p) PROVE SavesStand'
<1> DEFINE i == procs[p].target
           token == procs[p].resume
<1>0. procs[p] \in Session /\ Sound(procs[p]) /\ procs[p].pc = "sync" /\ "sync" \in Saving
  BY DEF SavesStand, NativeTyped, Sync, ProcAt, Saving
<1>1. i \in {0, 1} /\ 1 - i \in {0, 1} /\ token \in Statement /\ token.rev >= acked /\ files[i].seen = token
  BY <1>0 DEF Session, Sound, SavesStand, Locked
<1>2. files \in [{0, 1} -> Copy] /\ NativeTyped /\ acked \in Nat /\ token.rev \in Nat
  BY <1>1 DEF SavesStand, NativeTyped, Statement
<1>3. files' = [j \in {0, 1} |-> [seen |-> files[j].seen, kept |-> files[j].seen]]
      /\ UNCHANGED <<ops, revision, second>>
  BY DEF Sync
<1>4. files' \in [{0, 1} -> Copy] /\ files'[i] = [seen |-> token, kept |-> token]
  BY <1>1, <1>2, <1>3 DEF Copy
<1>5. \A q \in Procs \ {p} : procs[q].pc \notin Saving
  BY <1>0 DEF SavesStand, Locked
<1>6. CASE Acknowledge(p)
  <2> DEFINE next == [procs[p] EXCEPT !.pc = "idle", !.target = 0]
  <2>1. procs' = [procs EXCEPT ![p] = next] /\ next \in Session /\ acked' = Larger(acked, token.rev)
    BY <1>2, <1>6, GivenUp DEF Acknowledge
  <2>2. acked' = token.rev
    BY <1>1, <1>2, <2>1, LargerOf
  <2>3. Sound(next) /\ next.pc = "idle" /\ "idle" \notin Saving /\ "idle" # "sync"
    BY <1>0 DEF Sound, Session, Saving
  <2>4. Durable'
    BY <1>1, <1>2, <1>4, <2>2, FlushedOutlives
  <2> HIDE DEF next, token, i
  <2> QED BY <1>2, <1>3, <1>4, <1>5, <2>1, <2>2, <2>3, <2>4, SaverStands
<1>7. CASE procs' = [procs EXCEPT ![p].pc = "write", ![p].target = 1 - i] /\ UNCHANGED acked
  <2> DEFINE next == [procs[p] EXCEPT !.pc = "write", !.target = 1 - i]
  <2>1. procs' = [procs EXCEPT ![p] = next] /\ acked' = acked
    BY <1>2, <1>7 DEF NativeTyped
  <2>2. next \in Session /\ Sound(next) /\ next.pc = "write" /\ "write" # "sync" /\ next.resume = token
    BY <1>0, <1>1 DEF Session, Sound, Saving
  <2>3. Durable'
    BY <1>1, <1>2, <1>4, <2>1, FlushedOutlives
  <2> HIDE DEF next, token, i
  <2> QED BY <1>1, <1>2, <1>3, <1>4, <1>5, <2>1, <2>2, <2>3, SaverStands
<1> QED BY <1>6, <1>7 DEF Sync

\* Of each copy a loss of power leaves what was seen or what was kept, and no
\* process survives it (the machine starts again).
LEMMA PowerLossStands == ASSUME SavesStand, PowerLoss PROVE SavesStand'
<1>1. procs' = [p \in Procs |-> Off] /\ UNCHANGED <<ops, revision, second, acked>>
  BY DEF PowerLoss
<1>2. PICK now \in [{0, 1} -> {files[i].seen : i \in {0, 1}} \cup {files[i].kept : i \in {0, 1}}] :
        /\ \A i \in {0, 1} : now[i] \in {files[i].seen, files[i].kept}
        /\ files' = [i \in {0, 1} |-> [seen |-> now[i], kept |-> now[i]]]
  BY DEF PowerLoss
<1>3. \A i \in {0, 1} : files[i].seen \in Held /\ files[i].kept \in Held
  BY DEF SavesStand, NativeTyped, Copy
<1>4. \A i \in {0, 1} : now[i] \in Held /\ files'[i] = [seen |-> now[i], kept |-> now[i]]
  BY <1>2, <1>3
<1>5. files' \in [{0, 1} -> Copy]
  BY <1>2, <1>4 DEF Copy
<1>6. PICK i \in {0, 1} : Outlives(files[i])
  BY DEF SavesStand, Durable
<1>7. now[i] \in Statement /\ now[i].rev >= acked'
  BY <1>1, <1>2, <1>6 DEF Outlives
<1>8. Durable'
  BY <1>4, <1>7, FlushedOutlives
<1>9. NativeTyped'
  BY <1>1, <1>5, OffSound DEF SavesStand, NativeTyped
<1>10. \A p \in Procs : procs'[p] = Off /\ Off.pc \notin Saving
  BY <1>1 DEF Off, Saving
<1>11. Locked'
  <2>1. "sync" \in Saving
    BY DEF Saving
  <2> QED BY <1>10, <2>1 DEF Locked
<1>12. \A p \in Procs : Sound(procs'[p])
  BY <1>10, OffSound
<1> QED BY Zenon, <1>8, <1>9, <1>11, <1>12 DEF SavesStand, Sound

\* Every step of the machine or of the authority keeps what stands.
LEMMA SavesStandStep == ASSUME SavesStand, [NativeNext]_native PROVE SavesStand'
<1>0. ops \in Nat /\ revision \in Nat /\ second \in Nat /\ MaxRevision \in Nat
  BY NativeAssumption DEF SavesStand, NativeTyped
<1>1. ASSUME NEW p \in Procs, StartSave(p) \/ Rename(p) \/ Sync(p) PROVE SavesStand'
  BY <1>1, StartSaveStands, RenameStands, SyncStands
<1>2. ASSUME NEW p \in Procs, FailSave(p) PROVE SavesStand'
  <2>1. procs[p].pc # "off" /\ Give(p) /\ UNCHANGED <<files, ops, revision, second>>
    BY <1>2 DEF FailSave
  <2> QED BY <1>0, <2>1, GiveQuiet, QuietStands
<1>3. ASSUME NEW p \in Procs,
             \/ Open(p) \/ BeginRenewal(p) \/ AcceptLease(p) \/ NoAnswer(p) \/ Deny(p) \/ Expire(p)
             \/ Abandon(p) \/ Cancel(p) \/ LoseContinuity(p) \/ Die(p)
      PROVE  SavesStand'
  <2>1. Quiet(p)
    BY <1>3, OpenQuiet, AcceptQuiet, CallsQuiet
  <2>2. ops' \in Nat /\ revision' = revision /\ second' = second
    BY <1>0, <1>3 DEF Open, BeginRenewal, AcceptLease, NoAnswer, Deny, Expire, Abandon, Cancel, LoseContinuity, Die
  <2> QED BY <1>0, <2>1, <2>2, QuietStands
<1>4. CASE PowerLoss
  BY <1>4, PowerLossStands
<1>5. CASE Authority \/ Tick
  <2>1. UNCHANGED <<procs, files, ops, acked>> /\ revision' \in Nat /\ second' \in Nat
    BY <1>0, <1>5 DEF Authority, Tick
  <2> QED BY <2>1 DEF SavesStand, NativeTyped, Sound, Locked, Durable, Outlives
<1>6. CASE UNCHANGED native
  BY <1>6 DEF native, SavesStand, NativeTyped, Sound, Locked, Durable, Outlives
<1> QED BY <1>1, <1>2, <1>3, <1>4, <1>5, <1>6 DEF NativeNext

\* Every reachable state of the machine is typed.
THEOREM NativeTypeCorrect == NativeSpec => []NativeTyped
<1>1. SavesStand => NativeTyped
  BY DEF SavesStand
<1> QED BY <1>1, NativeInitStands, SavesStandStep, PTL DEF NativeSpec

\* No process works under a lease older than a revision it has authenticated or
\* one acknowledged before it started, whatever saves crossed, failed or were
\* cut off (BoundRenewalSession::check, BoundCheckpointStore::save).
THEOREM RevisionsStandHolds == NativeSpec => []RevisionsStand
<1>1. SavesStand => RevisionsStand
  <2> SUFFICES ASSUME SavesStand, NEW p \in Procs, Authorizes(p)
               PROVE  procs[p].accepted.rev >= procs[p].learned
    BY DEF RevisionsStand
  <2>1. procs[p] \in Session /\ Sound(procs[p])
    BY DEF SavesStand, NativeTyped
  <2>2. procs[p].accepted \in Statement /\ procs[p].accepted.rev >= procs[p].floor
    BY <2>1 DEF Authorizes, Session, Held
  <2>3. procs[p].accepted.rev \in Nat /\ procs[p].floor \in Nat /\ procs[p].learned \in Nat
    BY <2>1, <2>2 DEF Session, Statement
  <2> QED BY <2>1, <2>2, <2>3 DEF Sound
<1> QED BY <1>1, NativeInitStands, SavesStandStep, PTL DEF NativeSpec

=============================================================================
