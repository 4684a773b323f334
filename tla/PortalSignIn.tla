---------------------------- MODULE PortalSignIn ----------------------------
(***************************************************************************)
(* How one customer of the portal signs in: e-mailed codes and links,      *)
(* passwords and their resets, connected providers, and the sessions they  *)
(* open. Every statement a request awaits is a step, between which other   *)
(* tabs run. Rate limits, which only refuse, are left out.                 *)
(***************************************************************************)
EXTENDS Integers, Sequences, FiniteSets

CONSTANTS
  Providers,     \* Google and GitHub
  Accounts,      \* what the customer may have at first: [contact, password, identities, mail,
                 \* room], where room bounds the codes, resets, salts and sessions ever made
  Tabs,          \* requests that may be under way at the same time
  Sessions,      \* numbers for the sessions there are at the same time
  MaxAttempts,   \* checks a code survives
  NoHash         \* no password

ASSUME PortalAssumption ==
  /\ MaxAttempts \in Nat \ {0} /\ Sessions \subseteq Nat \ {0} /\ NoHash \notin Nat
  /\ \A a \in Accounts :
       /\ a.contact \in BOOLEAN /\ a.mail \in BOOLEAN /\ a.password \in Nat /\ a.identities \subseteq Providers
       /\ a.room \in [{"codes", "resets", "salts", "sessions"} -> Nat]

VARIABLES
  contact,       \* customers.email is set, to the address of the login
  password,      \* portal_passwords.password_hash: the number of its salt, 0 for none
  salts,         \* salts used so far: every hash is a fresh one
  identities,    \* portal_identities: connected providers
  codes,         \* portal_otp, with what was done with each code
  resets,        \* portal_password_actions: links that reset a password
  sessions,      \* portal_sessions
  mail,          \* codes can be e-mailed (delivery and peppers configured)
  room,          \* the bounds, and what is left of them
  tabs

account == <<contact, password, salts, identities>>
portal == <<account, codes, resets, sessions, mail, room, tabs>>

IdleTab == [pc |-> "idle", session |-> 0]

\* Nothing reads a session that is over.
Over == [by |-> "none", with |-> NoHash, born |-> 0, live |-> FALSE, recent |-> FALSE]

WayIn == password # 0 \/ identities # {} \/ (mail /\ contact)

PortalInit ==
  /\ \E a \in Accounts :
       contact = a.contact /\ password = a.password /\ identities = a.identities
       /\ mail = a.mail /\ room = a.room
  /\ salts = password /\ WayIn
  /\ codes = <<>> /\ resets = <<>> /\ sessions = [s \in Sessions |-> Over]
  /\ tabs = [t \in Tabs |-> IdleTab]

TabAt(t, pc) == tabs[t].pc = pc
TabGoes(t, call) == tabs' = [tabs EXCEPT ![t] = call]
Finish(t) == TabGoes(t, IdleTab)

\* One less of what is bounded.
Made(kind) == room[kind] > 0 /\ room' = [room EXCEPT ![kind] = @ - 1]

\* Numbers no session has and no request holds.
Free == {s \in Sessions : ~sessions[s].live /\ \A t \in Tabs : tabs[t].session # s}

\* Sessions that are signed in.
Live == {s \in Sessions : sessions[s].live}

Revoke(gone) == sessions' = [s \in Sessions |-> IF s \in gone THEN Over ELSE sessions[s]]

-----------------------------------------------------------------------------
(* E-mailed codes, and the sessions every way of signing in opens *)

\* requestOtp, in three statements: look the customer up, consume the codes
\* sent before, insert the new one.
AskCode(t) ==
  /\ TabAt(t, "idle") /\ contact
  /\ TabGoes(t, [pc |-> "supersede", session |-> 0]) /\ UNCHANGED <<account, codes, resets, sessions, mail, room>>

\* Every code there is, consumed; "replaced" is the history of it.
Spent == [n \in DOMAIN codes |-> [codes[n] EXCEPT !.consumed = TRUE, !.replaced = TRUE]]

Supersede(t) ==
  /\ TabAt(t, "supersede")
  /\ codes' = Spent /\ TabGoes(t, [pc |-> "issue", session |-> 0])
  /\ UNCHANGED <<account, resets, sessions, mail, room>>

IssueCode(t) ==
  /\ TabAt(t, "issue") /\ Made("codes")
  /\ codes' = Append(codes, [attempts |-> 0, consumed |-> FALSE, expired |-> FALSE,
                             replaced |-> FALSE, checks |-> 0, opened |-> 0, late |-> FALSE])
  /\ Finish(t) /\ UNCHANGED <<account, resets, sessions, mail>>

\* Slip: a code is good until it expires.
SlipUsable(row) == ~row.expired /\ row.attempts < MaxAttempts

Usable(row) == ~row.consumed /\ ~row.expired /\ row.attempts < MaxAttempts

\* One check of a code. The history of it: how often it was checked and signed
\* somebody in, and whether it did after its last attempt or its replacement.
Checked(row, right) ==
  LET opens == right /\ Usable(row)
  IN [row EXCEPT !.attempts = IF Usable(row) THEN @ + 1 ELSE @,
                 !.consumed = @ \/ opens,
                 !.checks = IF row.consumed \/ @ > MaxAttempts THEN @ ELSE @ + 1,
                 !.opened = IF opens /\ @ < 2 THEN @ + 1 ELSE @,
                 !.late = @ \/ (opens /\ (row.replaced \/ row.checks >= MaxAttempts))]

\* Of a request that proved who asks: a code, a password or a provider.
Proved(by, with) == [pc |-> "mint", by |-> by, with |-> with, session |-> 0]

\* redeemOtp with a code, 0 for a wrong one: one statement counts the check
\* against every code of the address and consumes the one that matches.
CheckCode(t, n) ==
  /\ TabAt(t, "idle") /\ \E m \in DOMAIN codes : Usable(codes[m])
  /\ codes' = [m \in DOMAIN codes |-> Checked(codes[m], m = n)]
  /\ IF n # 0 /\ Usable(codes[n]) THEN TabGoes(t, Proved("otp", NoHash)) ELSE UNCHANGED tabs
  /\ UNCHANGED <<account, resets, sessions, mail, room>>

\* redeemOtp with the secret of a link.
OpenLink(t, n) ==
  /\ TabAt(t, "idle") /\ Usable(codes[n])
  /\ codes' = [codes EXCEPT ![n] = Checked(@, TRUE)]
  /\ TabGoes(t, Proved("otp", NoHash)) /\ UNCHANGED <<account, resets, sessions, mail, room>>

\* Slip: who knew the password when it was checked gets a session.
SlipVouched(t) == TRUE

\* A password session needs the hash that was verified to be still there.
Vouched(t) == tabs[t].with # NoHash => tabs[t].with = password

\* mintSession. "born" is the password at the time.
Mint(t) ==
  /\ TabAt(t, "mint")
  /\ IF Vouched(t)
     THEN \E s \in Free :
            /\ Made("sessions") /\ \A other \in Free : s <= other
            /\ sessions' = [sessions EXCEPT ![s] = [by |-> tabs[t].by, with |-> tabs[t].with, born |-> password,
                                                    live |-> TRUE, recent |-> TRUE]]
     ELSE UNCHANGED <<sessions, room>>
  /\ Finish(t) /\ UNCHANGED <<account, codes, resets, mail>>

-----------------------------------------------------------------------------
(* Passwords *)

\* login: the credential is read and the password verified against it.
Login(t) ==
  /\ TabAt(t, "idle") /\ password # 0
  /\ TabGoes(t, Proved("password", password)) /\ UNCHANGED <<account, codes, resets, sessions, mail, room>>

\* settings: the session, and whether it is a recent verified sign-in.
Change(t, s) ==
  /\ TabAt(t, "idle")
  /\ TabGoes(t, [pc |-> "credential", session |-> s, seen |-> 0,
              verified |-> sessions[s].recent /\ sessions[s].by # "password"])
  /\ UNCHANGED <<account, codes, resets, sessions, mail, room>>

\* The credential. Who has none and no recent verified sign-in is refused; who
\* has one and no such sign-in must give the current password.
ReadCredential(t) ==
  /\ TabAt(t, "credential")
  /\ IF password = 0 /\ ~(tabs[t].verified /\ contact) THEN Finish(t)
     ELSE TabGoes(t, [tabs[t] EXCEPT !.pc = "change", !.seen = password])
  /\ UNCHANGED <<account, codes, resets, sessions, mail, room>>

\* The write of a hash and passwordInvalidations.
NewPassword(t) ==
  /\ Made("salts")
  /\ salts' = salts + 1 /\ password' = salts + 1
  /\ Revoke(Sessions) /\ codes' = Spent
  /\ TabGoes(t, Proved("password", salts + 1))

\* The batch of settings: the hash is the one that was read, the session live.
CommitChange(t) ==
  /\ TabAt(t, "change")
  /\ IF password = tabs[t].seen /\ tabs[t].session \in Live
     THEN NewPassword(t)
     ELSE Finish(t) /\ UNCHANGED <<password, salts, codes, sessions, room>>
  /\ UNCHANGED <<contact, identities, resets, mail>>

\* issueLink for a reset: the credential, then the row of the link.
AskReset(t) ==
  /\ TabAt(t, "idle") /\ password # 0
  /\ TabGoes(t, [pc |-> "send", seen |-> password, session |-> 0])
  /\ UNCHANGED <<account, codes, resets, sessions, mail, room>>

SendReset(t) ==
  /\ TabAt(t, "send") /\ Made("resets")
  /\ resets' = Append(resets, [hash |-> tabs[t].seen, live |-> TRUE])
  /\ Finish(t) /\ UNCHANGED <<account, codes, sessions, mail>>

\* complete: the link is read.
FollowReset(t, n) ==
  /\ TabAt(t, "idle") /\ resets[n].live
  /\ TabGoes(t, [pc |-> "complete", reset |-> n, session |-> 0])
  /\ UNCHANGED <<account, codes, resets, sessions, mail, room>>

\* Its batch claims the link; a link claimed in vain is spent all the same.
Complete(t) ==
  LET n == tabs[t].reset
      changes == resets[n].live /\ password = resets[n].hash
  IN /\ TabAt(t, "complete")
     /\ IF changes THEN NewPassword(t) /\ contact' = TRUE
        ELSE Finish(t) /\ UNCHANGED <<password, salts, codes, sessions, contact, room>>
     /\ resets' = [m \in DOMAIN resets |-> [resets[m] EXCEPT !.live = @ /\ m # n /\ ~changes]]
     /\ UNCHANGED <<identities, mail>>

-----------------------------------------------------------------------------
(* Providers *)

\* callback of a sign-in: the identity is read.
SignInWith(t, p) ==
  /\ TabAt(t, "idle") /\ p \in identities
  /\ TabGoes(t, Proved("oauth", NoHash)) /\ UNCHANGED <<account, codes, resets, sessions, mail, room>>

\* callback of a link: the session that started it is live and recent.
Link(t, p, s) ==
  /\ TabAt(t, "idle") /\ sessions[s].recent
  /\ TabGoes(t, [pc |-> "exchange", provider |-> p, session |-> s])
  /\ UNCHANGED <<account, codes, resets, sessions, mail, room>>

\* identityCustomer after the provider answered, its two reads as one: is the
\* session live, and the identity connected already?
FindIdentity(t) ==
  /\ TabAt(t, "exchange")
  /\ CASE tabs[t].session \notin Live -> Finish(t)
       [] tabs[t].provider \in identities -> TabGoes(t, Proved("oauth", NoHash))
       [] OTHER -> TabGoes(t, [tabs[t] EXCEPT !.pc = "link"])
  /\ UNCHANGED <<account, codes, resets, sessions, mail, room>>

\* The insert of a link: session live and recent, provider not yet connected.
LinkIdentity(t) ==
  /\ TabAt(t, "link")
  /\ IF tabs[t].session \in Live /\ sessions[tabs[t].session].recent /\ tabs[t].provider \notin identities
     THEN identities' = identities \cup {tabs[t].provider} /\ TabGoes(t, Proved("oauth", NoHash))
     ELSE Finish(t) /\ UNCHANGED identities
  /\ UNCHANGED <<contact, password, salts, codes, resets, sessions, mail, room>>

\* unlink: the session and the identity are read.
Unlink(t, p, s) ==
  /\ TabAt(t, "idle") /\ p \in identities
  /\ TabGoes(t, [pc |-> "unlink", provider |-> p, session |-> s])
  /\ UNCHANGED <<account, codes, resets, sessions, mail, room>>

\* A way in that is left when p is gone.
AnotherWay(p) == password # 0 \/ identities \ {p} # {} \/ (mail /\ contact)

\* Its batch: the identity goes, and with it the other OAuth sessions.
CommitUnlink(t) ==
  LET p == tabs[t].provider
      s == tabs[t].session
  IN /\ TabAt(t, "unlink")
     /\ IF p \in identities /\ s \in Live /\ AnotherWay(p)
        THEN /\ identities' = identities \ {p}
             /\ Revoke({x \in Live : sessions[x].by = "oauth"} \ {s})
        ELSE UNCHANGED <<identities, sessions>>
     /\ Finish(t) /\ UNCHANGED <<contact, password, salts, codes, resets, mail, room>>

-----------------------------------------------------------------------------
(* Time, and signing out *)

\* revokeSession, or the end of the session's day.
EndSession(s) == Revoke({s}) /\ UNCHANGED <<account, codes, resets, mail, room, tabs>>

\* Ten minutes: a session is no recent sign-in any more, a code expires.
Age(s) ==
  /\ sessions[s].recent
  /\ sessions' = [sessions EXCEPT ![s].recent = FALSE] /\ UNCHANGED <<account, codes, resets, mail, room, tabs>>

ExpireCode(n) ==
  /\ Usable(codes[n])
  /\ codes' = [codes EXCEPT ![n].expired = TRUE] /\ UNCHANGED <<account, resets, sessions, mail, room, tabs>>

\* A quarter of an hour, or the mail could not be sent.
DropReset(n) ==
  /\ resets[n].live
  /\ resets' = [resets EXCEPT ![n].live = FALSE] /\ UNCHANGED <<account, codes, sessions, mail, room, tabs>>

PortalNext ==
  \/ \E t \in Tabs :
       \/ AskCode(t) \/ Supersede(t) \/ IssueCode(t) \/ Mint(t)
       \/ Login(t) \/ ReadCredential(t) \/ CommitChange(t)
       \/ AskReset(t) \/ SendReset(t) \/ Complete(t)
       \/ FindIdentity(t) \/ LinkIdentity(t) \/ CommitUnlink(t)
       \/ \E n \in {0} \cup DOMAIN codes : CheckCode(t, n)
       \/ \E n \in DOMAIN codes : OpenLink(t, n)
       \/ \E n \in DOMAIN resets : FollowReset(t, n)
       \/ \E p \in Providers : SignInWith(t, p)
       \/ \E s \in Live : Change(t, s)
       \/ \E s \in Live, p \in Providers : Link(t, p, s) \/ Unlink(t, p, s)
  \/ \E s \in Live : EndSession(s) \/ Age(s)
  \/ \E n \in DOMAIN codes : ExpireCode(n)
  \/ \E n \in DOMAIN resets : DropReset(n)

PortalSpec == PortalInit /\ [][PortalNext]_portal

-----------------------------------------------------------------------------
\* A code and its link sign in once, within the attempts they survive, and not
\* after a newer code was asked for or the password was changed (redeemOtp).
CodeSpentOnce ==
  \A n \in DOMAIN codes : codes[n].opened <= 1 /\ ~codes[n].late

\* A live session was opened after the last change of the password and, if a
\* password opened it, by the one that is in force (passwordInvalidations,
\* mintSession): nobody who knows an old password stays or gets in.
OldPasswordOpensNothing ==
  \A s \in Live : sessions[s].born = password /\ (sessions[s].with # NoHash => sessions[s].with = password)

\* The account stays with its owner: the owner can always sign in, whatever
\* providers several tabs disconnect (unlink), and old passwords open nothing.
StaysWithItsOwner == WayIn /\ OldPasswordOpensNothing
=============================================================================
