------------------------------ MODULE Sessions ------------------------------
(***************************************************************************)
(* Login, refresh-token rotation, sign-out and password reset of           *)
(* auth.service.ts, the session check of jwt-auth.guard.ts, and the two    *)
(* operations of admin.service.ts that end sessions.                       *)
(*                                                                         *)
(* Workers are HTTP requests in progress.  Every statement on the database *)
(* is one step, a $transaction([...]) batch too; between two statements of *)
(* a request any other request may run (password hashing takes its time).  *)
(* Times are abstracted to the moments they pass: a lock, a session or a   *)
(* reset link expires when the environment says so.                        *)
(***************************************************************************)
EXTENDS Integers, FiniteSets

CONSTANTS
    Users, Passwords, Sessions, Tokens, Links,
    Typos,              \* passwords nobody ever sets
    Statuses,           \* AccountStatus
    Workers,
    MaxFailedLogins,    \* MAX_FAILED_LOGINS, 5 in the code
    MaxResets,          \* bound: reset links that may be asked for
    MaxFaults,          \* bound: answers that may be lost
    NoSession, NoToken, NoLink, NoUser, NoPassword

ASSUME FailedLoginsPositive == MaxFailedLogins \in Nat \ {0}
ASSUME StatusesKnown ==
    "ACTIVE" \in Statuses /\ Statuses \subseteq {"ACTIVE", "SUSPENDED", "BANNED", "DELETED"}
ASSUME SessionBounds == MaxResets \in Nat /\ MaxFaults \in Nat

VARIABLES
    \* The database.
    account,    \* User rows
    session,    \* Session rows; tokens stand for their hashes
    link,       \* VerificationToken rows of type PASSWORD_RESET
    \* The requests in progress.
    req,
    \* What clients hold, and how often they have sent it.
    given,      \* refresh tokens some client was answered with
    sent,       \* [token -> times presented, counted up to 2]
    \* History, read by properties only.
    origin,     \* the session each token was made for
    from,       \* the token each one was exchanged for
    lost,       \* the tokens clients should have now, where a fault took the answer
    opened,     \* the password each session was opened with
    asked, faults

db      == <<account, session, link>>
clients == <<given, sent>>
made    == <<origin, from, lost>>
history == <<made, opened, asked, faults>>
vars    == <<account, session, link, req, given, sent, origin, from, lost, opened, asked, faults>>

Account == [password: Passwords, status: Statuses,
            failed: 0..(MaxFailedLogins - 1), locked: BOOLEAN]
Session == [user: Users, current: Tokens, previous: Tokens \cup {NoToken},
            revoked: BOOLEAN, expired: BOOLEAN]
Link    == [user: Users, used: BOOLEAN, expired: BOOLEAN]

ASSUME AbsentRows == /\ NoSession \notin Sessions \cup Session
                     /\ NoToken \notin Tokens /\ NoLink \notin Links \cup Link
                     /\ NoUser \notin Users /\ NoPassword \notin Passwords \cup Typos
                     /\ Passwords \cap Typos = {}

Request == [pc: {"idle", "wrong", "clear", "open", "rotate", "lookup", "kill",
                 "authorized", "issue", "reset"},
            user: Users \cup {NoUser}, password: Passwords \cup Typos \cup {NoPassword},
            failed: 0..(MaxFailedLogins - 1), session: Sessions \cup {NoSession},
            token: Tokens \cup {NoToken}, link: Links \cup {NoLink}]
Idle == [pc |-> "idle", user |-> NoUser, password |-> NoPassword, failed |-> 0,
         session |-> NoSession, token |-> NoToken, link |-> NoLink]

TypeOK ==
    /\ account \in [Users -> Account]
    /\ session \in [Sessions -> Session \cup {NoSession}]
    /\ link \in [Links -> Link \cup {NoLink}]
    /\ req \in [Workers -> Request]
    /\ given \subseteq Tokens
    /\ sent \in [Tokens -> 0..2]
    /\ origin \in [Tokens -> Sessions \cup {NoSession}]
    /\ from \in [Tokens -> Tokens \cup {NoToken}]
    /\ lost \subseteq Tokens
    /\ opened \in [Sessions -> Passwords \cup {NoPassword}]
    /\ asked \in Nat /\ faults \in Nat

Init ==
    /\ \E p \in Passwords :
          account = [u \in Users |-> [password |-> p, status |-> "ACTIVE",
                                      failed |-> 0, locked |-> FALSE]]
    /\ session = [s \in Sessions |-> NoSession]
    /\ link = [l \in Links |-> NoLink]
    /\ req = [w \in Workers |-> Idle]
    /\ given = {}
    /\ sent = [t \in Tokens |-> 0]
    /\ origin = [t \in Tokens |-> NoSession]
    /\ from = [t \in Tokens |-> NoToken]
    /\ lost = {}
    /\ opened = [s \in Sessions |-> NoPassword]
    /\ asked = 0 /\ faults = 0

-----------------------------------------------------------------------------
(* Helpers *)

Opened(s) == session[s] # NoSession
Usable(s) == Opened(s) /\ ~session[s].revoked /\ ~session[s].expired

\* Both refresh and the guard ask for a usable session of an active account.
InForce(s) == Usable(s) /\ account[session[s].user].status = "ACTIVE"

Respond(w) == req' = [req EXCEPT ![w] = Idle]

\* updateMany on a set of sessions: the revoked ones keep their date.
Revoke(S) == session' = [s \in Sessions |-> IF s \in S /\ Opened(s)
                                            THEN [session[s] EXCEPT !.revoked = TRUE]
                                            ELSE session[s]]
Of(u) == {s \in Sessions : Opened(s) /\ session[s].user = u}

\* generateOpaqueToken makes a token nobody has seen.
Fresh(t) == origin[t] = NoSession

-----------------------------------------------------------------------------
(* login *)

\* The user row is read once; the rest of the request goes by what it said.
Login(w, u, p) ==
    /\ req[w] = Idle
    /\ account[u].status \notin {"BANNED", "SUSPENDED"}
    /\ ~account[u].locked
    /\ req' = [req EXCEPT ![w] =
                 [Idle EXCEPT !.pc = IF p = account[u].password THEN "clear" ELSE "wrong",
                              !.user = u, !.password = p, !.failed = account[u].failed]]
    /\ UNCHANGED <<db, clients, history>>

\* Mutant of CountFailure: the lock does not reset the count.
CountFailureKeepsCount(w) ==
    LET failed == req[w].failed + 1
    IN  /\ req[w].pc = "wrong"
        /\ account' = [account EXCEPT ![req[w].user].failed = failed,
                                      ![req[w].user].locked = failed >= MaxFailedLogins]
        /\ Respond(w)
        /\ UNCHANGED <<session, link, clients, history>>

\* A wrong password: the count read before, plus one, is written back, with
\* the lock or with its removal.
CountFailure(w) ==
    LET failed == req[w].failed + 1
        lock   == failed >= MaxFailedLogins
    IN  /\ req[w].pc = "wrong"
        /\ account' = [account EXCEPT ![req[w].user].failed = IF lock THEN 0 ELSE failed,
                                      ![req[w].user].locked = lock]
        /\ Respond(w)
        /\ UNCHANGED <<session, link, clients, history>>

ClearFailures(w) ==
    /\ req[w].pc = "clear"
    /\ account' = [account EXCEPT ![req[w].user].failed = 0, ![req[w].user].locked = FALSE]
    /\ req' = [req EXCEPT ![w].pc = "open"]
    /\ UNCHANGED <<session, link, clients, history>>

\* createSession.
OpenSession(w, s, t) ==
    /\ req[w].pc = "open"
    /\ ~Opened(s) /\ Fresh(t)
    /\ session' = [session EXCEPT ![s] = [user |-> req[w].user, current |-> t,
                      previous |-> NoToken, revoked |-> FALSE, expired |-> FALSE]]
    /\ given' = given \cup {t}
    /\ origin' = [origin EXCEPT ![t] = s]
    /\ opened' = [opened EXCEPT ![s] = req[w].password]
    /\ Respond(w)
    /\ UNCHANGED <<account, link, sent, from, lost, asked, faults>>

-----------------------------------------------------------------------------
(* refresh *)

\* The first lookup, by the current token.
Refresh(w, t) ==
    /\ req[w] = Idle
    /\ t \in given
    /\ sent' = [sent EXCEPT ![t] = IF @ < 2 THEN @ + 1 ELSE 2]
    /\ LET found == {s \in Sessions : Opened(s) /\ session[s].current = t}
       IN  IF found = {}
           THEN req' = [req EXCEPT ![w] = [Idle EXCEPT !.pc = "lookup", !.token = t]]
           ELSE \E s \in found :
                  IF InForce(s)
                  THEN req' = [req EXCEPT ![w] =
                                 [Idle EXCEPT !.pc = "rotate", !.session = s, !.token = t]]
                  ELSE req' = req
    /\ UNCHANGED <<db, given, history>>

\* Mutants of Rotated: the two tokens are swapped; the row is written back as
\* it was read.
RotatedSwapped(row, old, new) == [row EXCEPT !.current = old, !.previous = new]
RotatedAsRead(row, old, new) ==
    [row EXCEPT !.current = new, !.previous = old, !.revoked = FALSE]
Rotated(row, old, new) == [row EXCEPT !.current = new, !.previous = old]

\* The session row is updated by its id, whatever happened to it since.
Rotate(w, t) ==
    LET s == req[w].session
    IN  /\ req[w].pc = "rotate"
        /\ Fresh(t)
        /\ session' = [session EXCEPT ![s] = Rotated(@, req[w].token, t)]
        /\ origin' = [origin EXCEPT ![t] = s]
        /\ from' = [from EXCEPT ![t] = req[w].token]
        /\ \/ given' = given \cup {t} /\ UNCHANGED <<lost, faults>>
           \/ \* The answer is lost on its way.
              /\ faults < MaxFaults /\ faults' = faults + 1
              /\ lost' = lost \cup {t} /\ given' = given
        /\ Respond(w)
        /\ UNCHANGED <<account, link, sent, opened, asked>>

\* The second lookup, by the token that was rotated out last.
FindReplayed(w) ==
    LET found == {s \in Sessions : Opened(s) /\ session[s].previous = req[w].token}
    IN  /\ req[w].pc = "lookup"
        /\ IF found = {}
           THEN Respond(w)
           ELSE \E s \in found :
                  req' = [req EXCEPT ![w] = [Idle EXCEPT !.pc = "kill", !.session = s]]
        /\ UNCHANGED <<db, clients, history>>

RevokeReplayed(w) ==
    /\ req[w].pc = "kill"
    /\ Revoke({req[w].session})
    /\ Respond(w)
    /\ UNCHANGED <<account, link, clients, history>>

-----------------------------------------------------------------------------
(* Requests behind the guard *)

\* JwtAuthGuard.canActivate for an access token of this session.
Authorize(w, s) ==
    /\ req[w] = Idle
    /\ InForce(s)
    /\ req' = [req EXCEPT ![w] = [Idle EXCEPT !.pc = "authorized", !.session = s,
                                              !.user = session[s].user]]
    /\ UNCHANGED <<db, clients, history>>

Authorized(w, S) ==
    /\ req[w].pc = "authorized"
    /\ Revoke(S)
    /\ Respond(w)
    /\ UNCHANGED <<account, link, clients, history>>

Logout(w)            == Authorized(w, {req[w].session})
RevokeSession(w, s)  == Authorized(w, {s} \cap Of(req[w].user))
RevokeAllSessions(w) == Authorized(w, Of(req[w].user) \ {req[w].session})

-----------------------------------------------------------------------------
(* Password reset *)

\* forgotPassword: outstanding links are invalidated, then one is created.
ForgotPassword(w, u) ==
    /\ req[w] = Idle
    /\ asked < MaxResets
    /\ asked' = asked + 1
    /\ link' = [l \in Links |-> IF link[l] # NoLink /\ link[l].user = u
                                THEN [link[l] EXCEPT !.used = TRUE] ELSE link[l]]
    /\ req' = [req EXCEPT ![w] = [Idle EXCEPT !.pc = "issue", !.user = u]]
    /\ UNCHANGED <<account, session, clients, made, opened, faults>>

IssueLink(w, l) ==
    /\ req[w].pc = "issue"
    /\ link[l] = NoLink
    /\ link' = [link EXCEPT ![l] = [user |-> req[w].user, used |-> FALSE, expired |-> FALSE]]
    /\ Respond(w)
    /\ UNCHANGED <<account, session, clients, history>>

\* resetPassword: the link is read and checked, the password hashed, then
\* one batch uses the link, sets the password and revokes every session.
StartReset(w, l, p) ==
    /\ req[w] = Idle
    /\ link[l] # NoLink /\ ~link[l].used /\ ~link[l].expired
    /\ req' = [req EXCEPT ![w] = [Idle EXCEPT !.pc = "reset", !.link = l, !.password = p]]
    /\ UNCHANGED <<db, clients, history>>

\* The columns of the user row a new password sets.
NewPassword(u, p) == [account EXCEPT ![u].password = p, ![u].failed = 0, ![u].locked = FALSE]

ResetPassword(w) ==
    LET u == link[req[w].link].user
    IN  /\ req[w].pc = "reset"
        /\ link' = [link EXCEPT ![req[w].link].used = TRUE]
        /\ account' = NewPassword(u, req[w].password)
        /\ Revoke(Of(u))
        /\ Respond(w)
        /\ UNCHANGED <<clients, history>>

-----------------------------------------------------------------------------
(* Administrators, time, failures *)

SetUserStatus(u, status) ==
    /\ account' = [account EXCEPT ![u].status = status]
    /\ Revoke(Of(u))
    /\ UNCHANGED <<link, req, clients, history>>

AdminResetPassword(u, p) ==
    /\ account' = NewPassword(u, p)
    /\ Revoke(Of(u))
    /\ UNCHANGED <<link, req, clients, history>>

Unlock(u) ==
    /\ account[u].locked
    /\ account' = [account EXCEPT ![u].locked = FALSE]
    /\ UNCHANGED <<session, link, req, clients, history>>

Expire ==
    /\ \/ \E s \in Sessions : /\ Opened(s) /\ ~session[s].expired
                              /\ session' = [session EXCEPT ![s].expired = TRUE]
                              /\ link' = link
       \/ \E l \in Links : /\ link[l] # NoLink /\ ~link[l].expired
                           /\ link' = [link EXCEPT ![l].expired = TRUE]
                           /\ session' = session
    /\ UNCHANGED <<account, req, clients, history>>

\* The process dies, or the database does not answer.  A refresh that dies
\* leaves its client with the token it presented.
Fail(w) ==
    /\ req[w] # Idle
    /\ faults < MaxFaults
    /\ faults' = faults + 1
    /\ lost' = IF req[w].pc = "rotate" THEN lost \cup {req[w].token} ELSE lost
    /\ Respond(w)
    /\ UNCHANGED <<db, clients, origin, from, opened, asked>>

-----------------------------------------------------------------------------
Anonymous(w) ==
    \/ \E u \in Users : \/ \E p \in Passwords \cup Typos : Login(w, u, p)
                        \/ ForgotPassword(w, u)
    \/ \E t \in Tokens : Refresh(w, t)
    \/ \E l \in Links : IssueLink(w, l) \/ \E p \in Passwords : StartReset(w, l, p)
    \/ CountFailure(w) \/ ClearFailures(w) \/ FindReplayed(w) \/ RevokeReplayed(w)
    \/ \E s \in Sessions, t \in Tokens : OpenSession(w, s, t)
    \/ \E t \in Tokens : Rotate(w, t)
    \/ ResetPassword(w)

SignedIn(w) ==
    \/ \E s \in Sessions : Authorize(w, s) \/ RevokeSession(w, s)
    \/ Logout(w) \/ RevokeAllSessions(w)

Next ==
    \/ \E w \in Workers : Anonymous(w) \/ SignedIn(w) \/ Fail(w)
    \/ \E u \in Users : \/ \E status \in Statuses : SetUserStatus(u, status)
                        \/ \E p \in Passwords : AdminResetPassword(u, p)
                        \/ Unlock(u)
    \/ Expire

Spec == Init /\ [][Next]_vars

\* A request that has begun goes on to its next statement.
Continue(w) == req[w] # Idle /\ (Anonymous(w) \/ SignedIn(w))
FairSpec == Spec /\ \A w \in Workers : WF_vars(Continue(w))

-----------------------------------------------------------------------------
(* Properties *)

\* A token that was exchanged; one that was exchanged twice, by two refreshes
\* that both read it as the current one.
Replaced(t) == \E n \in Tokens : from[n] = t
Forked(t)   == \E m, n \in Tokens : m # n /\ from[m] = t /\ from[n] = t

\* A token that was answered and not used yet is the one its session asks for,
\* unless two refreshes that were sent one token answered both.
AnswersWork ==
    /\ \A t \in given : sent[t] = 0 =>
          \/ session[origin[t]].current = t
          \/ \E r \in Tokens : origin[r] = origin[t] /\ Forked(r)
    /\ \A r \in Tokens : Forked(r) => sent[r] = 2

\* Somebody holds the unused current token of a session in force, or is being
\* answered with the next one, or a fault took that answer.
Reachable(s) ==
    LET t == session[s].current
    IN  \/ t \in given /\ sent[t] = 0
        \/ \E w \in Workers : req[w].pc = "rotate" /\ req[w].session = s /\ req[w].token = t
        \/ t \in lost

\* A token of this session was presented again after it had been exchanged.
Replayed(s) == \E t \in Tokens : origin[t] = s /\ Replaced(t) /\ sent[t] = 2

\* refresh: however its requests interleave with each other, with sign-out,
\* password reset and the administrators, and wherever an answer is lost, a
\* client loses its session in two ways only.  Two refreshes with one token
\* exchange it twice, and the answer of the one that wrote first is worth
\* nothing; or a fault takes the answer, the client has just the token that was
\* rotated out, and its retry is taken for theft.  Reuse detection strikes
\* nobody else: only a session of which a token was presented again that had
\* been exchanged.
LockoutsExplained ==
    /\ AnswersWork
    /\ \A s \in Sessions : InForce(s) => Reachable(s)
    /\ \A w \in Workers : req[w].pc = "kill" => Replayed(req[w].session)

\* Whatever interleaves with it, a revocation is for good, and a session never
\* passes to another user or gets its expiry back.
RevokedForGood ==
    [][\A s \in Sessions : Opened(s) =>
          /\ Opened(s)' /\ session'[s].user = session[s].user
          /\ session[s].revoked => session'[s].revoked
          /\ session[s].expired => session'[s].expired]_vars

\* "Password reset revokes ALL sessions": none stays usable that was opened
\* with another password than the present one.
OnlyThePresentPassword ==
    \A s \in Sessions : Opened(s) /\ ~session[s].revoked =>
        opened[s] = account[session[s].user].password

\* "If a rotated (old) token is ever presented again", that is, one that is no
\* session's current token any more, the session it was made for is revoked.
ReplayRevokes ==
    \A s \in Sessions, t \in Tokens, w \in Workers :
        (req[w].pc = "lookup" /\ req[w].token = t /\ origin[t] = s)
            ~> (Opened(s) /\ session[s].revoked)

=============================================================================
