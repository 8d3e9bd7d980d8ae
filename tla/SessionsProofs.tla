--------------------------- MODULE SessionsProofs ---------------------------
(***************************************************************************)
(* Proofs about Sessions, for any number of accounts, sessions, tokens and *)
(* requests in progress.                                                   *)
(***************************************************************************)
EXTENDS SessionsInv, TLAPS

-----------------------------------------------------------------------------
(* What a step that touches no token preserves *)

\* Rows may have been revoked or may have expired; nothing else.
SameTokens ==
    \A s \in Sessions :
        /\ Opened(s)' <=> Opened(s)
        /\ Opened(s) => /\ session'[s].current = session[s].current
                        /\ session'[s].previous = session[s].previous
                        /\ session'[s].user = session[s].user
                        /\ session[s].revoked => session'[s].revoked
                        /\ session[s].expired => session'[s].expired

\* Whoever changes the status of an account ends its sessions.
StatusKept ==
    \A s \in Sessions :
        Opened(s) => \/ account'[session[s].user].status = account[session[s].user].status
                     \/ session'[s].revoked

\* No link row is ever deleted.
LinksKept == \A l \in Links : link[l] # NoLink => link'[l] # NoLink

\* A request that leaves the token handling alone: it kept its place, or it is
\* somewhere in another handler, and a refresh that ended so lost its answer.
Elsewhere(w) ==
    \/ req'[w] = req[w]
    \/ /\ req'[w].pc \notin {"rotate", "lookup"} /\ HandlerOK(w)'
       /\ req'[w].pc = "kill" => Replayed(req'[w].session)
       /\ req[w].pc = "rotate" => req[w].token \in lost'

\* An unused token is a leaf of its session's tree.
LEMMA AnswersFollow ==
  TypeOK /\ TokensOK /\ ExchangesOK /\ (\A r \in Tokens : Forked(r) => sent[r] = 2)
      => AnswersWork
  <1> SUFFICES ASSUME TypeOK, TokensOK, ExchangesOK,
                      \A r \in Tokens : Forked(r) => sent[r] = 2
               PROVE  AnswersWork
    OBVIOUS
  <1>1. ASSUME NEW t \in given, sent[t] = 0
        PROVE  t \in Tokens /\ origin[t] # NoSession /\ ~Replaced(t)
    <2>1. t \in Tokens
      BY DEF TypeOK
    <2>2. ~(sent[t] >= 1)
      BY <1>1
    <2> QED BY <2>1, <2>2 DEF TokensOK, ExchangesOK
  <1> QED BY <1>1 DEF AnswersWork, ExchangesOK

LEMMA TreeUnchanged ==
  ASSUME UNCHANGED <<sent, origin, from>>
  PROVE  /\ \A t : Replaced(t)' <=> Replaced(t)
         /\ \A t : Forked(t)' <=> Forked(t)
         /\ \A s : Replayed(s)' <=> Replayed(s)
  <1>1. \A t : Replaced(t)' <=> Replaced(t)
    BY DEF Replaced
  <1>2. \A t : Forked(t)' <=> Forked(t)
    BY DEF Forked
  <1>3. \A s : Replayed(s)' <=> Replayed(s)
    BY DEF Replayed, Replaced
  <1> QED BY <1>1, <1>2, <1>3

\* Steps outside refresh and createSession.
LEMMA TokensUntouched ==
  ASSUME SInv, TypeOK', UNCHANGED <<given, sent, origin, from>>, lost \subseteq lost',
         SameTokens, StatusKept, LinksKept, \A w \in Workers : Elsewhere(w)
  PROVE  SInv'
  <1>1. /\ \A t : Replaced(t)' <=> Replaced(t)
        /\ \A t : Forked(t)' <=> Forked(t)
        /\ \A s : Replayed(s)' <=> Replayed(s)
    BY TreeUnchanged
  <1>2. TokensOK'
    <2>1. \A t \in Tokens : origin[t] \in Sessions \cup {NoSession}
      BY DEF SInv, TypeOK
    <2>2. ASSUME NEW t \in Tokens
          PROVE  /\ origin'[t] # NoSession => session'[origin'[t]] # NoSession
                 /\ origin'[t] = NoSession => /\ t \notin given' /\ sent'[t] = 0
                                              /\ from'[t] = NoToken /\ ~Replaced(t)'
      BY <1>1, <2>1 DEF SInv, TokensOK, SameTokens, Opened
    <2>3. ASSUME NEW s \in Sessions, session'[s] # NoSession
          PROVE  /\ origin'[session'[s].current] = s
                 /\ session'[s].previous # NoToken =>
                       origin'[session'[s].previous] = s /\ Replaced(session'[s].previous)
      BY <2>3 DEF SInv, TokensOK, SameTokens, Opened
    <2> QED BY <2>2, <2>3 DEF TokensOK, Opened, Replaced
  <1>3. ExchangesOK'
    BY <1>1 DEF SInv, ExchangesOK, TokensOK, TypeOK, SameTokens
  <1>4. ASSUME NEW w \in Workers PROVE RotateOK(w)' /\ PresentedOK(w)' /\ HandlerOK(w)'
    <2>1. CASE req'[w].pc \notin {"rotate", "lookup"} /\ HandlerOK(w)'
      BY <2>1 DEF RotateOK, PresentedOK
    <2>2. CASE req'[w] = req[w]
      <3>1. RotateOK(w) /\ PresentedOK(w) /\ HandlerOK(w)
        BY DEF SInv
      <3>2. RotateOK(w)'
        BY <2>2, <3>1 DEF RotateOK, SameTokens, Opened
      <3>3. PresentedOK(w)'
        BY <2>2, <3>1 DEF PresentedOK, Replaced
      <3>4. HandlerOK(w)'
        BY <2>2, <3>1 DEF HandlerOK, LinksKept
      <3> QED BY <3>2, <3>3, <3>4
    <2> QED BY <2>1, <2>2 DEF Elsewhere
  <1>5. RefreshesApart'
    BY DEF SInv, RefreshesApart, Elsewhere
  <1>6. \A s \in Sessions : InForce(s)' => InForce(s)
    BY DEF InForce, Usable, Opened, SameTokens, StatusKept
  <1>7. ASSUME NEW s \in Sessions, InForce(s)' PROVE Reachable(s)'
    <2>1. Reachable(s) /\ session'[s].current = session[s].current
      BY <1>6, <1>7 DEF SInv, LockoutsExplained, InForce, Usable, SameTokens
    <2>2. ASSUME NEW w \in Workers, req[w].pc = "rotate", req[w].session = s,
                 req[w].token = session[s].current
          PROVE  \/ session[s].current \in lost'
                 \/ req'[w].pc = "rotate" /\ req'[w].session = s
                    /\ req'[w].token = session[s].current
      BY <2>2 DEF Elsewhere
    <2> QED BY <2>1, <2>2 DEF Reachable
  <1>8. ASSUME NEW w \in Workers, req'[w].pc = "kill" PROVE Replayed(req'[w].session)
    BY <1>8 DEF SInv, LockoutsExplained, Elsewhere
  <1>9. LockoutsExplained'
    <2>1. AnswersWork'
      BY <1>1 DEF SInv, LockoutsExplained, AnswersWork, SameTokens, TokensOK, TypeOK
    <2>2. \A w \in Workers : (req[w].pc = "kill" => Replayed(req[w].session))'
      BY <1>8 DEF Replayed, Replaced
    <2> QED BY <1>7, <2>1, <2>2 DEF LockoutsExplained
  <1> QED BY <1>2, <1>3, <1>4, <1>5, <1>9 DEF SInv

\* updateMany on sessions: their type and their tokens stay.
LEMMA RevokeKeepsTokens ==
  ASSUME TypeOK, NEW S, Revoke(S)
  PROVE  session' \in [Sessions -> Session \cup {NoSession}] /\ SameTokens
  <1>1. \A s \in Sessions : Opened(s) => session[s] \in Session
    BY DEF TypeOK, Opened
  <1>2. session' = [s \in Sessions |-> IF s \in S /\ Opened(s)
                                       THEN [session[s] EXCEPT !.revoked = TRUE]
                                       ELSE session[s]]
    BY DEF Revoke
  <1>3. ASSUME NEW s \in Sessions
        PROVE  /\ session'[s] \in Session \cup {NoSession}
               /\ Opened(s)' <=> Opened(s)
               /\ Opened(s) => /\ session'[s].current = session[s].current
                               /\ session'[s].previous = session[s].previous
                               /\ session'[s].user = session[s].user
                               /\ session[s].revoked => session'[s].revoked
                               /\ session[s].expired => session'[s].expired
    <2>1. CASE s \in S /\ Opened(s)
      <3>1. session'[s] = [session[s] EXCEPT !.revoked = TRUE]
        BY <1>2, <2>1
      <3>2. session'[s] \in Session /\ session[s] \in Session
        BY <1>1, <2>1, <3>1 DEF Session
      <3>3. session'[s] # NoSession
        BY <3>2, AbsentRows
      <3> QED BY <1>1, <2>1, <3>1, <3>2, <3>3 DEF Session, Opened
    <2>2. CASE ~(s \in S /\ Opened(s))
      <3>1. session'[s] = session[s]
        BY <1>2, <2>2
      <3> QED BY <3>1 DEF TypeOK, Opened
    <2> QED BY <2>1, <2>2
  <1> QED BY <1>2, <1>3 DEF SameTokens

-----------------------------------------------------------------------------
(* Requests *)

LEMMA Requests ==
  /\ Idle \in Request
  /\ \A r \in Request, pc \in {"idle", "wrong", "clear", "open", "rotate", "lookup", "kill",
                               "authorized", "issue", "reset"} :
        [r EXCEPT !.pc = pc] \in Request
  BY FailedLoginsPositive DEF Idle, Request

LEMMA NoFailures == 0 \in 0..(MaxFailedLogins - 1)
  BY FailedLoginsPositive

LEMMA Responds ==
  ASSUME TypeOK, NEW w \in Workers, Respond(w),
         req[w].pc = "rotate" => req[w].token \in lost'
  PROVE  req' \in [Workers -> Request] /\ \A v \in Workers : Elsewhere(v)
  <1>1. req' = [req EXCEPT ![w] = Idle]
    BY DEF Respond
  <1>2. req'[w] = Idle /\ \A v \in Workers : v # w => req'[v] = req[v]
    BY <1>1 DEF TypeOK
  <1> QED BY <1>1, <1>2, Requests DEF TypeOK, Elsewhere, HandlerOK, Idle

\* A request that moves to a step that is not part of refresh.
LEMMA MovesElsewhere ==
  ASSUME TypeOK, NEW w \in Workers, NEW r \in Request, req[w].pc # "rotate",
         r.pc \notin {"rotate", "lookup", "kill"}, req' = [req EXCEPT ![w] = r],
         r.pc \in {"wrong", "clear", "open", "authorized", "issue"} => r.user \in Users,
         r.pc \in {"clear", "open", "reset"} => r.password \in Passwords,
         r.pc = "reset" => r.link \in Links /\ link'[r.link] # NoLink
  PROVE  req' \in [Workers -> Request] /\ \A v \in Workers : Elsewhere(v)
  <1>1. req'[w] = r /\ \A v \in Workers : v # w => req'[v] = req[v]
    BY DEF TypeOK
  <1> QED BY <1>1 DEF TypeOK, Elsewhere, HandlerOK

\* Steps that leave the sessions or the user rows alone.
LEMMA RowsUntouched ==
  (UNCHANGED session => SameTokens) /\ (UNCHANGED account => StatusKept)
  BY DEF SameTokens, StatusKept, Opened

\* The login that counts, and whoever sets a password, writes a user row.
LEMMA NewPasswordType ==
  ASSUME TypeOK, NEW u \in Users, NEW p \in Passwords
  PROVE  /\ NewPassword(u, p) \in [Users -> Account]
         /\ \A x \in Users : NewPassword(u, p)[x].status = account[x].status
  <1>1. account[u] \in Account /\ 0 \in 0..(MaxFailedLogins - 1)
    BY FailedLoginsPositive DEF TypeOK
  <1>2. [account[u] EXCEPT !.password = p, !.failed = 0, !.locked = FALSE] \in Account
    BY <1>1 DEF Account
  <1>3. NewPassword(u, p) =
          [account EXCEPT ![u] = [account[u] EXCEPT !.password = p, !.failed = 0, !.locked = FALSE]]
    BY <1>1 DEF TypeOK, NewPassword, Account
  <1> QED BY <1>2, <1>3 DEF TypeOK, Account

\* A new status ends the sessions of its account, a new password too.
LEMMA RevokeKeepsStatus ==
  ASSUME TypeOK, NEW u \in Users, Revoke(Of(u)),
         \A x \in Users : x # u => account'[x].status = account[x].status
  PROVE  StatusKept
  <1> SUFFICES ASSUME NEW s \in Sessions, Opened(s), session[s].user = u
               PROVE  session'[s].revoked
    BY DEF StatusKept, TypeOK, Opened, Session
  <1>1. session'[s] = [session[s] EXCEPT !.revoked = TRUE] /\ session[s] \in Session
    BY DEF Revoke, Of, TypeOK, Opened
  <1> QED BY <1>1 DEF Session

-----------------------------------------------------------------------------
(* The steps that touch no token *)

LEMMA LoginInv ==
  ASSUME SInv, NEW w \in Workers, NEW u \in Users, NEW p \in Passwords \cup Typos, Login(w, u, p)
  PROVE  SInv'
  <1> DEFINE r == [Idle EXCEPT !.pc = IF p = account[u].password THEN "clear" ELSE "wrong",
                               !.user = u, !.password = p, !.failed = account[u].failed]
  <1>1. /\ r \in Request /\ r.pc \in {"wrong", "clear"} /\ r.user \in Users
        /\ r.pc = "clear" => r.password \in Passwords
    <2>1. /\ account[u].failed \in 0..(MaxFailedLogins - 1)
          /\ account[u].password \in Passwords
      BY DEF SInv, TypeOK, Account
    <2> QED BY <2>1 DEF Idle, Request
  <1>2. req' = [req EXCEPT ![w] = r] /\ UNCHANGED <<db, clients, history>>
    BY DEF Login
  <1> HIDE DEF r
  <1>3. req' \in [Workers -> Request] /\ \A v \in Workers : Elsewhere(v)
    <2>1. req[w].pc # "rotate" /\ TypeOK
      BY DEF SInv, Login, Idle
    <2> QED BY <1>1, <1>2, <2>1, MovesElsewhere
  <1>4. TypeOK' /\ SameTokens /\ StatusKept /\ LinksKept
    BY <1>2, <1>3, RowsUntouched DEF SInv, TypeOK, db, clients, history, made, LinksKept
  <1> QED BY <1>2, <1>3, <1>4, TokensUntouched DEF clients, history, made

LEMMA CountFailureInv ==
  ASSUME SInv, NEW w \in Workers, CountFailure(w)
  PROVE  SInv'
  <1>1. /\ UNCHANGED <<session, link, clients, history>> /\ Respond(w)
        /\ TypeOK /\ req[w] \in Request
    BY DEF CountFailure, SInv, TypeOK
  <1>2. account' \in [Users -> Account] /\ \A x \in Users : account'[x].status = account[x].status
    <2> DEFINE u == req[w].user
               f == IF req[w].failed + 1 >= MaxFailedLogins THEN 0 ELSE req[w].failed + 1
               k == req[w].failed + 1 >= MaxFailedLogins
    <2>1. account' = [account EXCEPT ![u].failed = f, ![u].locked = k]
      BY DEF CountFailure
    <2>2. f \in 0..(MaxFailedLogins - 1) /\ k \in BOOLEAN
      BY <1>1, FailedLoginsPositive DEF Request
    <2> HIDE DEF f, k, u
    <2>3. ASSUME NEW x \in Users 
              PROVE  account'[x] \in Account /\ account'[x].status = account[x].status
      BY <1>1, <2>1, <2>2 DEF TypeOK, Account
    <2> QED BY <1>1, <2>1, <2>3 DEF TypeOK
  <1>3. StatusKept
    BY <1>1, <1>2 DEF StatusKept, TypeOK, Opened, Session
  <1>4. req[w].pc = "wrong"
    BY DEF CountFailure
  <1>5. req' \in [Workers -> Request] /\ \A v \in Workers : Elsewhere(v)
    BY <1>1, <1>4, Responds
  <1>6. TypeOK' /\ SameTokens /\ LinksKept
    BY <1>1, <1>2, <1>5, RowsUntouched DEF TypeOK, clients, history, made, LinksKept
  <1> QED BY <1>1, <1>3, <1>5, <1>6, TokensUntouched DEF clients, history, made

LEMMA ClearFailuresInv ==
  ASSUME SInv, NEW w \in Workers, ClearFailures(w)
  PROVE  SInv'
  <1>1. /\ UNCHANGED <<session, link, clients, history>> /\ TypeOK
        /\ req[w] \in Request /\ req' = [req EXCEPT ![w].pc = "open"]
        /\ req[w].user \in Users /\ req[w].password \in Passwords
        /\ account' = [account EXCEPT ![req[w].user].failed = 0, ![req[w].user].locked = FALSE]
    BY DEF ClearFailures, SInv, TypeOK, HandlerOK
  <1>2. [req[w] EXCEPT !.pc = "open"] \in Request
    BY <1>1, Requests
  <1>3. req' \in [Workers -> Request] /\ \A v \in Workers : Elsewhere(v)
    <2>1. /\ [req[w] EXCEPT !.pc = "open"].pc = "open"
          /\ [req[w] EXCEPT !.pc = "open"].user \in Users
          /\ [req[w] EXCEPT !.pc = "open"].password \in Passwords
      BY <1>1 DEF Request
    <2>2. req' = [req EXCEPT ![w] = [req[w] EXCEPT !.pc = "open"]]
      BY <1>1
    <2>3. req[w].pc # "rotate"
      BY DEF ClearFailures
    <2> QED BY <1>1, <1>2, <2>1, <2>2, <2>3, MovesElsewhere
  <1>4. account' \in [Users -> Account] /\ \A x \in Users : account'[x].status = account[x].status
    <2>1. 0 \in 0..(MaxFailedLogins - 1)
      BY FailedLoginsPositive
    <2>2. ASSUME NEW x \in Users 
          PROVE  account'[x] \in Account /\ account'[x].status = account[x].status
      BY <1>1, <2>1 DEF TypeOK, Account
    <2> QED BY <1>1, <2>2 DEF TypeOK
  <1>5. StatusKept
    BY <1>1, <1>4 DEF StatusKept, TypeOK, Opened, Session
  <1>6. TypeOK' /\ SameTokens /\ LinksKept
    BY <1>1, <1>3, <1>4, RowsUntouched DEF TypeOK, clients, history, made, LinksKept
  <1> QED BY <1>1, <1>3, <1>5, <1>6, TokensUntouched DEF clients, history, made

LEMMA AuthorizeInv ==
  ASSUME SInv, NEW w \in Workers, NEW s \in Sessions, Authorize(w, s)
  PROVE  SInv'
  <1> DEFINE r == [Idle EXCEPT !.pc = "authorized", !.session = s, !.user = session[s].user]
  <1>1. r \in Request /\ r.pc = "authorized" /\ r.user \in Users
    <2>1. session[s].user \in Users
      BY DEF SInv, TypeOK, Authorize, InForce, Usable, Opened, Session
    <2> QED BY <2>1, NoFailures DEF Idle, Request
  <1>2. req' = [req EXCEPT ![w] = r] /\ UNCHANGED <<db, clients, history>>
    BY DEF Authorize
  <1> HIDE DEF r
  <1>3. req' \in [Workers -> Request] /\ \A v \in Workers : Elsewhere(v)
    <2>1. req[w].pc # "rotate" /\ TypeOK
      BY DEF SInv, Authorize, Idle
    <2> QED BY <1>1, <1>2, <2>1, MovesElsewhere
  <1>4. TypeOK' /\ SameTokens /\ StatusKept /\ LinksKept
    BY <1>2, <1>3, RowsUntouched DEF SInv, TypeOK, db, clients, history, made, LinksKept
  <1> QED BY <1>2, <1>3, <1>4, TokensUntouched DEF clients, history, made

\* Requests that revoke sessions and answer.
LEMMA RevokingInv ==
  ASSUME SInv, NEW w \in Workers, NEW S, Revoke(S), Respond(w),
         req[w].pc # "rotate", UNCHANGED <<account, link, clients, history>>
  PROVE  SInv'
  <1>1. TypeOK
    BY DEF SInv
  <1>2. session' \in [Sessions -> Session \cup {NoSession}] /\ SameTokens
    BY <1>1, RevokeKeepsTokens
  <1>3. req' \in [Workers -> Request] /\ \A v \in Workers : Elsewhere(v)
    BY <1>1, Responds
  <1>4. TypeOK' /\ LinksKept
    BY <1>1, <1>2, <1>3 DEF TypeOK, LinksKept, clients, history, made
  <1> QED BY <1>2, <1>3, <1>4, RowsUntouched, TokensUntouched DEF clients, history, made

LEMMA SignedInInv ==
  ASSUME SInv, NEW w \in Workers, SignedIn(w)
  PROVE  SInv'
  <1>1. CASE \E s \in Sessions : Authorize(w, s)
    BY <1>1, AuthorizeInv
  <1>2. CASE \E S : Authorized(w, S)
    BY <1>2, RevokingInv DEF Authorized
  <1> QED BY <1>1, <1>2 DEF SignedIn, Logout, RevokeSession, RevokeAllSessions

LEMMA LinkStepsInv ==
  ASSUME SInv, NEW w \in Workers,
         \/ \E u \in Users : ForgotPassword(w, u)
         \/ \E l \in Links : IssueLink(w, l)
         \/ \E l \in Links, p \in Passwords : StartReset(w, l, p)
  PROVE  SInv'
  <1> TypeOK
    BY DEF SInv
  <1>1. CASE \E u \in Users : ForgotPassword(w, u)
    <2>1. PICK u \in Users : ForgotPassword(w, u)
      BY <1>1
    <2> DEFINE r == [Idle EXCEPT !.pc = "issue", !.user = u]
    <2>2. r \in Request /\ r.pc = "issue" /\ r.user \in Users /\ req' = [req EXCEPT ![w] = r]
      <3>1. r \in Request /\ r.pc = "issue" /\ r.user \in Users
        BY NoFailures DEF Idle, Request
      <3>2. req' = [req EXCEPT ![w] = r]
        BY <2>1 DEF ForgotPassword
      <3> QED BY <3>1, <3>2
    <2>3. link' \in [Links -> Link \cup {NoLink}] /\ LinksKept /\ asked' \in Nat
      <3>1. ASSUME NEW l \in Links
            PROVE  link'[l] \in Link \cup {NoLink} /\ (link[l] # NoLink => link'[l] # NoLink)
        <4>1. CASE link[l] # NoLink /\ link[l].user = u
          <5>1. link'[l] = [link[l] EXCEPT !.used = TRUE] /\ link[l] \in Link
            BY <2>1, <4>1 DEF ForgotPassword, TypeOK
          <5>2. link'[l] \in Link
            BY <5>1 DEF Link
          <5>3. link'[l] # NoLink
            BY <5>2, AbsentRows
          <5> QED BY <5>2, <5>3
        <4>2. CASE ~(link[l] # NoLink /\ link[l].user = u)
          BY <2>1, <4>2 DEF ForgotPassword, TypeOK
        <4> QED BY <4>1, <4>2
      <3>2. link' \in [Links -> Link \cup {NoLink}]
        <4> DEFINE row(l) == IF link[l] # NoLink /\ link[l].user = u
                             THEN [link[l] EXCEPT !.used = TRUE] ELSE link[l]
        <4>1. link' = [l \in Links |-> row(l)]
          BY <2>1 DEF ForgotPassword
        <4> HIDE DEF row
        <4>2. \A l \in Links : row(l) = link'[l]
          BY <4>1
        <4> QED BY <3>1, <4>1, <4>2
      <3>3. asked' \in Nat
        <4>1. asked' = asked + 1
          BY <2>1 DEF ForgotPassword
        <4>2. asked \in Nat
          BY DEF TypeOK
        <4> QED BY <4>1, <4>2
      <3> QED BY <3>1, <3>2, <3>3 DEF LinksKept
    <2> HIDE DEF r
    <2>4. req' \in [Workers -> Request] /\ \A v \in Workers : Elsewhere(v)
      <3>1. req[w].pc # "rotate"
        <4>1. req[w] = Idle
          BY <2>1 DEF ForgotPassword
        <4> QED BY <4>1 DEF Idle
      <3> QED BY <2>2, <3>1, MovesElsewhere
    <2>5. UNCHANGED <<account, session, clients, made, opened, faults>>
      BY <2>1 DEF ForgotPassword
    <2>6. TypeOK' /\ SameTokens /\ StatusKept
      BY <2>3, <2>4, <2>5, RowsUntouched DEF TypeOK, clients, made
    <2> QED BY <2>3, <2>4, <2>5, <2>6, TokensUntouched DEF clients, made
  <1>2. CASE \E l \in Links : IssueLink(w, l)
    <2>1. PICK l \in Links : IssueLink(w, l)
      BY <1>2
    <2>2. req[w].user \in Users
      BY <2>1 DEF SInv, HandlerOK, IssueLink
    <2>3. UNCHANGED <<account, session, clients, history>> /\ Respond(w)
      BY <2>1 DEF IssueLink
    <2>4. req' \in [Workers -> Request] /\ \A v \in Workers : Elsewhere(v)
      BY <2>1, <2>3, Responds DEF IssueLink
    <2>5. link' \in [Links -> Link \cup {NoLink}] /\ LinksKept
      <3>1. [user |-> req[w].user, used |-> FALSE, expired |-> FALSE] \in Link
        BY <2>2 DEF Link
      <3> QED BY <2>1, <3>1 DEF IssueLink, TypeOK, LinksKept
    <2>6. TypeOK' /\ SameTokens /\ StatusKept
      BY <2>3, <2>4, <2>5, RowsUntouched DEF TypeOK, clients, history, made
    <2> QED BY <2>3, <2>4, <2>5, <2>6, TokensUntouched DEF clients, history, made
  <1>3. CASE \E l \in Links, p \in Passwords : StartReset(w, l, p)
    <2>1. PICK l \in Links, p \in Passwords : StartReset(w, l, p)
      BY <1>3
    <2> DEFINE r == [Idle EXCEPT !.pc = "reset", !.link = l, !.password = p]
    <2>2. /\ r \in Request /\ r.pc = "reset" /\ r.password \in Passwords /\ r.link = l
          /\ req' = [req EXCEPT ![w] = r]
      <3>1. r \in Request /\ r.pc = "reset" /\ r.password \in Passwords /\ r.link = l
        BY NoFailures DEF Idle, Request
      <3>2. req' = [req EXCEPT ![w] = r]
        BY <2>1 DEF StartReset
      <3> QED BY <3>1, <3>2
    <2> HIDE DEF r
    <2>3. link'[l] # NoLink
      BY <2>1 DEF StartReset, db
    <2>4. req' \in [Workers -> Request] /\ \A v \in Workers : Elsewhere(v)
      <3>1. req[w].pc # "rotate"
        <4>1. req[w] = Idle
          BY <2>1 DEF StartReset
        <4> QED BY <4>1 DEF Idle
      <3> QED BY <2>2, <2>3, <3>1, MovesElsewhere
    <2>5. UNCHANGED <<db, clients, history>>
      BY <2>1 DEF StartReset
    <2>6. TypeOK' /\ SameTokens /\ StatusKept /\ LinksKept
      BY <2>4, <2>5, RowsUntouched DEF TypeOK, db, clients, history, made, LinksKept
    <2> QED BY <2>4, <2>5, <2>6, TokensUntouched DEF clients, history, made
  <1> QED BY <1>1, <1>2, <1>3

\* Steps that write user rows, links or the marks of sessions, and no request
\* that is not answered by them.
LEMMA RowStepsInv ==
  ASSUME SInv, account' \in [Users -> Account],
         session' \in [Sessions -> Session \cup {NoSession}], SameTokens,
         link' \in [Links -> Link \cup {NoLink}], LinksKept,
         StatusKept,
         \/ req' = req
         \/ \E w \in Workers : Respond(w) /\ (req[w].pc = "rotate" => req[w].token \in lost'),
         UNCHANGED <<clients, origin, from, opened, asked>>, faults' \in Nat,
         lost \subseteq lost', lost' \subseteq Tokens
  PROVE  SInv'
  <1>1. TypeOK
    BY DEF SInv
  <1>2. req' \in [Workers -> Request] /\ \A v \in Workers : Elsewhere(v)
    <2>1. CASE req' = req
      BY <1>1, <2>1 DEF TypeOK, Elsewhere
    <2>2. CASE \E w \in Workers : Respond(w) /\ (req[w].pc = "rotate" => req[w].token \in lost')
      BY <1>1, <2>2, Responds
    <2> QED BY <2>1, <2>2
  <1>3. TypeOK'
    BY <1>1, <1>2 DEF TypeOK, clients
  <1> QED BY <1>2, <1>3, TokensUntouched DEF clients

LEMMA ResetPasswordInv ==
  ASSUME SInv, NEW w \in Workers, ResetPassword(w)
  PROVE  SInv'
  <1> DEFINE l == req[w].link
             u == link[l].user
  <1>1. TypeOK /\ l \in Links /\ link[l] # NoLink /\ req[w].password \in Passwords
    BY DEF SInv, HandlerOK, ResetPassword
  <1>2. link[l] \in Link /\ u \in Users
    BY <1>1 DEF TypeOK, Link
  <1>3. link' \in [Links -> Link \cup {NoLink}] /\ LinksKept
    <2>1. link' = [link EXCEPT ![l] = [link[l] EXCEPT !.used = TRUE]]
      BY DEF ResetPassword
    <2>2. [link[l] EXCEPT !.used = TRUE] \in Link
      BY <1>2 DEF Link
    <2> QED BY <1>1, <2>1, <2>2, AbsentRows DEF TypeOK, LinksKept
  <1>4. account' \in [Users -> Account] /\ StatusKept
    <2>1. /\ account' \in [Users -> Account] /\ Revoke(Of(u))
          /\ \A x \in Users : account'[x].status = account[x].status
      BY <1>1, <1>2, NewPasswordType DEF ResetPassword
    <2> QED BY <1>1, <1>2, <2>1, RevokeKeepsStatus
  <1>5. session' \in [Sessions -> Session \cup {NoSession}] /\ SameTokens
    BY <1>1, RevokeKeepsTokens DEF ResetPassword
  <1>6. /\ Respond(w) /\ req[w].pc # "rotate"
        /\ UNCHANGED <<clients, history>> /\ faults \in Nat /\ lost \subseteq Tokens
    BY <1>1 DEF ResetPassword, TypeOK
  <1> QED BY <1>3, <1>4, <1>5, <1>6, RowStepsInv DEF history, made

LEMMA AdministratorInv ==
  ASSUME SInv, NEW u \in Users,
         \/ \E status \in Statuses : SetUserStatus(u, status)
         \/ \E p \in Passwords : AdminResetPassword(u, p)
         \/ Unlock(u)
  PROVE  SInv'
  <1>1. TypeOK /\ faults \in Nat /\ lost \subseteq Tokens /\ link \in [Links -> Link \cup {NoLink}]
    BY DEF SInv, TypeOK
  <1>2. UNCHANGED <<link, req, clients, history>>
    BY DEF SetUserStatus, AdminResetPassword, Unlock
  <1>3. account' \in [Users -> Account] /\ StatusKept
    <2>1. CASE \E status \in Statuses : SetUserStatus(u, status)
      <3>1. /\ account' \in [Users -> Account] /\ Revoke(Of(u))
            /\ \A x \in Users : x # u => account'[x].status = account[x].status
        BY <1>1, <2>1 DEF TypeOK, Account, SetUserStatus
      <3> QED BY <1>1, <3>1, RevokeKeepsStatus
    <2>2. CASE \E p \in Passwords : AdminResetPassword(u, p)
      <3>1. /\ account' \in [Users -> Account] /\ Revoke(Of(u))
            /\ \A x \in Users : account'[x].status = account[x].status
        BY <1>1, <2>2, NewPasswordType DEF AdminResetPassword
      <3> QED BY <1>1, <3>1, RevokeKeepsStatus
    <2>3. CASE Unlock(u)
      <3>1. /\ account' \in [Users -> Account]
            /\ \A x \in Users : account'[x].status = account[x].status
        BY <1>1, <2>3 DEF TypeOK, Account, Unlock
      <3> QED BY <1>1, <3>1 DEF StatusKept, TypeOK, Opened, Session
    <2> QED BY <2>1, <2>2, <2>3
  <1>4. session' \in [Sessions -> Session \cup {NoSession}] /\ SameTokens
    <2>1. CASE Revoke(Of(u))
      BY <1>1, <2>1, RevokeKeepsTokens
    <2>2. CASE session' = session
      BY <1>1, <2>2, RowsUntouched DEF TypeOK
    <2> QED BY <2>1, <2>2 DEF SetUserStatus, AdminResetPassword, Unlock
  <1> QED BY <1>1, <1>2, <1>3, <1>4, RowStepsInv DEF history, made, LinksKept

LEMMA ExpireInv ==
  ASSUME SInv, Expire
  PROVE  SInv'
  <1>1. TypeOK /\ UNCHANGED <<account, req, clients, history>>
    BY DEF SInv, Expire
  <1>2. /\ session' \in [Sessions -> Session \cup {NoSession}] /\ SameTokens
        /\ link' \in [Links -> Link \cup {NoLink}] /\ LinksKept
    <2>1. CASE \E s \in Sessions : /\ Opened(s)
                                   /\ session' = [session EXCEPT ![s].expired = TRUE]
                                   /\ link' = link
      <3>1. PICK s \in Sessions : Opened(s) /\ session' = [session EXCEPT ![s].expired = TRUE]
        BY <2>1
      <3> DEFINE row == [session[s] EXCEPT !.expired = TRUE]
      <3>2. /\ row \in Session /\ row.current = session[s].current
            /\ row.previous = session[s].previous /\ row.user = session[s].user
            /\ row.revoked = session[s].revoked /\ row.expired
        BY <1>1, <3>1 DEF TypeOK, Opened, Session
      <3>3. row # NoSession
        BY <3>2, AbsentRows
      <3>4. session' = [session EXCEPT ![s] = row]
        BY <3>1
      <3> HIDE DEF row
      <3>5. session' \in [Sessions -> Session \cup {NoSession}] /\ SameTokens
        BY <1>1, <3>1, <3>2, <3>3, <3>4 DEF TypeOK, SameTokens, Opened
      <3> QED BY <1>1, <2>1, <3>5 DEF TypeOK, LinksKept
    <2>2. CASE \E l \in Links : /\ link[l] # NoLink
                                /\ link' = [link EXCEPT ![l].expired = TRUE]
                                /\ session' = session
      <3>1. PICK l \in Links : link[l] # NoLink /\ link' = [link EXCEPT ![l].expired = TRUE]
        BY <2>2
      <3>2. [link[l] EXCEPT !.expired = TRUE] \in Link
        BY <1>1, <3>1 DEF TypeOK, Link
      <3>3. link' \in [Links -> Link \cup {NoLink}] /\ LinksKept
        BY <1>1, <3>1, <3>2, AbsentRows DEF TypeOK, LinksKept
      <3> QED BY <1>1, <2>2, <3>3, RowsUntouched DEF TypeOK
    <2> QED BY <2>1, <2>2 DEF Expire
  <1> QED BY <1>1, <1>2, RowsUntouched, RowStepsInv DEF TypeOK, history, made

\* A refresh that dies before it wrote anything.
LEMMA FailInv ==
  ASSUME SInv, NEW w \in Workers, Fail(w)
  PROVE  SInv'
  <1>1. TypeOK /\ Respond(w) /\ UNCHANGED <<db, clients, origin, from, opened, asked>>
    BY DEF SInv, Fail
  <1>2. SameTokens /\ StatusKept /\ LinksKept /\ faults' \in Nat
    BY <1>1, RowsUntouched DEF Fail, TypeOK, db, LinksKept
  <1>3. /\ lost \subseteq lost' /\ lost' \subseteq Tokens
        /\ req[w].pc = "rotate" => req[w].token \in lost'
    BY <1>1 DEF SInv, PresentedOK, Fail, TypeOK
  <1> QED BY <1>1, <1>2, <1>3, RowStepsInv DEF TypeOK, db

-----------------------------------------------------------------------------
(* refresh *)

LEMMA FindReplayedInv ==
  ASSUME SInv, NEW w \in Workers, FindReplayed(w)
  PROVE  SInv'
  <1> DEFINE t == req[w].token
             found == {s \in Sessions : Opened(s) /\ session[s].previous = t}
  <1>1. TypeOK /\ req[w].pc = "lookup" /\ UNCHANGED <<db, clients, history>>
    BY DEF SInv, FindReplayed
  <1>2. t \in Tokens /\ (Replaced(t) => sent[t] = 2)
    BY <1>1 DEF SInv, PresentedOK
  <1>3. req' \in [Workers -> Request] /\ \A v \in Workers : Elsewhere(v)
    <2>1. CASE Respond(w)
      BY <1>1, <2>1, Responds
    <2>2. CASE \E s \in found :
                  req' = [req EXCEPT ![w] = [Idle EXCEPT !.pc = "kill", !.session = s]]
      <3>1. PICK s \in found :
                  req' = [req EXCEPT ![w] = [Idle EXCEPT !.pc = "kill", !.session = s]]
        BY <2>2
      <3> DEFINE r == [Idle EXCEPT !.pc = "kill", !.session = s]
      <3>2. r \in Request /\ r.pc = "kill" /\ r.session = s
        <4>1. s \in Sessions
          BY <3>1
        <4> QED BY <4>1, NoFailures DEF Idle, Request
      <3>3. Replayed(s)
        <4>1. s \in Sessions /\ Opened(s) /\ session[s].previous = t /\ t # NoToken
          BY <1>2, <3>1, AbsentRows
        <4>2. origin[t] = s /\ Replaced(t)
          BY <4>1 DEF SInv, TokensOK
        <4> QED BY <1>2, <4>2 DEF Replayed
      <3> HIDE DEF r
      <3>4. req'[w] = r /\ \A v \in Workers : v # w => req'[v] = req[v]
        BY <1>1, <3>1 DEF TypeOK, r
      <3>5. req' = [req EXCEPT ![w] = r]
        BY <3>1 DEF r
      <3> QED BY <1>1, <3>2, <3>3, <3>4, <3>5 DEF TypeOK, Elsewhere, HandlerOK
    <2> QED BY <2>1, <2>2 DEF FindReplayed
  <1>4. TypeOK' /\ SameTokens /\ StatusKept /\ LinksKept
    BY <1>1, <1>3, RowsUntouched DEF TypeOK, db, clients, history, made, LinksKept
  <1> QED BY <1>1, <1>3, <1>4, TokensUntouched DEF clients, history, made

\* The first lookup: the token counts as presented once more.
LEMMA RefreshInv ==
  ASSUME SInv, NEW w \in Workers, NEW t \in Tokens, Refresh(w, t)
  PROVE  SInv'
  <1> DEFINE found == {s \in Sessions : Opened(s) /\ session[s].current = t}
             look  == [Idle EXCEPT !.pc = "lookup", !.token = t]
             turn(s) == [Idle EXCEPT !.pc = "rotate", !.session = s, !.token = t]
  <1>1. /\ TypeOK /\ req[w] = Idle /\ t \in given
        /\ UNCHANGED <<db, given, history>>
        /\ sent' = [sent EXCEPT ![t] = IF sent[t] < 2 THEN sent[t] + 1 ELSE 2]
    BY DEF SInv, Refresh
  <1>2. /\ sent' \in [Tokens -> 0..2] /\ sent'[t] >= 1
        /\ \A x \in Tokens : /\ sent[x] \in 0..2 /\ sent'[x] >= sent[x]
                             /\ x # t => sent'[x] = sent[x]
        /\ sent[t] >= 1 => sent'[t] = 2
    BY <1>1 DEF TypeOK
  <1>3. UNCHANGED <<account, session, link, given, origin, from, lost, opened, asked, faults>>
    BY <1>1 DEF db, history, made
  <1>4. \A x \in Tokens : (sent[x] = 2 => sent'[x] = 2) /\ (sent'[x] = 0 => sent[x] = 0)
    BY <1>2
  <1>5. origin[t] # NoSession /\ origin[t] \in Sessions /\ (Replaced(t) => sent'[t] = 2)
    BY <1>1, <1>2 DEF TypeOK, SInv, TokensOK, ExchangesOK
  <1>6. /\ \A x : Replaced(x)' <=> Replaced(x)
        /\ \A x : Forked(x)' <=> Forked(x)
    BY <1>3 DEF Replaced, Forked
  <1>7. /\ \A v \in Workers : v # w => req'[v] = req[v]
        /\ \/ found = {} /\ req'[w] = look
           \/ req'[w] = Idle
           \/ \E s \in found : req'[w] = turn(s)
    <2>1. CASE found = {}
      <3>1. req' = [req EXCEPT ![w] = look]
        BY <2>1 DEF Refresh
      <3> QED BY <1>1, <2>1, <3>1 DEF TypeOK
    <2>2. CASE found # {}
      <3>1. \E s \in found : req' = [req EXCEPT ![w] = turn(s)] \/ req' = req
        BY <2>2 DEF Refresh
      <3> QED BY <1>1, <3>1 DEF TypeOK
    <2> QED BY <2>1, <2>2
  <1>7a. /\ look.pc = "lookup" /\ look.token = t /\ Idle.pc = "idle"
         /\ \A s \in found : turn(s).pc = "rotate" /\ turn(s).token = t
    BY DEF Idle
  <1>8. req' \in [Workers -> Request]
    <2>1. look \in Request /\ Idle \in Request /\ \A s \in found : turn(s) \in Request
      <3>1. look \in Request
        BY NoFailures DEF Idle, Request
      <3>2. ASSUME NEW s \in Sessions PROVE turn(s) \in Request
        BY NoFailures DEF Idle, Request
      <3>3. found \subseteq Sessions
        OBVIOUS
      <3> HIDE DEF look, turn, found
      <3> QED BY <3>1, <3>2, <3>3, Requests
    <2>2. req' = [v \in Workers |-> req'[v]]
      BY <1>1 DEF Refresh, TypeOK
    <2> HIDE DEF look, turn, found
    <2>3. \A v \in Workers : req'[v] \in Request
      BY <1>1, <1>7, <2>1 DEF TypeOK
    <2> QED BY <2>2, <2>3
  <1>9. TypeOK'
    BY <1>1, <1>2, <1>3, <1>8 DEF TypeOK
  <1>10. TokensOK'
    BY <1>2, <1>3, <1>5 DEF SInv, TokensOK, Opened, Replaced
  <1>11. ExchangesOK'
    <2>1. ASSUME NEW x \in Tokens, Replaced(x) PROVE sent'[x] >= 1
      <3>1. sent[x] >= 1
        BY <2>1 DEF SInv, ExchangesOK
      <3> QED BY <1>2, <3>1
    <2> QED BY <1>3, <2>1 DEF SInv, ExchangesOK, Replaced, Forked
  <1>12. ASSUME NEW v \in Workers PROVE RotateOK(v)' /\ PresentedOK(v)' /\ HandlerOK(v)'
    <2>1. CASE req'[v] = req[v]
      <3>1. RotateOK(v) /\ PresentedOK(v) /\ HandlerOK(v)
        BY DEF SInv
      <3>2. RotateOK(v)'
        BY <1>3, <2>1, <3>1 DEF RotateOK, Opened
      <3>3. PresentedOK(v)'
        <4> DEFINE x == req[v].token
        <4>1. SUFFICES ASSUME req[v].pc \in {"rotate", "lookup"}
                       PROVE  /\ x \in Tokens /\ origin[x] # NoSession /\ sent'[x] >= 1
                              /\ Replaced(x) => sent'[x] = 2
          BY <1>3, <2>1 DEF PresentedOK, Replaced
        <4>2. /\ x \in Tokens /\ origin[x] # NoSession /\ sent[x] >= 1
              /\ Replaced(x) => sent[x] = 2
          BY <3>1, <4>1 DEF PresentedOK
        <4> HIDE DEF x
        <4>3. sent[x] \in 0..2 /\ sent'[x] >= sent[x]
          BY <1>2, <4>2
        <4>4. sent'[x] >= 1
          BY <1>2, <4>2, <4>3
        <4> QED BY <1>4, <4>2, <4>4
      <3>4. HandlerOK(v)'
        BY <1>3, <2>1, <3>1 DEF HandlerOK
      <3> QED BY <3>2, <3>3, <3>4
    <2>2. CASE found = {} /\ req'[v] = look
      <3>1. req'[v].pc = "lookup" /\ req'[v].token = t
        BY <1>7a, <2>2
      <3> QED BY <1>2, <1>3, <1>5, <3>1 DEF RotateOK, PresentedOK, HandlerOK, Replaced
    <2>3. CASE \E s \in found : req'[v] = turn(s)
      <3>1. PICK s \in found : req'[v] = turn(s)
        BY <2>3
      <3>2. s \in Sessions /\ Opened(s) /\ session[s].current = t /\ origin[t] = s
        BY <3>1 DEF SInv, TokensOK
      <3>3. req'[v].pc = "rotate" /\ req'[v].session = s /\ req'[v].token = t
        BY <3>1 DEF Idle
      <3> QED BY <1>2, <1>3, <1>5, <3>2, <3>3
              DEF RotateOK, PresentedOK, HandlerOK, Opened, Replaced
    <2>4. CASE req'[v] = Idle
      BY <2>4 DEF RotateOK, PresentedOK, HandlerOK, Idle
    <2> QED BY <1>7, <2>1, <2>2, <2>3, <2>4
  <1>13. RefreshesApart'
    <2>1. ASSUME NEW u \in Workers, NEW v \in Workers, u # v, req'[u].token = req'[v].token,
                 req'[u].pc \in {"rotate", "lookup"}, req'[v].pc \in {"rotate", "lookup"}
          PROVE  sent'[req'[v].token] = 2
      <3>1. ASSUME NEW x \in Workers, x # w, req'[x].pc \in {"rotate", "lookup"}
            PROVE  req[x] = req'[x] /\ req[x].token \in Tokens /\ sent[req[x].token] >= 1
        BY <1>7, <3>1 DEF SInv, PresentedOK
      <3>2. CASE u # w /\ v # w
        <4>1. sent[req[v].token] = 2 /\ req[v].token \in Tokens /\ req'[v] = req[v]
          BY <2>1, <3>1, <3>2 DEF SInv, RefreshesApart
        <4> QED BY <1>4, <4>1
      <3>3. CASE u = w \/ v = w
        <4>1. req'[w].token = t
          <5> HIDE DEF look, turn, found
          <5> QED BY <1>7, <1>7a, <2>1, <3>3
        <4>2. sent[t] >= 1
          BY <2>1, <3>1, <3>3, <4>1
        <4> QED BY <1>2, <2>1, <3>3, <4>1, <4>2
      <3> QED BY <3>2, <3>3
    <2> QED BY <2>1 DEF RefreshesApart
  <1>14. LockoutsExplained'
    <2>1. AnswersWork'
      <3>1. \A r \in Tokens : Forked(r)' => sent'[r] = 2
        BY <1>4, <1>6 DEF SInv, LockoutsExplained, AnswersWork
      <3>2. (TypeOK /\ TokensOK /\ ExchangesOK /\ (\A r \in Tokens : Forked(r) => sent[r] = 2)
                => AnswersWork)'
        BY AnswersFollow, PTL
      <3> QED BY <1>9, <1>10, <1>11, <3>1, <3>2
    <2>2. ASSUME NEW s \in Sessions, InForce(s)
          PROVE  Reachable(s)'
      <3> DEFINE x == session[s].current
      <3>1. Reachable(s) /\ Opened(s) /\ x \in Tokens
        BY <1>1, <2>2 DEF SInv, LockoutsExplained, InForce, Usable, Opened, TypeOK, Session
      <3>2. CASE x = t
        <4>1. s \in found
          BY <3>1, <3>2
        <4>2. origin[t] = s /\ \A y \in found : origin[t] = y
          BY <3>1, <3>2 DEF SInv, TokensOK
        <4>3. found = {s}
          BY <4>1, <4>2
        <4>4. req' = [req EXCEPT ![w] = turn(s)]
          BY <2>2, <4>3 DEF Refresh
        <4>5. req'[w] = turn(s)
          BY <1>1, <4>4 DEF TypeOK
        <4>6. req'[w].pc = "rotate" /\ req'[w].session = s /\ req'[w].token = t
          BY <4>5 DEF Idle
        <4> QED BY <1>3, <3>2, <4>6 DEF Reachable
      <3>3. CASE x # t
        <4> HIDE DEF look, turn, found
        <4>1. sent'[x] = sent[x]
          BY <1>2, <3>1, <3>3
        <4>2. ASSUME NEW v \in Workers, req[v].pc = "rotate" PROVE req'[v] = req[v]
          BY <1>1, <1>7, <4>2 DEF Idle
        <4>3. \A v \in Workers : req[v].pc = "rotate" => req'[v] = req[v]
          BY <4>2
        <4> QED BY <1>3, <3>1, <4>1, <4>3 DEF Reachable
      <3> QED BY <3>2, <3>3
    <2>3. \A s \in Sessions : InForce(s)' <=> InForce(s)
      BY <1>3 DEF InForce, Usable, Opened
    <2>4. ASSUME NEW v \in Workers, req'[v].pc = "kill"
          PROVE  Replayed(req[v].session)' /\ req'[v] = req[v]
      <3>1. req'[v] = req[v]
        <4> HIDE DEF look, turn, found
        <4> QED BY <1>7, <1>7a, <2>4
      <3>2. Replayed(req[v].session)
        BY <2>4, <3>1 DEF SInv, LockoutsExplained
      <3>3. PICK x \in Tokens : origin[x] = req[v].session /\ Replaced(x) /\ sent[x] = 2
        BY <3>2 DEF Replayed
      <3>4. origin'[x] = req[v].session /\ sent'[x] = 2 /\ \E n \in Tokens : from'[n] = x
        BY <1>3, <1>4, <3>3 DEF Replaced
      <3> QED BY <3>1, <3>4 DEF Replayed, Replaced
    <2>5. \A v \in Workers : (req[v].pc = "kill" => Replayed(req[v].session))'
      BY <2>4 DEF Replayed, Replaced
    <2> QED BY <2>1, <2>2, <2>3, <2>5 DEF LockoutsExplained
  <1> QED BY <1>9, <1>10, <1>11, <1>12, <1>13, <1>14 DEF SInv

-----------------------------------------------------------------------------
(* The steps that make a token *)

\* Session s gets the fresh token t, in exchange for old; the other rows stay.
MakesToken(w, s, t, old) ==
    /\ s \in Sessions /\ t \in Tokens /\ Fresh(t)
    /\ session' = [session EXCEPT ![s] = session'[s]]
    /\ session'[s] \in Session /\ session'[s].current = t /\ session'[s].previous = old
    /\ origin' = [origin EXCEPT ![t] = s]
    /\ from' = [from EXCEPT ![t] = old]
    /\ \/ given' = given \cup {t} /\ lost' = lost
       \/ given' = given /\ lost' = lost \cup {t}
    /\ Respond(w)
    /\ UNCHANGED <<account, link, sent, asked>>
    /\ \/ old = NoToken /\ ~Opened(s) /\ req[w].pc = "open"
       \/ /\ old \in Tokens
          /\ req[w].pc = "rotate" /\ req[w].session = s /\ req[w].token = old

\* What both steps have in common; the rows they write differ.
LEMMA MakesTokenInv ==
  ASSUME SInv, NEW w \in Workers, NEW s, NEW t, NEW old, MakesToken(w, s, t, old),
         opened' \in [Sessions -> Passwords \cup {NoPassword}], faults' \in Nat
  PROVE  SInv'
  <1>1. /\ TypeOK /\ s \in Sessions /\ t \in Tokens /\ origin[t] = NoSession
        /\ UNCHANGED <<account, link, sent, asked>>
        /\ origin' = [origin EXCEPT ![t] = s] /\ from' = [from EXCEPT ![t] = old]
    BY DEF SInv, MakesToken, Fresh
  <1>2. t \notin given /\ sent[t] = 0 /\ from[t] = NoToken /\ ~Replaced(t)
    BY <1>1 DEF SInv, TokensOK
  <1>3. \A x \in Tokens : x # t => origin'[x] = origin[x] /\ from'[x] = from[x]
    BY <1>1 DEF TypeOK
  <1>4. origin'[t] = s /\ s # NoSession /\ from'[t] = old
    BY <1>1, AbsentRows DEF TypeOK
  <1>5. \/ old = NoToken /\ ~Opened(s)
        \/ /\ old \in Tokens /\ origin[old] = s /\ Opened(s) /\ sent[old] >= 1
           /\ Replaced(old) => sent[old] = 2
           /\ \A v \in Workers :
                 v # w /\ req[v].pc \in {"rotate", "lookup"} /\ req[v].token = old
                     => sent[old] = 2
    <2>1. CASE old = NoToken /\ ~Opened(s)
      BY <2>1
    <2>2. CASE /\ old \in Tokens
               /\ req[w].pc = "rotate" /\ req[w].session = s /\ req[w].token = old
      BY <2>2 DEF SInv, RotateOK, PresentedOK, RefreshesApart
    <2> QED BY <2>1, <2>2 DEF MakesToken
  <1>5a. t # old
    BY <1>1, <1>2, <1>5, AbsentRows
  <1>6. /\ \A y \in Sessions : y # s => session'[y] = session[y]
        /\ session'[s] # NoSession /\ session'[s].current = t /\ session'[s].previous = old
        /\ \A y \in Sessions : Opened(y) => Opened(y)'
    BY <1>1, AbsentRows DEF MakesToken, TypeOK, Opened
  <1>7. /\ \A v \in Workers : v # w => req'[v] = req[v]
        /\ req'[w].pc = "idle" /\ req' \in [Workers -> Request]
    BY <1>1, Requests DEF MakesToken, Respond, TypeOK, Idle
  <1>8. TypeOK'
    <2>1. /\ session' = [session EXCEPT ![s] = session'[s]] /\ session'[s] \in Session
          /\ given' \subseteq Tokens /\ lost' \subseteq Tokens
      BY <1>1 DEF MakesToken, TypeOK
    <2>2. session' \in [Sessions -> Session \cup {NoSession}]
      BY <1>1, <2>1 DEF TypeOK
    <2>3. from' \in [Tokens -> Tokens \cup {NoToken}]
      BY <1>1, <1>5 DEF TypeOK
    <2> QED BY <1>1, <1>7, <2>1, <2>2, <2>3 DEF TypeOK
  \* The tree of tokens grows by one leaf.
  <1>9. /\ \A x \in Tokens : Replaced(x)' <=> Replaced(x) \/ x = old
        /\ \A x \in Tokens : Forked(x) => Forked(x)'
        /\ \A x \in Tokens : Forked(x)' => Forked(x) \/ (x = old /\ Replaced(x))
        /\ old \in Tokens /\ Replaced(old) => Forked(old)'
    <2>1. ASSUME NEW x \in Tokens
          PROVE  /\ Replaced(x)' <=> Replaced(x) \/ x = old
                 /\ Forked(x) => Forked(x)'
                 /\ Forked(x)' => Forked(x) \/ (x = old /\ Replaced(x))
                 /\ x = old /\ Replaced(x) => Forked(x)'
      <3>1. \A n \in Tokens : from'[n] = x <=> (from[n] = x \/ (n = t /\ x = old))
        BY <1>2, <1>3, <1>4, AbsentRows
      <3>2. from[t] # x
        BY <1>2, AbsentRows
      <3>3. Replaced(x)' <=> Replaced(x) \/ x = old
        BY <1>1, <3>1 DEF Replaced
      <3>4. (Forked(x) => Forked(x)') /\ (Forked(x)' => Forked(x) \/ (x = old /\ Replaced(x)))
        BY <1>1, <3>1 DEF Forked, Replaced
      <3>5. x = old /\ Replaced(x) => Forked(x)'
        BY <1>1, <3>1, <3>2 DEF Forked, Replaced
      <3> QED BY <3>3, <3>4, <3>5
    <2> QED BY <2>1
  <1>10. TokensOK'
    <2>1. ASSUME NEW x \in Tokens
          PROVE  /\ origin'[x] # NoSession => session'[origin'[x]] # NoSession
                 /\ origin'[x] = NoSession => /\ x \notin given' /\ sent'[x] = 0
                                              /\ from'[x] = NoToken /\ ~Replaced(x)'
      <3>1. CASE x = t
        BY <1>4, <1>6, <3>1
      <3>2. CASE x # t
        <4>1. origin'[x] = origin[x] /\ from'[x] = from[x] /\ origin[x] \in Sessions \cup {NoSession}
              /\ (x \in given' => x \in given) /\ sent'[x] = sent[x]
          BY <1>1, <1>3, <3>2 DEF TypeOK, MakesToken
        <4>2. origin[x] # NoSession => session'[origin[x]] # NoSession
          BY <1>6, <4>1 DEF SInv, TokensOK, Opened
        <4>3. origin[x] = NoSession => x # old
          BY <1>4, <1>5, AbsentRows
        <4> QED BY <1>9, <4>1, <4>2, <4>3 DEF SInv, TokensOK
      <3> QED BY <3>1, <3>2
    <2>2. ASSUME NEW y \in Sessions, session'[y] # NoSession
          PROVE  /\ origin'[session'[y].current] = y
                 /\ session'[y].previous # NoToken =>
                       /\ session'[y].previous \in Tokens
                       /\ origin'[session'[y].previous] = y
                       /\ \E n \in Tokens : from'[n] = session'[y].previous
      <3>1. CASE y = s
        BY <1>1, <1>3, <1>4, <1>5, <1>5a, <1>6, <3>1
      <3>2. CASE y # s
        <4>1. session'[y] = session[y] /\ Opened(y) /\ session[y] \in Session
          BY <1>1, <1>6, <2>2, <3>2 DEF TypeOK, Opened
        <4> DEFINE c == session[y].current
                   q == session[y].previous
        <4>2. /\ origin[c] = y /\ c \in Tokens
              /\ q # NoToken => q \in Tokens /\ origin[q] = y /\ Replaced(q)
          BY <4>1 DEF SInv, TokensOK, Session
        <4> HIDE DEF c, q
        <4>3. y # NoSession
          BY AbsentRows
        <4>4. origin'[c] = y
          BY <1>1, <1>3, <4>2, <4>3
        <4>5. q # NoToken => origin'[q] = y /\ \E n \in Tokens : from'[n] = q
          BY <1>1, <1>3, <1>9, <4>2, <4>3 DEF Replaced
        <4> QED BY <4>1, <4>2, <4>4, <4>5 DEF c, q
      <3> QED BY <3>1, <3>2
    <2> QED BY <2>1, <2>2 DEF TokensOK, Opened, Replaced
  <1>11. ExchangesOK'
    <2>1. ASSUME NEW x \in Tokens, Replaced(x)' PROVE sent'[x] >= 1
      BY <1>1, <1>5, <1>9, <2>1, AbsentRows DEF SInv, ExchangesOK
    <2>2. ASSUME NEW n \in Tokens, from'[n] # NoToken
          PROVE  origin'[from'[n]] = origin'[n]
      <3>1. CASE n = t
        BY <1>3, <1>4, <1>5, <1>5a, <2>2, <3>1
      <3>2. CASE n # t
        <4>1. /\ from'[n] = from[n] /\ from[n] \in Tokens /\ origin'[n] = origin[n]
              /\ origin[from[n]] = origin[n]
          BY <1>1, <1>3, <2>2, <3>2 DEF SInv, ExchangesOK, TypeOK
        <4>2. from[n] # t
          BY <1>2, <4>1 DEF Replaced
        <4> QED BY <1>3, <4>1, <4>2
      <3> QED BY <3>1, <3>2
    <2>3. ASSUME NEW x \in Tokens, origin'[x] # NoSession, ~Replaced(x)'
          PROVE  \/ session'[origin'[x]].current = x
                 \/ \E z \in Tokens : origin'[z] = origin'[x] /\ Forked(z)'
      <3>1. CASE x = t
        BY <1>4, <1>6, <3>1
      <3>2. CASE x # t
        <4> DEFINE y == origin[x]
        <4>1. origin'[x] = y /\ y # NoSession /\ ~Replaced(x) /\ x # old /\ y \in Sessions
          BY <1>1, <1>3, <1>9, <2>3, <3>2 DEF TypeOK
        <4>2. \/ session[y].current = x
              \/ \E z \in Tokens : origin[z] = y /\ Forked(z)
          BY <4>1 DEF SInv, ExchangesOK
        <4>3. CASE \E z \in Tokens : origin[z] = y /\ Forked(z)
          <5>1. PICK z \in Tokens : origin[z] = y /\ Forked(z)
            BY <4>3
          <5>2. z # t
            BY <1>1, <4>1, <5>1
          <5> QED BY <1>3, <1>9, <4>1, <5>1, <5>2
        <4>4. CASE session[y].current = x /\ y # s
          BY <1>6, <4>1, <4>4
        <4>5. CASE session[y].current = x /\ y = s
          <5>1. Opened(s)
            BY <4>1, <4>5 DEF SInv, TokensOK
          <5>2. old \in Tokens /\ origin[old] = s /\ old # x
            BY <1>5, <4>1, <5>1
          <5>3. Replaced(old) \/ \E z \in Tokens : origin[z] = s /\ Forked(z)
            <6>1. \/ Replaced(old) \/ session[s].current = old
                  \/ \E z \in Tokens : origin[z] = s /\ Forked(z)
              BY <1>4, <5>2 DEF SInv, ExchangesOK
            <6> QED BY <4>5, <5>2, <6>1
          <5>4. CASE Replaced(old)
            BY <1>3, <1>5a, <1>9, <4>1, <4>5, <5>2, <5>4
          <5>5. CASE \E z \in Tokens : origin[z] = s /\ Forked(z)
            BY <4>3, <4>5, <5>5
          <5> QED BY <5>3, <5>4, <5>5
        <4> QED BY <4>2, <4>3, <4>4, <4>5
      <3> QED BY <3>1, <3>2
    <2>4. \A x \in Tokens : (origin[x] # NoSession /\ ~Replaced(x) =>
                                \/ session[origin[x]].current = x
                                \/ \E z \in Tokens : origin[z] = origin[x] /\ Forked(z))'
      BY <2>3 DEF Forked
    <2> QED BY <2>1, <2>2, <2>4 DEF ExchangesOK
  <1>12. ASSUME NEW v \in Workers PROVE RotateOK(v)' /\ PresentedOK(v)' /\ HandlerOK(v)'
    <2>1. CASE v = w
      BY <1>7, <2>1 DEF RotateOK, PresentedOK, HandlerOK
    <2>2. CASE v # w
      <3> DEFINE x == req[v].token
                 y == req[v].session
      <3>1. req'[v] = req[v] /\ RotateOK(v) /\ PresentedOK(v) /\ HandlerOK(v)
        BY <1>7, <2>2 DEF SInv
      <3>2. req[v].pc \in {"rotate", "lookup"} =>
               x \in Tokens /\ x # t /\ origin'[x] = origin[x] /\ origin[x] # NoSession
        BY <1>1, <1>3, <3>1 DEF PresentedOK
      <3>3. RotateOK(v)'
        <4>1. req[v].pc = "rotate" => y \in Sessions /\ Opened(y)' /\ origin'[x] = y
          BY <1>6, <3>1, <3>2 DEF RotateOK
        <4> QED BY <3>1, <4>1 DEF RotateOK, Opened
      <3>4. PresentedOK(v)'
        <4>1. SUFFICES ASSUME req[v].pc \in {"rotate", "lookup"}, NEW z, z = x
                       PROVE  sent'[z] >= 1 /\ (Replaced(z)' => sent'[z] = 2)
          BY <3>1, <3>2 DEF PresentedOK, Replaced
        <4>2. z \in Tokens /\ sent[z] >= 1 /\ (Replaced(z) => sent[z] = 2)
          BY <3>1, <3>2, <4>1 DEF PresentedOK
        <4>3. z = old => sent[z] = 2
          BY <1>5, <2>2, <4>1, <4>2, AbsentRows
        <4> QED BY <1>1, <1>9, <4>2, <4>3
      <3>5. HandlerOK(v)'
        BY <1>1, <3>1 DEF HandlerOK
      <3> QED BY <3>3, <3>4, <3>5
    <2> QED BY <2>1, <2>2
  <1>13. RefreshesApart'
    <2>1. ASSUME NEW u \in Workers, NEW v \in Workers, u # v, req'[u].token = req'[v].token,
                 req'[u].pc \in {"rotate", "lookup"}, req'[v].pc \in {"rotate", "lookup"}
          PROVE  sent'[req'[v].token] = 2
      <3>1. u # w /\ v # w
        BY <1>7, <2>1
      <3> QED BY <1>1, <1>7, <2>1, <3>1 DEF SInv, RefreshesApart
    <2> QED BY <2>1 DEF RefreshesApart
  <1>14. LockoutsExplained'
    <2>1. AnswersWork'
      <3>1. \A x \in Tokens : Forked(x)' => sent'[x] = 2
        BY <1>1, <1>5, <1>9, AbsentRows DEF SInv, LockoutsExplained, AnswersWork
      <3>2. (TypeOK /\ TokensOK /\ ExchangesOK /\ (\A r \in Tokens : Forked(r) => sent[r] = 2)
                => AnswersWork)'
        BY AnswersFollow, PTL
      <3> QED BY <1>8, <1>10, <1>11, <3>1, <3>2
    <2>2. ASSUME NEW y \in Sessions, InForce(y)' PROVE Reachable(y)'
      <3>1. CASE y = s
        <4>1. t \in given' \/ t \in lost'
          BY DEF MakesToken
        <4> QED BY <1>1, <1>2, <1>6, <3>1, <4>1 DEF Reachable
      <3>2. CASE y # s
        <4>1. session'[y] = session[y] /\ InForce(y)
          BY <1>1, <1>6, <2>2, <3>2 DEF InForce, Usable, Opened
        <4>2. Reachable(y)
          BY <4>1 DEF SInv, LockoutsExplained
        <4>3. ASSUME NEW v \in Workers, req[v].pc = "rotate", req[v].session = y
              PROVE  req'[v] = req[v]
          BY <1>5, <1>7, <3>2, <4>3 DEF MakesToken
        <4>4. given \subseteq given' /\ lost \subseteq lost'
          BY DEF MakesToken
        <4> QED BY <1>1, <4>1, <4>2, <4>3, <4>4 DEF Reachable
      <3> QED BY <3>1, <3>2
    <2>3. ASSUME NEW v \in Workers, req'[v].pc = "kill"
          PROVE  Replayed(req[v].session)' /\ req'[v] = req[v]
      <3>1. req'[v] = req[v] /\ Replayed(req[v].session)
        BY <1>7, <2>3 DEF SInv, LockoutsExplained
      <3>2. PICK x \in Tokens : origin[x] = req[v].session /\ Replaced(x) /\ sent[x] = 2
        BY <3>1 DEF Replayed
      <3>3. x # t
        BY <1>2, <3>2
      <3>4. origin'[x] = req[v].session /\ sent'[x] = 2 /\ \E n \in Tokens : from'[n] = x
        BY <1>1, <1>3, <1>9, <3>2, <3>3 DEF Replaced
      <3> QED BY <3>1, <3>4 DEF Replayed, Replaced
    <2>4. \A v \in Workers : (req[v].pc = "kill" => Replayed(req[v].session))'
      BY <2>3 DEF Replayed, Replaced
    <2> QED BY <2>1, <2>2, <2>4 DEF LockoutsExplained
  <1> QED BY <1>8, <1>10, <1>11, <1>12, <1>13, <1>14 DEF SInv

\* A row that was not there has no token.
LEMMA OpenSessionInv ==
  ASSUME SInv, NEW w \in Workers, NEW s \in Sessions, NEW t \in Tokens, OpenSession(w, s, t)
  PROVE  SInv'
  <1> DEFINE row == [user |-> req[w].user, current |-> t, previous |-> NoToken,
                     revoked |-> FALSE, expired |-> FALSE]
  <1>1. /\ TypeOK /\ req[w].user \in Users /\ req[w].password \in Passwords /\ ~Opened(s)
        /\ from[t] = NoToken
    BY DEF SInv, TokensOK, HandlerOK, OpenSession, Fresh
  <1>2. row \in Session
    BY <1>1 DEF Session
  <1>3. session' = [session EXCEPT ![s] = row] /\ session'[s] = row
    BY <1>1 DEF OpenSession, TypeOK
  <1>4. MakesToken(w, s, t, NoToken)
    <2>1. /\ session'[s].current = t /\ session'[s].previous = NoToken
          /\ session'[s] \in Session
      BY <1>2, <1>3
    <2>2. session' = [session EXCEPT ![s] = session'[s]]
      BY <1>3
    <2> HIDE DEF row
    <2>3. /\ Fresh(t) /\ origin' = [origin EXCEPT ![t] = s] /\ given' = given \cup {t}
          /\ Respond(w) /\ req[w].pc = "open"
          /\ UNCHANGED <<account, link, sent, from, lost, asked>>
      BY DEF OpenSession
    <2>4. from' = [from EXCEPT ![t] = NoToken]
      BY <1>1, <2>3 DEF TypeOK
    <2> QED BY <1>1, <2>1, <2>2, <2>3, <2>4 DEF MakesToken
  <1>5. opened' \in [Sessions -> Passwords \cup {NoPassword}] /\ faults' \in Nat
    BY <1>1, <1>3 DEF OpenSession, TypeOK
  <1> QED BY <1>4, <1>5, MakesTokenInv

\* The row is written by its id, the token the request read becomes the
\* previous one.
LEMMA RotateInv ==
  ASSUME SInv, NEW w \in Workers, NEW t \in Tokens, Rotate(w, t)
  PROVE  SInv'
  <1> DEFINE s == req[w].session
             old == req[w].token
             row == [session[s] EXCEPT !.current = t, !.previous = old]
  <1>1. TypeOK /\ s \in Sessions /\ old \in Tokens /\ Opened(s) /\ req[w].pc = "rotate"
    BY DEF SInv, RotateOK, PresentedOK, Rotate
  <1>2. row \in Session /\ row.current = t /\ row.previous = old
    <2>1. session[s] \in Session
      BY <1>1 DEF TypeOK, Opened
    <2> HIDE DEF s, old
    <2> QED BY <1>1, <2>1 DEF Session
  <1>3. session' = [session EXCEPT ![s] = row] /\ session'[s] = row
    BY <1>1 DEF Rotate, Rotated, TypeOK
  <1> HIDE DEF row
  <1>4. MakesToken(w, s, t, old)
    BY <1>1, <1>2, <1>3 DEF MakesToken, Rotate
  <1>5. opened' \in [Sessions -> Passwords \cup {NoPassword}] /\ faults' \in Nat
    BY <1>1 DEF Rotate, TypeOK
  <1> QED BY <1>4, <1>5, MakesTokenInv

-----------------------------------------------------------------------------
(* The invariant *)

LEMMA InitInv == Init => SInv
  <1> SUFFICES ASSUME Init PROVE SInv
    OBVIOUS
  <1>1. TypeOK
    <2>1. PICK p \in Passwords :
            account = [u \in Users |-> [password |-> p, status |-> "ACTIVE",
                                        failed |-> 0, locked |-> FALSE]]
      BY DEF Init
    <2>2. account \in [Users -> Account]
      <3>1. 0 \in 0..(MaxFailedLogins - 1) /\ "ACTIVE" \in Statuses
        BY FailedLoginsPositive, StatusesKnown
      <3>2. [password |-> p, status |-> "ACTIVE", failed |-> 0, locked |-> FALSE] \in Account
        BY <3>1 DEF Account
      <3> QED BY <2>1, <3>2
    <2>3. req \in [Workers -> Request]
      BY Requests DEF Init
    <2>4. /\ session \in [Sessions -> Session \cup {NoSession}]
          /\ link \in [Links -> Link \cup {NoLink}]
          /\ given \subseteq Tokens /\ sent \in [Tokens -> 0..2]
      BY DEF Init
    <2>5. /\ origin \in [Tokens -> Sessions \cup {NoSession}]
          /\ from \in [Tokens -> Tokens \cup {NoToken}] /\ lost \subseteq Tokens
          /\ opened \in [Sessions -> Passwords \cup {NoPassword}]
          /\ asked \in Nat /\ faults \in Nat
      BY DEF Init
    <2> QED BY <2>2, <2>3, <2>4, <2>5 DEF TypeOK
  <1>2. \A w \in Workers : req[w].pc = "idle"
    BY DEF Init, Idle
  <1>3. \A t \in Tokens : ~Replaced(t) /\ ~Forked(t)
    BY AbsentRows DEF Init, Replaced, Forked
  <1> QED BY <1>1, <1>2, <1>3
          DEF Init, SInv, TokensOK, ExchangesOK, RotateOK, PresentedOK, HandlerOK,
              RefreshesApart, LockoutsExplained, AnswersWork, InForce, Usable, Opened

LEMMA NextInv == SInv /\ [Next]_vars => SInv'
  <1> SUFFICES ASSUME SInv, [Next]_vars PROVE SInv'
    OBVIOUS
  <1>1. ASSUME NEW w \in Workers, Anonymous(w) PROVE SInv'
    <2>1. CASE \E u \in Users, p \in Passwords \cup Typos : Login(w, u, p)
      BY <2>1, LoginInv
    <2>2. CASE \/ \E u \in Users : ForgotPassword(w, u)
               \/ \E l \in Links : IssueLink(w, l)
               \/ \E l \in Links, p \in Passwords : StartReset(w, l, p)
      BY <2>2, LinkStepsInv
    <2>3. CASE \E t \in Tokens : Refresh(w, t) \/ Rotate(w, t)
      BY <2>3, RefreshInv, RotateInv
    <2>4. CASE CountFailure(w) \/ ClearFailures(w)
      BY <2>4, CountFailureInv, ClearFailuresInv
    <2>5. CASE FindReplayed(w)
      BY <2>5, FindReplayedInv
    <2>6. CASE RevokeReplayed(w)
      BY <2>6, RevokingInv DEF RevokeReplayed
    <2>7. CASE \E s \in Sessions, t \in Tokens : OpenSession(w, s, t)
      BY <2>7, OpenSessionInv
    <2>8. CASE ResetPassword(w)
      BY <2>8, ResetPasswordInv
    <2> QED BY <1>1, <2>1, <2>2, <2>3, <2>4, <2>5, <2>6, <2>7, <2>8 DEF Anonymous
  <1>2. CASE \E w \in Workers : SignedIn(w) \/ Fail(w)
    BY <1>2, SignedInInv, FailInv
  <1>3. CASE \E u \in Users : \/ \E status \in Statuses : SetUserStatus(u, status)
                              \/ \E p \in Passwords : AdminResetPassword(u, p)
                              \/ Unlock(u)
    BY <1>3, AdministratorInv
  <1>4. CASE Expire
    BY <1>4, ExpireInv
  <1>5. CASE UNCHANGED vars
    BY <1>5, RowsUntouched, TokensUntouched DEF vars, SInv, TypeOK, LinksKept, Elsewhere
  <1> QED BY <1>1, <1>2, <1>3, <1>4, <1>5 DEF Next

\* The inductive invariant: every refresh token is followed from the answer
\* that gives it out to the rotation that retires it, through all requests.
THEOREM Invariance == Spec => []SInv
  BY InitInv, NextInv, PTL DEF Spec

\* auth.service.ts and the Session and User rows it writes stay well formed;
\* the failed-login count stays under the limit (lines 171-190).
THEOREM TypeCorrect == Spec => []TypeOK
  <1>1. SInv => TypeOK
    BY DEF SInv
  <1> QED BY <1>1, Invariance, PTL

\* refresh (lines 235-296): a client is locked out of a session in force only
\* after a fault took an answer, an answer it has not used is worthless only if
\* one token was refreshed twice at once, and reuse detection strikes only where
\* an exchanged token was presented again.
THEOREM LockoutsCaused == Spec => []LockoutsExplained
  <1>1. SInv => LockoutsExplained
    BY DEF SInv
  <1> QED BY <1>1, Invariance, PTL

-----------------------------------------------------------------------------
(* What a step may never do to a session *)

\* The row s is still there, its user's, and as revoked and expired as before.
Ages(s) ==
    Opened(s) =>
        /\ Opened(s)' /\ session'[s].user = session[s].user
        /\ session[s].revoked => session'[s].revoked
        /\ session[s].expired => session'[s].expired

LEMMA RevokeAges ==
  ASSUME TypeOK, NEW S, Revoke(S), NEW s \in Sessions
  PROVE  Ages(s)
  <1>1. CASE s \in S /\ Opened(s)
    <2>1. session[s] \in Session /\ session'[s] = [session[s] EXCEPT !.revoked = TRUE]
      BY <1>1 DEF TypeOK, Opened, Revoke
    <2>2. session'[s] \in Session
      BY <2>1 DEF Session
    <2> QED BY <2>1, <2>2, AbsentRows DEF Ages, Opened, Session
  <1>2. CASE ~(s \in S /\ Opened(s))
    BY <1>2 DEF Revoke, Ages, Opened
  <1> QED BY <1>1, <1>2

LEMMA SessionsAge ==
  ASSUME SInv, [Next]_vars, NEW s \in Sessions
  PROVE  Ages(s)
  <1> TypeOK
    BY DEF SInv
  <1>1. CASE session' = session
    BY <1>1 DEF Ages, Opened
  <1>2. CASE \E S : Revoke(S)
    BY <1>2, RevokeAges
  <1>3. CASE \E w \in Workers, y \in Sessions, t \in Tokens : OpenSession(w, y, t)
    BY <1>3 DEF OpenSession, TypeOK, Ages, Opened
  <1>4. CASE \E w \in Workers, t \in Tokens : Rotate(w, t)
    <2>1. PICK w \in Workers, t \in Tokens : Rotate(w, t)
      BY <1>4
    <2> DEFINE y == req[w].session
               row == [session[y] EXCEPT !.current = t, !.previous = req[w].token]
    <2>2. y \in Sessions /\ Opened(y) /\ session[y] \in Session /\ req[w].token \in Tokens
      BY <2>1 DEF SInv, RotateOK, PresentedOK, Rotate, TypeOK, Opened
    <2>3. /\ row \in Session /\ row.user = session[y].user
          /\ row.revoked = session[y].revoked /\ row.expired = session[y].expired
      BY <2>2 DEF Session
    <2>4. session' = [session EXCEPT ![y] = row]
      BY <2>1 DEF Rotate, Rotated
    <2> HIDE DEF row, y
    <2> QED BY <2>2, <2>3, <2>4, AbsentRows DEF TypeOK, Ages, Opened
  <1>5. CASE \E y \in Sessions : Opened(y) /\ session' = [session EXCEPT ![y].expired = TRUE]
    <2>1. PICK y \in Sessions : Opened(y) /\ session' = [session EXCEPT ![y].expired = TRUE]
      BY <1>5
    <2> DEFINE row == [session[y] EXCEPT !.expired = TRUE]
    <2>2. /\ row \in Session /\ row.user = session[y].user
          /\ row.revoked = session[y].revoked /\ row.expired
      BY <2>1 DEF TypeOK, Opened, Session
    <2>3. session' = [session EXCEPT ![y] = row]
      BY <2>1
    <2> HIDE DEF row
    <2> QED BY <2>1, <2>2, <2>3, AbsentRows DEF TypeOK, Ages, Opened
  <1>6. CASE \E w \in Workers : Anonymous(w)
    <2>1. PICK w \in Workers : Anonymous(w)
      BY <1>6
    <2>2. \/ session' = session
          \/ \E S : Revoke(S)
          \/ \E y \in Sessions, t \in Tokens : OpenSession(w, y, t)
          \/ \E t \in Tokens : Rotate(w, t)
      BY <2>1 DEF Anonymous, Login, ForgotPassword, Refresh, IssueLink, StartReset, CountFailure,
                  ClearFailures, FindReplayed, RevokeReplayed, ResetPassword, db
    <2> QED BY <1>1, <1>2, <1>3, <1>4, <2>2
  <1>7. CASE \E w \in Workers : SignedIn(w) \/ Fail(w)
    BY <1>1, <1>2, <1>7 DEF SignedIn, Authorize, Logout, RevokeSession, RevokeAllSessions,
                            Authorized, Fail, db
  <1>8. CASE \E u \in Users : \/ \E status \in Statuses : SetUserStatus(u, status)
                              \/ \E p \in Passwords : AdminResetPassword(u, p)
                              \/ Unlock(u)
    BY <1>1, <1>2, <1>8 DEF SetUserStatus, AdminResetPassword, Unlock
  <1>9. CASE Expire
    BY <1>1, <1>5, <1>9 DEF Expire
  <1>10. CASE UNCHANGED vars
    BY <1>1, <1>10 DEF vars
  <1> QED BY <1>6, <1>7, <1>8, <1>9, <1>10 DEF Next

\* refresh updates the session by its id after two awaits, sign-out and reset
\* revoke in between (lines 235-333): a revoked session never comes back.
THEOREM RevocationHolds == Spec => RevokedForGood
  <1>1. SInv /\ [Next]_vars =>
          [\A s \in Sessions : Opened(s) =>
              /\ Opened(s)' /\ session'[s].user = session[s].user
              /\ session[s].revoked => session'[s].revoked
              /\ session[s].expired => session'[s].expired]_vars
    BY SessionsAge DEF Ages
  <1> QED BY <1>1, Invariance, PTL DEF Spec, RevokedForGood

=============================================================================
