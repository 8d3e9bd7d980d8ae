------------------------------ MODULE Accounts ------------------------------
(***************************************************************************)
(* Accounts, their names, and how they come to be verified and signed in:  *)
(* registration and verification links of auth.service.ts, the role a      *)
(* sign-in writes into the access token, and the guards that trust it.     *)
(*                                                                         *)
(* Workers are requests, a statement on the database is a step, as in      *)
(* Sessions, which has passwords, lockouts and the rotation of refresh     *)
(* tokens.  Names stand for e-mail addresses and for usernames.            *)
(***************************************************************************)
EXTENDS Integers, FiniteSets

CONSTANTS
    Users, Names, Links, Sessions, Workers,
    Intervals,      \* PlanInterval: what a creator has a plan for
    Mixes,          \* bound: which operations meet in one behaviour
    Cast,           \* the accounts there are at the start, by mix
    SignedIn,       \* whose sessions there are at the start, by mix
    Asks,           \* bound: what requests ask accounts to become, by mix
    Life,           \* ticks an access token is good for
    MaxTime,        \* bound: ticks
    MaxTokens,      \* bound: access tokens
    NoUser, NotYet, Deleted, NoRole, NoItem, NoPlan, Same

Roles == {"USER", "CREATOR", "MODERATOR", "ADMIN", "SUPER_ADMIN"}
Rank  == [r \in Roles |-> CASE r = "USER" -> 0  [] r = "CREATOR" -> 1  [] r = "MODERATOR" -> 2
                            [] r = "ADMIN" -> 3 [] r = "SUPER_ADMIN" -> 4]

\* A banned account is treated like a suspended one.
Statuses == {"ACTIVE", "SUSPENDED", "DELETED"}

ASSUME UsersHaveNames == Users \subseteq Names /\ {NoUser, NotYet, Deleted} \cap Users = {}
ASSUME Absent         == /\ NoRole \notin Roles /\ NotYet # Deleted
                          /\ Same \notin Names /\ Same \notin Roles /\ Same \notin BOOLEAN
ASSUME ClockBounds    == Life \in Nat /\ MaxTime \in Nat /\ MaxTokens \in Nat

VARIABLES
    account, link,
    session,        \* whose session; Deleted: revoked, or gone with its account
    plan,           \* one row at most of a creator and an interval
    token,          \* access tokens, of the session's user
    now, req, mix,
    \* History, read by properties only.
    met,            \* what has been true at some moment of a request
    held,           \* the roles accounts had, of late
    proved          \* accounts whose address was confirmed, or vouched for

names == <<account, link, session, plan, token, now>>

Row == [email: Names, name: Names, role: Roles, status: Statuses,
        verified: BOOLEAN, creator: {"none", "plain", "badged"}, wallet: BOOLEAN]
Link  == [user: Users, kind: {"verify", "reset"}, over: BOOLEAN]
Token == [session: Sessions, role: Roles, at: 0..MaxTime]

ASSUME RowsThere == {NotYet, Deleted} \cap Row = {} /\ NoItem \notin Link

\* What a request asks an account to become; Same where it leaves a column out.
Form  == [email: Names \cup {Same}, name: Names \cup {Same}, role: Roles \cup {Same},
          verified: BOOLEAN \cup {Same}]
Blank == [email |-> Same, name |-> Same, role |-> Same, verified |-> Same]

Items   == Links \cup Sessions \cup (Users \X Intervals) \cup {NoItem}
Steps   == {"idle", "free", "issue", "issue reset", "verify", "sign", "admitted", "status",
            "role", "profile", "promote", "make", "badge", "reset", "delete", "become",
            "plan", "stop"}
Request == [pc: Steps, by: Users \cup {NoUser}, as: Roles \cup {NoRole},
            user: Users \cup {NoUser}, form: Form, todo: SUBSET {"email", "name"}, item: Items]
Idle    == [pc |-> "idle", by |-> NoUser, as |-> NoRole, user |-> NoUser, form |-> Blank,
            todo |-> {}, item |-> NoItem]

AccountsOK ==
    /\ account \in [Users -> Row \cup {NotYet, Deleted}]
    /\ link \in [Links -> Link \cup {NoItem}]
    /\ session \in [Sessions -> Users \cup {NotYet, Deleted}]
    /\ token \subseteq Token
    /\ now \in 0..MaxTime
    /\ req \in [Workers -> Request]
    /\ mix \in Mixes
    /\ met \in [Workers -> SUBSET {"below", "same"}]
    /\ held \subseteq Users \X Roles \X (0..MaxTime)
    /\ proved \subseteq Users

ASSUME StartAndBounds ==
    /\ Cast \in [Mixes -> [Users -> Roles \cup {NoRole}]]
    /\ SignedIn \in [Mixes -> [Sessions -> Users \cup {NotYet}]]
    /\ \A m \in Mixes, s \in Sessions :
          SignedIn[m][s] \in Users => Cast[m][SignedIn[m][s]] # NoRole
    /\ Asks \in [Mixes -> SUBSET Form]

Newcomer(email, name, role) ==
    [email |-> email, name |-> name, role |-> role, status |-> "ACTIVE", verified |-> FALSE,
     creator |-> "none", wallet |-> FALSE]

\* The accounts at the start were made by createUser.
AccountsInit ==
    /\ mix \in Mixes
    /\ account = [u \in Users |->
                    IF Cast[mix][u] = NoRole THEN NotYet
                    ELSE [Newcomer(u, u, Cast[mix][u]) EXCEPT !.verified = TRUE]]
    /\ link = [l \in Links |-> NoItem]
    /\ session = SignedIn[mix]
    /\ token = {[session |-> s, role |-> Cast[mix][session[s]], at |-> 0] :
                   s \in {x \in Sessions : session[x] # NotYet}}
    /\ now = 0
    /\ req = [w \in Workers |-> Idle]
    /\ met = [w \in Workers |-> {}]
    /\ held = {<<u, Cast[mix][u], 0>> : u \in {x \in Users : Cast[mix][x] # NoRole}}
    /\ proved = {u \in Users : Cast[mix][u] # NoRole}

-----------------------------------------------------------------------------
(* History *)

\* What is so of a staff request's target once this step is done.
Observed(q) ==
    {f \in {"below", "same"} :
        /\ q.user # NoUser /\ q.by # NoUser
        /\ account'[q.user] \notin {NotYet, Deleted}
        /\ f = "below" => Rank[account'[q.user].role] < Rank[q.as]
        /\ f = "same"  => account'[q.user].role = q.form.role}

\* A link is followed, or staff fill in that the address is confirmed.
Vouched(w, u) ==
    \/ /\ req[w].pc = "verify" /\ req[w].user = u
       /\ link[req[w].item].kind = "verify"
    \/ /\ req[w].pc = "free" /\ req[w].form.verified = TRUE
       /\ account'[u] # account[u]

Witness ==
    /\ met' = [w \in Workers |-> IF req'[w] = Idle THEN {} ELSE met[w] \cup Observed(req'[w])]
    /\ held' = {h \in held : h[3] + Life >= now'} \cup
               {<<u, account'[u].role, now'>> :
                   u \in {x \in Users : account'[x] \notin {NotYet, Deleted}}}
    /\ proved' = proved \cup
                 {u \in Users : \E w \in Workers : req'[w] # req[w] /\ Vouched(w, u)}

\* What a step leaves as it was; the history goes on.
Leaving(x) == UNCHANGED x /\ UNCHANGED mix /\ Witness

-----------------------------------------------------------------------------
Exists(u)      == account[u] \notin {NotYet, Deleted}
Goto(w, label) == req' = [req EXCEPT ![w].pc = label]
Respond(w)     == req' = [req EXCEPT ![w] = Idle]

Begin(w, op, r) ==
    /\ op \in mix
    /\ req[w] = Idle
    /\ req' = [req EXCEPT ![w] = r]

\* A request that is refused, fails or dies; nothing is open between two steps.
Die(w) == req[w] # Idle /\ Respond(w) /\ Leaving(names)

-----------------------------------------------------------------------------
(* Names *)

\* The other accounts that have this value in column x.
Bearers(u, x, value) == {v \in Users \ {u} : Exists(v) /\ account[v][x] = value}

\* The unique indexes on User.email and Profile.username.
\* Mutant: the one on usernames is missing.
IndexOnEmail(u, row) == Bearers(u, "email", row.email) = {}
UniqueIn(u, row)     == /\ Bearers(u, "email", row.email) = {}
                        /\ Bearers(u, "name", row.name) = {}

\* register begins with two lookups at once.
Register(w, f) ==
    /\ f.email # Same /\ f.name # Same
    /\ Begin(w, "register", [Idle EXCEPT !.pc = "free", !.todo = {"email", "name"},
                               !.form = [f EXCEPT !.role = "USER", !.verified = FALSE]])
    /\ Leaving(names)

\* One lookup; an administrator's form asks for the address first.
CheckFree(w, x) ==
    /\ req[w].pc = "free" /\ x \in req[w].todo
    /\ req[w].by # NoUser /\ x = "name" => "email" \notin req[w].todo
    /\ Bearers(req[w].user, x, req[w].form[x]) = {}
    /\ req' = [req EXCEPT ![w].todo = @ \ {x}]
    /\ Leaving(names)

\* user.create, in register and in the administrator's createUser, where only a
\* creator is given a wallet.
Insert(w, u) ==
    LET q   == req[w]
        row == [Newcomer(q.form.email, q.form.name, q.form.role) EXCEPT
                  !.verified = q.form.verified,
                  !.creator  = IF q.form.role = "CREATOR" THEN "plain" ELSE "none",
                  !.wallet   = q.by = NoUser \/ q.form.role = "CREATOR"]
    IN  /\ q.pc = "free" /\ q.todo = {} /\ q.user = NoUser
        /\ account[u] = NotYet
        /\ UniqueIn(u, row)
        /\ account' = [account EXCEPT ![u] = row]
        /\ IF q.by = NoUser THEN req' = [req EXCEPT ![w] = [Idle EXCEPT !.pc = "issue", !.user = u]]
                            ELSE Respond(w)
        /\ Leaving(<<link, session, plan, token, now>>)

-----------------------------------------------------------------------------
(* Links *)

ResendVerification(w, u) ==
    /\ Exists(u) /\ ~account[u].verified
    /\ Begin(w, "resend", [Idle EXCEPT !.pc = "issue", !.user = u])
    /\ Leaving(names)

ForgotPassword(w, u) ==
    /\ Exists(u)
    /\ Begin(w, "resend", [Idle EXCEPT !.pc = "issue reset", !.user = u])
    /\ Leaving(names)

IssueLink(w, l) ==
    /\ req[w].pc \in {"issue", "issue reset"}
    /\ Exists(req[w].user) /\ link[l] = NoItem
    /\ link' = [link EXCEPT ![l] = [user |-> req[w].user, over |-> FALSE,
                                    kind |-> IF req[w].pc = "issue" THEN "verify" ELSE "reset"]]
    /\ Respond(w)
    /\ Leaving(<<account, session, plan, token, now>>)

ExpireLink(l) ==
    /\ link[l] # NoItem
    /\ link' = [link EXCEPT ![l].over = TRUE]
    /\ Leaving(<<account, session, plan, token, now, req>>)

\* What verifyEmail asks of a link; the account is there, or the link would not be.
\* Mutant: its type is not looked at.
GoodOfAnyKind(l) == link[l] # NoItem /\ ~link[l].over /\ Exists(link[l].user)
Good(l) == link[l] # NoItem /\ ~link[l].over /\ link[l].kind = "verify" /\ Exists(link[l].user)

VerifyEmail(w, l) ==
    /\ Good(l)
    /\ Begin(w, "verify", [Idle EXCEPT !.pc = "verify", !.user = link[l].user, !.item = l])
    /\ Leaving(names)

\* The batch asks nothing again: two requests with one link both get here.
MarkVerified(w) ==
    LET u == req[w].user
    IN  /\ req[w].pc = "verify"
        /\ Exists(u)
        /\ account' = [account EXCEPT ![u].verified = TRUE]
        /\ link' = [link EXCEPT ![req[w].item].over = TRUE]
        /\ Respond(w)
        /\ Leaving(<<session, plan, token, now>>)

-----------------------------------------------------------------------------
(* Sign-in, and the guards *)

\* login, and the password is right.  Mutant: whether the address is confirmed
\* is not asked.
MaySignInUnverified(u) == Exists(u) /\ account[u].status # "SUSPENDED"
MaySignIn(u) == Exists(u) /\ account[u].status # "SUSPENDED" /\ account[u].verified

Login(w, u) ==
    /\ MaySignIn(u)
    /\ Begin(w, "login", [Idle EXCEPT !.pc = "sign", !.by = u, !.as = account[u].role])
    /\ Leaving(names)

\* refresh reads the account with the session and signs the role it read.
Refresh(w, s) ==
    LET u == session[s]
    IN  /\ u \in Users /\ Exists(u) /\ account[u].status = "ACTIVE"
        /\ Begin(w, "login", [Idle EXCEPT !.pc = "sign", !.by = u, !.as = account[u].role,
                                          !.item = s])
        /\ Leaving(names)

\* The session's row is written, then the token is signed.  A token of a revoked
\* session is good for nothing and is not kept.
Sign(w, s) ==
    LET q == req[w]
    IN  /\ q.pc = "sign" /\ Exists(q.by) /\ Cardinality(token) < MaxTokens
        /\ IF q.item = NoItem THEN session[s] = NotYet ELSE s = q.item /\ session[s] = q.by
        /\ session' = [session EXCEPT ![s] = q.by]
        /\ token' = token \cup {[session |-> s, role |-> q.as, at |-> now]}
        /\ Respond(w)
        /\ Leaving(<<account, link, plan, now>>)

\* A token signed late in one tick is still good early in the tick after its Life.
\* Mutant: its end is not looked at.
EverFresh(t) == TRUE
Fresh(t)     == now <= t.at + Life

\* JwtAuthGuard: the request goes on under the role the token has.
Admit(w, t) ==
    LET u == session[t.session]
    IN  /\ t \in token /\ Fresh(t)
        /\ u \in Users /\ Exists(u) /\ account[u].status = "ACTIVE"
        /\ req[w] = Idle
        /\ req' = [req EXCEPT ![w] = [Idle EXCEPT !.pc = "admitted", !.by = u, !.as = t.role]]
        /\ Leaving(names)

\* RolesGuard: a higher role satisfies a lower requirement.
Holds(w, role) == req[w].pc = "admitted" /\ Rank[req[w].as] >= Rank[role]

Revoked(u) == [s \in Sessions |-> IF session[s] = u THEN Deleted ELSE session[s]]

\* A sign-in takes less than a tick.
Tick ==
    /\ "tick" \in mix /\ now < MaxTime
    /\ \A w \in Workers : req[w].pc # "sign"
    /\ now' = now + 1
    /\ Leaving(<<account, link, session, plan, token, req>>)

=============================================================================
