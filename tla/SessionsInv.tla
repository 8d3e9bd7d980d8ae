---------------------------- MODULE SessionsInv ----------------------------
(***************************************************************************)
(* The inductive invariant of Sessions.  It follows every refresh token    *)
(* from the moment it is made to the moment it is rotated out, through the *)
(* refreshes in progress.  The proofs are in SessionsProofs.               *)
(***************************************************************************)
EXTENDS Sessions

\* Tokens and sessions belong together, and only made tokens are known.
TokensOK ==
    /\ \A t \in Tokens : /\ origin[t] # NoSession => Opened(origin[t])
                         /\ origin[t] = NoSession => /\ t \notin given /\ sent[t] = 0
                                                     /\ from[t] = NoToken /\ ~Replaced(t)
    /\ \A s \in Sessions : Opened(s) =>
          /\ origin[session[s].current] = s
          /\ session[s].previous # NoToken =>
                origin[session[s].previous] = s /\ Replaced(session[s].previous)

\* The tokens of a session form a tree: a token was presented before it was
\* exchanged, for another of its session, and a leaf that is not the current
\* token is there only where the tree has a fork.
ExchangesOK ==
    /\ \A t \in Tokens : Replaced(t) => sent[t] >= 1
    /\ \A n \in Tokens : from[n] # NoToken => origin[from[n]] = origin[n]
    /\ \A t \in Tokens : origin[t] # NoSession /\ ~Replaced(t) =>
          \/ session[origin[t]].current = t
          \/ \E r \in Tokens : origin[r] = origin[t] /\ Forked(r)

\* A refresh past its first lookup was sent a token of its session.
RotateOK(w) ==
    LET s == req[w].session
    IN  req[w].pc = "rotate" => s \in Sessions /\ Opened(s) /\ origin[req[w].token] = s

\* A refresh holds a token it was sent; one that was exchanged already has been
\* sent again.
PresentedOK(w) ==
    LET t == req[w].token
    IN  req[w].pc \in {"rotate", "lookup"} =>
            /\ t \in Tokens /\ origin[t] # NoSession /\ sent[t] >= 1
            /\ Replaced(t) => sent[t] = 2

\* Two refreshes with one token were presented it twice.
RefreshesApart ==
    \A v, w \in Workers :
        /\ v # w /\ req[v].token = req[w].token
        /\ req[v].pc \in {"rotate", "lookup"} /\ req[w].pc \in {"rotate", "lookup"}
        => sent[req[w].token] = 2

\* What a handler carries from its first read to its later statements.
HandlerOK(w) ==
    /\ req[w].pc \in {"wrong", "clear", "open", "authorized", "issue"} => req[w].user \in Users
    /\ req[w].pc \in {"clear", "open", "reset"} => req[w].password \in Passwords
    /\ req[w].pc = "reset" => req[w].link \in Links /\ link[req[w].link] # NoLink

SInv ==
    /\ TypeOK
    /\ TokensOK
    /\ ExchangesOK
    /\ \A w \in Workers : RotateOK(w) /\ PresentedOK(w) /\ HandlerOK(w)
    /\ RefreshesApart
    /\ LockoutsExplained

=============================================================================
