---------------------------- MODULE Entitlement ----------------------------
(***************************************************************************)
(* Who may see what: the access rules that media.service.ts and            *)
(* posts.service.ts share, over the subscriptions and purchases that       *)
(* payments.service.ts writes, and the requests in progress that read them.*)
(*                                                                         *)
(* Workers are requests.  Every statement on the database is one step; the *)
(* first statement of a request is the step that begins it.                *)
(***************************************************************************)
EXTENDS Integers, FiniteSets

CONSTANTS
    Users, Media, Posts, Workers,
    Mixes,          \* bound: which operations meet in one behaviour
    NoUser, NoItem  \* NoUser: the public, who has no account

ASSUME ItemsDiffer == /\ Media \cap Posts = {} /\ NoItem \notin Media \cup Posts
                      /\ NoUser \notin Users

Items    == Media \cup Posts
Viewers  == Users \cup {NoUser}
Accesses == {"FREE", "SUBSCRIBERS", "PAY_PER_VIEW"}

VARIABLES
    subscription,   \* <<viewer, creator>>: ACTIVE or TRIALING, and not past its end
    purchase,       \* <<viewer, item>>
    req,
    mix,
    met             \* history: what has been true at some moment of a request

rights == <<subscription, purchase>>

Steps   == {"idle", "head", "insert", "entitle", "sign", "refuse", "publish", "rows", "marked",
            "gate", "open", "lock", "check", "comment", "mark", "like", "unlike", "raise", "lower",
            "commit like", "commit unlike", "erase", "portray"}
Request == [pc: Steps, user: Viewers, item: Items \cup {NoItem}, access: Accesses,
            authors: SUBSET Users]
Idle    == [pc |-> "idle", user |-> NoUser, item |-> NoItem, access |-> "FREE",
            authors |-> {}]
Facts   == {"fit", "live", "visible", "may", "barred"}

RightsOK ==
    /\ subscription \subseteq {p \in Users \X Users : p[1] # p[2]}
    /\ purchase \subseteq Users \X Items
    /\ req \in [Workers -> Request]
    /\ mix \in Mixes
    /\ met \in [Workers -> SUBSET Facts]

RightsInit ==
    /\ subscription = {} /\ purchase = {}
    /\ req = [w \in Workers |-> Idle]
    /\ mix \in Mixes
    /\ met = [w \in Workers |-> {}]

-----------------------------------------------------------------------------
\* isEntitled and isEntitledToPost: one rule, written twice in the code.
\* Mutant: a subscription opens pay-per-view items as well.
SubscribersMayAll(v, owner, access, item) ==
    v = owner \/ access = "FREE" \/ <<v, owner>> \in subscription \/ <<v, item>> \in purchase

Entitled(v, owner, access, item) ==
    \/ v = owner
    \/ access = "FREE"
    \/ access = "SUBSCRIBERS" /\ <<v, owner>> \in subscription
    \/ access = "PAY_PER_VIEW" /\ <<v, item>> \in purchase

Goto(w, label) == req' = [req EXCEPT ![w].pc = label]
Respond(w)     == req' = [req EXCEPT ![w] = Idle]

Begin(w, op, r) ==
    /\ op \in mix
    /\ req[w] = Idle
    /\ req' = [req EXCEPT ![w] = r]

-----------------------------------------------------------------------------
(* What payments do to the rights, and a request that dies *)

Subscribe(v, c) == /\ "subscribe" \in mix /\ v # c
                   /\ subscription' = subscription \cup {<<v, c>>}
                   /\ UNCHANGED <<purchase, req>>

\* currentPeriodEnd passes.
Lapse(v, c) == /\ "subscribe" \in mix
               /\ subscription' = subscription \ {<<v, c>>}
               /\ UNCHANGED <<purchase, req>>

Buy(v, i) == /\ "buy" \in mix
             /\ purchase' = purchase \cup {<<v, i>>}
             /\ UNCHANGED <<subscription, req>>

\* A transaction that was open is rolled back.
Die(w) == req[w] # Idle /\ Respond(w) /\ UNCHANGED rights

=============================================================================
