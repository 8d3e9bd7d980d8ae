------------------------------ MODULE Creators ------------------------------
(***************************************************************************)
(* creators.service.ts over the accounts of Administration and the prices  *)
(* of Pricing: an account makes itself a creator and keeps its plans.      *)
(***************************************************************************)
EXTENDS Administration, Pricing

CONSTANTS
    Prices,         \* bound: the prices creators ask
    Discounts       \* bound: the discounts they give

\* In cents, and per cent.
PriceRange    == {p \in Nat : p >= 100 /\ p <= 500 * 1000}
DiscountRange == 0..90

ASSUME PricesInRange == Prices \subseteq PriceRange /\ Discounts \subseteq DiscountRange

vars == <<account, link, session, plan, token, now, req, mix, met, held, proved>>

Plans   == Users \X Intervals
PlanRow == [price: PriceRange, discount: DiscountRange, active: BOOLEAN]

PlansOK == plan \in [Plans -> PlanRow \cup {NoPlan}]
TypeOK  == AccountsOK /\ PlansOK
Init    == AccountsInit /\ plan = [k \in Plans |-> NoPlan]

IsCreator(u) == Exists(u) /\ account[u].creator # "none"

-----------------------------------------------------------------------------
\* No role is asked for, and whatever the role was it is CREATOR then.
FindOwnProfile(w) ==
    /\ "become" \in mix
    /\ req[w].pc = "admitted" /\ Exists(req[w].by) /\ ~IsCreator(req[w].by)
    /\ req' = [req EXCEPT ![w].pc = "become", ![w].user = req[w].by]
    /\ Leaving(names)

\* The batch fails if another request has made the profile.
BecomeCreator(w) ==
    LET u == req[w].by
    IN  /\ req[w].pc = "become"
        /\ Exists(u) /\ ~IsCreator(u)
        /\ account' = [account EXCEPT ![u].role = "CREATOR", ![u].creator = "plain"]
        /\ Respond(w)
        /\ Leaving(<<link, session, plan, token, now>>)

\* The creator row of the caller; then the write.  Any plan may be named.
FindCreator(w, k, label) ==
    /\ "plans" \in mix
    /\ Holds(w, "CREATOR") /\ IsCreator(req[w].by)
    /\ label = "plan" => k[1] = req[w].by
    /\ req' = [req EXCEPT ![w].pc = label, ![w].item = k]
    /\ Leaving(names)

UpsertPlan(w, price, discount) ==
    /\ req[w].pc = "plan" /\ IsCreator(req[w].by)
    /\ plan' = [plan EXCEPT ![req[w].item] =
                  [price |-> price, discount |-> discount, active |-> TRUE]]
    /\ Respond(w)
    /\ Leaving(<<account, link, session, token, now>>)

\* The update names the plan and its creator.  Mutant: the plan alone.
AnyPlan(u, k) == plan[k] # NoPlan
OwnPlan(u, k) == plan[k] # NoPlan /\ k[1] = u

DeactivatePlan(w) ==
    /\ req[w].pc = "stop" /\ OwnPlan(req[w].by, req[w].item)
    /\ plan' = [plan EXCEPT ![req[w].item].active = FALSE]
    /\ Respond(w)
    /\ Leaving(<<account, link, session, token, now>>)

-----------------------------------------------------------------------------
Joining(w) ==
    \/ \E f \in Asks[mix] : Register(w, f)
    \/ \E x \in {"email", "name"} : CheckFree(w, x)
    \/ \E u \in Users : Insert(w, u) \/ ResendVerification(w, u) \/ ForgotPassword(w, u)
    \/ \E l \in Links : IssueLink(w, l) \/ VerifyEmail(w, l)
    \/ MarkVerified(w)

SigningIn(w) ==
    \/ \E u \in Users : Login(w, u)
    \/ \E s \in Sessions : Refresh(w, s) \/ Sign(w, s)
    \/ \E t \in token : Admit(w, t)

Staff(w) ==
    \/ \E f \in Asks[mix] :
          \/ CreateUser(w, f)
          \/ \E u \in Users : FindForUpdate(w, u, f) \/ FindForRole(w, u, f.role)
    \/ UpdateUser(w)
    \/ \E u \in Users : \/ FindForStatus(w, u) \/ FindForReset(w, u) \/ FindForCreator(w, u)
                        \/ FindForBadge(w, u) \/ FindForDelete(w, u)
    \/ DeleteUser(w)
    \/ \E s \in Statuses : SetUserStatus(w, s)
    \/ ResetPassword(w) \/ FindProfile(w) \/ SetUserRole(w)
    \/ \E b \in {"plain", "badged"} : MakeCreator(w, b) \/ SetVerifiedBadge(w, b)
    \/ MakeCreator(w, Same)

Planning(w) ==
    \/ FindOwnProfile(w) \/ BecomeCreator(w) \/ DeactivatePlan(w)
    \/ \E k \in Plans, label \in {"plan", "stop"} : FindCreator(w, k, label)
    \/ \E p \in Prices, d \in Discounts : UpsertPlan(w, p, d)

Next ==
    \/ \E w \in Workers : Joining(w) \/ SigningIn(w) \/ Staff(w) \/ Planning(w) \/ Die(w)
    \/ \E l \in Links : ExpireLink(l)
    \/ Tick

Spec == Init /\ [][Next]_vars

-----------------------------------------------------------------------------
(* Properties *)

\* No two accounts have one e-mail address or one username, however requests that
\* found them free run into each other.
NamesUnique ==
    \A u, v \in Users : u # v /\ Exists(u) /\ Exists(v)
        => account[u].email # account[v].email /\ account[u].name # account[v].name

\* "No tokens until email verified": whoever has a session followed a verification
\* link, and no other, or staff vouched for the address.
NoTokensUntilVerified == \A s \in Sessions : session[s] \in Users => session[s] \in proved

\* What a request may make of its target's row.
Allowed(u, q, facts) ==
    LET new == account'[u]
    IN  \/ q.pc = "verify" /\ new = [account[u] EXCEPT !.verified = TRUE]
        \/ q.pc = "badge"  /\ new = [account[u] EXCEPT !.creator = new.creator]
        \/ /\ q.pc = "become" /\ q.by = u /\ account[u].creator = "none"
           /\ new = [account[u] EXCEPT !.role = "CREATOR", !.creator = new.creator]
        \/ /\ q.by = u \/ "below" \in facts
           /\ \/ new = Deleted
              \/ new.role = account[u].role
              \/ Rank[new.role] < Rank[q.as]
              \/ "same" \in facts

\* Staff change an account only if it ranked below the role they acted under at some
\* moment of the request, and give it a role only below that one, or the one it had
\* meanwhile.  An account itself may become a creator, whatever it was and just that,
\* if it has not been one: a creator who was demoted cannot do it again.  So nobody is
\* promoted to the top, and nobody rises further than that but by someone who had
\* stood higher.
ChangedFromAbove ==
    [][\A u \in Users : Exists(u) /\ account'[u] # account[u] =>
          \E w \in Workers :
             req[w].user = u /\ req'[w] # req[w] /\ Allowed(u, req[w], met[w])]_vars

\* A role that was taken away is acted under no longer than a token is good for.
RolesLapse ==
    [][\A w \in Workers : req[w] = Idle /\ req'[w].pc = "admitted" =>
          \E t \in 0..MaxTime : t + Life >= now /\ <<req'[w].by, req'[w].as, t>> \in held]_vars

\* "Creators can only touch their own plans": a plan changes only by a request that
\* its creator made under the role of one, or goes with the account.
PlansByOwner ==
    [][\A k \in Plans : plan'[k] # plan[k] =>
          \/ account'[k[1]] = Deleted
          \/ \E w \in Workers : /\ req'[w] # req[w] /\ req[w].by = k[1]
                                /\ Rank[req[w].as] >= Rank["CREATOR"]]_vars

Sold == UNION {DiscountedCents(r.price, r.discount) : r \in {plan[k] : k \in Plans} \ {NoPlan}}

\* createCheckout: the fee of every amount a plan can be sold for is the largest
\* whole number of cents within 20% of it, so the creator never gets less than
\* four fifths, and less than a cent more.
FeeIsFair ==
    \A cents \in Sold :
        /\ FeeCents(cents) = CHOOSE f \in 0..cents : 5 * f <= cents /\ 5 * (f + 1) > cents
        /\ 5 * CreatorCents(cents) >= 4 * cents
        /\ 5 * CreatorCents(cents) < 4 * cents + 5

\* startCheckout: the price charged is a whole cent nearest to the price the
\* advertised discount leaves.
DiscountIsNearest ==
    \A k \in Plans : plan[k] # NoPlan =>
        \A cents \in DiscountedCents(plan[k].price, plan[k].discount) :
            LET exact == plan[k].price * (100 - plan[k].discount)
            IN  2 * (100 * cents - exact) <= 100 /\ 2 * (exact - 100 * cents) <= 100

=============================================================================
