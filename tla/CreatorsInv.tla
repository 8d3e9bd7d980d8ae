---------------------------- MODULE CreatorsInv ----------------------------
(***************************************************************************)
(* Why the properties of Creators hold, as one inductive invariant: what a *)
(* request has learnt by the time it waits at a step, and what tokens,     *)
(* sessions and verified accounts rest on.                                 *)
(***************************************************************************)
EXTENDS Creators

\* A request that is somewhere has passed the checks on the way.
SignerOK(q) ==
    q.pc = "sign" => /\ q.by \in Users /\ q.by \in proved
                     /\ <<q.by, q.as, now>> \in held

VerifierOK(q) ==
    q.pc = "verify" => /\ q.user \in Users /\ q.item \in Links /\ link[q.item] \in Link
                       /\ link[q.item].kind = "verify" /\ link[q.item].user = q.user

PlannerOK(q) ==
    /\ q.pc \in {"plan", "stop"} => q.as \in Roles /\ Rank[q.as] >= Rank["CREATOR"]
    /\ q.pc = "plan" => q.item \in Plans /\ q.item[1] = q.by

\* Of staff: the target ranked below, and so does the role it is given.
Below(q, facts) == q.user = q.by \/ "below" \in facts

StaffOK(q, facts) ==
    /\ q.pc \in {"admitted", "become"} => q.by \in Users /\ q.as \in Roles
    /\ q.pc = "admitted" => q.user = NoUser
    /\ q.pc = "become" => q.user = q.by
    /\ q.pc = "free" /\ q.user = NoUser => \A x \in DOMAIN Blank : q.form[x] # Same
    /\ q.pc = "free" /\ q.user # NoUser =>
          /\ q.by \in Users /\ q.as \in Roles /\ Below(q, facts)
          /\ \/ q.form.role = Same
             \/ Rank[q.form.role] < Rank[q.as]
             \/ "same" \in facts
    /\ q.pc \in {"status", "reset", "role", "profile", "promote", "make", "delete"} =>
          q.by \in Users /\ q.as \in Roles /\ Below(q, facts)
    /\ q.pc \in {"role", "profile", "promote"} =>
          q.form.role # Same /\ Rank[q.form.role] < Rank[q.as]
    /\ q.pc = "make" => Rank["CREATOR"] < Rank[q.as]
    /\ q.pc \in {"issue", "issue reset", "status", "reset", "role", "profile", "promote", "make",
                "delete", "badge"} => q.user \in Users

RequestOK(w) ==
    /\ SignerOK(req[w]) /\ VerifierOK(req[w])
    /\ PlannerOK(req[w]) /\ StaffOK(req[w], met[w])

\* A token that is still good has a role its account had when it was signed.
TokensHeld ==
    \A t \in token :
        /\ session[t.session] # NotYet
        /\ session[t.session] \in Users /\ Fresh(t) => <<session[t.session], t.role, t.at>> \in held

VerifiedProved == \A u \in Users : Exists(u) /\ account[u].verified => u \in proved

IInv ==
    /\ TypeOK
    /\ \A w \in Workers : RequestOK(w)
    /\ NamesUnique /\ NoTokensUntilVerified
    /\ TokensHeld /\ VerifiedProved

=============================================================================
