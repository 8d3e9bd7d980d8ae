----------------------------- MODULE MCCreators -----------------------------
(***************************************************************************)
(* Three accounts.  Each mix names who is there at the start, who of them  *)
(* is signed in, what operations meet and what they ask for.               *)
(***************************************************************************)
EXTENDS CreatorsInv, TLC
CONSTANTS root, adam, uma, s1, s2

Nobody == root :> NoRole @@ adam :> NoRole @@ uma :> NoRole
Alone  == root :> "SUPER_ADMIN" @@ Nobody
Team   == root :> "SUPER_ADMIN" @@ adam :> "ADMIN" @@ uma :> "USER"
Pair   == [Team EXCEPT ![uma] = NoRole]

Out    == [s \in Sessions |-> NotYet]
In1(u) == s1 :> u @@ Out
In2(u, v) == s1 :> u @@ s2 :> v @@ Out

Named(email, name) == [email |-> email, name |-> name, role |-> "ADMIN", verified |-> TRUE]
Renamed == {[Blank EXCEPT !.email = uma], [Blank EXCEPT !.name = uma, !.verified = FALSE]}
To(roles) == {[Blank EXCEPT !.role = r] : r \in roles}

Setting(ops, cast, in, asks) == [ops |-> ops, cast |-> cast, in |-> in, asks |-> asks]
Settings ==
    {Setting({"register", "resend", "verify", "login"}, Nobody, Out, {Named(adam, adam)}),
     Setting({"register", "create"}, Alone, In1(root),
             {Named(adam, adam), Named(adam, uma), Named(uma, adam)}),
     Setting({"update", "register"}, Pair, In2(root, adam),
             Renamed \cup {Named(uma, uma)}),
     Setting({"role", "login", "tick"}, Pair, In2(root, adam), To({"USER", "ADMIN"})),
     Setting({"role", "update"}, Team, In2(root, adam), To({"MODERATOR", "ADMIN"})),
     Setting({"role", "status", "reset", "login"}, Pair, In2(root, adam), To({"USER", "ADMIN"})),
     Setting({"become", "make", "delete", "role"}, Team, In2(root, uma), To({"CREATOR"})),
     Setting({"become", "plans", "role", "login"}, Team, In2(adam, uma), To({"USER"}))}

MCMixes == {x.ops : x \in Settings}
Of(m)   == CHOOSE x \in Settings : x.ops = m
MCCast     == [m \in MCMixes |-> Of(m).cast]
MCSignedIn == [m \in MCMixes |-> Of(m).in]
MCAsks     == [m \in MCMixes |-> Of(m).asks]

Symmetry == Permutations(Workers)
=============================================================================
