--------------------------- MODULE Administration ---------------------------
(***************************************************************************)
(* admin.service.ts: what staff do to accounts.  Each operation reads the  *)
(* target, compares ranks with the role in the acting token, and writes in *)
(* a batch that asks neither again.  The batch has the audit row, so it    *)
(* fails when the acting account is gone.                                  *)
(***************************************************************************)
EXTENDS Accounts

\* assertCanAct.  Mutant: equals may act on each other.
CanActOnEquals(as, target) == Rank[as] >= Rank[target]
CanAct(as, target)         == Rank[as] > Rank[target]

\* assertCanAssign.
CanAssign(as, role) == Rank[role] < Rank[as]

\* findUnique of the target and the checks on it; the next statement is at label.
Target(w, op, u, label) ==
    /\ op \in mix
    /\ Holds(w, "ADMIN")
    /\ Exists(u)
    /\ req' = [req EXCEPT ![w].pc = label, ![w].user = u]
    /\ Leaving(names)

Outranked(w, u)       == Exists(u) /\ CanAct(req[w].as, account[u].role)
SelfOrOutranked(w, u) == u = req[w].by \/ Outranked(w, u)

\* A batch that turns the target's row into new, if the rest of it succeeds.
Batch(w, label, new, rest) ==
    /\ req[w].pc = label
    /\ Exists(req[w].user) /\ Exists(req[w].by)
    /\ IF rest THEN account' = [account EXCEPT ![req[w].user] = new] ELSE UNCHANGED account
    /\ Respond(w)

Old(w) == account[req[w].user]

-----------------------------------------------------------------------------
CreateUser(w, f) ==
    /\ "create" \in mix
    /\ Holds(w, "ADMIN") /\ \A x \in DOMAIN f : f[x] # Same
    /\ CanAssign(req[w].as, f.role)
    /\ req' = [req EXCEPT ![w].pc = "free", ![w].form = f, ![w].todo = {"email", "name"}]
    /\ Leaving(names)

\* A role is checked only if it is not the one that was read.
\* Mutant: it is not checked.
AnyForm(as, f, row) == TRUE
FormAllowed(as, f, row) ==
    f.role \in {Same, row.role} \cup {r \in Roles : CanAssign(as, r)}

FindForUpdate(w, u, f) ==
    /\ "update" \in mix
    /\ Holds(w, "ADMIN")
    /\ SelfOrOutranked(w, u) /\ Exists(u) /\ FormAllowed(req[w].as, f, account[u])
    /\ req' = [req EXCEPT ![w].pc = "free", ![w].user = u, ![w].form = f,
                          ![w].todo = {x \in {"email", "name"} : f[x] # Same}]
    /\ Leaving(names)

\* The columns that the form has.  Mutant: those it leaves out are written, too.
FilledAll(old, f) ==
    [old EXCEPT !.email = f.email, !.name = f.name, !.role = f.role, !.verified = f.verified]
Filled(old, f) ==
    LET Pick(x) == IF f[x] = Same THEN old[x] ELSE f[x]
    IN  [old EXCEPT !.email = Pick("email"), !.name = Pick("name"), !.role = Pick("role"),
                    !.verified = Pick("verified")]

UpdateUser(w) ==
    /\ req[w].user # NoUser /\ req[w].todo = {}
    /\ LET new == Filled(Old(w), req[w].form)
       IN  Exists(req[w].user) /\ Batch(w, "free", new, UniqueIn(req[w].user, new))
    /\ Leaving(<<link, session, plan, token, now>>)

-----------------------------------------------------------------------------
FindForStatus(w, u) == Target(w, "status", u, "status") /\ Outranked(w, u)

SetUserStatus(w, status) ==
    /\ req[w].pc = "status" /\ Exists(req[w].user)
    /\ Batch(w, "status", [Old(w) EXCEPT !.status = status], TRUE)
    /\ session' = Revoked(req[w].user)
    /\ Leaving(<<link, plan, token, now>>)

\* The password itself is in Sessions.
FindForReset(w, u) == Target(w, "reset", u, "reset") /\ SelfOrOutranked(w, u)

ResetPassword(w) ==
    /\ req[w].pc = "reset" /\ Exists(req[w].user)
    /\ Batch(w, "reset", Old(w), TRUE)
    /\ session' = Revoked(req[w].user)
    /\ Leaving(<<link, plan, token, now>>)

-----------------------------------------------------------------------------
(* Roles.  A new creator needs a profile, which is looked up on its own. *)

FindForRole(w, u, role) ==
    /\ "role" \in mix
    /\ role # Same
    /\ Holds(w, "ADMIN") /\ Outranked(w, u) /\ CanAssign(req[w].as, role)
    /\ req' = [req EXCEPT ![w].pc = IF role = "CREATOR" THEN "profile" ELSE "role",
                          ![w].user = u, ![w].form = [Blank EXCEPT !.role = role]]
    /\ Leaving(names)

FindProfile(w) ==
    /\ req[w].pc = "profile"
    /\ Goto(w, IF Exists(req[w].user) /\ Old(w).creator # "none" THEN "role" ELSE "promote")
    /\ Leaving(names)

SetUserRole(w) ==
    /\ req[w].pc \in {"role", "promote"} /\ Exists(req[w].user)
    /\ LET new == [Old(w) EXCEPT !.role = req[w].form.role]
       IN  IF req[w].pc = "role" THEN Batch(w, "role", new, TRUE)
           ELSE Batch(w, "promote", [new EXCEPT !.creator = "plain", !.wallet = TRUE],
                      Old(w).creator = "none")
    /\ Leaving(<<link, session, plan, token, now>>)

FindForCreator(w, u) == Target(w, "make", u, "make") /\ Outranked(w, u)

\* The badge is given, taken, or left as it is.
MakeCreator(w, badge) ==
    /\ req[w].pc = "make" /\ Exists(req[w].user)
    /\ Batch(w, "make", [Old(w) EXCEPT !.role = "CREATOR", !.wallet = TRUE,
                !.creator = IF badge # Same THEN badge ELSE IF @ = "none" THEN "plain" ELSE @],
             TRUE)
    /\ Leaving(<<link, session, plan, token, now>>)

\* No rank is asked here.
FindForBadge(w, u) == Target(w, "make", u, "badge") /\ Exists(u) /\ account[u].creator # "none"

SetVerifiedBadge(w, badge) ==
    /\ req[w].pc = "badge" /\ Exists(req[w].user)
    /\ account' = [account EXCEPT ![req[w].user].creator = badge]
    /\ Respond(w)
    /\ Leaving(<<link, session, plan, token, now>>)

-----------------------------------------------------------------------------
FindForDelete(w, u) == Target(w, "delete", u, "delete") /\ Outranked(w, u)

\* Profile, sessions, links and plans go with the account; a wallet keeps it.
DeleteUser(w) ==
    LET u == req[w].user
    IN  /\ req[w].pc = "delete"
        /\ Exists(u) /\ ~account[u].wallet
        /\ account' = [account EXCEPT ![u] = Deleted]
        /\ session' = Revoked(u)
        /\ plan' = [k \in DOMAIN plan |-> IF k[1] = u THEN NoPlan ELSE plan[k]]
        /\ Respond(w)
        /\ Leaving(<<link, token, now>>)

=============================================================================
