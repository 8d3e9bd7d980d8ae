--------------------------- MODULE CreatorsProofs ---------------------------
(***************************************************************************)
(* Proofs about Creators, for any number of accounts, sessions, tokens,    *)
(* links and requests in progress, and whatever operations meet.           *)
(***************************************************************************)
EXTENDS CreatorsInv, PricingProofs, TLAPS

\* The types of the tables, and of the history.
DbOK ==
    /\ account \in [Users -> Row \cup {NotYet, Deleted}]
    /\ link \in [Links -> Link \cup {NoItem}]
    /\ session \in [Sessions -> Users \cup {NotYet, Deleted}]
    /\ token \subseteq Token
    /\ now \in 0..MaxTime
    /\ PlansOK

HistoryOK ==
    /\ mix \in Mixes
    /\ met \in [Workers -> SUBSET {"below", "same"}]
    /\ held \subseteq Users \X Roles \X (0..MaxTime)
    /\ proved \subseteq Users

LEMMA Parts == TypeOK <=> DbOK /\ HistoryOK /\ req \in [Workers -> Request]
  BY DEF TypeOK, AccountsOK, DbOK, HistoryOK

\* Links change in nothing but whether they are over.
LinksKept ==
    \A l \in Links : link[l] \in Link =>
        /\ link'[l] \in Link
        /\ link'[l].kind = link[l].kind /\ link'[l].user = link[l].user

-----------------------------------------------------------------------------
(* The history *)

LEMMA HistoryTyped ==
  ASSUME TypeOK, DbOK', Witness, UNCHANGED mix
  PROVE  HistoryOK'
  <1>1. met' \in [Workers -> SUBSET {"below", "same"}]
    <2>1. \A q : Observed(q) \subseteq {"below", "same"}
      BY DEF Observed
    <2>2. \A w \in Workers : met[w] \subseteq {"below", "same"}
      BY DEF TypeOK, AccountsOK
    <2> QED BY <2>1, <2>2 DEF Witness
  <1>2. held' \subseteq Users \X Roles \X (0..MaxTime)
    <2>1. ASSUME NEW u \in Users, account'[u] \notin {NotYet, Deleted}
          PROVE  account'[u].role \in Roles
      BY <2>1 DEF DbOK, Row
    <2> QED BY <2>1 DEF Witness, TypeOK, AccountsOK, DbOK
  <1>3. proved' \subseteq Users
    BY DEF Witness, TypeOK, AccountsOK
  <1> QED BY <1>1, <1>2, <1>3 DEF HistoryOK, TypeOK, AccountsOK

\* What the history keeps, and what it adds.
LEMMA Remembered ==
  ASSUME TypeOK, Witness
  PROVE  /\ \A h \in held : h[3] + Life >= now' => h \in held'
         /\ \A u \in Users : account'[u] \notin {NotYet, Deleted}
                               => <<u, account'[u].role, now'>> \in held'
         /\ proved \subseteq proved'
         /\ \A w \in Workers : req'[w] # Idle
                                 => met[w] \cup Observed(req'[w]) \subseteq met'[w]
  BY DEF Witness

-----------------------------------------------------------------------------
(* Requests *)

LEMMA Blanks ==
  /\ Blank \in Form
  /\ Idle \in Request
  /\ NoItem \in Items /\ Links \subseteq Items /\ Sessions \subseteq Items /\ Plans \subseteq Items
  <1>1. Blank \in Form
    BY DEF Blank, Form
  <1>2. NoItem \in Items /\ Links \subseteq Items /\ Sessions \subseteq Items /\ Plans \subseteq Items
    BY DEF Items, Plans
  <1>3. Idle \in Request
    BY <1>1, <1>2 DEF Idle, Request, Steps
  <1> QED BY <1>1, <1>2, <1>3

LEMMA IdleOK ==
  ASSUME NEW facts
  PROVE  SignerOK(Idle) /\ VerifierOK(Idle) /\ PlannerOK(Idle) /\ StaffOK(Idle, facts)
  BY DEF SignerOK, VerifierOK, PlannerOK, StaffOK, Idle

LEMMA Moved ==
  ASSUME TypeOK, NEW w \in Workers, NEW q \in Request, req' = [req EXCEPT ![w] = q]
  PROVE  /\ req' \in [Workers -> Request]
         /\ req'[w] = q
         /\ \A v \in Workers : v # w => req'[v] = req[v]
  BY DEF TypeOK, AccountsOK

\* Another request keeps what it has learnt.
LEMMA Undisturbed ==
  ASSUME IInv, NEW v \in Workers, req'[v] = req[v], Witness, now' = now, LinksKept
  PROVE  RequestOK(v)'
  <1>1. RequestOK(v)
    BY DEF IInv
  <1>2. SignerOK(req[v])'
    <2> SUFFICES ASSUME req'[v].pc = "sign"
                 PROVE  /\ req'[v].by \in Users /\ req'[v].by \in proved'
                        /\ <<req'[v].by, req'[v].as, now'>> \in held'
      BY DEF SignerOK
    <2>1. /\ req[v].by \in Users /\ req[v].by \in proved
          /\ <<req[v].by, req[v].as, now>> \in held
      BY <1>1 DEF RequestOK, SignerOK
    <2>2. now + Life >= now
      BY ClockBounds DEF IInv, TypeOK, AccountsOK
    <2> QED BY <2>1, <2>2, Remembered DEF IInv
  <1>3. VerifierOK(req[v])'
    BY <1>1 DEF RequestOK, VerifierOK, LinksKept
  <1>4. PlannerOK(req[v])'
    BY <1>1 DEF RequestOK, PlannerOK
  <1>5. StaffOK(req[v], met[v])'
    <2>1. CASE req[v] = Idle
      BY <2>1, IdleOK
    <2>2. CASE req[v] # Idle
      <3>1. met[v] \subseteq met'[v]
        BY <2>2, Remembered DEF IInv
      <3>2. StaffOK(req[v], met[v])
        BY <1>1 DEF RequestOK
      <3> QED BY <3>1, <3>2 DEF StaffOK, Below
    <2> QED BY <2>1, <2>2
  <1> QED BY <1>2, <1>3, <1>4, <1>5 DEF RequestOK

-----------------------------------------------------------------------------
(* Steps *)

\* What holds of accounts, sessions and tokens stays if those do.
LEMMA Still ==
  ASSUME IInv, Witness, UNCHANGED <<account, session, token>>, now' \in Nat, now' >= now
  PROVE  NamesUnique' /\ NoTokensUntilVerified' /\ TokensHeld' /\ VerifiedProved'
  <1>1. NamesUnique'
    BY DEF IInv, NamesUnique, Exists
  <1>2. NoTokensUntilVerified' /\ VerifiedProved'
    BY Remembered DEF IInv, NoTokensUntilVerified, VerifiedProved, Exists
  <1>3. TokensHeld'
    <2> SUFFICES ASSUME NEW t \in token
                 PROVE  /\ session[t.session] # NotYet
                        /\ session[t.session] \in Users /\ now' <= t.at + Life
                              => <<session[t.session], t.role, t.at>> \in held'
      BY DEF TokensHeld, Fresh
    <2>1. t.at \in 0..MaxTime /\ now \in Nat /\ Life \in Nat
      BY ClockBounds DEF IInv, TypeOK, AccountsOK, Token
    <2>2. session[t.session] # NotYet
      BY DEF IInv, TokensHeld
    <2>3. ASSUME session[t.session] \in Users, now' <= t.at + Life
          PROVE  <<session[t.session], t.role, t.at>> \in held'
      <3>1. now <= t.at + Life
        BY <2>1, <2>3, ClockBounds
      <3>2. <<session[t.session], t.role, t.at>> \in held
        BY <2>3, <3>1 DEF IInv, TokensHeld, Fresh
      <3> QED BY <2>3, <3>2, Remembered DEF IInv
    <2> QED BY <2>2, <2>3
  <1> QED BY <1>1, <1>2, <1>3

\* SignerOK and VerifierOK of what a request is after the step.
SignerThen(q) ==
    q.pc = "sign" => /\ q.by \in Users /\ q.by \in proved'
                     /\ <<q.by, q.as, now'>> \in held'

VerifierThen(q) ==
    q.pc = "verify" => /\ q.user \in Users /\ q.item \in Links /\ link'[q.item] \in Link
                       /\ link'[q.item].kind = "verify" /\ link'[q.item].user = q.user

\* A step of one request, which may write.
LEMMA Writes ==
  ASSUME IInv, NEW w \in Workers, NEW q \in Request, req' = [req EXCEPT ![w] = q],
         DbOK', now' = now, UNCHANGED mix, Witness, LinksKept,
         SignerThen(q), VerifierThen(q), PlannerOK(q), StaffOK(q, met'[w]),
         NamesUnique', NoTokensUntilVerified', TokensHeld', VerifiedProved'
  PROVE  IInv'
  <1>1. /\ req' \in [Workers -> Request] /\ req'[w] = q
        /\ \A v \in Workers : v # w => req'[v] = req[v]
    BY Moved DEF IInv
  <1>2. TypeOK'
    BY <1>1, HistoryTyped, Parts DEF IInv, TypeOK, AccountsOK, DbOK, HistoryOK
  <1>3. RequestOK(w)'
    BY <1>1 DEF RequestOK, SignerOK, SignerThen, VerifierOK, VerifierThen, PlannerOK
  <1>4. ASSUME NEW v \in Workers, v # w PROVE RequestOK(v)'
    BY <1>1, <1>4, Undisturbed
  <1> QED BY <1>2, <1>3, <1>4 DEF IInv

\* A step of one request that only reads.
LEMMA Reads ==
  ASSUME IInv, NEW w \in Workers, NEW q \in Request, req' = [req EXCEPT ![w] = q],
         Leaving(names),
         SignerThen(q), VerifierOK(q), PlannerOK(q), StaffOK(q, met'[w])
  PROVE  IInv'
  <1>1. UNCHANGED <<account, link, session, plan, token, now, mix>> /\ Witness
    BY DEF Leaving, names
  <1>2. DbOK'
    BY <1>1 DEF IInv, TypeOK, AccountsOK, DbOK, PlansOK
  <1>3. LinksKept
    BY <1>1 DEF LinksKept
  <1>4. now \in Nat
    BY DEF IInv, TypeOK, AccountsOK
  <1>5. NamesUnique' /\ NoTokensUntilVerified' /\ TokensHeld' /\ VerifiedProved'
    BY <1>1, <1>4, Still
  <1>6. VerifierThen(q)
    BY <1>1 DEF VerifierOK, VerifierThen
  <1> QED BY <1>1, <1>2, <1>3, <1>5, <1>6, Writes

LEMMA Rows ==
  ASSUME TypeOK, NEW u \in Users, Exists(u)
  PROVE  account[u] \in Row
  BY DEF TypeOK, AccountsOK, Exists

\* What a reading request has seen of its target.
LEMMA Saw ==
  ASSUME TypeOK, NEW w \in Workers, NEW q \in Request, req' = [req EXCEPT ![w] = q],
         Leaving(names), q # Idle
  PROVE  /\ met[w] \subseteq met'[w]
         /\ q.user \in Users /\ q.by \in Users /\ Exists(q.user) =>
              /\ Rank[account[q.user].role] < Rank[q.as] => "below" \in met'[w]
              /\ account[q.user].role = q.form.role => "same" \in met'[w]
  <1>1. Witness /\ account' = account
    BY DEF Leaving, names
  <1>2. met[w] \cup Observed(q) \subseteq met'[w]
    BY <1>1, Moved, Remembered
  <1>3. NoUser \notin Users
    BY UsersHaveNames
  <1> QED BY <1>1, <1>2, <1>3 DEF Observed, Exists

-----------------------------------------------------------------------------
(* Requests that begin *)

LEMMA Begins ==
  ASSUME IInv, NEW w \in Workers, NEW q \in Request, req' = [req EXCEPT ![w] = q],
         Leaving(names), q.pc \in {"free", "issue", "issue reset"},
         q.pc = "free" => q.user = NoUser /\ \A x \in DOMAIN Blank : q.form[x] # Same,
         q.pc # "free" => q.user \in Users
  PROVE  IInv'
  BY Reads DEF SignerThen, VerifierOK, PlannerOK, StaffOK

LEMMA RegisterStep ==
  ASSUME IInv, NEW w \in Workers, NEW f \in Form, Register(w, f)
  PROVE  IInv'
  <1> DEFINE q == [Idle EXCEPT !.pc = "free", !.todo = {"email", "name"},
                               !.form = [f EXCEPT !.role = "USER", !.verified = FALSE]]
  <1>1. [f EXCEPT !.role = "USER", !.verified = FALSE] \in Form
    BY DEF Form, Roles
  <1>2. q \in Request /\ q.pc = "free" /\ q.user = NoUser
    BY <1>1, Blanks DEF Idle, Request, Steps
  <1>3. \A x \in DOMAIN Blank : q.form[x] # Same
    BY Absent DEF Register, Idle, Blank, Form, Roles
  <1>4. req' = [req EXCEPT ![w] = q] /\ Leaving(names)
    BY DEF Register, Begin
  <1> HIDE DEF q
  <1> QED BY <1>2, <1>3, <1>4, Begins

LEMMA CreateUserStep ==
  ASSUME IInv, NEW w \in Workers, NEW f \in Form, CreateUser(w, f)
  PROVE  IInv'
  <1> DEFINE q == [req[w] EXCEPT !.pc = "free", !.form = f, !.todo = {"email", "name"}]
  <1>1. req[w] \in Request /\ req[w].pc = "admitted"
    BY DEF IInv, TypeOK, AccountsOK, CreateUser, Holds
  <1>2. q \in Request /\ q.pc = "free" /\ q.user = req[w].user /\ q.form = f
    BY <1>1 DEF Request, Steps
  <1>3. \A x \in DOMAIN Blank : f[x] # Same
    BY DEF CreateUser, Blank, Form
  <1>4. req' = [req EXCEPT ![w] = q] /\ Leaving(names)
    BY DEF CreateUser
  <1> HIDE DEF q
  <1>5. q.user = NoUser
    BY <1>1, <1>2 DEF IInv, RequestOK, StaffOK
  <1> QED BY <1>2, <1>3, <1>4, <1>5, Begins

LEMMA IssueStep ==
  ASSUME IInv, NEW w \in Workers, NEW u \in Users, ResendVerification(w, u) \/ ForgotPassword(w, u)
  PROVE  IInv'
  <1>1. CASE ResendVerification(w, u)
    <2> DEFINE q == [Idle EXCEPT !.pc = "issue", !.user = u]
    <2>1. q \in Request /\ q.pc = "issue" /\ q.user = u
      BY Blanks DEF Idle, Request, Steps
    <2>2. req' = [req EXCEPT ![w] = q] /\ Leaving(names)
      BY <1>1 DEF ResendVerification, Begin
    <2> HIDE DEF q
    <2> QED BY <2>1, <2>2, Begins
  <1>2. CASE ForgotPassword(w, u)
    <2> DEFINE q == [Idle EXCEPT !.pc = "issue reset", !.user = u]
    <2>1. q \in Request /\ q.pc = "issue reset" /\ q.user = u
      BY Blanks DEF Idle, Request, Steps
    <2>2. req' = [req EXCEPT ![w] = q] /\ Leaving(names)
      BY <1>2 DEF ForgotPassword, Begin
    <2> HIDE DEF q
    <2> QED BY <2>1, <2>2, Begins
  <1> QED BY <1>1, <1>2

LEMMA DieStep ==
  ASSUME IInv, NEW w \in Workers, Die(w)
  PROVE  IInv'
  <1>1. req' = [req EXCEPT ![w] = Idle] /\ Leaving(names)
    BY DEF Die, Respond
  <1>2. SignerThen(Idle)
    BY DEF SignerThen, Idle
  <1> QED BY <1>1, <1>2, Blanks, IdleOK, Reads

LEMMA CheckFreeStep ==
  ASSUME IInv, NEW w \in Workers, NEW x \in {"email", "name"}, CheckFree(w, x)
  PROVE  IInv'
  <1> DEFINE q == [req[w] EXCEPT !.todo = @ \ {x}]
  <1>1. req[w] \in Request /\ req[w].pc = "free" /\ StaffOK(req[w], met[w])
    BY DEF IInv, TypeOK, AccountsOK, CheckFree, RequestOK
  <1>2. /\ q \in Request
        /\ q.pc = "free" /\ q.user = req[w].user /\ q.form = req[w].form
        /\ q.by = req[w].by /\ q.as = req[w].as
    BY <1>1 DEF Request
  <1>3. req' = [req EXCEPT ![w] = q] /\ Leaving(names)
    BY DEF CheckFree
  <1>4. q # Idle
    BY <1>2 DEF Idle
  <1> HIDE DEF q
  <1>5. met[w] \subseteq met'[w]
    BY <1>2, <1>3, <1>4, Saw DEF IInv
  <1>6. StaffOK(q, met'[w])
    BY <1>1, <1>2, <1>5 DEF StaffOK, Below
  <1>7. SignerThen(q) /\ VerifierOK(q) /\ PlannerOK(q)
    BY <1>2 DEF SignerThen, VerifierOK, PlannerOK
  <1> QED BY <1>2, <1>3, <1>6, <1>7, Reads

LEMMA VerifyEmailStep ==
  ASSUME IInv, NEW w \in Workers, NEW l \in Links, VerifyEmail(w, l)
  PROVE  IInv'
  <1> DEFINE q == [Idle EXCEPT !.pc = "verify", !.user = link[l].user, !.item = l]
  <1>1. link[l] \in Link /\ link[l].kind = "verify"
    BY DEF VerifyEmail, Good, IInv, TypeOK, AccountsOK
  <1>2. q \in Request /\ q.pc = "verify" /\ q.user = link[l].user /\ q.item = l
    BY <1>1, Blanks DEF Idle, Request, Steps, Link
  <1>3. req' = [req EXCEPT ![w] = q] /\ Leaving(names)
    BY DEF VerifyEmail, Begin
  <1> HIDE DEF q
  <1>4. SignerThen(q) /\ VerifierOK(q) /\ PlannerOK(q) /\ StaffOK(q, met'[w])
    BY <1>1, <1>2 DEF SignerThen, VerifierOK, PlannerOK, StaffOK, Link
  <1> QED BY <1>2, <1>3, <1>4, Reads

\* Whoever signs has the role that was read, in this very tick.
LEMMA SignerMoves ==
  ASSUME IInv, NEW w \in Workers, NEW q \in Request, req' = [req EXCEPT ![w] = q],
         q.pc = "sign", q.by \in Users, Exists(q.by), q.as = account[q.by].role,
         q.by \in proved, Leaving(names)
  PROVE  IInv'
  <1>1. UNCHANGED <<account, now>> /\ Witness
    BY DEF Leaving, names
  <1>2. <<q.by, q.as, now'>> \in held' /\ q.by \in proved'
    BY <1>1, Remembered DEF IInv, Exists
  <1>3. SignerThen(q) /\ VerifierOK(q) /\ PlannerOK(q) /\ StaffOK(q, met'[w])
    BY <1>2 DEF SignerThen, VerifierOK, PlannerOK, StaffOK
  <1> QED BY <1>3, Reads

LEMMA LoginStep ==
  ASSUME IInv, NEW w \in Workers, NEW u \in Users, Login(w, u)
  PROVE  IInv'
  <1> DEFINE q == [Idle EXCEPT !.pc = "sign", !.by = u, !.as = account[u].role]
  <1>1. Exists(u) /\ u \in proved
    BY DEF Login, MaySignIn, IInv, VerifiedProved
  <1>2. q \in Request /\ q.pc = "sign" /\ q.by = u /\ q.as = account[u].role
    BY <1>1, Rows, Blanks DEF IInv, Row, Idle, Request, Steps
  <1>3. req' = [req EXCEPT ![w] = q] /\ Leaving(names)
    BY DEF Login, Begin
  <1> HIDE DEF q
  <1> QED BY <1>1, <1>2, <1>3, SignerMoves

LEMMA RefreshStep ==
  ASSUME IInv, NEW w \in Workers, NEW s \in Sessions, Refresh(w, s)
  PROVE  IInv'
  <1> DEFINE u == session[s]
             q == [Idle EXCEPT !.pc = "sign", !.by = u, !.as = account[u].role, !.item = s]
  <1>1. u \in Users /\ Exists(u) /\ u \in proved
    BY DEF Refresh, IInv, NoTokensUntilVerified
  <1>2. q \in Request /\ q.pc = "sign" /\ q.by = u /\ q.as = account[u].role
    BY <1>1, Rows, Blanks DEF IInv, Row, Idle, Request, Steps
  <1>3. req' = [req EXCEPT ![w] = q] /\ Leaving(names)
    BY DEF Refresh, Begin
  <1> HIDE DEF q, u
  <1> QED BY <1>1, <1>2, <1>3, SignerMoves

-----------------------------------------------------------------------------
(* Requests behind the guards *)

LEMMA AdmitStep ==
  ASSUME IInv, NEW w \in Workers, NEW t \in token, Admit(w, t)
  PROVE  IInv'
  <1> DEFINE u == session[t.session]
             q == [Idle EXCEPT !.pc = "admitted", !.by = u, !.as = t.role]
  <1>1. u \in Users /\ t.role \in Roles
    BY DEF Admit, IInv, TypeOK, AccountsOK, Token
  <1>2. /\ q \in Request /\ q.pc = "admitted" /\ q.by = u /\ q.as = t.role
        /\ q.user = NoUser
    BY <1>1, Blanks DEF Idle, Request, Steps
  <1>3. req' = [req EXCEPT ![w] = q] /\ Leaving(names)
    BY DEF Admit
  <1> HIDE DEF q, u
  <1>4. SignerThen(q) /\ VerifierOK(q) /\ PlannerOK(q) /\ StaffOK(q, met'[w])
    BY <1>1, <1>2 DEF SignerThen, VerifierOK, PlannerOK, StaffOK
  <1> QED BY <1>2, <1>3, <1>4, Reads

\* A staff request past findUnique, at a step where ranks have been compared.
LEMMA StaffMoves ==
  ASSUME IInv, NEW w \in Workers, NEW q \in Request, req' = [req EXCEPT ![w] = q],
         Leaving(names),
         q.pc \in {"free", "status", "reset", "role", "profile", "promote", "make", "delete"},
         q.by \in Users, q.as \in Roles, q.user \in Users,
         Exists(q.user), q.user = q.by \/ CanAct(q.as, account[q.user].role),
         q.pc \in {"free", "role", "profile", "promote"} =>
            \/ q.pc = "free" /\ q.form.role \in {Same, account[q.user].role}
            \/ q.form.role \in Roles /\ CanAssign(q.as, q.form.role),
         q.pc = "make" => Rank["CREATOR"] < Rank[q.as]
  PROVE  IInv'
  <1>1. q # Idle /\ q.user # NoUser
    BY UsersHaveNames DEF Idle
  <1>2. Below(q, met'[w])
    <2>1. CASE q.user = q.by
      BY <2>1 DEF Below
    <2>2. CASE CanAct(q.as, account[q.user].role)
      BY <1>1, <2>2, Saw DEF IInv, CanAct, Below
    <2> QED BY <2>1, <2>2
  <1>3. q.pc = "free" => \/ q.form.role = Same
                         \/ Rank[q.form.role] < Rank[q.as]
                         \/ "same" \in met'[w]
    BY <1>1, Saw DEF IInv, CanAssign
  <1>4. q.pc \in {"role", "profile", "promote"} =>
            q.form.role # Same /\ Rank[q.form.role] < Rank[q.as]
    BY Absent DEF CanAssign
  <1>5. StaffOK(q, met'[w])
    BY <1>1, <1>2, <1>3, <1>4 DEF StaffOK
  <1>6. SignerThen(q) /\ VerifierOK(q) /\ PlannerOK(q)
    BY DEF SignerThen, VerifierOK, PlannerOK
  <1> QED BY <1>5, <1>6, Reads

LEMMA Acting ==
  ASSUME IInv, NEW w \in Workers, NEW role, Holds(w, role)
  PROVE  /\ req[w] \in Request /\ req[w].pc = "admitted"
         /\ req[w].by \in Users /\ req[w].as \in Roles
         /\ Rank[req[w].as] >= Rank[role]
  BY DEF IInv, TypeOK, AccountsOK, Holds, RequestOK, StaffOK

LEMMA FindForUpdateStep ==
  ASSUME IInv, NEW w \in Workers, NEW u \in Users, NEW f \in Form, FindForUpdate(w, u, f)
  PROVE  IInv'
  <1> DEFINE q == [req[w] EXCEPT !.pc = "free", !.user = u, !.form = f,
                                 !.todo = {x \in {"email", "name"} : f[x] # Same}]
  <1>1. /\ req[w] \in Request /\ req[w].by \in Users /\ req[w].as \in Roles
    BY Acting DEF FindForUpdate
  <1>2. /\ q \in Request /\ q.pc = "free" /\ q.by = req[w].by /\ q.as = req[w].as
        /\ q.user = u /\ q.form = f
    BY <1>1 DEF Request, Steps
  <1>3. req' = [req EXCEPT ![w] = q] /\ Leaving(names)
    BY DEF FindForUpdate
  <1>4. /\ Exists(u) /\ (u = req[w].by \/ CanAct(req[w].as, account[u].role))
        /\ \/ f.role \in {Same, account[u].role}
           \/ f.role \in Roles /\ CanAssign(req[w].as, f.role)
    BY DEF FindForUpdate, SelfOrOutranked, Outranked, FormAllowed
  <1> HIDE DEF q
  <1> QED BY <1>1, <1>2, <1>3, <1>4, StaffMoves

LEMMA Ranks ==
  /\ Rank \in [Roles -> 0..4]
  /\ Rank["CREATOR"] = 1 /\ Rank["ADMIN"] = 3
  BY DEF Rank, Roles

LEMMA TargetStep ==
  ASSUME IInv, NEW w \in Workers, NEW u \in Users, NEW op,
         NEW label \in {"status", "reset", "make", "delete"},
         Target(w, op, u, label), SelfOrOutranked(w, u)
  PROVE  IInv'
  <1> DEFINE q == [req[w] EXCEPT !.pc = label, !.user = u]
  <1>1. /\ req[w] \in Request /\ req[w].by \in Users /\ req[w].as \in Roles
        /\ Rank[req[w].as] >= Rank["ADMIN"]
    BY Acting DEF Target
  <1>2. /\ q \in Request /\ q.pc = label /\ q.by = req[w].by /\ q.as = req[w].as
        /\ q.user = u
    BY <1>1 DEF Request, Steps
  <1>3. req' = [req EXCEPT ![w] = q] /\ Leaving(names)
    BY DEF Target
  <1>4. Exists(u) /\ (u = req[w].by \/ CanAct(req[w].as, account[u].role))
    BY DEF Target, SelfOrOutranked, Outranked
  <1>5. Rank["CREATOR"] < Rank[req[w].as]
    BY <1>1, Ranks
  <1> HIDE DEF q
  <1> QED BY <1>1, <1>2, <1>3, <1>4, <1>5, StaffMoves

LEMMA FindForRoleStep ==
  ASSUME IInv, NEW w \in Workers, NEW u \in Users, NEW role \in Roles \cup {Same},
         FindForRole(w, u, role)
  PROVE  IInv'
  <1> DEFINE q == [req[w] EXCEPT !.pc = IF role = "CREATOR" THEN "profile" ELSE "role",
                                 !.user = u, !.form = [Blank EXCEPT !.role = role]]
  <1>1. /\ req[w] \in Request /\ req[w].by \in Users /\ req[w].as \in Roles
    BY Acting DEF FindForRole
  <1>2. [Blank EXCEPT !.role = role] \in Form /\ [Blank EXCEPT !.role = role].role = role
    BY Blanks DEF Blank, Form
  <1>3. /\ q \in Request /\ q.pc \in {"profile", "role"} /\ q.by = req[w].by
        /\ q.as = req[w].as /\ q.user = u /\ q.form.role = role
    BY <1>1, <1>2 DEF Request, Steps
  <1>4. req' = [req EXCEPT ![w] = q] /\ Leaving(names)
    BY DEF FindForRole
  <1>5. /\ Exists(u) /\ CanAct(req[w].as, account[u].role)
        /\ role \in Roles /\ CanAssign(req[w].as, role)
    BY DEF FindForRole, Outranked
  <1> HIDE DEF q
  <1> QED BY <1>1, <1>3, <1>4, <1>5, StaffMoves

LEMMA FindProfileStep ==
  ASSUME IInv, NEW w \in Workers, FindProfile(w)
  PROVE  IInv'
  <1>1. PICK label \in {"role", "promote"} : req' = [req EXCEPT ![w].pc = label]
    BY DEF FindProfile, Goto
  <1> DEFINE q == [req[w] EXCEPT !.pc = label]
  <1>2. req[w] \in Request /\ req[w].pc = "profile" /\ StaffOK(req[w], met[w])
    BY DEF IInv, TypeOK, AccountsOK, FindProfile, RequestOK
  <1>3. /\ q \in Request
        /\ q.pc = label /\ q.user = req[w].user /\ q.form = req[w].form
        /\ q.by = req[w].by /\ q.as = req[w].as
    BY <1>2 DEF Request, Steps
  <1>4. req' = [req EXCEPT ![w] = q] /\ Leaving(names)
    BY <1>1 DEF FindProfile
  <1>5. q # Idle
    BY <1>3 DEF Idle
  <1> HIDE DEF q
  <1>6. met[w] \subseteq met'[w]
    BY <1>3, <1>4, <1>5, Saw DEF IInv
  <1>7. StaffOK(q, met'[w])
    BY <1>2, <1>3, <1>6 DEF StaffOK, Below
  <1>8. SignerThen(q) /\ VerifierOK(q) /\ PlannerOK(q)
    BY <1>3 DEF SignerThen, VerifierOK, PlannerOK
  <1> QED BY <1>3, <1>4, <1>7, <1>8, Reads

LEMMA FindForBadgeStep ==
  ASSUME IInv, NEW w \in Workers, NEW u \in Users, FindForBadge(w, u)
  PROVE  IInv'
  <1> DEFINE q == [req[w] EXCEPT !.pc = "badge", !.user = u]
  <1>1. req[w] \in Request
    BY DEF IInv, TypeOK, AccountsOK
  <1>2. q \in Request /\ q.pc = "badge" /\ q.user = u
    BY <1>1 DEF Request, Steps
  <1>3. req' = [req EXCEPT ![w] = q] /\ Leaving(names)
    BY DEF FindForBadge, Target
  <1> HIDE DEF q
  <1>4. SignerThen(q) /\ VerifierOK(q) /\ PlannerOK(q) /\ StaffOK(q, met'[w])
    BY <1>2 DEF SignerThen, VerifierOK, PlannerOK, StaffOK
  <1> QED BY <1>2, <1>3, <1>4, Reads

LEMMA FindOwnProfileStep ==
  ASSUME IInv, NEW w \in Workers, FindOwnProfile(w)
  PROVE  IInv'
  <1> DEFINE q == [req[w] EXCEPT !.pc = "become", !.user = req[w].by]
  <1>1. req[w] \in Request /\ req[w].by \in Users /\ req[w].as \in Roles
    BY DEF IInv, TypeOK, AccountsOK, FindOwnProfile, RequestOK, StaffOK
  <1>2. /\ q \in Request /\ q.pc = "become" /\ q.user = q.by
        /\ q.by = req[w].by /\ q.as = req[w].as
    BY <1>1 DEF Request, Steps
  <1>3. req' = [req EXCEPT ![w] = q] /\ Leaving(names)
    BY DEF FindOwnProfile
  <1> HIDE DEF q
  <1>4. SignerThen(q) /\ VerifierOK(q) /\ PlannerOK(q) /\ StaffOK(q, met'[w])
    BY <1>1, <1>2 DEF SignerThen, VerifierOK, PlannerOK, StaffOK
  <1> QED BY <1>2, <1>3, <1>4, Reads

LEMMA FindCreatorStep ==
  ASSUME IInv, NEW w \in Workers, NEW k \in Plans, NEW label \in {"plan", "stop"},
         FindCreator(w, k, label)
  PROVE  IInv'
  <1> DEFINE q == [req[w] EXCEPT !.pc = label, !.item = k]
  <1>1. /\ req[w] \in Request /\ req[w].as \in Roles
        /\ Rank[req[w].as] >= Rank["CREATOR"]
    BY Acting DEF FindCreator
  <1>2. /\ q \in Request /\ q.pc = label /\ q.item = k
        /\ q.by = req[w].by /\ q.as = req[w].as
    BY <1>1, Blanks DEF Request, Steps
  <1>3. req' = [req EXCEPT ![w] = q] /\ Leaving(names)
    BY DEF FindCreator
  <1>4. label = "plan" => k[1] = req[w].by
    BY DEF FindCreator
  <1> HIDE DEF q
  <1>5. SignerThen(q) /\ VerifierOK(q) /\ PlannerOK(q) /\ StaffOK(q, met'[w])
    BY <1>1, <1>2, <1>4 DEF SignerThen, VerifierOK, PlannerOK, StaffOK
  <1> QED BY <1>2, <1>3, <1>5, Reads

-----------------------------------------------------------------------------
(* Requests that write *)

\* The last step of a request.
LEMMA Responds ==
  ASSUME IInv, NEW w \in Workers, Respond(w), DbOK', now' = now, UNCHANGED mix, Witness,
         LinksKept, NamesUnique', NoTokensUntilVerified', TokensHeld', VerifiedProved'
  PROVE  IInv'
  <1>1. req' = [req EXCEPT ![w] = Idle] /\ Idle \in Request
    BY Blanks DEF Respond
  <1>2. PlannerOK(Idle) /\ StaffOK(Idle, met'[w])
    BY IdleOK
  <1>3. SignerThen(Idle) /\ VerifierThen(Idle)
    BY DEF SignerThen, VerifierThen, Idle
  <1> QED BY <1>1, <1>2, <1>3, Writes

\* Sessions that are as they were or revoked.
LEMMA SessionsLeft ==
  ASSUME IInv, Witness, token' = token, now' = now,
         \A s \in Sessions : session'[s] \in {session[s], Deleted}
  PROVE  NoTokensUntilVerified' /\ TokensHeld'
  <1>1. Deleted \notin Users /\ NotYet \notin Users
    BY UsersHaveNames
  <1>2. NoTokensUntilVerified'
    BY <1>1, Remembered DEF IInv, NoTokensUntilVerified
  <1>3. TokensHeld'
    <2> SUFFICES ASSUME NEW t \in token
                 PROVE  /\ session'[t.session] # NotYet
                        /\ session'[t.session] \in Users /\ now <= t.at + Life
                              => <<session'[t.session], t.role, t.at>> \in held'
      BY DEF TokensHeld, Fresh
    <2>1. t.session \in Sessions
      BY DEF IInv, TypeOK, AccountsOK, Token
    <2>2. CASE session'[t.session] = session[t.session]
      <3>1. /\ session[t.session] # NotYet
            /\ session[t.session] \in Users /\ now <= t.at + Life
                  => <<session[t.session], t.role, t.at>> \in held
        BY DEF IInv, TokensHeld, Fresh
      <3> QED BY <2>2, <3>1, Remembered DEF IInv
    <2>3. CASE session'[t.session] = Deleted
      BY <1>1, <2>3, Absent
    <2> QED BY <2>1, <2>2, <2>3
  <1> QED BY <1>2, <1>3

\* A row that is new or changed: its names are free or its own, and its address
\* vouched for or confirmed before.
LEMMA RowWritten ==
  ASSUME IInv, Witness, NEW u \in Users, NEW row \in Row,
         account' = [account EXCEPT ![u] = row],
         \/ UniqueIn(u, row)
         \/ Exists(u) /\ row.email = account[u].email /\ row.name = account[u].name,
         row.verified => u \in proved' \/ (Exists(u) /\ account[u].verified)
  PROVE  NamesUnique' /\ VerifiedProved'
  <1>1. account'[u] = row /\ \A v \in Users : v # u => account'[v] = account[v]
    BY DEF IInv, TypeOK, AccountsOK
  <1>2. VerifiedProved'
    BY <1>1, Remembered DEF IInv, VerifiedProved, Exists
  <1>3. ASSUME NEW v \in Users, v # u, Exists(v)
        PROVE  account[v].email # row.email /\ account[v].name # row.name
    <2>1. CASE UniqueIn(u, row)
      BY <1>3, <2>1 DEF UniqueIn, Bearers
    <2>2. CASE Exists(u) /\ row.email = account[u].email /\ row.name = account[u].name
      BY <1>3, <2>2 DEF IInv, NamesUnique
    <2> QED BY <2>1, <2>2
  <1>4. NamesUnique'
    BY <1>1, <1>3 DEF IInv, NamesUnique, Exists
  <1> QED BY <1>2, <1>4

LEMMA AccountTyped ==
  ASSUME TypeOK, NEW u, NEW row \in Row, account' = [account EXCEPT ![u] = row]
  PROVE  account' \in [Users -> Row \cup {NotYet, Deleted}]
  BY DEF TypeOK, AccountsOK

LEMMA Untouched ==
  ASSUME IInv
  PROVE  /\ link' = link => LinksKept /\ link' \in [Links -> Link \cup {NoItem}]
         /\ session' = session => session' \in [Sessions -> Users \cup {NotYet, Deleted}]
         /\ plan' = plan => PlansOK'
         /\ token' = token => token' \subseteq Token
         /\ now' = now => now' \in 0..MaxTime
  BY DEF IInv, TypeOK, AccountsOK, PlansOK, LinksKept

\* A row is written, and sessions may be revoked.
LEMMA RowEffect ==
  ASSUME IInv, NEW u \in Users, NEW row \in Row,
         account' = [account EXCEPT ![u] = row],
         \/ UniqueIn(u, row)
         \/ Exists(u) /\ row.email = account[u].email /\ row.name = account[u].name,
         row.verified => u \in proved' \/ (Exists(u) /\ account[u].verified),
         session' = session \/ session' = Revoked(u),
         Leaving(<<plan, token, now>>)
  PROVE  /\ UNCHANGED <<token, now, mix>> /\ Witness
         /\ link' = link => DbOK' /\ LinksKept
         /\ link' \in [Links -> Link \cup {NoItem}] => DbOK'
         /\ NamesUnique' /\ NoTokensUntilVerified' /\ TokensHeld' /\ VerifiedProved'
  <1>1. UNCHANGED <<plan, token, now, mix>> /\ Witness
    BY DEF Leaving
  <1>2. /\ session' \in [Sessions -> Users \cup {NotYet, Deleted}]
        /\ \A s \in Sessions : session'[s] \in {session[s], Deleted}
    BY DEF IInv, TypeOK, AccountsOK, Revoked
  <1>3. /\ link' \in [Links -> Link \cup {NoItem}] => DbOK'
        /\ link' = link => DbOK' /\ LinksKept
    BY <1>1, <1>2, AccountTyped, Untouched DEF DbOK, IInv
  <1>4. NamesUnique' /\ VerifiedProved'
    BY <1>1, RowWritten
  <1>5. NoTokensUntilVerified' /\ TokensHeld'
    BY <1>1, <1>2, SessionsLeft
  <1> QED BY <1>1, <1>3, <1>4, <1>5

LEMMA RowStep ==
  ASSUME IInv, NEW w \in Workers, NEW u \in Users, NEW row \in Row,
         account' = [account EXCEPT ![u] = row],
         \/ UniqueIn(u, row)
         \/ Exists(u) /\ row.email = account[u].email /\ row.name = account[u].name,
         row.verified => u \in proved' \/ (Exists(u) /\ account[u].verified),
         session' = session \/ session' = Revoked(u),
         Respond(w), Leaving(<<link, plan, token, now>>)
  PROVE  IInv'
  <1>1. link' = link /\ Leaving(<<plan, token, now>>)
    BY DEF Leaving
  <1> QED BY <1>1, RowEffect, Responds

\* A request that writes nothing after all.
LEMMA NothingStep ==
  ASSUME IInv, NEW w \in Workers, Respond(w), account' = account,
         session' = session \/ (\E u : session' = Revoked(u)),
         Leaving(<<link, plan, token, now>>)
  PROVE  IInv'
  <1>1. UNCHANGED <<link, plan, token, now, mix>> /\ Witness
    BY DEF Leaving
  <1>2. /\ session' \in [Sessions -> Users \cup {NotYet, Deleted}]
        /\ \A s \in Sessions : session'[s] \in {session[s], Deleted}
    BY DEF IInv, TypeOK, AccountsOK, Revoked
  <1>3. account' \in [Users -> Row \cup {NotYet, Deleted}]
    BY DEF IInv, TypeOK, AccountsOK
  <1>4. DbOK' /\ LinksKept
    BY <1>1, <1>2, <1>3, Untouched DEF DbOK
  <1>5. NamesUnique' /\ VerifiedProved'
    BY <1>1, Remembered DEF IInv, NamesUnique, VerifiedProved, Exists
  <1>6. NoTokensUntilVerified' /\ TokensHeld'
    BY <1>1, <1>2, SessionsLeft
  <1> QED BY <1>1, <1>4, <1>5, <1>6, Responds

\* An address filled in as confirmed counts as vouched for.
LEMMA FormVouches ==
  ASSUME IInv, Witness, NEW w \in Workers, NEW u \in Users,
         req[w].pc = "free", req[w].form.verified = TRUE, account'[u] # account[u],
         req'[w] # req[w]
  PROVE  u \in proved'
  BY DEF Witness, Vouched

LEMMA InsertStep ==
  ASSUME IInv, NEW w \in Workers, NEW u \in Users, Insert(w, u)
  PROVE  IInv'
  <1> DEFINE f   == req[w].form
             row == [Newcomer(f.email, f.name, f.role) EXCEPT
                       !.verified = f.verified,
                       !.creator  = IF f.role = "CREATOR" THEN "plain" ELSE "none",
                       !.wallet   = req[w].by = NoUser \/ f.role = "CREATOR"]
  <1>1. /\ req[w] \in Request /\ req[w].pc = "free"
        /\ \A x \in DOMAIN Blank : f[x] # Same
    BY DEF IInv, TypeOK, AccountsOK, Insert, RequestOK, StaffOK
  <1>2. f \in Form
    BY <1>1 DEF Request
  <1>3. /\ f.email \in Names /\ f.name \in Names /\ f.role \in Roles /\ f.verified \in BOOLEAN
    BY <1>1, <1>2 DEF Form, Blank
  <1>4. row \in Row /\ row.verified = f.verified
    BY <1>3 DEF Newcomer, Row, Statuses
  <1>5. PICK q \in {Idle, [Idle EXCEPT !.pc = "issue", !.user = u]} :
           req' = [req EXCEPT ![w] = q]
    BY DEF Insert, Respond
  <1>6. q \in Request /\ q.pc \in {"idle", "issue"} /\ (q.pc = "issue" => q.user = u)
    BY <1>5, Blanks DEF Idle, Request, Steps
  <1>7. /\ account[u] = NotYet /\ UniqueIn(u, row)
        /\ account' = [account EXCEPT ![u] = row]
        /\ link' = link /\ session' = session /\ Witness
        /\ Leaving(<<plan, token, now>>)
    BY DEF Insert, Leaving
  <1> HIDE DEF row
  <1>8. row.verified => u \in proved'
    <2>1. account'[u] # account[u]
      BY <1>4, <1>7, RowsThere DEF IInv, TypeOK, AccountsOK
    <2>2. req'[w] # req[w]
      BY <1>1, <1>5, <1>6, Moved DEF IInv
    <2> QED BY <1>1, <1>3, <1>4, <1>7, <2>1, <2>2, FormVouches
  <1>9. /\ UNCHANGED <<token, now, mix>> /\ DbOK' /\ LinksKept
        /\ NamesUnique' /\ NoTokensUntilVerified' /\ TokensHeld' /\ VerifiedProved'
    BY <1>4, <1>7, <1>8, RowEffect
  <1>10. SignerThen(q) /\ VerifierThen(q) /\ PlannerOK(q) /\ StaffOK(q, met'[w])
    BY <1>6 DEF SignerThen, VerifierThen, PlannerOK, StaffOK
  <1> QED BY <1>5, <1>6, <1>7, <1>9, <1>10, Writes

LEMMA UpdateUserStep ==
  ASSUME IInv, NEW w \in Workers, UpdateUser(w)
  PROVE  IInv'
  <1> DEFINE u == req[w].user
             f == req[w].form
             new == Filled(account[u], f)
  <1>1. /\ req[w] \in Request /\ req[w].pc = "free" /\ u \in Users /\ Exists(u)
        /\ Respond(w) /\ link' = link /\ session' = session /\ Witness
        /\ Leaving(<<link, plan, token, now>>)
        /\ \/ account' = [account EXCEPT ![u] = new] /\ UniqueIn(u, new)
           \/ account' = account
    BY DEF IInv, TypeOK, AccountsOK, UpdateUser, Batch, Old, Leaving, Request
  <1>2. account[u] \in Row /\ f \in Form
    BY <1>1, Rows DEF IInv, Request
  <1>3. /\ new \in Row
        /\ new.verified => f.verified = TRUE \/ account[u].verified
    BY <1>2 DEF Filled, Row, Form
  <1> HIDE DEF new
  <1>4. CASE account' = account
    BY <1>1, <1>4, NothingStep
  <1>5. CASE account' # account
    <2>1. account' = [account EXCEPT ![u] = new] /\ UniqueIn(u, new)
      BY <1>1, <1>5
    <2>2. account'[u] # account[u]
      BY <1>1, <1>5, <2>1 DEF IInv, TypeOK, AccountsOK
    <2>3. req'[w] # req[w]
      BY <1>1 DEF Respond, Idle, IInv, TypeOK, AccountsOK
    <2>4. new.verified => u \in proved' \/ (Exists(u) /\ account[u].verified)
      BY <1>1, <1>3, <2>2, <2>3, FormVouches
    <2> QED BY <1>1, <1>3, <2>1, <2>4, RowStep
  <1> QED BY <1>4, <1>5

\* A batch that keeps the names and confirms nothing.
LEMMA BatchStep ==
  ASSUME IInv, NEW w \in Workers, NEW label, NEW new \in Row, NEW rest \in BOOLEAN,
         Batch(w, label, new, rest), req[w].user \in Users,
         new.email = account[req[w].user].email, new.name = account[req[w].user].name,
         new.verified = account[req[w].user].verified,
         session' = session \/ session' = Revoked(req[w].user),
         Leaving(<<link, plan, token, now>>)
  PROVE  IInv'
  <1>1. CASE rest
    BY <1>1, RowStep DEF Batch
  <1>2. CASE ~rest
    BY <1>2, NothingStep DEF Batch
  <1> QED BY <1>1, <1>2

\* The target of a staff request at a step where it writes.
LEMMA Targets ==
  ASSUME IInv, NEW w \in Workers, Exists(req[w].user),
         req[w].pc \in {"status", "reset", "role", "profile", "promote", "make", "delete", "badge"}
  PROVE  /\ req[w] \in Request /\ req[w].user \in Users
         /\ account[req[w].user] \in Row /\ Old(w) = account[req[w].user]
  <1>1. req[w] \in Request /\ req[w].user \in Users
    BY DEF IInv, TypeOK, AccountsOK, RequestOK, StaffOK
  <1> QED BY <1>1, Rows DEF IInv, Old

LEMMA SetUserStatusStep ==
  ASSUME IInv, NEW w \in Workers, NEW status \in Statuses, SetUserStatus(w, status)
  PROVE  IInv'
  <1> DEFINE new == [Old(w) EXCEPT !.status = status]
  <1>1. /\ req[w].user \in Users /\ account[req[w].user] \in Row
        /\ Old(w) = account[req[w].user]
    BY Targets DEF SetUserStatus
  <1>2. /\ new \in Row /\ new.email = account[req[w].user].email
        /\ new.name = account[req[w].user].name /\ new.verified = account[req[w].user].verified
    BY <1>1 DEF Row
  <1>3. Batch(w, "status", new, TRUE) /\ session' = Revoked(req[w].user)
    BY DEF SetUserStatus
  <1>4. Leaving(<<link, plan, token, now>>)
    BY DEF SetUserStatus
  <1> HIDE DEF new
  <1> QED BY <1>1, <1>2, <1>3, <1>4, BatchStep

LEMMA ResetPasswordStep ==
  ASSUME IInv, NEW w \in Workers, ResetPassword(w)
  PROVE  IInv'
  <1>1. /\ req[w].user \in Users /\ account[req[w].user] \in Row
        /\ Old(w) = account[req[w].user]
    BY Targets DEF ResetPassword
  <1>2. Batch(w, "reset", account[req[w].user], TRUE) /\ session' = Revoked(req[w].user)
    BY <1>1 DEF ResetPassword
  <1>3. Leaving(<<link, plan, token, now>>)
    BY DEF ResetPassword
  <1> QED BY <1>1, <1>2, <1>3, BatchStep

LEMMA LeavingSession ==
  ASSUME Leaving(<<link, session, plan, token, now>>)
  PROVE  session' = session /\ Leaving(<<link, plan, token, now>>)
  BY DEF Leaving

LEMMA SetUserRoleStep ==
  ASSUME IInv, NEW w \in Workers, SetUserRole(w)
  PROVE  IInv'
  <1> DEFINE old == account[req[w].user]
             new == [old EXCEPT !.role = req[w].form.role]
             creator == [new EXCEPT !.creator = "plain", !.wallet = TRUE]
  <1>1. /\ req[w] \in Request /\ req[w].user \in Users /\ old \in Row /\ Old(w) = old
    BY Targets DEF SetUserRole
  <1>2. req[w].form.role \in Roles
    BY <1>1 DEF SetUserRole, IInv, RequestOK, StaffOK, Request, Form
  <1>3. /\ new \in Row /\ new.email = old.email /\ new.name = old.name
        /\ new.verified = old.verified
    BY <1>1, <1>2 DEF Row
  <1>4. /\ creator \in Row /\ creator.email = old.email /\ creator.name = old.name
        /\ creator.verified = old.verified
    BY <1>3 DEF Row
  <1>5. \/ Batch(w, "role", new, TRUE)
        \/ Batch(w, "promote", creator, old.creator = "none")
    BY <1>1 DEF SetUserRole
  <1>6. session' = session /\ Leaving(<<link, plan, token, now>>)
    BY LeavingSession DEF SetUserRole
  <1> HIDE DEF new, creator
  <1> QED BY <1>1, <1>3, <1>4, <1>5, <1>6, BatchStep

LEMMA MakeCreatorStep ==
  ASSUME IInv, NEW w \in Workers, NEW badge \in {"plain", "badged", Same}, MakeCreator(w, badge)
  PROVE  IInv'
  <1> DEFINE old == account[req[w].user]
             new == [old EXCEPT !.role = "CREATOR", !.wallet = TRUE,
                       !.creator = IF badge # Same THEN badge
                                   ELSE IF @ = "none" THEN "plain" ELSE @]
  <1>1. req[w].user \in Users /\ old \in Row /\ Old(w) = old
    BY Targets DEF MakeCreator
  <1>2. /\ new \in Row /\ new.email = old.email /\ new.name = old.name
        /\ new.verified = old.verified
    BY <1>1 DEF Row, Roles
  <1>3. Batch(w, "make", new, TRUE)
    BY <1>1 DEF MakeCreator
  <1>4. session' = session /\ Leaving(<<link, plan, token, now>>)
    BY LeavingSession DEF MakeCreator
  <1> HIDE DEF new
  <1> QED BY <1>1, <1>2, <1>3, <1>4, BatchStep

LEMMA SetVerifiedBadgeStep ==
  ASSUME IInv, NEW w \in Workers, NEW badge \in {"plain", "badged"}, SetVerifiedBadge(w, badge)
  PROVE  IInv'
  <1> DEFINE old == account[req[w].user]
             new == [old EXCEPT !.creator = badge]
  <1>1. req[w].user \in Users /\ old \in Row /\ Exists(req[w].user)
    BY Targets DEF SetVerifiedBadge
  <1>2. /\ new \in Row /\ new.email = old.email /\ new.name = old.name
        /\ new.verified = old.verified
    BY <1>1 DEF Row
  <1>3. account' = [account EXCEPT ![req[w].user] = new] /\ Respond(w)
    BY DEF SetVerifiedBadge
  <1>4. session' = session /\ Leaving(<<link, plan, token, now>>)
    BY LeavingSession DEF SetVerifiedBadge
  <1> HIDE DEF new
  <1> QED BY <1>1, <1>2, <1>3, <1>4, RowStep

LEMMA BecomeCreatorStep ==
  ASSUME IInv, NEW w \in Workers, BecomeCreator(w)
  PROVE  IInv'
  <1> DEFINE u   == req[w].by
             new == [account[u] EXCEPT !.role = "CREATOR", !.creator = "plain"]
  <1>1. u \in Users /\ Exists(u) /\ account[u] \in Row
    BY Rows DEF BecomeCreator, IInv, RequestOK, StaffOK
  <1>2. /\ new \in Row /\ new.email = account[u].email /\ new.name = account[u].name
        /\ new.verified = account[u].verified
    BY <1>1 DEF Row, Roles
  <1>3. account' = [account EXCEPT ![u] = new] /\ Respond(w)
    BY DEF BecomeCreator
  <1>4. session' = session /\ Leaving(<<link, plan, token, now>>)
    BY LeavingSession DEF BecomeCreator
  <1> HIDE DEF new
  <1> QED BY <1>1, <1>2, <1>3, <1>4, RowStep

LEMMA DeleteUserStep ==
  ASSUME IInv, NEW w \in Workers, DeleteUser(w)
  PROVE  IInv'
  <1> DEFINE u == req[w].user
  <1>1. u \in Users /\ Exists(u)
    BY Targets DEF DeleteUser
  <1>2. /\ account' = [account EXCEPT ![u] = Deleted]
        /\ session' = Revoked(u) /\ Respond(w)
        /\ plan' = [k \in DOMAIN plan |-> IF k[1] = u THEN NoPlan ELSE plan[k]]
        /\ UNCHANGED <<link, token, now, mix>> /\ Witness
    BY DEF DeleteUser, Leaving
  <1>3. /\ session' \in [Sessions -> Users \cup {NotYet, Deleted}]
        /\ \A s \in Sessions : session'[s] \in {session[s], Deleted}
    BY <1>2 DEF IInv, TypeOK, AccountsOK, Revoked
  <1>4. PlansOK'
    BY <1>2 DEF IInv, TypeOK, PlansOK
  <1>5. account' \in [Users -> Row \cup {NotYet, Deleted}]
    BY <1>2 DEF IInv, TypeOK, AccountsOK
  <1>6. DbOK' /\ LinksKept
    BY <1>2, <1>3, <1>4, <1>5, Untouched DEF DbOK
  <1>7. \A v \in Users : account'[v] \in {account[v], Deleted}
    BY <1>2 DEF IInv, TypeOK, AccountsOK
  <1>8. NamesUnique' /\ VerifiedProved'
    BY <1>2, <1>7, Remembered DEF IInv, NamesUnique, VerifiedProved, Exists
  <1>9. NoTokensUntilVerified' /\ TokensHeld'
    BY <1>2, <1>3, SessionsLeft
  <1> QED BY <1>2, <1>6, <1>8, <1>9, Responds

LEMMA MarkVerifiedStep ==
  ASSUME IInv, NEW w \in Workers, MarkVerified(w)
  PROVE  IInv'
  <1> DEFINE u == req[w].user
             l == req[w].item
             new == [account[u] EXCEPT !.verified = TRUE]
  <1>1. /\ u \in Users /\ Exists(u) /\ l \in Links /\ link[l] \in Link
        /\ link[l].kind = "verify" /\ account[u] \in Row
    BY Rows DEF MarkVerified, IInv, RequestOK, VerifierOK
  <1>2. new \in Row /\ new.email = account[u].email /\ new.name = account[u].name
    BY <1>1 DEF Row
  <1>3. /\ account' = [account EXCEPT ![u] = new]
        /\ link' = [link EXCEPT ![l].over = TRUE] /\ session' = session
        /\ Respond(w) /\ Leaving(<<plan, token, now>>) /\ Witness
    BY DEF MarkVerified, Leaving
  <1>4. link' \in [Links -> Link \cup {NoItem}] /\ LinksKept
    BY <1>1, <1>3 DEF IInv, TypeOK, AccountsOK, Link, LinksKept
  <1>5. req[w].pc = "verify" /\ req'[w] # req[w]
    BY DEF MarkVerified, Respond, Idle, IInv, TypeOK, AccountsOK
  <1>6. u \in proved'
    BY <1>1, <1>3, <1>5 DEF Witness, Vouched
  <1> HIDE DEF new
  <1>7. /\ UNCHANGED <<token, now, mix>> /\ DbOK'
        /\ NamesUnique' /\ NoTokensUntilVerified' /\ TokensHeld' /\ VerifiedProved'
    BY <1>1, <1>2, <1>3, <1>4, <1>6, RowEffect
  <1> QED BY <1>3, <1>4, <1>7, Responds

-----------------------------------------------------------------------------
(* Steps on no account *)

\* Accounts, sessions and tokens are as they were.
LEMMA ElsewhereStep ==
  ASSUME IInv, NEW w \in Workers, Respond(w), Leaving(<<account, session, token, now>>),
         link' \in [Links -> Link \cup {NoItem}], LinksKept, PlansOK'
  PROVE  IInv'
  <1>1. UNCHANGED <<account, session, token, now, mix>> /\ Witness
    BY DEF Leaving
  <1>2. DbOK'
    BY <1>1 DEF IInv, TypeOK, AccountsOK, DbOK
  <1>3. now \in Nat
    BY DEF IInv, TypeOK, AccountsOK
  <1>4. NamesUnique' /\ NoTokensUntilVerified' /\ TokensHeld' /\ VerifiedProved'
    BY <1>1, <1>3, Still
  <1> QED BY <1>1, <1>2, <1>4, Responds

LEMMA IssueLinkStep ==
  ASSUME IInv, NEW w \in Workers, NEW l \in Links, IssueLink(w, l)
  PROVE  IInv'
  <1> DEFINE row == [user |-> req[w].user, over |-> FALSE,
                     kind |-> IF req[w].pc = "issue" THEN "verify" ELSE "reset"]
  <1>1. row \in Link /\ link[l] = NoItem
    BY DEF IssueLink, IInv, RequestOK, StaffOK, Link
  <1>2. link' = [link EXCEPT ![l] = row] /\ Respond(w)
        /\ plan' = plan /\ Leaving(<<account, session, token, now>>)
    BY DEF IssueLink, Leaving
  <1> HIDE DEF row
  <1>3. link' \in [Links -> Link \cup {NoItem}] /\ LinksKept
    BY <1>1, <1>2, RowsThere DEF IInv, TypeOK, AccountsOK, LinksKept
  <1> QED BY <1>2, <1>3, Untouched, ElsewhereStep

LEMMA UpsertPlanStep ==
  ASSUME IInv, NEW w \in Workers, NEW price \in Prices, NEW discount \in Discounts,
         UpsertPlan(w, price, discount)
  PROVE  IInv'
  <1> DEFINE row == [price |-> price, discount |-> discount, active |-> TRUE]
  <1>1. row \in PlanRow
    BY PricesInRange DEF PlanRow
  <1>2. /\ plan' = [plan EXCEPT ![req[w].item] = row] /\ Respond(w)
        /\ link' = link /\ Leaving(<<account, session, token, now>>)
    BY DEF UpsertPlan, Leaving
  <1> HIDE DEF row
  <1>3. PlansOK'
    BY <1>1, <1>2 DEF IInv, TypeOK, PlansOK
  <1> QED BY <1>2, <1>3, Untouched, ElsewhereStep

LEMMA DeactivatePlanStep ==
  ASSUME IInv, NEW w \in Workers, DeactivatePlan(w)
  PROVE  IInv'
  <1> DEFINE row == [plan[req[w].item] EXCEPT !.active = FALSE]
  <1>1. /\ plan' = [plan EXCEPT ![req[w].item] = row] /\ Respond(w)
        /\ link' = link /\ Leaving(<<account, session, token, now>>)
    BY DEF DeactivatePlan, Leaving
  <1>2. req[w].item \in Plans => row \in PlanRow
    BY DEF DeactivatePlan, OwnPlan, IInv, TypeOK, PlansOK, PlanRow
  <1> HIDE DEF row
  <1>3. PlansOK'
    BY <1>1, <1>2 DEF IInv, TypeOK, PlansOK
  <1> QED BY <1>1, <1>3, Untouched, ElsewhereStep

\* Steps of no request.
LEMMA Timed ==
  ASSUME IInv, UNCHANGED <<account, session, plan, token, req, mix>>, Witness,
         link' \in [Links -> Link \cup {NoItem}], LinksKept,
         now' \in 0..MaxTime, now' >= now,
         now' # now => \A w \in Workers : req[w].pc # "sign"
  PROVE  IInv'
  <1>1. DbOK'
    BY DEF IInv, TypeOK, AccountsOK, DbOK, PlansOK
  <1>2. TypeOK'
    BY <1>1, HistoryTyped DEF IInv, TypeOK, AccountsOK, DbOK, HistoryOK
  <1>3. NamesUnique' /\ NoTokensUntilVerified' /\ TokensHeld' /\ VerifiedProved'
    BY Still
  <1>4. ASSUME NEW w \in Workers
        PROVE  RequestOK(w)'
    <2>1. CASE now' = now
      BY <2>1, Undisturbed
    <2>2. CASE now' # now
      <3>1. RequestOK(w) /\ req'[w] = req[w] /\ req[w].pc # "sign"
        BY <2>2 DEF IInv
      <3>2. SignerOK(req[w])'
        BY <3>1 DEF SignerOK
      <3>3. VerifierOK(req[w])' /\ PlannerOK(req[w])'
        BY <3>1 DEF RequestOK, VerifierOK, PlannerOK, LinksKept
      <3>4. StaffOK(req[w], met[w])'
        <4>1. CASE req[w] = Idle
          BY <3>1, <4>1, IdleOK
        <4>2. CASE req[w] # Idle
          <5>1. met[w] \subseteq met'[w]
            BY <3>1, <4>2, Remembered DEF IInv
          <5> QED BY <3>1, <5>1 DEF RequestOK, StaffOK, Below
        <4> QED BY <4>1, <4>2
      <3> QED BY <3>2, <3>3, <3>4 DEF RequestOK
    <2> QED BY <2>1, <2>2
  <1> QED BY <1>2, <1>3, <1>4 DEF IInv

LEMMA ExpireLinkStep ==
  ASSUME IInv, NEW l \in Links, ExpireLink(l)
  PROVE  IInv'
  <1>1. /\ link[l] \in Link /\ link' = [link EXCEPT ![l].over = TRUE]
        /\ UNCHANGED <<account, session, plan, token, now, req, mix>> /\ Witness
    BY DEF ExpireLink, Leaving, IInv, TypeOK, AccountsOK
  <1>2. link' \in [Links -> Link \cup {NoItem}] /\ LinksKept
    BY <1>1 DEF IInv, TypeOK, AccountsOK, Link, LinksKept
  <1>3. now' \in 0..MaxTime /\ now' >= now
    BY <1>1 DEF IInv, TypeOK, AccountsOK
  <1> QED BY <1>1, <1>2, <1>3, Timed

LEMMA TickStep ==
  ASSUME IInv, Tick
  PROVE  IInv'
  <1>1. /\ UNCHANGED <<account, link, session, plan, token, req, mix>> /\ Witness
        /\ \A w \in Workers : req[w].pc # "sign"
    BY DEF Tick, Leaving
  <1>2. now' \in 0..MaxTime /\ now' >= now
    BY ClockBounds DEF Tick, IInv, TypeOK, AccountsOK
  <1>3. link' \in [Links -> Link \cup {NoItem}] /\ LinksKept
    BY <1>1, Untouched
  <1> QED BY <1>1, <1>2, <1>3, Timed

\* A token that is signed has the role that was read in this tick.
LEMMA SignStep ==
  ASSUME IInv, NEW w \in Workers, NEW s \in Sessions, Sign(w, s)
  PROVE  IInv'
  <1> DEFINE q == req[w]
             t == [session |-> s, role |-> q.as, at |-> now]
  <1>1. /\ session' = [session EXCEPT ![s] = q.by] /\ token' = token \cup {t}
        /\ UNCHANGED <<account, link, plan, now, mix>> /\ Witness /\ Respond(w)
        /\ session[s] \in {NotYet, q.by} /\ q.pc = "sign"
    BY DEF Sign, Leaving
  <1>2. /\ q \in Request /\ q.by \in Users /\ q.by \in proved
        /\ <<q.by, q.as, now>> \in held
    BY <1>1 DEF IInv, TypeOK, AccountsOK, RequestOK, SignerOK
  <1>3. q.as \in Roles /\ now \in 0..MaxTime
    BY <1>2 DEF IInv, TypeOK, AccountsOK
  <1>4. t \in Token
    BY <1>3 DEF Token
  <1>5. DbOK' /\ LinksKept
    BY <1>1, <1>2, <1>4, Untouched DEF IInv, TypeOK, AccountsOK, DbOK
  <1>6. NamesUnique' /\ VerifiedProved'
    BY <1>1, Remembered DEF IInv, NamesUnique, VerifiedProved, Exists
  <1>7. session'[s] = q.by /\ \A x \in Sessions : x # s => session'[x] = session[x]
    BY <1>1 DEF IInv, TypeOK, AccountsOK
  <1>8. NoTokensUntilVerified'
    BY <1>2, <1>7, Remembered, <1>1 DEF IInv, NoTokensUntilVerified
  <1>9. now + Life >= now
    BY <1>3, ClockBounds
  <1>10. TokensHeld'
    <2> SUFFICES ASSUME NEW x \in token'
                 PROVE  /\ session'[x.session] # NotYet
                        /\ session'[x.session] \in Users /\ now <= x.at + Life
                              => <<session'[x.session], x.role, x.at>> \in held'
      BY <1>1 DEF TokensHeld, Fresh
    <2>1. CASE x = t
      <3>1. <<q.by, q.as, now>> \in held'
        BY <1>1, <1>2, <1>9, Remembered DEF IInv
      <3> QED BY <1>2, <1>7, <2>1, <3>1, UsersHaveNames
    <2>2. CASE x \in token
      <3>1. /\ x.session \in Sessions /\ session[x.session] # NotYet
            /\ session[x.session] \in Users /\ now <= x.at + Life
                  => <<session[x.session], x.role, x.at>> \in held
        BY <2>2 DEF IInv, TokensHeld, Fresh, TypeOK, AccountsOK, Token
      <3>2. session'[x.session] = session[x.session]
        BY <1>1, <1>7, <3>1
      <3> QED BY <1>1, <3>1, <3>2, Remembered DEF IInv
    <2> QED BY <1>1, <2>1, <2>2
  <1> QED BY <1>1, <1>5, <1>6, <1>8, <1>10, Responds

-----------------------------------------------------------------------------
(* Together *)

LEMMA StartOK ==
  ASSUME Init
  PROVE  IInv
  <1> DEFINE cast == Cast[mix]
             row(u) == [Newcomer(u, u, cast[u]) EXCEPT !.verified = TRUE]
  <1>1. /\ mix \in Mixes /\ cast \in [Users -> Roles \cup {NoRole}]
        /\ SignedIn[mix] \in [Sessions -> Users \cup {NotYet}]
        /\ \A s \in Sessions : SignedIn[mix][s] \in Users => cast[SignedIn[mix][s]] # NoRole
    BY StartAndBounds DEF Init, AccountsInit
  <1>2. /\ account = [u \in Users |-> IF cast[u] = NoRole THEN NotYet ELSE row(u)]
        /\ link = [l \in Links |-> NoItem] /\ session = SignedIn[mix]
        /\ token = {[session |-> s, role |-> cast[session[s]], at |-> 0] :
                       s \in {x \in Sessions : session[x] # NotYet}}
        /\ now = 0 /\ req = [w \in Workers |-> Idle] /\ met = [w \in Workers |-> {}]
        /\ held = {<<u, cast[u], 0>> : u \in {x \in Users : cast[x] # NoRole}}
        /\ proved = {u \in Users : cast[u] # NoRole}
        /\ plan = [k \in Plans |-> NoPlan]
    BY DEF Init, AccountsInit
  <1> HIDE DEF cast
  <1>3. ASSUME NEW u \in Users, cast[u] # NoRole
        PROVE  /\ cast[u] \in Roles
               /\ row(u) \in Row /\ row(u).email = u /\ row(u).name = u
    BY <1>1, <1>3, UsersHaveNames DEF Newcomer, Row, Statuses
  <1> HIDE DEF row
  <1>4. 0 \in 0..MaxTime
    BY ClockBounds
  <1>5. ASSUME NEW t \in token
        PROVE  /\ t \in Token /\ session[t.session] \in Users /\ t.at = 0
               /\ cast[session[t.session]] # NoRole /\ t.role = cast[session[t.session]]
    <2>1. PICK s \in Sessions : /\ session[s] # NotYet
                                /\ t = [session |-> s, role |-> cast[session[s]], at |-> 0]
      BY <1>2
    <2>2. session[s] \in Users /\ cast[session[s]] # NoRole
      BY <1>1, <1>2, <2>1
    <2>3. cast[session[s]] \in Roles
      BY <1>1, <2>2
    <2> QED BY <1>4, <2>1, <2>2, <2>3 DEF Token
  <1>6. DbOK
    <2>1. account \in [Users -> Row \cup {NotYet, Deleted}]
      BY <1>2, <1>3
    <2>2. token \subseteq Token
      BY <1>5
    <2>3. PlansOK
      BY <1>2 DEF PlansOK
    <2>4. session \in [Sessions -> Users \cup {NotYet, Deleted}]
      BY <1>1, <1>2
    <2>5. link \in [Links -> Link \cup {NoItem}] /\ now \in 0..MaxTime
      BY <1>2, <1>4
    <2> QED BY <2>1, <2>2, <2>3, <2>4, <2>5 DEF DbOK
  <1>7. HistoryOK
    BY <1>1, <1>2, <1>4 DEF HistoryOK
  <1>8. TypeOK
    BY <1>2, <1>6, <1>7, Blanks, Parts
  <1>9. \A w \in Workers : RequestOK(w)
    BY <1>2, IdleOK DEF RequestOK
  <1>10. ASSUME NEW u \in Users, Exists(u)
         PROVE  cast[u] # NoRole /\ account[u].email = u /\ account[u].name = u
    BY <1>2, <1>3, <1>10 DEF Exists
  <1>11. NamesUnique /\ VerifiedProved
    BY <1>2, <1>10 DEF NamesUnique, VerifiedProved
  <1>12. NoTokensUntilVerified
    BY <1>1, <1>2 DEF NoTokensUntilVerified
  <1>13. TokensHeld
    BY <1>2, <1>5, UsersHaveNames DEF TokensHeld
  <1> QED BY <1>8, <1>9, <1>11, <1>12, <1>13 DEF IInv

LEMMA JoiningStep ==
  ASSUME IInv, NEW w \in Workers, Joining(w)
  PROVE  IInv'
  <1>1. Asks[mix] \subseteq Form
    BY StartAndBounds DEF IInv, TypeOK, AccountsOK
  <1> QED BY <1>1, RegisterStep, CheckFreeStep, InsertStep, IssueStep, IssueLinkStep,
             VerifyEmailStep, MarkVerifiedStep DEF Joining

LEMMA SigningInStep ==
  ASSUME IInv, NEW w \in Workers, SigningIn(w)
  PROVE  IInv'
  BY LoginStep, RefreshStep, SignStep, AdmitStep DEF SigningIn

LEMMA StaffStep ==
  ASSUME IInv, NEW w \in Workers, Staff(w)
  PROVE  IInv'
  <1>1. CASE \E f \in Asks[mix] :
               \/ CreateUser(w, f)
               \/ \E u \in Users : FindForUpdate(w, u, f) \/ FindForRole(w, u, f.role)
    <2>1. Asks[mix] \subseteq Form
      BY StartAndBounds DEF IInv, TypeOK, AccountsOK
    <2>2. PICK f \in Form : \/ CreateUser(w, f)
                            \/ \E u \in Users : FindForUpdate(w, u, f) \/ FindForRole(w, u, f.role)
      BY <1>1, <2>1
    <2>3. f.role \in Roles \cup {Same}
      BY DEF Form
    <2> QED BY <2>2, <2>3, CreateUserStep, FindForUpdateStep, FindForRoleStep
  <1>2. CASE \E u \in Users : \/ FindForStatus(w, u) \/ FindForReset(w, u) \/ FindForCreator(w, u)
                              \/ FindForBadge(w, u) \/ FindForDelete(w, u)
    <2>1. PICK u \in Users : \/ FindForStatus(w, u) \/ FindForReset(w, u) \/ FindForCreator(w, u)
                             \/ FindForBadge(w, u) \/ FindForDelete(w, u)
      BY <1>2
    <2>2. CASE FindForStatus(w, u)
      BY <2>2, TargetStep DEF FindForStatus, SelfOrOutranked
    <2>3. CASE FindForReset(w, u)
      BY <2>3, TargetStep DEF FindForReset
    <2>4. CASE FindForCreator(w, u)
      BY <2>4, TargetStep DEF FindForCreator, SelfOrOutranked
    <2>5. CASE FindForDelete(w, u)
      BY <2>5, TargetStep DEF FindForDelete, SelfOrOutranked
    <2> QED BY <2>1, <2>2, <2>3, <2>4, <2>5, FindForBadgeStep
  <1>3. CASE \/ UpdateUser(w) \/ DeleteUser(w) \/ ResetPassword(w) \/ FindProfile(w) \/ SetUserRole(w)
             \/ \E s \in Statuses : SetUserStatus(w, s)
    BY <1>3, UpdateUserStep, DeleteUserStep, ResetPasswordStep, FindProfileStep, SetUserRoleStep,
       SetUserStatusStep
  <1>4. CASE \/ \E b \in {"plain", "badged"} : MakeCreator(w, b) \/ SetVerifiedBadge(w, b)
             \/ MakeCreator(w, Same)
    BY <1>4, MakeCreatorStep, SetVerifiedBadgeStep
  <1> QED BY <1>1, <1>2, <1>3, <1>4 DEF Staff

LEMMA PlanningStep ==
  ASSUME IInv, NEW w \in Workers, Planning(w)
  PROVE  IInv'
  BY FindOwnProfileStep, BecomeCreatorStep, DeactivatePlanStep, FindCreatorStep, UpsertPlanStep
  DEF Planning

LEMMA StutterStep ==
  ASSUME IInv, UNCHANGED vars
  PROVE  IInv'
  <1>1. UNCHANGED <<account, link, session, plan, token, now, req, mix, met, held, proved>>
    BY DEF vars
  <1>2. TypeOK'
    BY <1>1 DEF IInv, TypeOK, AccountsOK, PlansOK
  <1>3. (\A w \in Workers : RequestOK(w))'
    <2>1. ASSUME NEW w \in Workers
          PROVE  RequestOK(w)'
      <3>1. SignerOK(req[w])' /\ VerifierOK(req[w])' /\ PlannerOK(req[w])'
        BY <1>1 DEF IInv, RequestOK, SignerOK, VerifierOK, PlannerOK
      <3>2. StaffOK(req[w], met[w])'
        BY <1>1 DEF IInv, RequestOK, StaffOK, Below
      <3> QED BY <3>1, <3>2 DEF RequestOK
    <2> QED BY <2>1
  <1>4. NamesUnique' /\ NoTokensUntilVerified'
    BY <1>1 DEF IInv, NamesUnique, NoTokensUntilVerified, Exists
  <1>5. TokensHeld' /\ VerifiedProved'
    BY <1>1 DEF IInv, TokensHeld, Fresh, VerifiedProved, Exists
  <1> QED BY <1>2, <1>3, <1>4, <1>5 DEF IInv

LEMMA IInvNext ==
  ASSUME IInv, [Next]_vars
  PROVE  IInv'
  BY JoiningStep, SigningInStep, StaffStep, PlanningStep, DieStep, ExpireLinkStep, TickStep,
     StutterStep DEF Next

LEMMA Always == Spec => []IInv
  <1>1. Init => IInv
    BY StartOK
  <1>2. IInv /\ [Next]_vars => IInv'
    BY IInvNext
  <1> QED BY <1>1, <1>2, PTL DEF Spec

-----------------------------------------------------------------------------
(* The invariants *)

\* TypeOK always holds.
THEOREM TypeAlwaysOK == Spec => []TypeOK
  <1>1. IInv => TypeOK
    BY DEF IInv
  <1> QED BY <1>1, Always, PTL

\* register, createUser, updateUser: no two accounts ever have one e-mail address or
\* one username.
THEOREM NamesAlwaysUnique == Spec => []NamesUnique
  <1>1. IInv => NamesUnique
    BY DEF IInv
  <1> QED BY <1>1, Always, PTL

\* login, verifyEmail, refresh: nobody ever has a session before the address was
\* confirmed or vouched for.
THEOREM NoTokensAlwaysUntilVerified == Spec => []NoTokensUntilVerified
  <1>1. IInv => NoTokensUntilVerified
    BY DEF IInv
  <1> QED BY <1>1, Always, PTL

LEMMA PlanPrices ==
  ASSUME IInv, NEW k \in Plans, plan[k] # NoPlan
  PROVE  plan[k].price \in Nat /\ plan[k].discount \in 0..90
  <1>1. plan[k].price \in PriceRange /\ plan[k].discount \in DiscountRange
    BY DEF IInv, TypeOK, PlansOK, PlanRow
  <1>2. ASSUME NEW p \in PriceRange PROVE p \in Nat
    BY DEF PriceRange
  <1> QED BY <1>1, <1>2 DEF DiscountRange

\* startCheckout: whatever creators ask and take off, the price charged is a whole
\* cent nearest to the one advertised.
THEOREM DiscountAlwaysNearest == Spec => []DiscountIsNearest
  <1>1. ASSUME IInv PROVE DiscountIsNearest
    <2> SUFFICES ASSUME NEW k \in Plans, plan[k] # NoPlan,
                        NEW cents \in DiscountedCents(plan[k].price, plan[k].discount)
                 PROVE  LET exact == plan[k].price * (100 - plan[k].discount)
                        IN  2 * (100 * cents - exact) <= 100 /\ 2 * (exact - 100 * cents) <= 100
      BY DEF DiscountIsNearest
    <2>1. plan[k].price \in Nat /\ plan[k].discount \in 0..90
      BY <1>1, PlanPrices
    <2> QED BY <2>1, Discounted
  <1> QED BY <1>1, Always, PTL

\* createCheckout: the platform's fee of any amount a plan can be sold for is a fifth
\* rounded down.
THEOREM FeeAlwaysFair == Spec => []FeeIsFair
  <1>1. ASSUME IInv PROVE FeeIsFair
    <2>1. ASSUME NEW cents \in Sold
          PROVE  cents \in Nat
      <3>1. PICK k \in Plans : /\ plan[k] # NoPlan
                               /\ cents \in DiscountedCents(plan[k].price, plan[k].discount)
        BY <2>1 DEF Sold
      <3>2. plan[k].price \in Nat /\ plan[k].discount \in 0..90
        BY <1>1, <3>1, PlanPrices
      <3> QED BY <3>1, <3>2, Discounted
    <2> QED BY <2>1, Fair DEF FeeIsFair
  <1> QED BY <1>1, Always, PTL

-----------------------------------------------------------------------------
(* The steps *)

LEMMA Quiet ==
  /\ Leaving(names) => UNCHANGED <<account, plan>>
  /\ Leaving(<<account, link, session, token, now>>) => UNCHANGED account
  /\ Leaving(<<account, session, plan, token, now>>) => UNCHANGED <<account, plan>>
  /\ Leaving(<<account, link, plan, now>>) => UNCHANGED <<account, plan>>
  /\ Leaving(<<session, plan, token, now>>) => UNCHANGED plan
  /\ Leaving(<<link, session, plan, token, now>>) => UNCHANGED plan
  /\ Leaving(<<link, plan, token, now>>) => UNCHANGED plan
  /\ Leaving(<<account, session, plan, token, now, req>>) => UNCHANGED <<account, plan>>
  /\ Leaving(<<account, link, session, plan, token, req>>) => UNCHANGED <<account, plan>>
  BY DEF Leaving, names

\* The steps that write accounts or plans.
LEMMA Writers ==
  ASSUME [Next]_vars, UNCHANGED <<account, plan>> => FALSE
  PROVE  \E w \in Workers :
            \/ \E u \in Users : Insert(w, u)
            \/ MarkVerified(w) \/ UpdateUser(w) \/ ResetPassword(w) \/ SetUserRole(w)
            \/ \E s \in Statuses : SetUserStatus(w, s)
            \/ \E b \in {"plain", "badged", Same} : MakeCreator(w, b)
            \/ \E b \in {"plain", "badged"} : SetVerifiedBadge(w, b)
            \/ DeleteUser(w) \/ BecomeCreator(w) \/ DeactivatePlan(w)
            \/ \E p \in Prices, d \in Discounts : UpsertPlan(w, p, d)
  <1>1. ~Tick /\ ~(\E l \in Links : ExpireLink(l)) /\ ~UNCHANGED vars
    BY Quiet DEF Tick, ExpireLink, vars
  <1>2. PICK w \in Workers : Joining(w) \/ SigningIn(w) \/ Staff(w) \/ Planning(w) \/ Die(w)
    BY <1>1 DEF Next
  <1>3. ~Die(w) /\ ~SigningIn(w)
    BY Quiet DEF Die, SigningIn, Login, Refresh, Sign, Admit
  <1>4. CASE Joining(w)
    BY <1>4, Quiet DEF Joining, Register, CheckFree, ResendVerification, ForgotPassword,
       IssueLink, VerifyEmail
  <1>5. CASE Staff(w)
    BY <1>5, Quiet DEF Staff, CreateUser, FindForUpdate, FindForRole, FindForStatus, FindForReset,
       FindForCreator, FindForBadge, FindForDelete, Target, FindProfile
  <1>6. CASE Planning(w)
    BY <1>6, Quiet DEF Planning, FindOwnProfile, FindCreator
  <1> QED BY <1>2, <1>3, <1>4, <1>5, <1>6

\* The one request that takes the step.
LEMMA Mine ==
  ASSUME IInv, NEW w \in Workers, Respond(w), req[w].pc # "idle"
  PROVE  req'[w] # req[w]
  BY DEF Respond, Idle, IInv, TypeOK, AccountsOK

LEMMA PlanStep ==
  ASSUME IInv, [Next]_vars, NEW k \in Plans, plan'[k] # plan[k]
  PROVE  \/ account'[k[1]] = Deleted
         \/ \E w \in Workers : /\ req'[w] # req[w] /\ req[w].by = k[1]
                               /\ Rank[req[w].as] >= Rank["CREATOR"]
  <1>1. PICK w \in Workers :
           DeleteUser(w) \/ DeactivatePlan(w) \/ \E p \in Prices, d \in Discounts : UpsertPlan(w, p, d)
    BY Writers, Quiet DEF Insert, MarkVerified, UpdateUser, ResetPassword, SetUserRole, SetUserStatus,
       MakeCreator, SetVerifiedBadge, BecomeCreator
  <1>2. plan \in [Plans -> PlanRow \cup {NoPlan}] /\ RequestOK(w)
    BY DEF IInv, TypeOK, PlansOK
  <1>3. CASE DeleteUser(w)
    <2>1. k[1] = req[w].user
      BY <1>2, <1>3 DEF DeleteUser
    <2>2. account' = [account EXCEPT ![k[1]] = Deleted] /\ k[1] \in Users
      BY <1>3, <2>1 DEF DeleteUser, Plans
    <2> QED BY <2>2 DEF IInv, TypeOK, AccountsOK
  <1>4. CASE DeactivatePlan(w)
    <2>1. k = req[w].item
      BY <1>2, <1>4 DEF DeactivatePlan
    <2>2. req'[w] # req[w]
      BY <1>4, Mine DEF DeactivatePlan
    <2>3. req[w].by = k[1] /\ Rank[req[w].as] >= Rank["CREATOR"]
      BY <1>2, <1>4, <2>1 DEF DeactivatePlan, OwnPlan, RequestOK, PlannerOK
    <2> QED BY <2>2, <2>3
  <1>5. CASE \E p \in Prices, d \in Discounts : UpsertPlan(w, p, d)
    <2>1. k = req[w].item
      BY <1>2, <1>5 DEF UpsertPlan
    <2>2. req'[w] # req[w]
      BY <1>5, Mine DEF UpsertPlan
    <2>3. req[w].by = k[1] /\ Rank[req[w].as] >= Rank["CREATOR"]
      BY <1>2, <1>5, <2>1 DEF UpsertPlan, RequestOK, PlannerOK
    <2> QED BY <2>2, <2>3
  <1> QED BY <1>1, <1>3, <1>4, <1>5

\* upsertPlan, deactivatePlan: a plan only ever changes by its creator's request, or
\* goes with the account.
THEOREM PlansAlwaysByOwner == Spec => PlansByOwner
  <1>1. IInv /\ [Next]_vars =>
          [\A k \in Plans : plan'[k] # plan[k] =>
             \/ account'[k[1]] = Deleted
             \/ \E w \in Workers : /\ req'[w] # req[w] /\ req[w].by = k[1]
                                   /\ Rank[req[w].as] >= Rank["CREATOR"]]_vars
    BY PlanStep
  <1> QED BY <1>1, Always, PTL DEF Spec, PlansByOwner

\* A step of one request leaves the others where they were.
LEMMA OneMoves ==
  ASSUME IInv, NEW v \in Workers, NEW w \in Workers, w # v,
         Joining(v) \/ SigningIn(v) \/ Staff(v) \/ Planning(v) \/ Die(v)
  PROVE  req'[w] = req[w]
  <1>1. req \in [Workers -> Request]
    BY DEF IInv, TypeOK, AccountsOK
  <1>2. CASE Joining(v)
    BY <1>1, <1>2 DEF Joining, Register, CheckFree, Insert, ResendVerification, ForgotPassword,
       IssueLink, VerifyEmail, MarkVerified, Begin, Respond
  <1>3. CASE SigningIn(v)
    BY <1>1, <1>3 DEF SigningIn, Login, Refresh, Sign, Admit, Begin, Respond
  <1>4. CASE Staff(v)
    BY <1>1, <1>4 DEF Staff, CreateUser, FindForUpdate, FindForRole, FindForStatus, FindForReset,
       FindForCreator, FindForBadge, FindForDelete, Target, FindProfile, Goto, UpdateUser, DeleteUser,
       SetUserStatus, ResetPassword, SetUserRole, MakeCreator, SetVerifiedBadge, Batch, Respond
  <1>5. CASE Planning(v) \/ Die(v)
    BY <1>1, <1>5 DEF Planning, FindOwnProfile, BecomeCreator, DeactivatePlan, FindCreator,
       UpsertPlan, Die, Respond
  <1> QED BY <1>2, <1>3, <1>4, <1>5

\* Only the guard lets a request act under a role.
LEMMA Admitted ==
  ASSUME IInv, [Next]_vars, NEW w \in Workers, req[w] = Idle, req'[w].pc = "admitted"
  PROVE  \E t \in token : Admit(w, t)
  <1>1. /\ req \in [Workers -> Request] /\ req'[w] # req[w]
        /\ req[w].pc = "idle" /\ req[w].by = NoUser /\ req[w].user = NoUser
    BY DEF IInv, TypeOK, AccountsOK, Idle
  <1>2. PICK v \in Workers : Joining(v) \/ SigningIn(v) \/ Staff(v) \/ Planning(v) \/ Die(v)
    BY <1>1 DEF Next, vars, Tick, ExpireLink, Leaving
  <1>3. v = w
    BY <1>1, <1>2, OneMoves
  <1>4. ~Joining(w)
    BY <1>1 DEF Joining, Register, CheckFree, Insert, ResendVerification, ForgotPassword,
       IssueLink, VerifyEmail, MarkVerified, Begin, Respond, Idle
  <1>5. ~Staff(w)
    BY <1>1, UsersHaveNames DEF Staff, CreateUser, FindForUpdate, FindForRole, FindForStatus,
       FindForReset, FindForCreator, FindForBadge, FindForDelete, Target, Holds, FindProfile,
       UpdateUser, DeleteUser, SetUserStatus, ResetPassword, SetUserRole, MakeCreator, SetVerifiedBadge
  <1>6. ~Planning(w) /\ ~Die(w)
    BY <1>1 DEF Planning, FindOwnProfile, BecomeCreator, DeactivatePlan, FindCreator, Holds,
       UpsertPlan, Die
  <1>7. \A u \in Users : ~Login(w, u)
    BY <1>1 DEF Login, Begin, Idle
  <1>8. \A s \in Sessions : ~Refresh(w, s) /\ ~Sign(w, s)
    BY <1>1 DEF Refresh, Sign, Begin, Idle
  <1> QED BY <1>2, <1>3, <1>4, <1>5, <1>6, <1>7, <1>8 DEF SigningIn

\* JwtAuthGuard, RolesGuard: a request is let in under a role that its account had at
\* most Life ticks ago.
THEOREM RolesAlwaysLapse == Spec => RolesLapse
  <1>1. ASSUME IInv, [Next]_vars, NEW w \in Workers, req[w] = Idle, req'[w].pc = "admitted"
        PROVE  \E t \in 0..MaxTime : t + Life >= now /\ <<req'[w].by, req'[w].as, t>> \in held
    <2>1. PICK t \in token : Admit(w, t)
      BY <1>1, Admitted
    <2>2. /\ session[t.session] \in Users /\ Fresh(t)
          /\ req'[w] = [Idle EXCEPT !.pc = "admitted", !.by = session[t.session], !.as = t.role]
      BY <1>1, <2>1 DEF Admit, IInv, TypeOK, AccountsOK
    <2>3. req'[w].by = session[t.session] /\ req'[w].as = t.role
      BY <2>2 DEF Idle
    <2>4. <<session[t.session], t.role, t.at>> \in held /\ t.at \in 0..MaxTime
      BY <1>1, <2>2 DEF IInv, TokensHeld, TypeOK, AccountsOK, Token
    <2> QED BY <2>2, <2>3, <2>4 DEF Fresh
  <1>2. IInv /\ [Next]_vars =>
          [\A w \in Workers : req[w] = Idle /\ req'[w].pc = "admitted" =>
             \E t \in 0..MaxTime : t + Life >= now /\ <<req'[w].by, req'[w].as, t>> \in held]_vars
    BY <1>1
  <1> QED BY <1>2, Always, PTL DEF Spec, RolesLapse

\* The account that is written is the request's, which is over then.
LEMMA OneWrites ==
  ASSUME IInv, NEW w \in Workers, NEW u \in Users, account'[u] # account[u], NEW new,
         account' = [account EXCEPT ![req[w].user] = new], Respond(w), req[w].pc # "idle"
  PROVE  /\ req[w].user = u /\ req'[w] # req[w] /\ account'[u] = new
         /\ account \in [Users -> Row \cup {NotYet, Deleted}]
         /\ RequestOK(w) /\ req[w] \in Request
  BY Mine DEF IInv, TypeOK, AccountsOK

LEMMA ChangeStep ==
  ASSUME IInv, [Next]_vars, NEW u \in Users, Exists(u), account'[u] # account[u]
  PROVE  \E w \in Workers : req[w].user = u /\ req'[w] # req[w] /\ Allowed(u, req[w], met[w])
  <1>1. PICK w \in Workers :
            \/ MarkVerified(w) \/ UpdateUser(w) \/ ResetPassword(w) \/ SetUserRole(w)
            \/ \E s \in Statuses : SetUserStatus(w, s)
            \/ \E b \in {"plain", "badged", Same} : MakeCreator(w, b)
            \/ \E b \in {"plain", "badged"} : SetVerifiedBadge(w, b)
            \/ DeleteUser(w) \/ BecomeCreator(w)
    <2>1. ASSUME NEW w \in Workers, NEW v \in Users PROVE ~Insert(w, v)
      BY DEF Insert, Exists, IInv, TypeOK, AccountsOK
    <2> QED BY <2>1, Writers, Quiet DEF DeactivatePlan, UpsertPlan
  <1>2. account[u] \in Row
    BY Rows DEF IInv
  <1>3. CASE MarkVerified(w)
    <2>1. /\ account' = [account EXCEPT ![req[w].user] = [account[req[w].user] EXCEPT !.verified = TRUE]]
          /\ Respond(w) /\ req[w].pc = "verify"
      BY <1>3 DEF MarkVerified
    <2>2. /\ req[w].user = u /\ req'[w] # req[w]
          /\ account'[u] = [account[req[w].user] EXCEPT !.verified = TRUE]
      BY <2>1, OneWrites
    <2> QED BY <2>1, <2>2 DEF Allowed
  <1>4. CASE \E b \in {"plain", "badged"} : SetVerifiedBadge(w, b)
    <2>1. PICK b \in {"plain", "badged"} :
            /\ account' = [account EXCEPT ![req[w].user] = [account[req[w].user] EXCEPT !.creator = b]]
            /\ Respond(w) /\ req[w].pc = "badge"
      BY <1>4 DEF SetVerifiedBadge
    <2>2. /\ req[w].user = u /\ req'[w] # req[w]
          /\ account'[u] = [account[u] EXCEPT !.creator = b]
      BY <2>1, OneWrites
    <2>3. account'[u].creator = b
      BY <1>2, <2>2 DEF Row
    <2> QED BY <2>1, <2>2, <2>3 DEF Allowed
  <1>5. CASE BecomeCreator(w)
    <2> DEFINE new == [account[req[w].by] EXCEPT !.role = "CREATOR", !.creator = "plain"]
    <2>1. /\ account' = [account EXCEPT ![req[w].user] = new]
          /\ Respond(w) /\ req[w].pc = "become" /\ req[w].user = req[w].by
      BY <1>5 DEF BecomeCreator, IInv, RequestOK, StaffOK
    <2>2. /\ Exists(req[w].user) /\ account[req[w].user].creator = "none"
          /\ new = [account[req[w].user] EXCEPT !.role = "CREATOR", !.creator = new.creator]
      BY <1>5, <2>1 DEF BecomeCreator, IsCreator
    <2> HIDE DEF new
    <2>3. req[w].user = u /\ req'[w] # req[w] /\ account'[u] = new
      BY <2>1, OneWrites
    <2> QED BY <2>1, <2>2, <2>3 DEF Allowed
  <1>6. CASE DeleteUser(w)
    <2>1. /\ account' = [account EXCEPT ![req[w].user] = Deleted]
          /\ Respond(w) /\ req[w].pc = "delete"
      BY <1>6 DEF DeleteUser
    <2>2. req[w].user = u /\ req'[w] # req[w] /\ account'[u] = Deleted /\ RequestOK(w)
      BY <2>1, OneWrites
    <2> QED BY <2>1, <2>2 DEF Allowed, RequestOK, StaffOK, Below
  <1>7. CASE UpdateUser(w)
    <2> DEFINE old == account[req[w].user]
               f   == req[w].form
               new == Filled(old, f)
    <2>1. /\ account' = [account EXCEPT ![req[w].user] = new]
          /\ Respond(w) /\ req[w].pc = "free" /\ req[w].user # NoUser
      BY <1>7 DEF UpdateUser, Batch, Old
    <2> HIDE DEF new
    <2>2. /\ req[w].user = u /\ req'[w] # req[w] /\ account'[u] = new
          /\ RequestOK(w) /\ f \in Form
      BY <2>1, OneWrites DEF Request
    <2>3. new.role = IF f.role = Same THEN old.role ELSE f.role
      BY <1>2, <2>2 DEF new, Filled, Row
    <2>4. \/ new.role = old.role \/ Rank[new.role] < Rank[req[w].as] \/ "same" \in met[w]
      BY <2>1, <2>2, <2>3 DEF RequestOK, StaffOK
    <2> QED BY <2>1, <2>2, <2>4 DEF Allowed, RequestOK, StaffOK, Below
  <1>8. CASE SetUserRole(w)
    <2> DEFINE new == [account[req[w].user] EXCEPT !.role = req[w].form.role]
               creator == [new EXCEPT !.creator = "plain", !.wallet = TRUE]
    <2>1. PICK row \in {new, creator} : account' = [account EXCEPT ![req[w].user] = row]
      BY <1>8 DEF SetUserRole, Batch, Old
    <2>2. Respond(w) /\ req[w].pc \in {"role", "promote"}
      BY <1>8 DEF SetUserRole, Batch
    <2>3. /\ req[w].user = u /\ req'[w] # req[w] /\ account'[u] = row /\ RequestOK(w)
      BY <2>1, <2>2, OneWrites
    <2>4. row.role = req[w].form.role
      BY <1>2, <2>3 DEF Row
    <2> QED BY <2>2, <2>3, <2>4 DEF Allowed, RequestOK, StaffOK, Below
  <1>9. CASE \/ ResetPassword(w)
             \/ \E s \in Statuses : SetUserStatus(w, s)
    <2> DEFINE old == account[req[w].user]
    <2>1. PICK row : /\ account' = [account EXCEPT ![req[w].user] = row]
                     /\ row = old \/ \E s \in Statuses : row = [old EXCEPT !.status = s]
      BY <1>9 DEF ResetPassword, SetUserStatus, Batch, Old
    <2>2. Respond(w) /\ req[w].pc \in {"reset", "status"}
      BY <1>9 DEF ResetPassword, SetUserStatus, Batch
    <2>3. /\ req[w].user = u /\ req'[w] # req[w] /\ account'[u] = row /\ RequestOK(w)
      BY <2>1, <2>2, OneWrites
    <2>4. row.role = account[u].role
      BY <1>2, <2>1, <2>3 DEF Row
    <2> QED BY <2>2, <2>3, <2>4 DEF Allowed, RequestOK, StaffOK, Below
  <1>10. CASE \E b \in {"plain", "badged", Same} : MakeCreator(w, b)
    <2> DEFINE old == account[req[w].user]
               new(b) == [old EXCEPT !.role = "CREATOR", !.wallet = TRUE,
                            !.creator = IF b # Same THEN b ELSE IF @ = "none" THEN "plain" ELSE @]
    <2>1. PICK b \in {"plain", "badged", Same} : account' = [account EXCEPT ![req[w].user] = new(b)]
      BY <1>10 DEF MakeCreator, Batch, Old
    <2>2. Respond(w) /\ req[w].pc = "make"
      BY <1>10 DEF MakeCreator, Batch
    <2>3. /\ req[w].user = u /\ req'[w] # req[w] /\ account'[u] = new(b) /\ RequestOK(w)
      BY <2>1, <2>2, OneWrites
    <2>4. account'[u].role = "CREATOR"
      BY <1>2, <2>3 DEF Row
    <2> QED BY <2>2, <2>3, <2>4 DEF Allowed, RequestOK, StaffOK, Below
  <1> QED BY <1>1, <1>3, <1>4, <1>5, <1>6, <1>7, <1>8, <1>9, <1>10

\* The admin service and becomeCreator: staff change an account only from above, and
\* give it nothing as high as themselves.
THEOREM ChangedAlwaysFromAbove == Spec => ChangedFromAbove
  <1>1. IInv /\ [Next]_vars =>
          [\A u \in Users : Exists(u) /\ account'[u] # account[u] =>
             \E w \in Workers :
                req[w].user = u /\ req'[w] # req[w] /\ Allowed(u, req[w], met[w])]_vars
    BY ChangeStep
  <1> QED BY <1>1, Always, PTL DEF Spec, ChangedFromAbove

=============================================================================
