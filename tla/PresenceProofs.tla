--------------------------- MODULE PresenceProofs ---------------------------
(***************************************************************************)
(* Theorems about Presence, for every set of users and sockets, every      *)
(* queue of commands and every number of faults.                           *)
(***************************************************************************)
EXTENDS PresenceInv, FiniteSetTheorems, SequenceTheorems, TLAPS

-----------------------------------------------------------------------------
(* Induction *)

\* A set of natural numbers has a least one.
LEMMA Least ==
  ASSUME NEW C \in SUBSET Nat, C # {}
  PROVE  \E m \in C : \A n \in C : m <= n
  <1>1. PICK m \in C : \A n \in C : <<n, m>> \notin OpToRel(<, Nat)
    BY NatLessThanWellFounded, WFMin
  <1>2. \A n \in C : ~(n < m)
    BY <1>1 DEF OpToRel
  <1> QED BY <1>2

-----------------------------------------------------------------------------
(* What Redis did of the waiting commands *)

\* The states of Redis after each set of the commands q, the last of the set last.
Runs(g, base, q, n) ==
    g = [S \in SUBSET (1..n) |-> IF S = {} THEN base
                                 ELSE Applied(g[S \ {Max(S)}], q[Max(S)])]
RunOf(base, q, n) == CHOOSE g : Runs(g, base, q, n)

LEMMA FoldUnfolds ==
  ASSUME NEW base, NEW q, NEW n \in Nat, DOMAIN q = 1..n
  PROVE  FoldLeft(Applied, base, q) = RunOf(base, q, n)[1..n]
  BY DEF FoldLeft, MapThenFoldSet, RunOf, Runs

LEMMA MaxIsLast ==
  ASSUME NEW n \in Nat, NEW S \in SUBSET (1..n), n \in S
  PROVE  Max(S) = n
  <1>1. n \in S /\ \A y \in S : n >= y
    OBVIOUS
  <1>2. \A x \in S : (\A y \in S : x >= y) => x = n
    OBVIOUS
  <1>3. (CHOOSE x \in S : \A y \in S : x >= y) = n
    BY <1>1, <1>2
  <1> QED BY <1>3 DEF Max

LEMMA RunExtends ==
  ASSUME NEW base, NEW q, NEW n \in Nat \ {0}, NEW g, Runs(g, base, q, n - 1)
  PROVE  \E h : Runs(h, base, q, n)
  <1> DEFINE At(S) == IF n \notin S THEN g[S] ELSE Applied(g[S \ {n}], q[n])
             h == [S \in SUBSET (1..n) |-> At(S)]
             Value(S) == IF S = {} THEN base ELSE Applied(h[S \ {Max(S)}], q[Max(S)])
  <1>1. ASSUME NEW S \in SUBSET (1..n)
        PROVE  At(S) = Value(S)
    <2>1. CASE n \in S
      <3>1. Max(S) = n /\ S # {}
        BY <2>1, MaxIsLast
      <3>2. h[S \ {n}] = g[S \ {n}]
        OBVIOUS
      <3> HIDE DEF h
      <3> QED BY <2>1, <3>1, <3>2
    <2>2. CASE n \notin S
      <3>1. S \in SUBSET (1..(n - 1))
        BY <2>2
      <3>2. g[S] = IF S = {} THEN base ELSE Applied(g[S \ {Max(S)}], q[Max(S)])
        BY <3>1 DEF Runs
      <3>3. h[S \ {Max(S)}] = g[S \ {Max(S)}]
        BY <2>2
      <3> HIDE DEF h
      <3> QED BY <2>2, <3>2, <3>3
    <2> QED BY <2>1, <2>2
  <1>2. h = [S \in SUBSET (1..n) |-> Value(S)]
    <2> HIDE DEF At, Value
    <2> QED BY <1>1
  <1>3. Runs(h, base, q, n)
    <2> HIDE DEF h
    <2> QED BY <1>2 DEF Runs
  <1> QED BY <1>3

LEMMA RunExists ==
  ASSUME NEW base, NEW q, NEW n \in Nat
  PROVE  Runs(RunOf(base, q, n), base, q, n)
  <1> DEFINE C == {m \in Nat : ~ \E g : Runs(g, base, q, m)}
  <1> SUFFICES ASSUME C # {} PROVE FALSE
    BY DEF RunOf
  <1>1. PICK m \in C : \A k \in C : m <= k
    <2>1. C \in SUBSET Nat
      OBVIOUS
    <2> HIDE DEF C
    <2> QED BY <2>1, Least
  <1>2. m # 0
    <2>1. Runs([S \in SUBSET (1..0) |-> base], base, q, 0)
      BY DEF Runs
    <2> QED BY <2>1
  <1>3. m - 1 \notin C /\ m - 1 \in Nat /\ m \in Nat \ {0}
    BY <1>1, <1>2
  <1>4. PICK g : Runs(g, base, q, m - 1)
    BY <1>3
  <1> QED BY <1>3, <1>4, RunExtends

\* What every command keeps, a run of commands keeps.
LEMMA FoldStays ==
  ASSUME NEW R, NEW base \in R, NEW n \in Nat, NEW q, DOMAIN q = 1..n,
         \A P \in R, i \in 1..n : Applied(P, q[i]) \in R
  PROVE  FoldLeft(Applied, base, q) \in R
  <1> DEFINE g == RunOf(base, q, n)
             C == {m \in 0..n : g[1..m] \notin R}
  <1>1. Runs(g, base, q, n)
    BY RunExists
  <1> SUFFICES ASSUME C # {} PROVE FALSE
    BY FoldUnfolds
  <1> HIDE DEF g
  <1>2. PICK m \in C : \A k \in C : m <= k
    <2>1. C \in SUBSET Nat
      OBVIOUS
    <2> HIDE DEF C
    <2> QED BY <2>1, Least
  <1>3. \A S \in SUBSET (1..n) :
           g[S] = IF S = {} THEN base ELSE Applied(g[S \ {Max(S)}], q[Max(S)])
    BY <1>1 DEF Runs
  <1>4. m # 0
    <2>1. {} \in SUBSET (1..n) /\ 1..0 = {}
      OBVIOUS
    <2>2. g[{}] = base
      BY <1>3, <2>1
    <2> QED BY <2>1, <2>2
  <1>5. m \in 1..n /\ m - 1 \in 0..n /\ m - 1 \notin C
    BY <1>2, <1>4
  <1>6. g[1..(m-1)] \in R
    BY <1>5
  <1>7. Max(1..m) = m /\ (1..m) \ {m} = 1..(m-1) /\ 1..m # {} /\ 1..m \in SUBSET (1..n)
    <2>1. m \in Nat /\ 1..m \in SUBSET (1..m) /\ m \in 1..m /\ 1..m \in SUBSET (1..n)
      BY <1>5
    <2>2. Max(1..m) = m
      BY <2>1, MaxIsLast
    <2>3. (1..m) \ {m} = 1..(m-1)
      BY <2>1
    <2> QED BY <2>1, <2>2, <2>3
  <1>8. g[1..m] = Applied(g[1..(m-1)], q[m])
    BY <1>3, <1>7
  <1> QED BY <1>5, <1>6, <1>8

\* What one command does to the keys.
LEMMA AppliedKeys ==
  ASSUME NEW P \in [Users -> Key], NEW c \in Command
  PROVE  LET Q == Applied(P, c)
             u == UserOf[c.socket]
         IN  /\ Q \in [Users -> Key] /\ u \in Users /\ c.socket \in Sockets
             /\ \A v \in Users : v # u => Q[v] = P[v]
             /\ Q[u].members = CASE c.op = "sadd" -> P[u].members \cup {c.socket}
                                 [] c.op = "srem" -> P[u].members \ {c.socket}
                                 [] OTHER         -> P[u].members
             /\ \A v \in Users : (P[v].members = {} => P[v] = NoKey)
                                 => (Q[v].members = {} => Q[v] = NoKey)
  <1> DEFINE Q == Applied(P, c)
             u == UserOf[c.socket]
  <1>1. u \in Users /\ c.socket \in Sockets /\ c.op \in Opening \cup Closing
    BY SocketsOfUsers DEF Command
  <1>2. P[u] \in Key /\ NoKey \in Key
    BY <1>1 DEF NoKey, Key
  <1>3. CASE c.op = "sadd"
    <2> DEFINE k == [P[u] EXCEPT !.members = @ \cup {c.socket}]
    <2>1. Q = [P EXCEPT ![u] = k]
      BY <1>1, <1>3 DEF Applied, Of
    <2>2. k \in Key /\ k.members = P[u].members \cup {c.socket}
      BY <1>1, <1>2 DEF Key
    <2> HIDE DEF k, Q, u
    <2>3. Q \in [Users -> Key] /\ Q[u] = k /\ \A v \in Users : v # u => Q[v] = P[v]
      BY <1>1, <2>1, <2>2
    <2>4. k.members # {}
      BY <2>2
    <2> QED BY <1>1, <1>3, <2>2, <2>3, <2>4 DEF Q, u
  <1>4. CASE c.op = "expire"
    <2> DEFINE k == Timed(P[u])
    <2>1. Q = [P EXCEPT ![u] = k]
      BY <1>1, <1>4 DEF Applied, Of
    <2>2. k \in Key /\ k.members = P[u].members /\ (P[u] = NoKey => k = NoKey)
      BY <1>1, <1>2 DEF Key, Timed, NoKey
    <2> HIDE DEF k, Q, u
    <2>3. Q \in [Users -> Key] /\ Q[u] = k /\ \A v \in Users : v # u => Q[v] = P[v]
      BY <1>1, <2>1, <2>2
    <2> QED BY <1>1, <1>4, <2>2, <2>3 DEF Q, u
  <1>5. CASE c.op = "srem"
    <2> DEFINE k == Without(P[u], c.socket)
    <2>1. Q = [P EXCEPT ![u] = k]
      BY <1>1, <1>5 DEF Applied, Of
    <2>2. k \in Key /\ k.members = P[u].members \ {c.socket} /\ (k.members = {} => k = NoKey)
      <3>1. CASE P[u].members \subseteq {c.socket}
        BY <1>2, <3>1 DEF Without, NoKey
      <3>2. CASE ~(P[u].members \subseteq {c.socket})
        BY <1>2, <3>2 DEF Without, Key
      <3> QED BY <3>1, <3>2
    <2> HIDE DEF k, Q, u
    <2>3. Q \in [Users -> Key] /\ Q[u] = k /\ \A v \in Users : v # u => Q[v] = P[v]
      BY <1>1, <2>1, <2>2
    <2> QED BY <1>1, <1>5, <2>2, <2>3 DEF Q, u
  <1>6. CASE c.op \notin {"sadd", "expire", "srem"}
    <2>1. Q = P
      BY <1>6 DEF Applied
    <2> HIDE DEF Q, u
    <2> QED BY <1>1, <1>6, <2>1 DEF Q, u
  <1> QED BY <1>1, <1>3, <1>4, <1>5, <1>6

\* What Redis may hold when some of the commands that wait have been executed.
Between(P) ==
    /\ P \in [Users -> Key]
    /\ \A u \in Users :
          /\ P[u].members = {} => P[u] = NoKey
          /\ \A s \in P[u].members :
                s \in presence[u].members \/ (UserOf[s] = u /\ Waits(s, {"sadd"}))
          /\ \A s \in presence[u].members : s \in P[u].members \/ Waits(s, {"srem"})

LEMMA AppliedBetween ==
  ASSUME NEW P, Between(P), NEW i \in DOMAIN pipe, pipe[i] \in Command
  PROVE  Between(Applied(P, pipe[i]))
  <1> DEFINE c == pipe[i]
             Q == Applied(P, c)
             d == UserOf[c.socket]
  <1>1. P \in [Users -> Key]
    BY DEF Between
  <1>2. c.op = "sadd" => Waits(c.socket, {"sadd"})
    BY DEF Waits
  <1>3. c.op = "srem" => Waits(c.socket, {"srem"})
    BY DEF Waits
  <1> HIDE DEF c
  <1>4. c \in Command
    BY DEF c
  <1>5. /\ Q \in [Users -> Key] /\ d \in Users /\ c.socket \in Sockets
        /\ \A v \in Users : v # d => Q[v] = P[v]
        /\ Q[d].members = CASE c.op = "sadd" -> P[d].members \cup {c.socket}
                            [] c.op = "srem" -> P[d].members \ {c.socket}
                            [] OTHER         -> P[d].members
        /\ \A v \in Users : (P[v].members = {} => P[v] = NoKey)
                            => (Q[v].members = {} => Q[v] = NoKey)
    BY <1>1, <1>4, AppliedKeys
  <1>6. d = UserOf[c.socket]
    OBVIOUS
  <1> HIDE DEF Q, d
  <1>7. ASSUME NEW u \in Users
        PROVE  /\ Q[u].members = {} => Q[u] = NoKey
               /\ \A s \in Q[u].members :
                     s \in presence[u].members \/ (UserOf[s] = u /\ Waits(s, {"sadd"}))
               /\ \A s \in presence[u].members : s \in Q[u].members \/ Waits(s, {"srem"})
    <2>1. /\ P[u].members = {} => P[u] = NoKey
          /\ \A s \in P[u].members :
                s \in presence[u].members \/ (UserOf[s] = u /\ Waits(s, {"sadd"}))
          /\ \A s \in presence[u].members : s \in P[u].members \/ Waits(s, {"srem"})
      BY DEF Between
    <2>2. CASE u # d
      BY <1>5, <2>1, <2>2
    <2>3. CASE u = d
      <3>1. CASE c.op = "sadd"
        BY <1>2, <1>5, <1>6, <2>1, <2>3, <3>1
      <3>2. CASE c.op = "srem"
        BY <1>3, <1>5, <1>6, <2>1, <2>3, <3>2
      <3>3. CASE c.op \notin {"sadd", "srem"}
        BY <1>5, <1>6, <2>1, <2>3, <3>3
      <3> QED BY <3>1, <3>2, <3>3
    <2> QED BY <2>2, <2>3
  <1>8. Between(Q)
    BY <1>5, <1>7 DEF Between
  <1> QED BY <1>8 DEF Q, c

LEMMA ExecutedBetween ==
  ASSUME TypeOK, KeysOK, NEW k \in 0..Len(pipe)
  PROVE  Between(Executed(k))
  <1> DEFINE R == {P \in [Users -> Key] : Between(P)}
             q == SubSeq(pipe, 1, k)
  <1>1. pipe \in Seq(Command) /\ Len(pipe) \in Nat /\ DOMAIN pipe = 1..Len(pipe)
    BY LenProperties DEF TypeOK
  <1>2. \A i \in DOMAIN pipe : pipe[i] \in Command
    BY <1>1, ElementOfSeq
  <1>3. k \in Nat /\ DOMAIN q = 1..k /\ \A i \in 1..k : q[i] = pipe[i] /\ i \in DOMAIN pipe
    <2>1. \A i \in 1..k : pipe[i] \in Command /\ i \in DOMAIN pipe
      BY <1>1, <1>2
    <2>2. /\ q \in Seq(Command) /\ Len(q) = IF 1 <= k THEN k - 1 + 1 ELSE 0
          /\ \A i \in 1..(k - 1 + 1) : q[i] = pipe[1 + i - 1]
      BY <1>1, <2>1, SubSeqProperties
    <2>3. k \in Nat /\ Len(q) = k
      BY <1>1, <2>2
    <2> HIDE DEF q
    <2>4. DOMAIN q = 1..k
      BY <2>2, <2>3, LenProperties
    <2> QED BY <2>1, <2>2, <2>3, <2>4
  <1>4. presence \in R
    <2>1. presence \in [Users -> Key]
      BY DEF TypeOK
    <2>2. Between(presence)
      BY <2>1 DEF KeysOK, Between
    <2> QED BY <2>1, <2>2
  <1> HIDE DEF q
  <1>5. \A P \in R : \A i \in 1..k : Applied(P, q[i]) \in R
    <2> TAKE P \in R
    <2> TAKE i \in 1..k
    <2>1. i \in DOMAIN pipe /\ pipe[i] \in Command /\ q[i] = pipe[i]
      BY <1>2, <1>3
    <2>2. Between(Applied(P, pipe[i]))
      BY <2>1, AppliedBetween
    <2>3. Applied(P, pipe[i]) \in [Users -> Key]
      BY <2>2 DEF Between
    <2> QED BY <2>1, <2>2, <2>3
  <1> HIDE DEF R
  <1>6. FoldLeft(Applied, presence, q) \in R
    BY <1>3, <1>4, <1>5, FoldStays
  <1> QED BY <1>6 DEF R, q, Executed

-----------------------------------------------------------------------------
(* Commands *)

LEMMA OpFacts ==
  /\ \A op \in Opening : op \notin Closing /\ Stage[op] \in 0..2
  /\ \A op \in Closing : op \notin Opening /\ Stage[op] \in 0..3
  /\ \A op \in (Opening \cup Closing) \ {"arrived", "lastseen"} :
        /\ Follows[op] \in Opening \cup Closing
        /\ Follows[op] \in Opening <=> op \in Opening
        /\ Follows[op] \in Closing <=> op \in Closing
        /\ Stage[Follows[op]] = Stage[op] + 1
        /\ Follows[op] = "lastseen" => op = "scard"
  /\ Stage["sadd"] = 0 /\ Stage["srem"] = 0 /\ Stage["left"] = 1
  /\ Stage["scard"] = 2 /\ Stage["lastseen"] = 3
  /\ Follows["sadd"] = "expire" /\ Follows["expire"] = "arrived" /\ Follows["scard"] = "lastseen"
  <1>1. /\ Follows["sadd"] = "expire" /\ Follows["expire"] = "arrived"
        /\ Follows["srem"] = "left" /\ Follows["left"] = "scard" /\ Follows["scard"] = "lastseen"
    BY DEF Follows
  <1>2. /\ Stage["sadd"] = 0 /\ Stage["expire"] = 1 /\ Stage["arrived"] = 2
        /\ Stage["srem"] = 0 /\ Stage["left"] = 1 /\ Stage["scard"] = 2 /\ Stage["lastseen"] = 3
    BY DEF Stage, Opening, Closing
  <1>3. \A op \in Opening : op \in {"sadd", "expire", "arrived"} /\ op \notin Closing
    BY DEF Opening, Closing
  <1>4. \A op \in Closing : op \in {"srem", "left", "scard", "lastseen"} /\ op \notin Opening
    BY DEF Opening, Closing
  <1>5. "expire" \in Opening /\ "arrived" \in Opening /\ {"left", "scard", "lastseen"} \subseteq Closing
    BY DEF Opening, Closing
  <1>6. \A op \in Opening : Stage[op] \in 0..2
    BY <1>2, <1>3
  <1>7. \A op \in Closing : Stage[op] \in 0..3
    BY <1>2, <1>4
  <1>8. ASSUME NEW op \in Opening, op # "arrived"
        PROVE  /\ Follows[op] \in Opening /\ Stage[Follows[op]] = Stage[op] + 1
               /\ Follows[op] # "lastseen"
    <2>1. op = "sadd" \/ op = "expire"
      BY <1>3, <1>8
    <2> QED BY <1>1, <1>2, <1>5, <2>1
  <1>9. ASSUME NEW op \in Closing, op # "lastseen"
        PROVE  /\ Follows[op] \in Closing /\ Stage[Follows[op]] = Stage[op] + 1
               /\ Follows[op] = "lastseen" => op = "scard"
    <2>1. op = "srem" \/ op = "left" \/ op = "scard"
      BY <1>4, <1>9
    <2> QED BY <1>1, <1>2, <1>5, <2>1
  <1> QED BY <1>1, <1>2, <1>3, <1>4, <1>6, <1>7, <1>8, <1>9

LEMMA PipeFacts ==
  ASSUME TypeOK
  PROVE  /\ pipe \in Seq(Command) /\ Len(pipe) \in Nat /\ DOMAIN pipe = 1..Len(pipe)
         /\ \A i \in DOMAIN pipe : /\ pipe[i] \in Command
                                   /\ pipe[i].socket \in Sockets
                                   /\ pipe[i].op \in Opening \cup Closing
                                   /\ Of(pipe[i]) = UserOf[pipe[i].socket]
                                   /\ Of(pipe[i]) \in Users
  <1>1. pipe \in Seq(Command) /\ Len(pipe) \in Nat /\ DOMAIN pipe = 1..Len(pipe)
    BY LenProperties DEF TypeOK
  <1>2. ASSUME NEW i \in DOMAIN pipe
        PROVE  /\ pipe[i] \in Command
               /\ pipe[i].socket \in Sockets
               /\ pipe[i].op \in Opening \cup Closing
               /\ Of(pipe[i]) = UserOf[pipe[i].socket]
               /\ Of(pipe[i]) \in Users
    <2>1. pipe[i] \in Command
      BY <1>1, ElementOfSeq
    <2> QED BY <2>1, SocketsOfUsers DEF Command, Of
  <1> QED BY <1>1, <1>2

\* Sending a command leaves the others where they are.
LEMMA SendFacts ==
  ASSUME TypeOK, NEW s \in Sockets, NEW op \in Opening \cup Closing,
         pipe' = pipe \o Send(s, op)
  PROVE  /\ pipe' \in Seq(Command)
         /\ Len(pipe) + 1 \in DOMAIN pipe'
         /\ pipe'[Len(pipe) + 1].socket = s /\ pipe'[Len(pipe) + 1].op = op
         /\ \A i \in DOMAIN pipe : i \in DOMAIN pipe' /\ pipe'[i] = pipe[i] /\ i < Len(pipe) + 1
         /\ \A i \in DOMAIN pipe' : i \in DOMAIN pipe \/ i = Len(pipe) + 1
  <1> DEFINE c == [socket |-> s, op |-> op]
  <1>1. c \in Command
    BY DEF Command
  <1>2. Send(s, op) = <<c>> /\ <<c>> \in Seq(Command) /\ Len(<<c>>) = 1 /\ <<c>>[1] = c
    BY <1>1 DEF Send
  <1>3. pipe \in Seq(Command) /\ Len(pipe) \in Nat /\ DOMAIN pipe = 1..Len(pipe)
    BY PipeFacts
  <1> HIDE DEF c
  <1>4. /\ pipe' \in Seq(Command) /\ Len(pipe') = Len(pipe) + 1
        /\ \A i \in 1..(Len(pipe) + 1) :
              pipe'[i] = IF i <= Len(pipe) THEN pipe[i] ELSE <<c>>[i - Len(pipe)]
    BY <1>2, <1>3, ConcatProperties
  <1>5. DOMAIN pipe' = 1..(Len(pipe) + 1)
    BY <1>4, LenProperties
  <1>6. pipe'[Len(pipe) + 1] = c
    BY <1>2, <1>3, <1>4
  <1>7. c.socket = s /\ c.op = op
    BY DEF c
  <1> QED BY <1>3, <1>4, <1>5, <1>6, <1>7

\* A reply takes the oldest command away and may send one more.
Ends(c) == c.op \in {"arrived", "lastseen"} \/ StillOnline(presence, c)

LEMMA ReplyFacts ==
  ASSUME TypeOK, Reply
  PROVE  /\ pipe' \in Seq(Command) /\ Len(pipe) \in Nat \ {0} /\ 1 \in DOMAIN pipe
         /\ presence' = Applied(presence, pipe[1])
         /\ announced' = CASE pipe[1].op = "arrived"  -> [announced EXCEPT ![Of(pipe[1])] = "online"]
                           [] pipe[1].op = "lastseen" -> [announced EXCEPT ![Of(pipe[1])] = "offline"]
                           [] OTHER                   -> announced
         /\ \A i \in DOMAIN pipe : i # 1 => i - 1 \in DOMAIN pipe' /\ pipe'[i - 1] = pipe[i]
         /\ \A i \in DOMAIN pipe' :
               \/ i + 1 \in DOMAIN pipe /\ pipe'[i] = pipe[i + 1]
               \/ /\ i = Len(pipe) /\ ~Ends(pipe[1])
                  /\ pipe'[i].socket = pipe[1].socket /\ pipe'[i].op = Follows[pipe[1].op]
         /\ ~Ends(pipe[1]) => /\ Len(pipe) \in DOMAIN pipe'
                              /\ pipe'[Len(pipe)].socket = pipe[1].socket
                              /\ pipe'[Len(pipe)].op = Follows[pipe[1].op]
         /\ socket' = socket /\ expired' = expired /\ ghosts' = ghosts
         /\ untimed' = untimed /\ faults' = faults
  <1> DEFINE n == Len(pipe)
             c == pipe[1]
             d == [socket |-> c.socket, op |-> Follows[c.op]]
  <1>1. pipe \in Seq(Command) /\ n \in Nat /\ DOMAIN pipe = 1..n /\ pipe # <<>>
    BY PipeFacts DEF Reply
  <1>2. /\ Head(pipe) = c /\ Tail(pipe) \in Seq(Command) /\ Len(Tail(pipe)) = n - 1
        /\ \A i \in 1..(n - 1) : Tail(pipe)[i] = pipe[i + 1]
    BY <1>1, HeadTailProperties
  <1>3. n \in Nat \ {0} /\ 1 \in DOMAIN pipe /\ c \in Command
    <2>1. n # 0
      BY <1>1, EmptySeq
    <2> QED BY <1>1, <2>1, PipeFacts
  <1>4. /\ presence' = Applied(presence, c)
        /\ pipe' = Tail(pipe) \o (IF Ends(c) THEN <<>> ELSE Send(c.socket, Follows[c.op]))
        /\ announced' = CASE c.op = "arrived"  -> [announced EXCEPT ![Of(c)] = "online"]
                          [] c.op = "lastseen" -> [announced EXCEPT ![Of(c)] = "offline"]
                          [] OTHER             -> announced
        /\ socket' = socket /\ expired' = expired /\ ghosts' = ghosts
        /\ untimed' = untimed /\ faults' = faults
    BY <1>2 DEF Reply, Ends, history
  <1>5. CASE Ends(c)
    <2>1. pipe' = Tail(pipe)
      BY <1>2, <1>4, <1>5, ConcatEmptySeq
    <2>2. DOMAIN pipe' = 1..(n - 1)
      BY <1>2, <2>1, LenProperties
    <2> HIDE DEF c
    <2> QED BY <1>1, <1>2, <1>3, <1>4, <1>5, <2>1, <2>2 DEF c
  <1>6. CASE ~Ends(c)
    <2>1. d \in Command /\ d.socket = c.socket /\ d.op = Follows[c.op]
      <3>1. c.op \in (Opening \cup Closing) \ {"arrived", "lastseen"} /\ c.socket \in Sockets
        BY <1>3, <1>6 DEF Ends, Command
      <3>2. Follows[c.op] \in Opening \cup Closing
        BY <3>1, OpFacts
      <3> QED BY <3>1, <3>2 DEF Command
    <2>2. Send(c.socket, Follows[c.op]) = <<d>> /\ <<d>> \in Seq(Command) /\ Len(<<d>>) = 1 /\ <<d>>[1] = d
      BY <2>1 DEF Send
    <2>3. pipe' = Tail(pipe) \o <<d>>
      BY <1>4, <1>6, <2>2
    <2> HIDE DEF d, c
    <2>4. /\ pipe' \in Seq(Command) /\ Len(pipe') = n
          /\ \A i \in 1..n : pipe'[i] = IF i <= n - 1 THEN Tail(pipe)[i] ELSE <<d>>[i - (n - 1)]
      <3>1. /\ pipe' \in Seq(Command) /\ Len(pipe') = Len(Tail(pipe)) + Len(<<d>>)
            /\ \A i \in 1..(Len(Tail(pipe)) + Len(<<d>>)) :
                  pipe'[i] = IF i <= Len(Tail(pipe)) THEN Tail(pipe)[i]
                             ELSE <<d>>[i - Len(Tail(pipe))]
        BY <1>2, <2>2, <2>3, ConcatProperties
      <3>2. Len(Tail(pipe)) = n - 1 /\ Len(Tail(pipe)) + Len(<<d>>) = n
        BY <1>2, <1>3, <2>2
      <3> QED BY <3>1, <3>2
    <2>5. DOMAIN pipe' = 1..n
      BY <2>4, LenProperties
    <2>6. pipe'[n] = d /\ \A i \in 1..(n - 1) : pipe'[i] = pipe[i + 1]
      BY <1>2, <1>3, <2>2, <2>4
    <2>7. n \in DOMAIN pipe' /\ pipe'[n].socket = c.socket /\ pipe'[n].op = Follows[c.op]
      BY <1>3, <2>1, <2>5, <2>6
    <2>8. \A i \in DOMAIN pipe : i # 1 => i - 1 \in DOMAIN pipe' /\ pipe'[i - 1] = pipe[i]
      <3> SUFFICES ASSUME NEW i \in 1..n, i # 1
                   PROVE  i - 1 \in 1..n /\ pipe'[i - 1] = pipe[i]
        BY <1>1, <2>5
      <3>1. i - 1 \in 1..(n - 1) /\ (i - 1) + 1 = i
        BY <1>3
      <3>2. pipe'[i - 1] = pipe[(i - 1) + 1]
        BY <2>6, <3>1
      <3> QED BY <1>3, <3>1, <3>2
    <2>9. \A i \in DOMAIN pipe' : \/ i + 1 \in DOMAIN pipe /\ pipe'[i] = pipe[i + 1]
                                 \/ i = n
      BY <1>1, <1>3, <2>5, <2>6
    <2> QED BY <1>3, <1>4, <1>6, <2>4, <2>7, <2>8, <2>9 DEF c
  <1> QED BY <1>5, <1>6

-----------------------------------------------------------------------------
(* A reply *)

\* Who still waits, and who waited.
LEMMA StillWaits ==
  ASSUME TypeOK, Reply, NEW s, NEW ops,
         NEW i \in DOMAIN pipe, i # 1, pipe[i].socket = s, pipe[i].op \in ops
  PROVE  Waits(s, ops)'
  BY ReplyFacts DEF Waits

LEMMA GoesOnWaiting ==
  ASSUME TypeOK, Reply, NEW s, NEW ops,
         ~Ends(pipe[1]), pipe[1].socket = s, Follows[pipe[1].op] \in ops
  PROVE  Waits(s, ops)'
  BY ReplyFacts DEF Waits

LEMMA HeadClass ==
  ASSUME TypeOK, Reply, ~Ends(pipe[1])
  PROVE  /\ pipe[1].op \in (Opening \cup Closing) \ {"arrived", "lastseen"}
         /\ Follows[pipe[1].op] \in Opening <=> pipe[1].op \in Opening
         /\ Follows[pipe[1].op] \in Closing <=> pipe[1].op \in Closing
         /\ Stage[Follows[pipe[1].op]] = Stage[pipe[1].op] + 1
  <1>1. pipe[1].op \in (Opening \cup Closing) \ {"arrived", "lastseen"}
    BY ReplyFacts, PipeFacts DEF Ends
  <1> QED BY <1>1, OpFacts

\* The command that a command follows.
LEMMA CameFrom ==
  ASSUME TypeOK, Reply, NEW i \in DOMAIN pipe'
  PROVE  \E a \in DOMAIN pipe :
            /\ pipe'[i].socket = pipe[a].socket
            /\ pipe'[i].op \in Opening <=> pipe[a].op \in Opening
            /\ pipe'[i].op \in Closing <=> pipe[a].op \in Closing
            /\ \/ a = i + 1 /\ pipe'[i] = pipe[a]
               \/ /\ a = 1 /\ i = Len(pipe) /\ ~Ends(pipe[1])
                  /\ pipe'[i].op = Follows[pipe[1].op] /\ Stage[pipe'[i].op] = Stage[pipe[1].op] + 1
  <1>1. CASE i + 1 \in DOMAIN pipe /\ pipe'[i] = pipe[i + 1]
    BY <1>1
  <1>2. CASE /\ i = Len(pipe) /\ ~Ends(pipe[1])
             /\ pipe'[i].socket = pipe[1].socket /\ pipe'[i].op = Follows[pipe[1].op]
    BY <1>2, ReplyFacts, HeadClass
  <1> QED BY <1>1, <1>2, ReplyFacts

LEMMA ReplyOneOfEach ==
  ASSUME PInv, Reply
  PROVE  OneOfEach'
  <1> USE DEF PInv
  <1> SUFFICES ASSUME NEW i \in DOMAIN pipe', NEW j \in DOMAIN pipe', i # j,
                      pipe'[i].socket = pipe'[j].socket
               PROVE  pipe'[i].op \in Opening <=> pipe'[j].op \in Closing
    BY DEF OneOfEach
  <1>1. PICK a \in DOMAIN pipe :
            /\ pipe'[i].socket = pipe[a].socket
            /\ pipe'[i].op \in Opening <=> pipe[a].op \in Opening
            /\ pipe'[i].op \in Closing <=> pipe[a].op \in Closing
            /\ a = i + 1 \/ (a = 1 /\ i = Len(pipe))
    BY CameFrom
  <1>2. PICK b \in DOMAIN pipe :
            /\ pipe'[j].socket = pipe[b].socket
            /\ pipe'[j].op \in Opening <=> pipe[b].op \in Opening
            /\ pipe'[j].op \in Closing <=> pipe[b].op \in Closing
            /\ b = j + 1 \/ (b = 1 /\ j = Len(pipe))
    BY CameFrom
  <1>3. Len(pipe) \in Nat /\ DOMAIN pipe = 1..Len(pipe)
    BY PipeFacts
  <1>4. i \in Nat \ {0} /\ j \in Nat \ {0}
    BY ReplyFacts, LenProperties
  <1>5. a # b
    BY <1>1, <1>2, <1>3, <1>4
  <1> QED BY <1>1, <1>2, <1>5 DEF OneOfEach

LEMMA ReplyHandlersOK ==
  ASSUME PInv, Reply
  PROVE  HandlersOK'
  <1> USE DEF PInv
  <1> SUFFICES ASSUME NEW i \in DOMAIN pipe'
               PROVE  /\ socket[pipe'[i].socket] # "new"
                      /\ pipe'[i].op \in Closing => socket[pipe'[i].socket] = "closed"
    BY ReplyFacts DEF HandlersOK
  <1>1. PICK a \in DOMAIN pipe :
            /\ pipe'[i].socket = pipe[a].socket
            /\ pipe'[i].op \in Closing <=> pipe[a].op \in Closing
    BY CameFrom
  <1> QED BY <1>1 DEF HandlersOK

LEMMA ReplyComesBeforeItGoes ==
  ASSUME PInv, Reply
  PROVE  ComesBeforeItGoes'
  <1> USE DEF PInv
  <1> SUFFICES ASSUME NEW i \in DOMAIN pipe', NEW j \in DOMAIN pipe',
                      pipe'[i].socket = pipe'[j].socket,
                      pipe'[i].op \in Opening, pipe'[j].op \in Closing
               PROVE  Stage[pipe'[j].op] + (IF i < j THEN 0 ELSE 1) <= Stage[pipe'[i].op]
    BY DEF ComesBeforeItGoes
  <1>1. PICK a \in DOMAIN pipe :
            /\ pipe'[i].socket = pipe[a].socket /\ pipe[a].op \in Opening
            /\ \/ a = i + 1 /\ pipe'[i] = pipe[a]
               \/ a = 1 /\ i = Len(pipe) /\ Stage[pipe'[i].op] = Stage[pipe[a].op] + 1
    BY CameFrom
  <1>2. PICK b \in DOMAIN pipe :
            /\ pipe'[j].socket = pipe[b].socket /\ pipe[b].op \in Closing
            /\ \/ b = j + 1 /\ pipe'[j] = pipe[b]
               \/ b = 1 /\ j = Len(pipe) /\ Stage[pipe'[j].op] = Stage[pipe[b].op] + 1
    BY CameFrom
  <1>3. Len(pipe) \in Nat /\ DOMAIN pipe = 1..Len(pipe)
    BY PipeFacts
  <1>4. i \in Nat \ {0} /\ j \in Nat \ {0}
    BY ReplyFacts, LenProperties
  <1>5. Stage[pipe[b].op] + (IF a < b THEN 0 ELSE 1) <= Stage[pipe[a].op]
    BY <1>1, <1>2 DEF ComesBeforeItGoes
  <1>6. Stage[pipe[a].op] \in Nat /\ Stage[pipe[b].op] \in Nat /\ a # b
    BY <1>1, <1>2, OpFacts
  <1>7. Stage[pipe'[i].op] \in Nat /\ Stage[pipe'[j].op] \in Nat
    BY OpFacts
  <1>8. CASE a = i + 1 /\ b = j + 1
    BY <1>1, <1>2, <1>3, <1>4, <1>5, <1>6, <1>8
  <1>9. CASE a = 1
    BY <1>1, <1>2, <1>3, <1>4, <1>5, <1>6, <1>7, <1>9
  <1>10. CASE b = 1
    BY <1>1, <1>2, <1>3, <1>4, <1>5, <1>6, <1>7, <1>10
  <1> QED BY <1>1, <1>2, <1>8, <1>9, <1>10

LEMMA ReplyClosingFollows ==
  ASSUME PInv, Reply
  PROVE  ClosingFollows'
  <1> USE DEF PInv
  <1> SUFFICES ASSUME NEW s \in Sockets, socket[s] = "closed", NEW i \in DOMAIN pipe',
                      pipe'[i].socket = s, pipe'[i].op \in Opening
               PROVE  Waits(s, Closing)'
    BY ReplyFacts DEF ClosingFollows, Waits
  <1>1. PICK a \in DOMAIN pipe : pipe[a].socket = s /\ pipe[a].op \in Opening
    BY CameFrom
  <1>2. PICK b \in DOMAIN pipe : pipe[b].socket = s /\ pipe[b].op \in Closing
    BY <1>1 DEF ClosingFollows, Waits
  <1>3. CASE b # 1
    BY <1>2, <1>3, StillWaits
  <1>4. CASE b = 1 /\ ~Ends(pipe[1])
    BY <1>2, <1>4, HeadClass, GoesOnWaiting
  <1>5. CASE b = 1 /\ Ends(pipe[1])
    <2>1. pipe[b].op = "scard" \/ pipe[b].op = "lastseen"
      BY <1>2, <1>5, OpFacts DEF Ends, StillOnline, Closing
    <2>2. Stage[pipe[b].op] >= 2
      BY <2>1, OpFacts
    <2>3. Stage[pipe[b].op] + (IF a < b THEN 0 ELSE 1) <= Stage[pipe[a].op]
      BY <1>1, <1>2 DEF ComesBeforeItGoes
    <2>4. ~(a < b)
      BY <1>5, PipeFacts
    <2>5. Stage[pipe[a].op] \in 0..2 /\ Stage[pipe[b].op] \in 0..3
      BY <1>1, <1>2, OpFacts
    <2> QED BY <2>2, <2>3, <2>4, <2>5
  <1> QED BY <1>3, <1>4, <1>5

\* What the oldest command does to the members of the keys.
LEMMA ReplyMembers ==
  ASSUME PInv, Reply
  PROVE  /\ presence' \in [Users -> Key]
         /\ \A v \in Users : presence'[v].members = {} => presence'[v] = NoKey
         /\ \A v \in Users : \A s :
               s \in presence'[v].members
               <=> \/ s \in presence[v].members /\ ~(pipe[1].op = "srem" /\ s = pipe[1].socket)
                   \/ pipe[1].op = "sadd" /\ s = pipe[1].socket /\ UserOf[s] = v
  <1> USE DEF PInv
  <1> DEFINE c == pipe[1]
             Q == Applied(presence, c)
             d == UserOf[c.socket]
  <1>1. presence \in [Users -> Key] /\ presence' = Q /\ c \in Command
    BY ReplyFacts, PipeFacts DEF TypeOK
  <1> HIDE DEF c
  <1>2. /\ Q \in [Users -> Key] /\ d \in Users /\ c.socket \in Sockets
        /\ \A v \in Users : v # d => Q[v] = presence[v]
        /\ Q[d].members = CASE c.op = "sadd" -> presence[d].members \cup {c.socket}
                            [] c.op = "srem" -> presence[d].members \ {c.socket}
                            [] OTHER         -> presence[d].members
        /\ \A v \in Users : (presence[v].members = {} => presence[v] = NoKey)
                            => (Q[v].members = {} => Q[v] = NoKey)
    BY <1>1, AppliedKeys
  <1>3. d = UserOf[c.socket]
    OBVIOUS
  <1>4. \A v \in Users : \A s \in presence[v].members : UserOf[s] = v
    BY DEF KeysOK
  <1>5. \A v \in Users : presence[v].members = {} => presence[v] = NoKey
    BY DEF KeysOK
  <1> HIDE DEF Q, d, PInv
  <1>6. ASSUME NEW v \in Users, NEW s
        PROVE  s \in Q[v].members
               <=> \/ s \in presence[v].members /\ ~(c.op = "srem" /\ s = c.socket)
                   \/ c.op = "sadd" /\ s = c.socket /\ UserOf[s] = v
    <2>1. CASE v # d
      BY <1>2, <1>3, <1>4, <2>1
    <2>2. CASE v = d
      <3>1. CASE c.op = "sadd"
        BY <1>2, <1>3, <2>2, <3>1
      <3>2. CASE c.op = "srem"
        BY <1>2, <1>3, <2>2, <3>2
      <3>3. CASE c.op \notin {"sadd", "srem"}
        BY <1>2, <1>3, <2>2, <3>3
      <3> QED BY <3>1, <3>2, <3>3
    <2> QED BY <2>1, <2>2
  <1> QED BY <1>1, <1>2, <1>5, <1>6 DEF c

LEMMA ReplyKeysOK ==
  ASSUME PInv, Reply
  PROVE  KeysOK'
  <1> USE DEF PInv
  <1> SUFFICES ASSUME NEW u \in Users, NEW s \in presence'[u].members
               PROVE  UserOf[s] = u /\ socket[s] # "new"
    BY ReplyMembers, ReplyFacts DEF KeysOK
  <1>1. CASE s \in presence[u].members
    BY <1>1 DEF KeysOK
  <1>2. CASE s = pipe[1].socket /\ UserOf[s] = u
    BY <1>2, ReplyFacts DEF HandlersOK
  <1> QED BY <1>1, <1>2, ReplyMembers

LEMMA ReplyLeaving ==
  ASSUME PInv, Reply
  PROVE  Leaving'
  <1> USE DEF PInv
  <1> SUFFICES ASSUME NEW s \in Sockets, socket[s] = "closed",
                      s \in presence'[UserOf[s]].members, s \notin ghosts
               PROVE  Waits(s, {"srem"})'
    BY ReplyFacts DEF Leaving
  <1>1. UserOf[s] \in Users
    BY SocketsOfUsers
  <1>2. CASE s \in presence[UserOf[s]].members /\ ~(pipe[1].op = "srem" /\ s = pipe[1].socket)
    <2>1. PICK b \in DOMAIN pipe : pipe[b].socket = s /\ pipe[b].op \in {"srem"}
      BY <1>2 DEF Leaving, Waits
    <2>2. b # 1
      BY <1>2, <2>1
    <2> QED BY <2>1, <2>2, StillWaits
  <1>3. CASE pipe[1].op = "sadd" /\ s = pipe[1].socket
    <2>1. 1 \in DOMAIN pipe /\ pipe[1].op \in Opening
      BY <1>3, ReplyFacts DEF Opening
    <2>2. PICK b \in DOMAIN pipe : pipe[b].socket = s /\ pipe[b].op \in Closing
      BY <1>3, <2>1 DEF ClosingFollows, Waits
    <2>3. Stage[pipe[b].op] + (IF 1 < b THEN 0 ELSE 1) <= Stage["sadd"]
      BY <1>3, <2>1, <2>2 DEF ComesBeforeItGoes
    <2>4. Stage["sadd"] = 0 /\ Stage[pipe[b].op] \in Nat /\ b # 1
      BY <1>3, <2>1, <2>2, OpFacts
    <2>5. Stage[pipe[b].op] = 0
      BY <2>3, <2>4
    <2>6. pipe[b].op = "srem"
      BY <2>2, <2>5, OpFacts DEF Closing
    <2> QED BY <2>2, <2>4, <2>6, StillWaits
  <1> QED BY <1>1, <1>2, <1>3, ReplyMembers

\* A socket that is open and in the set stays in it.
LEMMA OpenStays ==
  ASSUME PInv, Reply, NEW s \in Sockets, socket[s] = "open",
         s \in presence[UserOf[s]].members
  PROVE  s \in presence'[UserOf[s]].members
  <1> USE DEF PInv
  <1>1. UserOf[s] \in Users
    BY SocketsOfUsers
  <1>2. ~(pipe[1].op = "srem" /\ s = pipe[1].socket)
    BY ReplyFacts DEF HandlersOK, Closing
  <1> QED BY <1>1, <1>2, ReplyMembers

LEMMA ReplyJoined ==
  ASSUME PInv, Reply
  PROVE  Joined'
  <1> USE DEF PInv
  <1> SUFFICES ASSUME NEW s \in Sockets, socket[s] = "open", UserOf[s] \notin expired
               PROVE  s \in presence'[UserOf[s]].members \/ Waits(s, {"sadd"})'
    BY ReplyFacts DEF Joined
  <1>1. UserOf[s] \in Users
    BY SocketsOfUsers
  <1>2. CASE s \in presence[UserOf[s]].members
    BY <1>2, OpenStays
  <1>3. CASE Waits(s, {"sadd"})
    <2>1. PICK i \in DOMAIN pipe : pipe[i].socket = s /\ pipe[i].op \in {"sadd"}
      BY <1>3 DEF Waits
    <2>2. CASE i = 1
      BY <1>1, <2>1, <2>2, ReplyMembers
    <2>3. CASE i # 1
      BY <2>1, <2>3, StillWaits
    <2> QED BY <2>2, <2>3
  <1> QED BY <1>2, <1>3 DEF Joined

LEMMA ReplyLastSeen ==
  ASSUME PInv, Reply
  PROVE  LastSeenBeforeArrivals'
  <1> USE DEF PInv
  <1> SUFFICES ASSUME NEW j \in DOMAIN pipe', NEW s \in Sockets,
                      pipe'[j].op = "lastseen", Of(pipe'[j]) = UserOf[s],
                      socket[s] = "open", UserOf[s] \notin expired
               PROVE  \E i \in DOMAIN pipe' :
                         /\ pipe'[i].socket = s
                         /\ pipe'[i].op = "sadd" \/ (pipe'[i].op = "expire" /\ i > j)
    BY ReplyFacts DEF LastSeenBeforeArrivals, Of
  <1>1. Len(pipe) \in Nat /\ DOMAIN pipe = 1..Len(pipe)
    BY PipeFacts
  <1>2. j \in Nat
    BY ReplyFacts, LenProperties
  <1>3. CASE j + 1 \in DOMAIN pipe /\ pipe'[j] = pipe[j + 1]
    <2>1. PICK i \in DOMAIN pipe :
             /\ pipe[i].socket = s
             /\ pipe[i].op = "sadd" \/ (pipe[i].op = "expire" /\ i > j + 1)
      BY <1>3 DEF LastSeenBeforeArrivals
    <2>2. CASE i # 1
      <3>1. i - 1 \in DOMAIN pipe' /\ pipe'[i - 1] = pipe[i]
        BY <2>2, ReplyFacts
      <3>2. i > j + 1 => i - 1 > j
        BY <1>1, <1>2
      <3> QED BY <2>1, <3>1, <3>2
    <2>3. CASE i = 1
      <3>1. pipe[1].op = "sadd" /\ pipe[1].socket = s
        BY <1>2, <2>1, <2>3
      <3>2. ~Ends(pipe[1])
        BY <3>1 DEF Ends, StillOnline
      <3>3. /\ Len(pipe) \in DOMAIN pipe' /\ pipe'[Len(pipe)].socket = s
            /\ pipe'[Len(pipe)].op = "expire"
        BY <3>1, <3>2, ReplyFacts, OpFacts
      <3>4. CASE Len(pipe) > j
        BY <3>3, <3>4
      <3>5. CASE ~(Len(pipe) > j)
        BY <1>1, <1>2, <1>3, <3>5
      <3> QED BY <3>4, <3>5
    <2> QED BY <2>2, <2>3
  <1>4. CASE /\ j = Len(pipe) /\ ~Ends(pipe[1])
             /\ pipe'[j].socket = pipe[1].socket /\ pipe'[j].op = Follows[pipe[1].op]
    <2>1. pipe[1].op = "scard"
      BY <1>4, HeadClass, OpFacts
    <2>2. Of(pipe[1]) = UserOf[s] /\ UserOf[s] \in Users
      BY <1>4, SocketsOfUsers DEF Of
    <2>3. presence[UserOf[s]] = NoKey
      BY <1>4, <2>1, <2>2 DEF Ends, StillOnline
    <2>4. s \notin presence[UserOf[s]].members
      BY <2>3 DEF NoKey
    <2>5. PICK i \in DOMAIN pipe : pipe[i].socket = s /\ pipe[i].op \in {"sadd"}
      BY <2>4 DEF Joined, Waits
    <2>6. i # 1
      BY <2>1, <2>5
    <2>7. i - 1 \in DOMAIN pipe' /\ pipe'[i - 1] = pipe[i]
      BY <2>6, ReplyFacts
    <2> QED BY <2>5, <2>7
  <1> QED BY <1>3, <1>4, ReplyFacts

\* What the oldest command has announced.
LEMMA ReplyAnnounced ==
  ASSUME PInv, Reply
  PROVE  /\ announced' \in [Users -> {"online", "offline"}]
         /\ \A u \in Users :
               announced'[u] = IF pipe[1].op = "arrived" /\ Of(pipe[1]) = u THEN "online"
                               ELSE IF pipe[1].op = "lastseen" /\ Of(pipe[1]) = u THEN "offline"
                               ELSE announced[u]
  <1>1. /\ announced \in [Users -> {"online", "offline"}] /\ Of(pipe[1]) \in Users
        /\ announced' = CASE pipe[1].op = "arrived"  -> [announced EXCEPT ![Of(pipe[1])] = "online"]
                          [] pipe[1].op = "lastseen" -> [announced EXCEPT ![Of(pipe[1])] = "offline"]
                          [] OTHER                   -> announced
    BY ReplyFacts, PipeFacts DEF PInv, TypeOK
  <1>2. CASE pipe[1].op = "arrived"
    BY <1>1, <1>2
  <1>3. CASE pipe[1].op = "lastseen"
    BY <1>1, <1>3
  <1>4. CASE pipe[1].op \notin {"arrived", "lastseen"}
    BY <1>1, <1>4
  <1> QED BY <1>2, <1>3, <1>4

LEMMA ReplyArrived ==
  ASSUME PInv, Reply
  PROVE  Arrived'
  <1> USE DEF PInv
  <1> SUFFICES ASSUME NEW s \in Sockets, socket[s] = "open", UserOf[s] \notin expired,
                      ~Waits(s, Opening)'
               PROVE  announced'[UserOf[s]] = "online"
    BY ReplyFacts DEF Arrived
  <1>1. UserOf[s] \in Users
    BY SocketsOfUsers
  <1>2. CASE pipe[1].op = "arrived" /\ Of(pipe[1]) = UserOf[s]
    BY <1>1, <1>2, ReplyAnnounced
  <1>3. CASE pipe[1].op = "lastseen" /\ Of(pipe[1]) = UserOf[s]
    <2>1. PICK i \in DOMAIN pipe : pipe[i].socket = s /\ pipe[i].op \in {"sadd", "expire"}
      BY <1>3, ReplyFacts DEF LastSeenBeforeArrivals
    <2>2. i # 1 /\ pipe[i].op \in Opening
      BY <1>3, <2>1 DEF Opening
    <2> QED BY <2>1, <2>2, StillWaits
  <1>4. CASE /\ ~(pipe[1].op = "arrived" /\ Of(pipe[1]) = UserOf[s])
             /\ ~(pipe[1].op = "lastseen" /\ Of(pipe[1]) = UserOf[s])
    <2>1. announced'[UserOf[s]] = announced[UserOf[s]]
      BY <1>1, <1>4, ReplyAnnounced
    <2>2. ASSUME NEW i \in DOMAIN pipe, pipe[i].socket = s, pipe[i].op \in Opening
          PROVE  FALSE
      <3>1. i = 1
        BY <2>2, StillWaits
      <3>2. ~Ends(pipe[1])
        BY <1>4, <2>2, <3>1 DEF Ends, StillOnline, Opening, Of
      <3>3. Follows[pipe[1].op] \in Opening
        BY <2>2, <3>1, <3>2, HeadClass
      <3> QED BY <2>2, <3>1, <3>2, <3>3, GoesOnWaiting
    <2>3. ~Waits(s, Opening)
      BY <2>2 DEF Waits
    <2> QED BY <2>1, <2>3 DEF Arrived
  <1> QED BY <1>2, <1>3, <1>4

LEMMA ReplyDeparted ==
  ASSUME PInv, Reply
  PROVE  Departed'
  <1> USE DEF PInv
  <1> SUFFICES ASSUME NEW u \in Users, Live(u) = {}, u \notin Haunted,
                      \A i \in DOMAIN pipe' : ~(Of(pipe'[i]) = u /\ pipe'[i].op \in Closing)
               PROVE  announced'[u] = "offline"
    BY ReplyFacts DEF Departed, Live, Haunted, Of
  <1>1. \A s \in Sockets : UserOf[s] = u => ~Waits(s, Closing)' /\ socket[s] # "open"
    BY DEF Waits, Of, Live
  <1>2. 1 \in DOMAIN pipe /\ pipe[1].socket \in Sockets /\ Of(pipe[1]) = UserOf[pipe[1].socket]
    BY ReplyFacts, PipeFacts
  <1>3. CASE pipe[1].op = "lastseen" /\ Of(pipe[1]) = u
    BY <1>3, ReplyAnnounced
  <1>4. CASE pipe[1].op \in Closing \ {"lastseen"} /\ Of(pipe[1]) = u
    <2>1. Ends(pipe[1])
      <3> SUFFICES ASSUME ~Ends(pipe[1]) PROVE FALSE
        OBVIOUS
      <3>1. Follows[pipe[1].op] \in Closing
        BY <1>4, HeadClass
      <3> QED BY <1>1, <1>2, <1>4, <3>1, GoesOnWaiting
    <2>2. pipe[1].op = "scard" /\ presence[u] # NoKey
      BY <1>4, <2>1 DEF Ends, StillOnline, Closing
    <2>3. PICK s \in presence[u].members : UserOf[s] = u /\ socket[s] # "new"
      BY <2>2 DEF KeysOK
    <2>4. s \in Sockets
      BY DEF TypeOK, Key
    <2>5. socket[s] = "closed"
      BY <1>1, <2>3, <2>4 DEF TypeOK
    <2>6. s \notin ghosts
      BY <2>3 DEF Haunted
    <2>7. PICK b \in DOMAIN pipe : pipe[b].socket = s /\ pipe[b].op \in {"srem"}
      BY <2>3, <2>4, <2>5, <2>6 DEF Leaving, Waits
    <2>8. b # 1 /\ pipe[b].op \in Closing
      BY <2>2, <2>7 DEF Closing
    <2> QED BY <1>1, <2>3, <2>4, <2>7, <2>8, StillWaits
  <1>5. CASE ~(pipe[1].op \in Closing /\ Of(pipe[1]) = u)
    <2>1. \A i \in DOMAIN pipe : ~(Of(pipe[i]) = u /\ pipe[i].op \in Closing)
      <3> SUFFICES ASSUME NEW i \in DOMAIN pipe, Of(pipe[i]) = u, pipe[i].op \in Closing
                   PROVE  FALSE
        OBVIOUS
      <3>1. i # 1 /\ pipe[i].socket \in Sockets /\ UserOf[pipe[i].socket] = u
        BY <1>5, PipeFacts
      <3>2. PICK s \in Sockets : s = pipe[i].socket
        BY <3>1
      <3> QED BY <1>1, <3>1, <3>2, StillWaits
    <2>2. announced[u] = "offline"
      BY <2>1 DEF Departed
    <2>3. ~(pipe[1].op = "arrived" /\ Of(pipe[1]) = u)
      <3> SUFFICES ASSUME pipe[1].op = "arrived", Of(pipe[1]) = u PROVE FALSE
        OBVIOUS
      <3>1. PICK s \in Sockets : s = pipe[1].socket /\ UserOf[s] = u
        BY <1>2
      <3>2. socket[s] = "closed" /\ Waits(s, Opening)
        BY <1>1, <1>2, <3>1 DEF HandlersOK, TypeOK, Waits, Opening
      <3>3. PICK b \in DOMAIN pipe : pipe[b].socket = s /\ pipe[b].op \in Closing
        BY <3>2 DEF ClosingFollows, Waits
      <3> QED BY <2>1, <3>1, <3>3, PipeFacts
    <2>4. ~(pipe[1].op = "lastseen" /\ Of(pipe[1]) = u)
      BY <1>5 DEF Closing
    <2> QED BY <2>2, <2>3, <2>4, ReplyAnnounced
  <1>6. "lastseen" \in Closing
    BY DEF Closing
  <1> QED BY <1>3, <1>4, <1>5, <1>6

LEMMA ReplyKeeps ==
  ASSUME PInv, Reply
  PROVE  PInv'
  <1>1. OneOfEach'
    BY ReplyOneOfEach
  <1>2. TypeOK'
    <2>1. pipe' \in Seq(Command)
      BY ReplyFacts DEF PInv
    <2>2. \A i \in DOMAIN pipe' : pipe'[i].op \in Opening \cup Closing
      <3> TAKE i \in DOMAIN pipe'
      <3>1. i \in 1..Len(pipe')
        BY <2>1, LenProperties
      <3>2. pipe'[i] \in Command
        BY <2>1, <3>1, ElementOfSeq
      <3> QED BY <3>2 DEF Command
    <2>3. \A i, j \in DOMAIN pipe' : i # j => pipe'[i] # pipe'[j]
      BY <1>1, <2>2, OpFacts DEF OneOfEach
    <2> QED BY <2>1, <2>3, ReplyMembers, ReplyAnnounced, ReplyFacts DEF PInv, TypeOK
  <1> QED BY <1>1, <1>2, ReplyKeysOK, ReplyHandlersOK, ReplyComesBeforeItGoes,
             ReplyClosingFollows, ReplyLeaving, ReplyJoined, ReplyLastSeen, ReplyArrived,
             ReplyDeparted DEF PInv

-----------------------------------------------------------------------------
(* A socket comes or goes *)

LEMMA ConnectKeeps ==
  ASSUME PInv, NEW s \in Sockets, Connect(s)
  PROVE  PInv'
  <1> USE DEF PInv
  <1> DEFINE n == Len(pipe) + 1
  <1>1. /\ socket[s] = "new" /\ socket' = [socket EXCEPT ![s] = "open"]
        /\ pipe' = pipe \o Send(s, "sadd")
        /\ presence' = presence /\ announced' = announced /\ expired' = expired
        /\ ghosts' = ghosts /\ untimed' = untimed /\ faults' = faults
    BY DEF Connect, Arrives, history
  <1>2. socket \in [Sockets -> {"new", "open", "closed"}]
    BY DEF TypeOK
  <1>3. /\ socket' \in [Sockets -> {"new", "open", "closed"}]
        /\ socket'[s] = "open" /\ \A t \in Sockets : t # s => socket'[t] = socket[t]
    BY <1>1, <1>2
  <1>4. /\ pipe' \in Seq(Command)
        /\ n \in DOMAIN pipe' /\ pipe'[n].socket = s /\ pipe'[n].op = "sadd"
        /\ \A i \in DOMAIN pipe : i \in DOMAIN pipe' /\ pipe'[i] = pipe[i] /\ i < n
        /\ \A i \in DOMAIN pipe' : i \in DOMAIN pipe \/ i = n
    BY <1>1, SendFacts DEF Opening
  <1>5. "sadd" \in Opening /\ "sadd" \notin Closing
    BY OpFacts DEF Opening
  <1>6. \A i \in DOMAIN pipe : /\ pipe[i].socket # s /\ pipe[i].socket \in Sockets
                               /\ pipe[i].op \in Opening \cup Closing
                               /\ Of(pipe[i]) = UserOf[pipe[i].socket]
    BY <1>1, PipeFacts DEF HandlersOK
  <1>7. \A ops : \A t : Waits(t, ops) => Waits(t, ops)'
    BY <1>4 DEF Waits
  <1>8. \A ops : \A t : t # s /\ Waits(t, ops)' => Waits(t, ops)
    BY <1>4 DEF Waits
  <1>9. Waits(s, {"sadd"})' /\ Waits(s, Opening)' /\ ~Waits(s, Closing)'
    BY <1>4, <1>5, <1>6 DEF Waits
  <1> HIDE DEF n
  <1>10. OneOfEach'
    BY <1>4, <1>6 DEF OneOfEach
  <1>11. TypeOK'
    <2>1. \A i, j \in DOMAIN pipe' : i # j => pipe'[i] # pipe'[j]
      BY <1>4, <1>6 DEF TypeOK
    <2> QED BY <1>1, <1>3, <1>4, <2>1 DEF TypeOK
  <1>12. KeysOK'
    BY <1>1, <1>3 DEF KeysOK, TypeOK, Key
  <1>13. HandlersOK'
    BY <1>3, <1>4, <1>5, <1>6 DEF HandlersOK
  <1>14. ComesBeforeItGoes'
    BY <1>4, <1>5, <1>6 DEF ComesBeforeItGoes
  <1>15. ClosingFollows'
    BY <1>3, <1>7, <1>8 DEF ClosingFollows
  <1>16. Leaving'
    BY <1>1, <1>3, <1>7 DEF Leaving
  <1>17. Joined'
    BY <1>1, <1>3, <1>7, <1>9 DEF Joined
  <1>18. LastSeenBeforeArrivals'
    <2> SUFFICES ASSUME NEW j \in DOMAIN pipe', NEW t \in Sockets,
                        pipe'[j].op = "lastseen", Of(pipe'[j]) = UserOf[t],
                        socket'[t] = "open", UserOf[t] \notin expired
                 PROVE  \E i \in DOMAIN pipe' :
                           /\ pipe'[i].socket = t
                           /\ pipe'[i].op = "sadd" \/ (pipe'[i].op = "expire" /\ i > j)
      BY <1>1 DEF LastSeenBeforeArrivals, Of
    <2>1. CASE t = s
      BY <1>4, <2>1
    <2>2. CASE t # s
      BY <1>3, <1>4, <2>2 DEF LastSeenBeforeArrivals
    <2> QED BY <2>1, <2>2
  <1>19. Arrived'
    BY <1>1, <1>3, <1>7, <1>9 DEF Arrived
  <1>20. Departed'
    <2> SUFFICES ASSUME NEW u \in Users, Live(u)' = {}, u \notin Haunted,
                        \A i \in DOMAIN pipe' : ~(Of(pipe'[i]) = u /\ pipe'[i].op \in Closing)
                 PROVE  announced[u] = "offline"
      BY <1>1 DEF Departed, Haunted, Of
    <2>1. Live(u) = {}
      BY <1>1, <1>3 DEF Live
    <2>2. \A i \in DOMAIN pipe : ~(Of(pipe[i]) = u /\ pipe[i].op \in Closing)
      BY <1>4
    <2> QED BY <2>1, <2>2 DEF Departed
  <1> QED BY <1>10, <1>11, <1>12, <1>13, <1>14, <1>15, <1>16, <1>17, <1>18, <1>19, <1>20

LEMMA RejectKeeps ==
  ASSUME PInv, NEW s \in Sockets, Reject(s)
  PROVE  PInv'
  <1> USE DEF PInv
  <1>1. /\ socket[s] = "new" /\ socket' = [socket EXCEPT ![s] = "closed"] /\ pipe' = pipe
        /\ presence' = presence /\ announced' = announced /\ expired' = expired
        /\ ghosts' = ghosts /\ untimed' = untimed /\ faults' = faults
    BY DEF Reject, Arrives, history
  <1>2. socket \in [Sockets -> {"new", "open", "closed"}]
    BY DEF TypeOK
  <1>3. /\ socket' \in [Sockets -> {"new", "open", "closed"}]
        /\ socket'[s] = "closed" /\ \A t \in Sockets : t # s => socket'[t] = socket[t]
    BY <1>1, <1>2
  <1>4. \A i \in DOMAIN pipe : pipe[i].socket # s /\ pipe[i].socket \in Sockets
    BY <1>1, PipeFacts DEF HandlersOK
  <1>5. \A ops : \A t : Waits(t, ops)' <=> Waits(t, ops)
    BY <1>1 DEF Waits
  <1>6. \A ops : ~Waits(s, ops)
    BY <1>4 DEF Waits
  <1>7. \A u \in Users : s \notin presence[u].members
    BY <1>1 DEF KeysOK
  <1>8. \A u \in Users : Live(u)' = Live(u)
    BY <1>1, <1>3 DEF Live
  <1>9. TypeOK' /\ OneOfEach' /\ ComesBeforeItGoes'
    BY <1>1, <1>3 DEF TypeOK, OneOfEach, ComesBeforeItGoes
  <1>10. KeysOK'
    BY <1>1, <1>3, <1>7 DEF KeysOK, TypeOK, Key
  <1>11. HandlersOK'
    BY <1>1, <1>3, <1>4 DEF HandlersOK
  <1>12. ClosingFollows' /\ Arrived'
    BY <1>1, <1>3, <1>5, <1>6 DEF ClosingFollows, Arrived
  <1>13. Leaving' /\ Joined'
    BY <1>1, <1>3, <1>5, <1>7, SocketsOfUsers DEF Leaving, Joined
  <1>14. LastSeenBeforeArrivals'
    BY <1>1, <1>3 DEF LastSeenBeforeArrivals, Of
  <1>15. Departed'
    BY <1>1, <1>8 DEF Departed, Haunted, Of
  <1> QED BY <1>9, <1>10, <1>11, <1>12, <1>13, <1>14, <1>15

LEMMA DisconnectKeeps ==
  ASSUME PInv, NEW s \in Sockets, Disconnect(s)
  PROVE  PInv'
  <1> USE DEF PInv
  <1> DEFINE n == Len(pipe) + 1
  <1>1. /\ socket[s] = "open" /\ socket' = [socket EXCEPT ![s] = "closed"]
        /\ pipe' = pipe \o Send(s, "srem")
        /\ presence' = presence /\ announced' = announced /\ expired' = expired
        /\ ghosts' = ghosts /\ untimed' = untimed /\ faults' = faults
    BY DEF Disconnect, history
  <1>2. socket \in [Sockets -> {"new", "open", "closed"}]
    BY DEF TypeOK
  <1>3. /\ socket' \in [Sockets -> {"new", "open", "closed"}]
        /\ socket'[s] = "closed" /\ \A t \in Sockets : t # s => socket'[t] = socket[t]
    BY <1>1, <1>2
  <1>4. /\ pipe' \in Seq(Command)
        /\ n \in DOMAIN pipe' /\ pipe'[n].socket = s /\ pipe'[n].op = "srem"
        /\ \A i \in DOMAIN pipe : i \in DOMAIN pipe' /\ pipe'[i] = pipe[i] /\ i < n
        /\ \A i \in DOMAIN pipe' : i \in DOMAIN pipe \/ i = n
    BY <1>1, SendFacts DEF Closing
  <1>5. "srem" \notin Opening /\ "srem" \in Closing /\ Stage["srem"] = 0
    BY OpFacts DEF Closing
  <1>6. \A i \in DOMAIN pipe : /\ pipe[i].socket = s => pipe[i].op \in Opening
                               /\ pipe[i].socket \in Sockets
                               /\ pipe[i].op \in Opening \cup Closing
                               /\ Of(pipe[i]) = UserOf[pipe[i].socket]
    BY <1>1, PipeFacts DEF HandlersOK
  <1>7. \A ops : \A t : Waits(t, ops) => Waits(t, ops)'
    BY <1>4 DEF Waits
  <1>8. \A ops : \A t : t # s /\ Waits(t, ops)' => Waits(t, ops)
    BY <1>4 DEF Waits
  <1>9. Waits(s, {"srem"})' /\ Waits(s, Closing)'
    BY <1>4, <1>5 DEF Waits
  <1>10. \A i \in DOMAIN pipe : n # i
    BY <1>4, PipeFacts
  <1> HIDE DEF n
  <1>11. OneOfEach'
    BY <1>4, <1>5, <1>6, OpFacts DEF OneOfEach
  <1>12. TypeOK'
    <2>1. \A i, j \in DOMAIN pipe' : i # j => pipe'[i] # pipe'[j]
      BY <1>4, <1>5, <1>6 DEF TypeOK
    <2> QED BY <1>1, <1>3, <1>4, <2>1 DEF TypeOK
  <1>13. KeysOK'
    BY <1>1, <1>3 DEF KeysOK, TypeOK, Key
  <1>14. HandlersOK'
    BY <1>3, <1>4, <1>5, <1>6 DEF HandlersOK
  <1>15. ComesBeforeItGoes'
    <2> SUFFICES ASSUME NEW i \in DOMAIN pipe', NEW j \in DOMAIN pipe',
                        pipe'[i].socket = pipe'[j].socket,
                        pipe'[i].op \in Opening, pipe'[j].op \in Closing
                 PROVE  Stage[pipe'[j].op] + (IF i < j THEN 0 ELSE 1) <= Stage[pipe'[i].op]
      BY DEF ComesBeforeItGoes
    <2>1. i \in DOMAIN pipe /\ pipe'[i] = pipe[i] /\ i < n
      BY <1>4, <1>5
    <2>2. CASE j \in DOMAIN pipe
      BY <1>4, <2>1, <2>2 DEF ComesBeforeItGoes
    <2>3. CASE j = n
      BY <1>4, <1>5, <2>1, <2>3, OpFacts
    <2> QED BY <1>4, <2>2, <2>3
  <1>16. ClosingFollows'
    BY <1>3, <1>7, <1>8, <1>9 DEF ClosingFollows
  <1>17. Leaving'
    BY <1>1, <1>3, <1>7, <1>9 DEF Leaving
  <1>18. Joined'
    BY <1>1, <1>3, <1>7 DEF Joined
  <1>19. LastSeenBeforeArrivals'
    <2> SUFFICES ASSUME NEW j \in DOMAIN pipe', NEW t \in Sockets,
                        pipe'[j].op = "lastseen", Of(pipe'[j]) = UserOf[t],
                        socket'[t] = "open", UserOf[t] \notin expired
                 PROVE  \E i \in DOMAIN pipe' :
                           /\ pipe'[i].socket = t
                           /\ pipe'[i].op = "sadd" \/ (pipe'[i].op = "expire" /\ i > j)
      BY <1>1 DEF LastSeenBeforeArrivals, Of
    <2>1. t # s /\ j \in DOMAIN pipe /\ pipe'[j] = pipe[j]
      BY <1>3, <1>4
    <2> QED BY <1>3, <1>4, <2>1 DEF LastSeenBeforeArrivals
  <1>20. Arrived'
    BY <1>1, <1>3, <1>7 DEF Arrived
  <1>21. Departed'
    <2> SUFFICES ASSUME NEW u \in Users, Live(u)' = {}, u \notin Haunted,
                        \A i \in DOMAIN pipe' : ~(Of(pipe'[i]) = u /\ pipe'[i].op \in Closing)
                 PROVE  announced[u] = "offline"
      BY <1>1 DEF Departed, Haunted, Of
    <2>1. UserOf[s] # u
      BY <1>4, <1>5 DEF Of
    <2>2. Live(u) = {}
      BY <1>1, <1>3, <2>1 DEF Live
    <2>3. \A i \in DOMAIN pipe : ~(Of(pipe[i]) = u /\ pipe[i].op \in Closing)
      BY <1>4
    <2> QED BY <2>2, <2>3 DEF Departed
  <1> QED BY <1>11, <1>12, <1>13, <1>14, <1>15, <1>16, <1>17, <1>18, <1>19, <1>20, <1>21

-----------------------------------------------------------------------------
(* The connection to Redis breaks *)

\* What holds of the keys after some of the waiting commands.
LEMMA BetweenKeys ==
  ASSUME PInv, NEW k \in 0..Len(pipe)
  PROVE  /\ Executed(k) \in [Users -> Key]
         /\ \A u \in Users : Executed(k)[u].members = {} => Executed(k)[u] = NoKey
         /\ \A u \in Users : \A s \in Executed(k)[u].members :
               s \in presence[u].members \/ (UserOf[s] = u /\ Waits(s, {"sadd"}))
         /\ \A u \in Users : \A s \in presence[u].members :
               s \in Executed(k)[u].members \/ Waits(s, {"srem"})
         /\ \A u \in Users : \A s \in Executed(k)[u].members : UserOf[s] = u /\ socket[s] # "new"
  <1>1. Between(Executed(k))
    BY ExecutedBetween DEF PInv
  <1>2. ASSUME NEW u \in Users, NEW s \in Executed(k)[u].members
        PROVE  UserOf[s] = u /\ socket[s] # "new"
    <2>1. s \in presence[u].members \/ (UserOf[s] = u /\ Waits(s, {"sadd"}))
      BY <1>1 DEF Between
    <2> QED BY <2>1 DEF PInv, KeysOK, HandlersOK, Waits
  <1> QED BY <1>1, <1>2 DEF Between

LEMMA ReconnectKeeps ==
  ASSUME PInv, NEW k \in 0..Len(pipe), Reconnect(k)
  PROVE  PInv'
  <1> DEFINE Q == Executed(k)
  <1>1. /\ presence' = Q /\ pipe' = pipe /\ socket' = socket /\ announced' = announced
        /\ expired' = expired /\ ghosts' = ghosts /\ untimed' = untimed
        /\ faults < MaxFaults /\ faults' = faults + 1
    BY DEF Reconnect
  <1>2. /\ Q \in [Users -> Key]
        /\ \A u \in Users : Q[u].members = {} => Q[u] = NoKey
        /\ \A u \in Users : \A s \in Q[u].members :
              s \in presence[u].members \/ (UserOf[s] = u /\ Waits(s, {"sadd"}))
        /\ \A u \in Users : \A s \in presence[u].members : s \in Q[u].members \/ Waits(s, {"srem"})
        /\ \A u \in Users : \A s \in Q[u].members : UserOf[s] = u /\ socket[s] # "new"
    BY BetweenKeys
  <1> HIDE DEF Q
  <1> USE DEF PInv
  <1>3. \A ops : \A s : Waits(s, ops)' <=> Waits(s, ops)
    BY <1>1 DEF Waits
  <1>4. \A s \in Sockets : UserOf[s] \in Users
    BY SocketsOfUsers
  <1>5. TypeOK'
    BY <1>1, <1>2, FaultBound DEF TypeOK
  <1>6. KeysOK'
    BY <1>1, <1>2 DEF KeysOK
  <1>7. OneOfEach' /\ HandlersOK' /\ ComesBeforeItGoes'
    BY <1>1 DEF OneOfEach, HandlersOK, ComesBeforeItGoes
  <1>8. ClosingFollows' /\ Arrived'
    BY <1>1, <1>3 DEF ClosingFollows, Arrived
  <1>9. Leaving'
    <2> SUFFICES ASSUME NEW s \in Sockets, socket[s] = "closed", s \in Q[UserOf[s]].members,
                        s \notin ghosts
                 PROVE  Waits(s, {"srem"})
      BY <1>1, <1>3 DEF Leaving
    <2>1. CASE s \in presence[UserOf[s]].members
      BY <2>1 DEF Leaving
    <2>2. CASE Waits(s, {"sadd"})
      <3>1. PICK i \in DOMAIN pipe : pipe[i].socket = s /\ pipe[i].op = "sadd"
        BY <2>2 DEF Waits
      <3>2. pipe[i].op \in Opening
        BY <3>1 DEF Opening
      <3>3. PICK b \in DOMAIN pipe : pipe[b].socket = s /\ pipe[b].op \in Closing
        BY <3>1, <3>2 DEF ClosingFollows, Waits
      <3>4. Stage[pipe[b].op] + (IF i < b THEN 0 ELSE 1) <= Stage[pipe[i].op]
        BY <3>1, <3>2, <3>3 DEF ComesBeforeItGoes
      <3>5. Stage[pipe[i].op] = 0 /\ Stage[pipe[b].op] \in Nat
        BY <3>1, <3>3, OpFacts
      <3>6. Stage[pipe[b].op] = 0
        BY <3>4, <3>5
      <3>7. pipe[b].op = "srem"
        BY <3>3, <3>6, OpFacts DEF Closing
      <3> QED BY <3>3, <3>7 DEF Waits
    <2> QED BY <1>2, <1>4, <2>1, <2>2
  <1>10. Joined'
    <2> SUFFICES ASSUME NEW s \in Sockets, socket[s] = "open", UserOf[s] \notin expired
                 PROVE  s \in Q[UserOf[s]].members \/ Waits(s, {"sadd"})
      BY <1>1, <1>3 DEF Joined
    <2>1. ~Waits(s, {"srem"})
      BY DEF Waits, HandlersOK, Closing
    <2>2. s \in presence[UserOf[s]].members \/ Waits(s, {"sadd"})
      BY DEF Joined
    <2> QED BY <1>2, <1>4, <2>1, <2>2
  <1>11. LastSeenBeforeArrivals'
    BY <1>1 DEF LastSeenBeforeArrivals, Of
  <1>12. Departed'
    BY <1>1 DEF Departed, Live, Haunted, Of
  <1> QED BY <1>5, <1>6, <1>7, <1>8, <1>9, <1>10, <1>11, <1>12

LEMMA ExpireKeeps ==
  ASSUME PInv, NEW u \in Users, Expire(u)
  PROVE  PInv'
  <1>1. /\ presence' = [presence EXCEPT ![u] = NoKey] /\ expired' = expired \cup {u}
        /\ \A i \in DOMAIN pipe : ~(Of(pipe[i]) = u /\ pipe[i].op \in Opening)
        /\ pipe' = pipe /\ socket' = socket /\ announced' = announced
        /\ ghosts' = ghosts /\ untimed' = untimed /\ faults' = faults
    BY DEF Expire
  <1> USE DEF PInv
  <1>2. presence \in [Users -> Key] /\ NoKey \in Key /\ NoKey.members = {}
    BY DEF TypeOK, Key, NoKey
  <1>3. /\ presence' \in [Users -> Key] /\ presence'[u] = NoKey
        /\ \A v \in Users : v # u => presence'[v] = presence[v]
    BY <1>1, <1>2
  <1>4. \A ops : \A s : Waits(s, ops)' <=> Waits(s, ops)
    BY <1>1 DEF Waits
  <1>5. \A s \in Sockets : UserOf[s] \in Users
    BY SocketsOfUsers
  <1>6. TypeOK'
    BY <1>1, <1>3 DEF TypeOK
  <1>7. KeysOK'
    BY <1>1, <1>2, <1>3 DEF KeysOK
  <1>8. OneOfEach' /\ HandlersOK' /\ ComesBeforeItGoes'
    BY <1>1 DEF OneOfEach, HandlersOK, ComesBeforeItGoes
  <1>9. ClosingFollows' /\ Arrived'
    BY <1>1, <1>4 DEF ClosingFollows, Arrived
  <1>10. Leaving'
    BY <1>1, <1>2, <1>3, <1>4, <1>5 DEF Leaving
  <1>11. Joined'
    BY <1>1, <1>3, <1>4, <1>5 DEF Joined
  <1>12. LastSeenBeforeArrivals'
    BY <1>1 DEF LastSeenBeforeArrivals, Of
  <1>13. Departed'
    BY <1>1 DEF Departed, Live, Haunted, Of
  <1> QED BY <1>6, <1>7, <1>8, <1>9, <1>10, <1>11, <1>12, <1>13

LEMMA RestartKeeps ==
  ASSUME PInv, NEW k \in 0..Len(pipe), Restart(k)
  PROVE  PInv'
  <1> DEFINE Q == Executed(k)
  <1>1. /\ presence' = Q /\ pipe' = <<>> /\ announced' = announced /\ expired' = expired
        /\ socket' = [s \in Sockets |-> IF socket[s] = "open" THEN "closed" ELSE socket[s]]
        /\ ghosts' = ghosts \cup {s \in Sockets : socket[s] = "open"}
                            \cup {pipe[i].socket : i \in DOMAIN pipe}
        /\ untimed' = untimed \cup
             {Of(pipe[i]) : i \in {j \in DOMAIN pipe : \/ pipe[j].op = "sadd"
                                                       \/ pipe[j].op = "expire" /\ j > k}}
        /\ faults < MaxFaults /\ faults' = faults + 1
    BY DEF Restart, CutOff
  <1>2. /\ Q \in [Users -> Key]
        /\ \A u \in Users : Q[u].members = {} => Q[u] = NoKey
        /\ \A u \in Users : \A s \in Q[u].members :
              s \in presence[u].members \/ (UserOf[s] = u /\ Waits(s, {"sadd"}))
        /\ \A u \in Users : \A s \in Q[u].members : UserOf[s] = u /\ socket[s] # "new"
    BY BetweenKeys
  <1> HIDE DEF Q
  <1> USE DEF PInv
  <1>3. socket \in [Sockets -> {"new", "open", "closed"}]
    BY DEF TypeOK
  <1>4. /\ socket' \in [Sockets -> {"new", "open", "closed"}]
        /\ \A s \in Sockets : /\ socket'[s] # "open"
                              /\ socket[s] # "new" => socket'[s] # "new"
                              /\ socket'[s] = "closed" => socket[s] \in {"open", "closed"}
    BY <1>1, <1>3
  <1>5. DOMAIN pipe' = {}
    BY <1>1
  <1>6. TypeOK'
    <2>1. /\ \A i \in DOMAIN pipe : pipe[i].socket \in Sockets /\ Of(pipe[i]) \in Users
      BY PipeFacts
    <2>2. pipe' \in Seq(Command) /\ \A i, j \in DOMAIN pipe' : i # j => pipe'[i] # pipe'[j]
      BY <1>1, <1>5, EmptySeq
    <2>3. ghosts' \subseteq Sockets /\ untimed' \subseteq Users
      BY <1>1, <2>1 DEF TypeOK
    <2> QED BY <1>1, <1>2, <1>4, <2>2, <2>3, FaultBound DEF TypeOK
  <1>7. KeysOK'
    BY <1>1, <1>2, <1>4 DEF KeysOK, Key
  <1>8. OneOfEach' /\ HandlersOK' /\ ComesBeforeItGoes' /\ ClosingFollows' /\ LastSeenBeforeArrivals'
    BY <1>5 DEF OneOfEach, HandlersOK, ComesBeforeItGoes, ClosingFollows, LastSeenBeforeArrivals, Waits
  <1>9. Joined' /\ Arrived'
    BY <1>4 DEF Joined, Arrived
  <1>10. Leaving'
    <2> SUFFICES ASSUME NEW s \in Sockets, socket'[s] = "closed", s \in Q[UserOf[s]].members
                 PROVE  s \in ghosts'
      BY <1>1 DEF Leaving
    <2>1. CASE socket[s] = "open"
      BY <1>1, <2>1
    <2>2. CASE \E ops : Waits(s, ops)
      BY <1>1, <2>2 DEF Waits
    <2>3. CASE socket[s] = "closed" /\ s \in presence[UserOf[s]].members
      BY <1>1, <2>2, <2>3 DEF Leaving
    <2> QED BY <1>2, <1>4, <2>1, <2>2, <2>3, SocketsOfUsers
  <1>11. Departed'
    <2> SUFFICES ASSUME NEW u \in Users, u \notin {UserOf[s] : s \in ghosts'}
                 PROVE  announced[u] = "offline"
      BY <1>1 DEF Departed, Haunted
    <2>1. u \notin Haunted
      BY <1>1 DEF Haunted
    <2>2. Live(u) = {}
      BY <1>1 DEF Live
    <2>3. \A i \in DOMAIN pipe : Of(pipe[i]) # u
      BY <1>1 DEF Of
    <2> QED BY <2>1, <2>2, <2>3 DEF Departed
  <1> QED BY <1>6, <1>7, <1>8, <1>9, <1>10, <1>11

-----------------------------------------------------------------------------
(* The commands fail *)

\* The beginnings of a flattened sequence.
Flats(f, q, n) == f = [i \in 1..n |-> IF i = 1 THEN q[i] ELSE f[i - 1] \o q[i]]
FlatOf(q, n) == CHOOSE f : Flats(f, q, n)

LEMMA FlattenUnfolds ==
  ASSUME NEW q, NEW n \in Nat \ {0}, Len(q) = n
  PROVE  FlattenSeq(q) = FlatOf(q, n)[n]
  BY DEF FlattenSeq, FlatOf, Flats

LEMMA FlatExists ==
  ASSUME NEW q, NEW n \in Nat
  PROVE  Flats(FlatOf(q, n), q, n)
  <1> DEFINE C == {m \in Nat : ~ \E f : Flats(f, q, m)}
  <1> SUFFICES ASSUME C # {} PROVE FALSE
    BY DEF FlatOf
  <1>1. PICK m \in C : \A k \in C : m <= k
    <2>1. C \in SUBSET Nat
      OBVIOUS
    <2> HIDE DEF C
    <2> QED BY <2>1, Least
  <1>2. m # 0
    <2>1. Flats([i \in 1..0 |-> q[i]], q, 0)
      BY DEF Flats
    <2> QED BY <2>1
  <1>3. m - 1 \notin C /\ m - 1 \in Nat /\ m \in Nat \ {0}
    BY <1>1, <1>2
  <1>4. PICK f : Flats(f, q, m - 1)
    BY <1>3
  <1> DEFINE g == [i \in 1..m |-> IF i < m THEN f[i] ELSE IF m = 1 THEN q[m] ELSE f[m - 1] \o q[m]]
  <1>5. ASSUME NEW i \in 1..m
        PROVE  (IF i < m THEN f[i] ELSE IF m = 1 THEN q[m] ELSE f[m - 1] \o q[m])
               = IF i = 1 THEN q[i] ELSE g[i - 1] \o q[i]
    <2>1. i - 1 \in 1..m => g[i - 1] = f[i - 1]
      BY <1>3
    <2>2. CASE i < m
      <3>1. i \in 1..(m - 1)
        BY <1>3, <2>2
      <3>2. f[i] = IF i = 1 THEN q[i] ELSE f[i - 1] \o q[i]
        BY <1>4, <3>1 DEF Flats
      <3>3. i # 1 => i - 1 \in 1..m
        BY <1>3
      <3> HIDE DEF g
      <3> QED BY <2>1, <2>2, <3>2, <3>3
    <2>3. CASE i = m
      <3>1. i # 1 => i - 1 \in 1..m
        BY <1>3
      <3> HIDE DEF g
      <3> QED BY <1>3, <2>1, <2>3, <3>1
    <2> QED BY <1>3, <2>2, <2>3
  <1>6. Flats(g, q, m)
    <2> DEFINE h == g
    <2>1. g = [i \in 1..m |-> IF i = 1 THEN q[i] ELSE h[i - 1] \o q[i]]
      BY <1>5
    <2>2. h = g
      OBVIOUS
    <2> HIDE DEF g, h
    <2> QED BY <2>1, <2>2 DEF Flats
  <1> QED BY <1>3, <1>6

\* What holds of the sequence r made of the elements e[i] with i in I.
Picks(r, e, I, S) ==
    /\ r \in Seq(S)
    /\ \A j \in DOMAIN r : \E i \in I : r[j] = e[i]
    /\ \A i \in I : \E j \in DOMAIN r : r[j] = e[i]
    /\ \A j, k \in DOMAIN r : j # k => r[j] # r[k]

LEMMA PicksOneMore ==
  ASSUME NEW S, NEW r, NEW e, NEW I, NEW m, Picks(r, e, I, S),
         e[m] \in S, \A i \in I : e[i] # e[m]
  PROVE  Picks(r \o <<e[m]>>, e, I \cup {m}, S)
  <1> DEFINE x == e[m]
             t == r \o <<x>>
             n == Len(r)
  <1> HIDE DEF x
  <1>1. r \in Seq(S) /\ n \in Nat /\ DOMAIN r = 1..n /\ x \in S
    BY LenProperties DEF Picks, x
  <1>2. <<x>> \in Seq(S) /\ Len(<<x>>) = 1 /\ <<x>>[1] = x
    BY <1>1
  <1>3. /\ t \in Seq(S) /\ Len(t) = n + 1
        /\ \A i \in 1..(n + 1) : t[i] = IF i <= n THEN r[i] ELSE <<x>>[i - n]
    BY <1>1, <1>2, ConcatProperties
  <1>4. DOMAIN t = 1..(n + 1)
    BY <1>3, LenProperties
  <1> HIDE DEF t
  <1>5. t[n + 1] = x /\ n + 1 \in DOMAIN t
    BY <1>1, <1>2, <1>3, <1>4
  <1>6. \A i \in DOMAIN r : i \in DOMAIN t /\ t[i] = r[i] /\ i # n + 1
    BY <1>1, <1>3, <1>4
  <1>7. \A i \in DOMAIN t : i \in DOMAIN r \/ i = n + 1
    BY <1>1, <1>4
  <1> HIDE DEF n
  <1>8. \A i \in I : e[i] # x
    BY DEF x
  <1>9. \A j \in DOMAIN t : \E i \in I \cup {m} : t[j] = e[i]
    BY <1>5, <1>6, <1>7 DEF Picks, x
  <1>10. \A i \in I \cup {m} : \E j \in DOMAIN t : t[j] = e[i]
    BY <1>5, <1>6 DEF Picks, x
  <1>11. \A j \in DOMAIN r : r[j] # x
    BY <1>8 DEF Picks
  <1>12. \A j, k \in DOMAIN t : j # k => t[j] # t[k]
    BY <1>5, <1>6, <1>7, <1>11 DEF Picks
  <1> QED BY <1>3, <1>9, <1>10, <1>12 DEF Picks, t, x

LEMMA FlattenPicks ==
  ASSUME NEW S, NEW n \in Nat, NEW I \in SUBSET (1..n), NEW e,
         \A i \in I : e[i] \in S,
         \A i, j \in I : i # j => e[i] # e[j],
         NEW q, q = [i \in 1..n |-> IF i \in I THEN <<e[i]>> ELSE <<>>]
  PROVE  Picks(FlattenSeq(q), e, I, S)
  <1>1. q \in Seq(Seq(S)) /\ Len(q) = n
    <2>1. \A i \in 1..n : q[i] \in Seq(S)
      <3> TAKE i \in 1..n
      <3>1. CASE i \in I
        BY <3>1
      <3>2. CASE i \notin I
        BY <3>2
      <3> QED BY <3>1, <3>2
    <2>2. q \in [1..n -> Seq(S)]
      BY <2>1
    <2>3. q \in Seq(Seq(S))
      BY <2>2, SeqDef
    <2>4. DOMAIN q = 1..n
      OBVIOUS
    <2>5. Len(q) \in Nat /\ 1..Len(q) = 1..n
      BY <2>3, <2>4, LenProperties
    <2> QED BY <2>3, <2>5
  <1>2. Picks(<<>>, e, {}, S)
    BY DEF Picks
  <1>3. CASE n = 0
    <2>1. FlattenSeq(q) = q /\ q = <<>>
      BY <1>1, <1>3, EmptySeq DEF FlattenSeq
    <2>2. I = {}
      BY <1>3
    <2> QED BY <1>2, <2>1, <2>2
  <1>4. CASE n # 0
    <2> DEFINE f == FlatOf(q, n)
               upto(m) == I \cap (1..m)
               C == {m \in 1..n : ~Picks(f[m], e, upto(m), S)}
    <2>1. FlattenSeq(q) = f[n] /\ upto(n) = I /\ n \in 1..n
      <3>1. n \in Nat \ {0} /\ Len(q) = n
        BY <1>1, <1>4
      <3>2. FlattenSeq(q) = FlatOf(q, n)[n]
        BY ONLY <3>1, FlattenUnfolds
      <3>3. I \cap (1..n) = I
        OBVIOUS
      <3> QED BY <3>1, <3>2, <3>3
    <2>2. Flats(f, q, n)
      BY FlatExists
    <2> HIDE DEF f
    <2>3. SUFFICES ASSUME C # {} PROVE FALSE
      BY <2>1
    <2>4. PICK m \in C : \A k \in C : m <= k
      <3>1. C \in SUBSET Nat
        OBVIOUS
      <3> HIDE DEF C, upto
      <3> QED BY <2>3, <3>1, Least
    <2>5. m \in 1..n /\ ~Picks(f[m], e, upto(m), S)
      OBVIOUS
    <2>6. f[m] = IF m = 1 THEN q[m] ELSE f[m - 1] \o q[m]
      BY <2>2, <2>5 DEF Flats
    <2>7. m = 1 \/ (m - 1 \in 1..n /\ Picks(f[m - 1], e, upto(m - 1), S))
      <3>1. m \in 1..n /\ ~(m <= m - 1)
        BY <2>5
      <3>2. m - 1 \notin C
        <4> HIDE DEF C
        <4> QED BY <2>4, <3>1
      <3>3. m = 1 \/ m - 1 \in 1..n
        BY <3>1
      <3> HIDE DEF upto
      <3> QED BY <3>2, <3>3
    <2>8. PICK r : Picks(r, e, upto(m - 1), S) /\ f[m] = r \o q[m]
      <3>1. CASE m = 1
        <4>1. upto(m - 1) = {}
          BY <3>1
        <4>2. q[m] \in Seq(S)
          BY <1>1, <2>5, ElementOfSeq
        <4>3. f[m] = <<>> \o q[m]
          BY <2>6, <3>1, <4>2, ConcatEmptySeq
        <4> QED BY <1>2, <4>1, <4>3
      <3>2. CASE m # 1
        BY <2>6, <2>7, <3>2
      <3> QED BY <3>1, <3>2
    <2>9. CASE m \in I
      <3>1. q[m] = <<e[m]>> /\ e[m] \in S
        BY <2>5, <2>9
      <3>2. upto(m) = upto(m - 1) \cup {m}
        BY <2>5, <2>9
      <3>3. \A i \in upto(m - 1) : e[i] # e[m]
        BY <2>5, <2>9
      <3> HIDE DEF upto
      <3>4. Picks(r \o <<e[m]>>, e, upto(m - 1) \cup {m}, S)
        BY <2>8, <3>1, <3>3, PicksOneMore
      <3> QED BY <2>5, <2>8, <3>1, <3>2, <3>4
    <2>10. CASE m \notin I
      <3>1. q[m] = <<>>
        BY <2>5, <2>10
      <3>2. upto(m) = upto(m - 1)
        BY <2>5, <2>10
      <3>3. r \in Seq(S)
        BY <2>8 DEF Picks
      <3>4. f[m] = r
        BY <2>8, <3>1, <3>3, ConcatEmptySeq
      <3> QED BY <2>5, <2>8, <3>2, <3>4
    <2> QED BY <2>9, <2>10
  <1> QED BY <1>3, <1>4

\* The commands after all have failed: one for each socket that is dropped.
LEMMA GiveUpPipe ==
  ASSUME PInv, NEW k \in 0..Len(pipe), GiveUp(k)
  PROVE  /\ pipe' \in Seq(Command)
         /\ \A j \in DOMAIN pipe' : pipe'[j].op = "srem" /\ pipe'[j].socket \in FailsClosed
         /\ \A s \in FailsClosed : \E j \in DOMAIN pipe' : pipe'[j].socket = s
         /\ \A i, j \in DOMAIN pipe' : i # j => pipe'[i].socket # pipe'[j].socket
  <1> USE DEF PInv
  <1> DEFINE n == Len(pipe)
             I == {i \in 1..n : pipe[i].socket \in FailsClosed}
             e == [i \in 1..n |-> [socket |-> pipe[i].socket, op |-> "srem"]]
             q == [i \in 1..n |-> IF i \in I THEN <<e[i]>> ELSE <<>>]
  <1>1. pipe \in Seq(Command) /\ n \in Nat /\ DOMAIN pipe = 1..n
    BY PipeFacts
  <1>2. \A i \in 1..n : pipe[i].socket \in Sockets /\ pipe[i].op \in Opening \cup Closing
    BY <1>1, PipeFacts
  <1>3. \A i \in 1..n : e[i] \in Command /\ e[i].socket = pipe[i].socket /\ e[i].op = "srem"
    BY <1>2 DEF Command, Closing
  <1>4. ASSUME NEW i \in I, NEW j \in I, i # j
        PROVE  e[i] # e[j]
    <2>1. i \in DOMAIN pipe /\ j \in DOMAIN pipe
      BY <1>1
    <2>2. socket[pipe[i].socket] = "open" /\ socket[pipe[j].socket] = "open"
      BY DEF FailsClosed
    <2>3. pipe[i].op \notin Closing /\ pipe[j].op \notin Closing
      BY <2>1, <2>2 DEF HandlersOK
    <2>4. pipe[i].op \in Opening
      BY <1>2, <2>3
    <2>5. pipe[i].socket # pipe[j].socket
      BY <1>4, <2>1, <2>3, <2>4 DEF OneOfEach
    <2> HIDE DEF e
    <2> QED BY <1>3, <2>5
  <1>5. pipe' = FlattenSeq(q)
    <2>1. pipe' = FlattenSeq([i \in DOMAIN pipe |-> IF pipe[i].socket \in FailsClosed
                                                    THEN Send(pipe[i].socket, "srem") ELSE <<>>])
      BY DEF GiveUp
    <2>2. ASSUME NEW i \in 1..n
          PROVE  (IF pipe[i].socket \in FailsClosed THEN Send(pipe[i].socket, "srem") ELSE <<>>)
                 = IF i \in I THEN <<e[i]>> ELSE <<>>
      BY DEF Send
    <2>3. [i \in DOMAIN pipe |-> IF pipe[i].socket \in FailsClosed
                                 THEN Send(pipe[i].socket, "srem") ELSE <<>>] = q
      <3> HIDE DEF e, I
      <3> QED BY <1>1, <2>2
    <2> HIDE DEF q
    <2> QED BY <2>1, <2>3
  <1>6. I \in SUBSET (1..n) /\ \A i \in I : e[i] \in Command
    BY <1>3
  <1>7. I = {i \in DOMAIN pipe : pipe[i].socket \in FailsClosed}
    BY <1>1
  <1> HIDE DEF e, I
  <1>8. Picks(pipe', e, I, Command)
    BY <1>1, <1>4, <1>5, <1>6, FlattenPicks
  <1>9. pipe' \in Seq(Command)
    BY <1>8 DEF Picks
  <1>10. \A j \in DOMAIN pipe' : pipe'[j].op = "srem" /\ pipe'[j].socket \in FailsClosed
    BY <1>1, <1>3, <1>7, <1>8 DEF Picks
  <1>11. ASSUME NEW s \in FailsClosed
         PROVE  \E j \in DOMAIN pipe' : pipe'[j].socket = s
    <2>1. PICK i \in DOMAIN pipe : pipe[i].socket = s
      BY DEF FailsClosed
    <2>2. i \in I
      BY <1>7, <2>1
    <2> QED BY <1>1, <1>3, <1>8, <2>1, <2>2 DEF Picks
  <1>12. ASSUME NEW i \in DOMAIN pipe', NEW j \in DOMAIN pipe', i # j,
                pipe'[i].socket = pipe'[j].socket
         PROVE  FALSE
    <2>1. pipe'[i] # pipe'[j]
      BY <1>8, <1>12 DEF Picks
    <2>2. pipe'[i] \in Command /\ pipe'[j] \in Command
      BY <1>9, ElementOfSeq, LenProperties
    <2>3. pipe'[i].op = pipe'[j].op
      BY <1>10
    <2> QED BY <1>12, <2>1, <2>2, <2>3 DEF Command
  <1> QED BY <1>9, <1>10, <1>11, <1>12

LEMMA GiveUpKeeps ==
  ASSUME PInv, NEW k \in 0..Len(pipe), GiveUp(k)
  PROVE  PInv'
  <1> DEFINE Q == Executed(k)
  <1>1. /\ presence' = Q /\ announced' = announced /\ expired' = expired
        /\ socket' = [s \in Sockets |-> IF s \in FailsClosed THEN "closed" ELSE socket[s]]
        /\ ghosts' = ghosts \cup {pipe[i].socket : i \in {j \in DOMAIN pipe : pipe[j].op \in Closing}}
        /\ untimed' = untimed \cup
             {Of(pipe[i]) : i \in {j \in DOMAIN pipe : \/ pipe[j].op = "sadd"
                                                       \/ pipe[j].op = "expire" /\ j > k}}
        /\ faults < MaxFaults /\ faults' = faults + 1
    BY DEF GiveUp, CutOff
  <1>2. /\ Q \in [Users -> Key]
        /\ \A u \in Users : Q[u].members = {} => Q[u] = NoKey
        /\ \A u \in Users : \A s \in Q[u].members :
              s \in presence[u].members \/ (UserOf[s] = u /\ Waits(s, {"sadd"}))
        /\ \A u \in Users : \A s \in presence[u].members : s \in Q[u].members \/ Waits(s, {"srem"})
        /\ \A u \in Users : \A s \in Q[u].members : UserOf[s] = u /\ socket[s] # "new"
    BY BetweenKeys
  <1> HIDE DEF Q
  <1>3. /\ pipe' \in Seq(Command)
        /\ \A j \in DOMAIN pipe' : pipe'[j].op = "srem" /\ pipe'[j].socket \in FailsClosed
        /\ \A s \in FailsClosed : \E j \in DOMAIN pipe' : pipe'[j].socket = s
        /\ \A i, j \in DOMAIN pipe' : i # j => pipe'[i].socket # pipe'[j].socket
    BY GiveUpPipe
  <1> USE DEF PInv
  <1>4. socket \in [Sockets -> {"new", "open", "closed"}]
    BY DEF TypeOK
  <1>5. /\ FailsClosed \subseteq Sockets
        /\ \A s \in FailsClosed : socket[s] = "open"
        /\ \A s \in Sockets : \A ops : socket[s] = "open" /\ s \notin FailsClosed => ~Waits(s, ops)
    BY DEF FailsClosed, Waits
  <1>6. /\ socket' \in [Sockets -> {"new", "open", "closed"}]
        /\ \A s \in FailsClosed : socket'[s] = "closed"
        /\ \A s \in Sockets : s \notin FailsClosed => socket'[s] = socket[s]
    BY <1>1, <1>4, <1>5
  <1>7. "srem" \in Closing /\ "srem" \notin Opening
    BY OpFacts DEF Closing
  <1>8. \A s \in Sockets : UserOf[s] \in Users
    BY SocketsOfUsers
  <1>9. TypeOK'
    <2>1. \A i \in DOMAIN pipe : pipe[i].socket \in Sockets /\ Of(pipe[i]) \in Users
      BY PipeFacts
    <2>2. ghosts' \subseteq Sockets /\ untimed' \subseteq Users
      BY <1>1, <2>1 DEF TypeOK
    <2>3. \A i, j \in DOMAIN pipe' : i # j => pipe'[i] # pipe'[j]
      BY <1>3
    <2> QED BY <1>1, <1>2, <1>3, <1>6, <2>2, <2>3, FaultBound DEF TypeOK
  <1>10. KeysOK'
    <2>1. \A u \in Users : \A s \in Q[u].members : s \in Sockets
      BY <1>2 DEF Key
    <2>2. \A s \in Sockets : socket[s] # "new" => socket'[s] # "new"
      BY <1>5, <1>6
    <2> QED BY <1>1, <1>2, <2>1, <2>2 DEF KeysOK
  <1>11. HandlersOK'
    BY <1>3, <1>6 DEF HandlersOK
  <1>12. OneOfEach' /\ ComesBeforeItGoes' /\ LastSeenBeforeArrivals' /\ ClosingFollows'
    BY <1>3, <1>7 DEF OneOfEach, ComesBeforeItGoes, LastSeenBeforeArrivals, ClosingFollows, Waits
  <1>13. \A s \in FailsClosed : Waits(s, {"srem"})'
    BY <1>3 DEF Waits
  <1>14. \A s : Waits(s, Closing) => s \in ghosts'
    BY <1>1 DEF Waits
  <1>15. \A s : Waits(s, {"srem"}) => Waits(s, Closing)
    BY <1>7 DEF Waits
  <1>16. Leaving'
    <2> SUFFICES ASSUME NEW s \in Sockets, socket'[s] = "closed", s \in Q[UserOf[s]].members,
                        s \notin FailsClosed
                 PROVE  s \in ghosts'
      BY <1>1, <1>13 DEF Leaving
    <2>1. socket[s] = "closed"
      BY <1>6
    <2>2. CASE s \in presence[UserOf[s]].members
      BY <1>1, <1>14, <1>15, <2>1, <2>2 DEF Leaving
    <2>3. CASE Waits(s, {"sadd"})
      <3>1. Waits(s, Opening)
        BY <2>3 DEF Waits, Opening
      <3> QED BY <1>14, <2>1, <3>1 DEF ClosingFollows
    <2> QED BY <1>2, <1>8, <2>2, <2>3
  <1>17. \A s \in Sockets : socket'[s] = "open" =>
            socket[s] = "open" /\ \A ops : ~Waits(s, ops)
    BY <1>5, <1>6
  <1>18. Joined'
    BY <1>1, <1>2, <1>8, <1>17 DEF Joined
  <1>19. Arrived'
    BY <1>1, <1>17 DEF Arrived
  <1>20. Departed'
    <2> SUFFICES ASSUME NEW u \in Users, Live(u)' = {}, u \notin {UserOf[s] : s \in ghosts'},
                        \A i \in DOMAIN pipe' : ~(Of(pipe'[i]) = u /\ pipe'[i].op \in Closing)
                 PROVE  announced[u] = "offline"
      BY <1>1 DEF Departed, Haunted, Of
    <2>1. u \notin Haunted
      BY <1>1 DEF Haunted
    <2>2. \A i \in DOMAIN pipe : ~(Of(pipe[i]) = u /\ pipe[i].op \in Closing)
      BY <1>1 DEF Of
    <2>3. ASSUME NEW s \in Live(u)
          PROVE  FALSE
      <3>1. s \in Sockets /\ UserOf[s] = u /\ socket[s] = "open"
        BY DEF Live
      <3>2. CASE s \in FailsClosed
        BY <1>3, <1>7, <3>1, <3>2 DEF Of
      <3>3. CASE s \notin FailsClosed
        BY <1>6, <3>1, <3>3 DEF Live
      <3> QED BY <3>2, <3>3
    <2> QED BY <2>1, <2>2, <2>3 DEF Departed
  <1> QED BY <1>9, <1>10, <1>11, <1>12, <1>16, <1>18, <1>19, <1>20

-----------------------------------------------------------------------------
(* The theorems *)

LEMMA InitHolds ==
  ASSUME Init
  PROVE  PInv
  <1>1. pipe = <<>> /\ DOMAIN pipe = {}
    BY DEF Init
  <1>2. TypeOK
    BY <1>1, EmptySeq, FaultBound DEF Init, TypeOK, Key, NoKey
  <1>3. KeysOK
    BY DEF Init, KeysOK, NoKey
  <1>4. OneOfEach /\ HandlersOK /\ ComesBeforeItGoes /\ ClosingFollows /\ LastSeenBeforeArrivals
    BY <1>1 DEF OneOfEach, HandlersOK, ComesBeforeItGoes, ClosingFollows, LastSeenBeforeArrivals, Waits
  <1>5. Leaving /\ Joined /\ Arrived /\ Departed
    BY DEF Init, Leaving, Joined, Arrived, Departed
  <1> QED BY <1>2, <1>3, <1>4, <1>5 DEF PInv

LEMMA StutterKeeps ==
  ASSUME PInv, UNCHANGED vars
  PROVE  PInv'
  <1>1. /\ presence' = presence /\ pipe' = pipe /\ socket' = socket /\ announced' = announced
        /\ expired' = expired /\ ghosts' = ghosts /\ untimed' = untimed /\ faults' = faults
    BY DEF vars, history
  <1> USE DEF PInv
  <1>2. \A ops : \A s : Waits(s, ops)' <=> Waits(s, ops)
    BY <1>1 DEF Waits
  <1>3. TypeOK' /\ KeysOK' /\ OneOfEach' /\ HandlersOK' /\ ComesBeforeItGoes'
    BY <1>1 DEF TypeOK, KeysOK, OneOfEach, HandlersOK, ComesBeforeItGoes
  <1>4. ClosingFollows' /\ Leaving' /\ Joined' /\ Arrived'
    BY <1>1, <1>2 DEF ClosingFollows, Leaving, Joined, Arrived
  <1>5. LastSeenBeforeArrivals'
    BY <1>1 DEF LastSeenBeforeArrivals, Of
  <1>6. Departed'
    BY <1>1 DEF Departed, Live, Haunted, Of
  <1> QED BY <1>3, <1>4, <1>5, <1>6

LEMMA NextKeeps ==
  ASSUME PInv, [Next]_vars
  PROVE  PInv'
  <1>1. CASE \E s \in Sockets : Connect(s) \/ Reject(s) \/ Disconnect(s)
    BY <1>1, ConnectKeeps, RejectKeeps, DisconnectKeeps
  <1>2. CASE Reply
    BY <1>2, ReplyKeeps
  <1>3. CASE \E k \in 0..Len(pipe) : Reconnect(k) \/ GiveUp(k) \/ Restart(k)
    BY <1>3, ReconnectKeeps, GiveUpKeeps, RestartKeeps
  <1>4. CASE \E u \in Users : Expire(u)
    BY <1>4, ExpireKeeps
  <1>5. CASE UNCHANGED vars
    BY <1>5, StutterKeeps
  <1> QED BY <1>1, <1>2, <1>3, <1>4, <1>5 DEF Next

\* Whatever sockets come and go, and however often the connection breaks with some of its
\* commands executed: the sets, the waiting commands and the broadcasts fit together.
THEOREM PresenceInvariant == Spec => []PInv
  <1>1. Init => PInv
    BY InitHolds
  <1>2. PInv /\ [Next]_vars => PInv'
    BY NextKeeps
  <1> QED BY <1>1, <1>2, PTL DEF Spec

\* The gateway, its connection to Redis and the keys stay what they are declared to be: in
\* particular no handler has two commands on the way.
THEOREM PresenceTyped == Spec => []TypeOK
  <1>1. PInv => TypeOK
    BY DEF PInv
  <1> QED BY <1>1, PresenceInvariant, PTL

\* Once the handlers of a user are through, the set in Redis is that of the live sockets: no
\* closed one stays unless its disconnect handler was cut off, and no live one is missing
\* unless the key ran into its TTL.  (setPresence, removePresence.)
THEOREM PresenceRight == Spec => []PresenceMatchesSockets
  <1>1. ASSUME PInv
        PROVE  PresenceMatchesSockets
    <2> USE <1>1 DEF PInv
    <2> SUFFICES ASSUME NEW u \in Users, Quiet(u)
                 PROVE  /\ presence[u].members \subseteq Live(u) \cup ghosts
                        /\ u \notin expired => Live(u) \subseteq presence[u].members
      BY DEF PresenceMatchesSockets
    <2>1. \A s \in Sockets : \A ops : UserOf[s] = u => ~Waits(s, ops)
      BY DEF Quiet, Waits, Of
    <2>2. ASSUME NEW s \in presence[u].members
          PROVE  s \in Live(u) \cup ghosts
      <3>1. s \in Sockets /\ UserOf[s] = u /\ socket[s] # "new"
        BY DEF TypeOK, Key, KeysOK
      <3>2. socket[s] = "open" \/ socket[s] = "closed"
        BY <3>1 DEF TypeOK
      <3>3. CASE socket[s] = "open"
        BY <3>1, <3>3 DEF Live
      <3>4. CASE socket[s] = "closed"
        BY <2>1, <3>1, <3>4 DEF Leaving
      <3> QED BY <3>2, <3>3, <3>4
    <2>3. ASSUME u \notin expired, NEW s \in Live(u)
          PROVE  s \in presence[u].members
      BY <2>1, <2>3 DEF Live, Joined
    <2> QED BY <2>2, <2>3
  <1> QED BY <1>1, PresenceInvariant, PTL

\* Once the handlers of a user are through, the last broadcast is the true one, in whatever
\* order connects and disconnects ran into each other.  (handleConnection, handleDisconnect.)
THEOREM LastAnnouncementTrue == Spec => []LastAnnouncementRight
  <1>1. ASSUME PInv
        PROVE  LastAnnouncementRight
    <2> USE <1>1 DEF PInv
    <2> SUFFICES ASSUME NEW u \in Users, Quiet(u)
                 PROVE  /\ Live(u) = {} /\ u \notin Haunted => announced[u] = "offline"
                        /\ Live(u) # {} /\ u \notin expired => announced[u] = "online"
      BY DEF LastAnnouncementRight
    <2>1. Live(u) = {} /\ u \notin Haunted => announced[u] = "offline"
      BY DEF Departed, Quiet
    <2>2. ASSUME NEW s \in Live(u), u \notin expired
          PROVE  announced[u] = "online"
      <3>1. s \in Sockets /\ UserOf[s] = u /\ socket[s] = "open"
        BY DEF Live
      <3>2. ~Waits(s, Opening)
        BY <3>1 DEF Quiet, Waits, Of
      <3> QED BY <2>2, <3>1, <3>2 DEF Arrived
    <2> QED BY <2>1, <2>2
  <1> QED BY <1>1, PresenceInvariant, PTL

=============================================================================
