---------------------------- MODULE PresenceInv ----------------------------
(***************************************************************************)
(* Why presence is right once the handlers are through: what the sets in   *)
(* Redis, the commands on the way and the last broadcasts say of each      *)
(* other at every moment, whatever part of the commands ran twice.  The    *)
(* proofs are in PresenceProofs.                                           *)
(***************************************************************************)
EXTENDS Presence

\* How far a handler is.  An opening command follows the closing one of the same socket
\* at no distance: the connection is a queue, and a socket comes before it goes.
Stage == [op \in Opening \cup Closing |->
            CASE op \in {"sadd", "srem"} -> 0   [] op \in {"expire", "left"} -> 1
              [] op \in {"arrived", "scard"} -> 2 [] op = "lastseen" -> 3]

\* A handler of this socket waits with one of these commands.
Waits(s, ops) == \E i \in DOMAIN pipe : pipe[i].socket = s /\ pipe[i].op \in ops

\* A key holds sockets of its user, and an empty one is gone.
KeysOK ==
    \A u \in Users : /\ presence[u].members = {} => presence[u] = NoKey
                     /\ \A s \in presence[u].members : UserOf[s] = u /\ socket[s] # "new"

OneOfEach ==
    \A i, j \in DOMAIN pipe :
        i # j /\ pipe[i].socket = pipe[j].socket
        => (pipe[i].op \in Opening <=> pipe[j].op \in Closing)

\* Only a socket that came has handlers, and only a closed one goes.
HandlersOK ==
    \A i \in DOMAIN pipe : /\ socket[pipe[i].socket] # "new"
                           /\ pipe[i].op \in Closing => socket[pipe[i].socket] = "closed"

ComesBeforeItGoes ==
    \A i, j \in DOMAIN pipe :
        pipe[i].socket = pipe[j].socket /\ pipe[i].op \in Opening /\ pipe[j].op \in Closing
        => Stage[pipe[j].op] + (IF i < j THEN 0 ELSE 1) <= Stage[pipe[i].op]

\* A socket that closes while its opening handler runs has a closing one behind it.
ClosingFollows ==
    \A s \in Sockets : socket[s] = "closed" /\ Waits(s, Opening) => Waits(s, Closing)

\* A closed socket that is still in the set is about to leave it.
Leaving ==
    \A s \in Sockets :
        socket[s] = "closed" /\ s \in presence[UserOf[s]].members => s \in ghosts \/ Waits(s, {"srem"})

\* An open one is in the set, or about to join it, unless the TTL took the key.
Joined ==
    \A s \in Sockets :
        socket[s] = "open" /\ UserOf[s] \notin expired
        => s \in presence[UserOf[s]].members \/ Waits(s, {"sadd"})

\* Whoever is about to be announced as offline was alone: the sockets that are open now
\* still have to be announced.
LastSeenBeforeArrivals ==
    \A j \in DOMAIN pipe, s \in Sockets :
        /\ pipe[j].op = "lastseen" /\ Of(pipe[j]) = UserOf[s]
        /\ socket[s] = "open" /\ UserOf[s] \notin expired
        => \E i \in DOMAIN pipe : /\ pipe[i].socket = s
                                  /\ \/ pipe[i].op = "sadd"
                                     \/ pipe[i].op = "expire" /\ i > j

\* An open socket whose handler is through has been announced, and nothing since.
Arrived ==
    \A s \in Sockets :
        socket[s] = "open" /\ UserOf[s] \notin expired /\ ~Waits(s, Opening)
        => announced[UserOf[s]] = "online"

\* A user with no socket left and no handler that still looks has been announced.
Departed ==
    \A u \in Users :
        /\ Live(u) = {} /\ u \notin Haunted
        /\ \A i \in DOMAIN pipe : ~(Of(pipe[i]) = u /\ pipe[i].op \in Closing)
        => announced[u] = "offline"

PInv ==
    /\ TypeOK
    /\ KeysOK /\ OneOfEach /\ HandlersOK /\ ComesBeforeItGoes /\ ClosingFollows
    /\ Leaving /\ Joined /\ LastSeenBeforeArrivals /\ Arrived /\ Departed

=============================================================================
