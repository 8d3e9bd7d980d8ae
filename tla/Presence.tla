------------------------------ MODULE Presence ------------------------------
(***************************************************************************)
(* Who is online: the connection handlers of messaging.gateway.ts over the *)
(* presence sets that redis.service.ts keeps in Redis.                     *)
(*                                                                         *)
(* A socket.io namespace lives in one process, which talks to Redis over   *)
(* one connection.  A handler sends a command, waits for its reply and     *)
(* sends the next; other handlers do the same meanwhile, so the connection *)
(* is a queue of commands of many handlers, at most one of each.  Replies  *)
(* come in the order of the commands.                                      *)
(***************************************************************************)
EXTENDS Integers, FiniteSets, Sequences, SequencesExt

CONSTANTS
    Users,
    Sockets,        \* numbered as they arrive
    UserOf,         \* the account of the token a socket presents
    MaxFaults       \* bound: broken connections to Redis

ASSUME SocketsNumbered == Sockets \subseteq Nat
ASSUME SocketsOfUsers  == UserOf \in [Sockets -> Users]
ASSUME FaultBound == MaxFaults \in Nat

VARIABLES
    presence,       \* Redis: the key presence:{userId}
    pipe,           \* commands sent to Redis and not yet answered
    socket,         \* the transport's view of each socket
    announced,      \* the last presence broadcast about each user
    \* History, read by properties only.
    expired,        \* users whose set ran into its TTL
    ghosts,         \* sockets that went without their disconnect handler ending
    untimed,        \* users whose connection was cut off between SADD and EXPIRE
    faults

history == <<expired, ghosts, untimed, faults>>
vars    == <<presence, pipe, socket, announced, history>>

\* The commands of handleConnection and of handleDisconnect, in their order.
Opening == {"sadd", "expire", "arrived"}
Closing == {"srem", "left", "scard", "lastseen"}
Follows == [op \in {"sadd", "expire", "srem", "left", "scard"} |->
              CASE op = "sadd" -> "expire"  [] op = "expire" -> "arrived"
                [] op = "srem" -> "left"    [] op = "left"   -> "scard"
                [] op = "scard" -> "lastseen"]

Command  == [socket: Sockets, op: Opening \cup Closing]
Send(s, op) == <<[socket |-> s, op |-> op]>>
Of(c)    == UserOf[c.socket]
Live(u)  == {s \in Sockets : UserOf[s] = u /\ socket[s] = "open"}

\* A set that is empty is no key, and has no TTL.
Key   == [members: SUBSET Sockets, ttl: BOOLEAN]
NoKey == [members |-> {}, ttl |-> FALSE]

TypeOK ==
    /\ presence \in [Users -> Key]
    /\ pipe \in Seq(Command)
    /\ \A i, j \in DOMAIN pipe : i # j => pipe[i] # pipe[j]
    /\ socket \in [Sockets -> {"new", "open", "closed"}]
    /\ announced \in [Users -> {"online", "offline"}]
    /\ expired \subseteq Users /\ ghosts \subseteq Sockets /\ untimed \subseteq Users
    /\ faults \in 0..MaxFaults

Init ==
    /\ presence = [u \in Users |-> NoKey]
    /\ pipe = <<>>
    /\ socket = [s \in Sockets |-> "new"]
    /\ announced = [u \in Users |-> "offline"]
    /\ expired = {} /\ ghosts = {} /\ untimed = {}
    /\ faults = 0

-----------------------------------------------------------------------------
(* Sockets *)

Arrives(s) == socket[s] = "new" /\ \A t \in Sockets : t < s => socket[t] # "new"

\* handleConnection up to its first command: the token holds.
Connect(s) ==
    /\ Arrives(s)
    /\ socket' = [socket EXCEPT ![s] = "open"]
    /\ pipe' = pipe \o Send(s, "sadd")
    /\ UNCHANGED <<presence, announced, history>>

\* The token does not hold: the socket is dropped before it has a userId, and
\* handleDisconnect returns at once.
Reject(s) ==
    /\ Arrives(s)
    /\ socket' = [socket EXCEPT ![s] = "closed"]
    /\ UNCHANGED <<presence, pipe, announced, history>>

\* Mutant of Disconnect: a socket that is gone is dropped once more.
DisconnectAgain(s) ==
    /\ socket[s] # "new"
    /\ socket' = [socket EXCEPT ![s] = "closed"]
    /\ pipe' = pipe \o Send(s, "srem")
    /\ UNCHANGED <<presence, announced, history>>

\* handleDisconnect, whenever the client goes: its own handleConnection may
\* still be waiting for a reply.
Disconnect(s) ==
    /\ socket[s] = "open"
    /\ socket' = [socket EXCEPT ![s] = "closed"]
    /\ pipe' = pipe \o Send(s, "srem")
    /\ UNCHANGED <<presence, announced, history>>

-----------------------------------------------------------------------------
(* Redis *)

\* EXPIRE.  Mutant: it does nothing.
NeverTimed(key) == key
Timed(key)      == [key EXCEPT !.ttl = key # NoKey]

\* SREM: a set that ends up empty is no key.
Without(key, s) == IF key.members \subseteq {s} THEN NoKey ELSE [key EXCEPT !.members = @ \ {s}]

\* setPresence and removePresence write; the rest reads, or writes lastseen.
Applied(p, c) ==
    CASE c.op = "sadd"   -> [p EXCEPT ![Of(c)].members = @ \cup {c.socket}]
      [] c.op = "expire" -> [p EXCEPT ![Of(c)] = Timed(@)]
      [] c.op = "srem"   -> [p EXCEPT ![Of(c)] = Without(@, c.socket)]
      [] OTHER           -> p

\* isOnline: a disconnect goes on only when no socket is left.
\* Mutants: the answer is not looked at; 0 counts as online.
AlwaysGone(p, c) == FALSE
ZeroIsOnline(p, c) == c.op = "scard" /\ Cardinality(p[Of(c)].members) >= 0
StillOnline(p, c) == c.op = "scard" /\ p[Of(c)] # NoKey

\* The reply to the oldest command: its handler sends the next one, or
\* broadcasts and ends.
Reply ==
    /\ pipe # <<>>
    /\ LET c == Head(pipe)
           last == c.op \in {"arrived", "lastseen"} \/ StillOnline(presence, c)
       IN  /\ presence' = Applied(presence, c)
           /\ pipe' = Tail(pipe) \o
                        (IF last THEN <<>> ELSE Send(c.socket, Follows[c.op]))
           /\ announced' = CASE c.op = "arrived"  -> [announced EXCEPT ![Of(c)] = "online"]
                             [] c.op = "lastseen" -> [announced EXCEPT ![Of(c)] = "offline"]
                             [] OTHER             -> announced
    /\ UNCHANGED <<socket, history>>

\* What Redis did of the waiting commands before the connection broke.
Executed(k) == FoldLeft(Applied, presence, SubSeq(pipe, 1, k))

\* Handlers that end here, when Redis has done k of their commands.
CutOff(k) ==
    /\ presence' = Executed(k)
    /\ untimed' = untimed \cup
         {Of(pipe[i]) : i \in {j \in DOMAIN pipe : \/ pipe[j].op = "sadd"
                                                   \/ pipe[j].op = "expire" /\ j > k}}
    /\ faults < MaxFaults
    /\ faults' = faults + 1

\* The connection breaks and is made again: every command without a reply is
\* sent again, also those that had been executed.
Reconnect(k) ==
    /\ faults < MaxFaults
    /\ faults' = faults + 1
    /\ presence' = Executed(k)
    /\ UNCHANGED <<pipe, socket, announced, expired, ghosts, untimed>>

\* Sockets that handleConnection drops when a command of its fails.
\* Mutant: the failure is swallowed.
NothingDropped == {}
FailsClosed == {s \in Sockets : /\ socket[s] = "open"
                                /\ \E i \in DOMAIN pipe : pipe[i].socket = s}

\* maxRetriesPerRequest reached: all waiting commands fail.  handleConnection
\* drops its socket, which starts handleDisconnect; handleDisconnect has no
\* catch of its own.
GiveUp(k) ==
    /\ CutOff(k)
    /\ socket' = [s \in Sockets |-> IF s \in FailsClosed THEN "closed" ELSE socket[s]]
    /\ pipe' = FlattenSeq([i \in DOMAIN pipe |-> IF pipe[i].socket \in FailsClosed
                                                 THEN Send(pipe[i].socket, "srem") ELSE <<>>])
    /\ ghosts' = ghosts \cup {pipe[i].socket : i \in {j \in DOMAIN pipe : pipe[j].op \in Closing}}
    /\ UNCHANGED <<announced, expired>>

\* The process ends with its sockets and handlers, and is started again; nothing
\* looks at what it left in Redis.
Restart(k) ==
    /\ CutOff(k)
    /\ socket' = [s \in Sockets |-> IF socket[s] = "open" THEN "closed" ELSE socket[s]]
    /\ pipe' = <<>>
    /\ ghosts' = ghosts \cup {s \in Sockets : socket[s] = "open"} \cup {pipe[i].socket : i \in DOMAIN pipe}
    /\ UNCHANGED <<announced, expired>>

\* Nobody connected as u for an hour: the key goes, live sockets or not.
Expire(u) ==
    /\ presence[u].ttl
    /\ \A i \in DOMAIN pipe : ~(Of(pipe[i]) = u /\ pipe[i].op \in Opening)
    /\ presence' = [presence EXCEPT ![u] = NoKey]
    /\ expired' = expired \cup {u}
    /\ UNCHANGED <<pipe, socket, announced, ghosts, untimed, faults>>

-----------------------------------------------------------------------------
Next ==
    \/ \E s \in Sockets : Connect(s) \/ Reject(s) \/ Disconnect(s)
    \/ Reply
    \/ \E k \in 0..Len(pipe) : Reconnect(k) \/ GiveUp(k) \/ Restart(k)
    \/ \E u \in Users : Expire(u)

Spec == Init /\ [][Next]_vars

\* Redis answers, or the client gives up on it; an hour passes.
FairSpec == Spec /\ WF_vars(Reply) /\ \A u \in Users : WF_vars(Expire(u))

-----------------------------------------------------------------------------
(* Properties *)

\* No handler of this user waits for Redis.
Quiet(u) == \A i \in DOMAIN pipe : Of(pipe[i]) # u

Haunted == {UserOf[s] : s \in ghosts}

\* Presence is right once the handlers of a user are through, in whatever order
\* they ran into each other: a closed socket is not left in the set, unless its
\* disconnect handler was cut off, and unless the key ran into its TTL no live one
\* is missing.  (setPresence, removePresence.)
PresenceMatchesSockets ==
    \A u \in Users :
        Quiet(u) => /\ presence[u].members \subseteq Live(u) \cup ghosts
                    /\ u \notin expired => Live(u) \subseteq presence[u].members

\* The last broadcast is the true one: two devices that come and go at once, or
\* a reconnect within a disconnect, do not leave a connected user announced as
\* offline, also after a restart, or a departed one as online, unless a disconnect
\* handler was cut off.  (handleConnection, handleDisconnect.)
LastAnnouncementRight ==
    \A u \in Users :
        Quiet(u) => /\ Live(u) = {} /\ u \notin Haunted => announced[u] = "offline"
                    /\ Live(u) # {} /\ u \notin expired => announced[u] = "online"

\* A user whose last socket has gone is announced as offline in the end.
DepartureAnnounced ==
    \A u \in Users : Live(u) = {} ~> announced[u] = "offline" \/ Live(u) # {} \/ u \in Haunted

\* "Presence/typing lives in Redis with TTLs": a user without a socket is no longer
\* online in the end, whatever handlers were cut off, except between SADD and EXPIRE.
GhostsLapse ==
    \A u \in Users : Live(u) = {} ~> presence[u] = NoKey \/ Live(u) # {} \/ u \in untimed

=============================================================================
