----------------------------- MODULE Messaging -----------------------------
(***************************************************************************)
(* Conversations and messages: messaging.service.ts, the blocks and        *)
(* follows of users.service.ts, the notification rows of                   *)
(* notifications.service.ts, and the broadcast of messaging.gateway.ts.    *)
(*                                                                         *)
(* Workers are requests in progress, from REST or from a socket.  Each     *)
(* statement on the database is one step, a $transaction([...]) batch too. *)
(* What a message says and the media it carries are left out, and whether  *)
(* a participant has muted the conversation, which nothing reads.          *)
(***************************************************************************)
EXTENDS Integers, FiniteSets, Sequences

CONSTANTS
    Users, Conversations, Workers,
    Messages,       \* numbered as they are sent
    Take,           \* bound: messages of a page, 30 in the code
    Mixes,          \* bound: which operations and users meet in one behaviour, and
                    \* how many messages they send
    Quarrels,       \* bound: who may block whom
    Suspects,       \* bound: whose account may be suspended
    MaxFaults,      \* bound: requests that die, notifications that fail
    NoUser, NoConversation, NoMessage

ASSUME QuarrelsBetweenUsers == Quarrels \subseteq {p \in Users \X Users : p[1] # p[2]}
ASSUME SuspectsAreUsers == Suspects \subseteq Users
ASSUME NoUserIsNone == NoUser \notin Users
ASSUME MessagesNumbered == Messages \subseteq Nat /\ NoMessage \notin Messages
ASSUME TakeSome == Take \in Nat
ASSUME MixesMix == Mixes \subseteq [ops: SUBSET STRING, users: SUBSET Users, messages: SUBSET Messages]
ASSUME FaultBound == MaxFaults \in Nat

VARIABLES
    \* The database.
    conversation,   \* Participant rows of each conversation; none: no such row
    block, follow, active, message,
    old,            \* messages sent an hour ago or earlier
    read,           \* Participant.lastReadAt: the messages there were then
    notified,       \* NEW_MESSAGE rows, <<recipient, message>>
    \* The process.
    req,
    broadcast,      \* messages sent to the rooms of their conversation
    walk,           \* a client that follows the cursors of a history to its end
    mix,
    \* History, read by properties only.
    met,            \* what has been true at some moment of a request
    faults          \* the requests that failed, as they were then

db      == <<conversation, block, follow, active, message, old, read, notified>>
rest    == <<broadcast, walk, mix>>
vars    == <<db, req, rest, met, faults>>

INSTANCE Paging WITH NoRow <- NoMessage

Row     == [conversation: Conversations, sender: Users, seen: BOOLEAN, deleted: BOOLEAN]
Steps   == {"idle", "recipient", "find", "create", "check", "insert", "notify", "emit",
            "touch", "see", "follow", "delete", "page"}
Walk    == [reader: Users \cup {NoUser}, conversation: Conversations \cup {NoConversation},
            cursor: Messages \cup {NoMessage}, shown: Seq(Messages),
            there: SUBSET Messages,     \* history: there from its beginning until now
            torn: BOOLEAN,              \* history: a cursor's message has been deleted
            ended: BOOLEAN]
NoWalk  == [reader |-> NoUser, conversation |-> NoConversation, cursor |-> NoMessage,
            shown |-> <<>>, there |-> {}, torn |-> FALSE, ended |-> FALSE]
Request == [pc: Steps, user: Users \cup {NoUser}, other: Users \cup {NoUser},
            conversation: Conversations \cup {NoConversation},
            message: Messages \cup {NoMessage}]
Idle    == [pc |-> "idle", user |-> NoUser, other |-> NoUser,
            conversation |-> NoConversation, message |-> NoMessage]

ASSUME RowsDiffer == NoMessage \notin Row

Facts   == {"unblocked", "reachable", "strangers"}

TypeOK ==
    /\ conversation \in [Conversations -> {P \in SUBSET Users : Cardinality(P) \in {0, 2}}]
    /\ block \subseteq Quarrels /\ follow \subseteq Users \X Users /\ active \subseteq Users
    /\ message \in [Messages -> Row \cup {NoMessage}]
    /\ read \in [Conversations \X Users -> SUBSET Messages]
    /\ notified \subseteq Users \X Messages
    /\ req \in [Workers -> Request]
    /\ broadcast \subseteq Messages /\ old \subseteq Messages
    /\ walk \in Walk /\ mix \in Mixes
    /\ met \in [Workers -> SUBSET Facts] /\ faults \subseteq Request

Init ==
    /\ conversation = [c \in Conversations |-> {}]
    /\ block = {} /\ follow = {} /\ active = Users /\ old = {}
    /\ message = [m \in Messages |-> NoMessage]
    /\ read = [p \in Conversations \X Users |-> {}]
    /\ notified = {} /\ broadcast = {} /\ walk = NoWalk
    /\ mix \in Mixes
    /\ req = [w \in Workers |-> Idle]
    /\ met = [w \in Workers |-> {}] /\ faults = {}

-----------------------------------------------------------------------------
(* Helpers *)

Goto(w, label) == req' = [req EXCEPT ![w].pc = label]
Respond(w)     == req' = [req EXCEPT ![w] = Idle]

\* isBlockedEitherWay.
\* Mutant: only the blocks the caller has made.
BlockedByCaller(B, u, v) == <<u, v>> \in B
Blocked(B, u, v) == <<u, v>> \in B \/ <<v, u>> \in B

In(c) == {m \in Messages : message[m] # NoMessage /\ message[m].conversation = c}
Visible(c) == {m \in In(c) : ~message[m].deleted}
Between(u, v) == {c \in Conversations : {u, v} \subseteq conversation[c]}

\* A request begins.  REST calls have the guard of Sessions in front of them; a
\* socket is asked nothing after its handshake.
Begin(w, op, label, u, v, c, m) ==
    /\ op \in mix.ops /\ {u, v} \subseteq mix.users \cup {NoUser}
    /\ req[w] = Idle
    /\ req' = [req EXCEPT ![w] = [pc |-> label, user |-> u, other |-> v,
                                  conversation |-> c, message |-> m]]

-----------------------------------------------------------------------------
(* startConversation *)

StartConversation(w, u, v) ==
    /\ u \in active /\ u # v
    /\ ~Blocked(block, u, v)
    /\ Begin(w, "start", "recipient", u, v, NoConversation, NoMessage)
    /\ UNCHANGED <<db, rest>>

FindRecipient(w) ==
    /\ req[w].pc = "recipient"
    /\ IF req[w].other \in active THEN Goto(w, "find") ELSE Respond(w)
    /\ UNCHANGED <<db, rest>>

\* The conversation a caller is given when there is one.
\* Mutant: one that the caller alone takes part in (the AND of two SOMEs lost).
ExistingWithSelf(u, v) == {c \in Conversations : conversation[c] = {u}}
Existing(u, v)         == Between(u, v)

FindConversation(w) ==
    /\ req[w].pc = "find"
    /\ IF Existing(req[w].user, req[w].other) # {} THEN Respond(w) ELSE Goto(w, "create")
    /\ UNCHANGED <<db, rest>>

\* Mutant: a conversation that is there already is joined.
CreateAndJoin(w, c) ==
    /\ req[w].pc = "create"
    /\ conversation' = [conversation EXCEPT ![c] = @ \cup {req[w].user, req[w].other}]
    /\ Respond(w)
    /\ UNCHANGED <<block, follow, active, message, old, read, notified, rest>>

CreateConversation(w, c) ==
    /\ req[w].pc = "create"
    /\ conversation[c] = {}
    /\ conversation' = [conversation EXCEPT ![c] = {req[w].user, req[w].other}]
    /\ Respond(w)
    /\ UNCHANGED <<block, follow, active, message, old, read, notified, rest>>

-----------------------------------------------------------------------------
(* sendMessage *)

\* Bound: there is a number for every message under way.
Unsent == Cardinality({m \in mix.messages : message[m] = NoMessage})

\* assertParticipant, and the other participants, whose rows never change.
SendMessage(w, u, c) ==
    /\ u \in conversation[c]
    /\ Unsent > Cardinality({v \in Workers : req[v].pc \in {"check", "insert"}})
    /\ \E v \in conversation[c] \ {u} : Begin(w, "send", "check", u, v, c, NoMessage)
    /\ UNCHANGED <<db, rest>>

CheckBlock(w) ==
    /\ req[w].pc = "check"
    /\ IF Blocked(block, req[w].user, req[w].other) THEN Respond(w) ELSE Goto(w, "insert")
    /\ UNCHANGED <<db, rest>>

\* What the message carries is not all the sender's.
RefuseMedia(w) ==
    /\ req[w].pc = "insert"
    /\ Respond(w)
    /\ UNCHANGED <<db, rest>>

InsertMessage(w, m) ==
    /\ req[w].pc = "insert"
    /\ m \in mix.messages /\ message[m] = NoMessage
    /\ \A k \in Messages : k < m => message[k] # NoMessage
    /\ message' = [message EXCEPT ![m] =
                     [conversation |-> req[w].conversation, sender |-> req[w].user,
                      seen |-> FALSE, deleted |-> FALSE]]
    /\ req' = [req EXCEPT ![w].pc = "notify", ![w].message = m]
    /\ UNCHANGED <<conversation, block, follow, active, old, read, notified, rest>>

\* Promise.allSettled: a row that cannot be written is passed over.
\* Mutant: the sender is told.
NotifySender(w) ==
    /\ req[w].pc = "notify"
    /\ notified' = notified \cup {<<req[w].user, req[w].message>>}
    /\ Goto(w, "emit")
    /\ UNCHANGED <<conversation, block, follow, active, message, old, read, rest>>

Notify(w) ==
    /\ req[w].pc = "notify"
    /\ notified' = notified \cup {<<req[w].other, req[w].message>>}
    /\ Goto(w, "emit")
    /\ UNCHANGED <<conversation, block, follow, active, message, old, read, rest>>

\* emitNewMessage, from the controller and from the socket handler alike.
EmitNewMessage(w) ==
    /\ req[w].pc = "emit"
    /\ broadcast' = broadcast \cup {req[w].message}
    /\ Respond(w)
    /\ UNCHANGED <<db, walk, mix>>

-----------------------------------------------------------------------------
(* markRead *)

MarkRead(w, u, c) ==
    /\ u \in conversation[c]
    /\ Begin(w, "read", "touch", u, NoUser, c, NoMessage)
    /\ UNCHANGED <<db, rest>>

TouchLastRead(w) ==
    /\ req[w].pc = "touch"
    /\ read' = [read EXCEPT ![<<req[w].conversation, req[w].user>>] = In(req[w].conversation)]
    /\ Goto(w, "see")
    /\ UNCHANGED <<conversation, block, follow, active, message, old, notified, rest>>

\* The rows updateMany marks: those of the others.
\* Mutant: the caller's own.
OwnUnseen(c, u) == {m \in In(c) : message[m].sender = u}
Unseen(c, u)    == {m \in In(c) : message[m].sender # u /\ ~message[m].seen}

MarkSeen(w) ==
    LET seen == Unseen(req[w].conversation, req[w].user)
    IN  /\ req[w].pc = "see"
        /\ message' = [m \in Messages |-> IF m \in seen THEN [message[m] EXCEPT !.seen = TRUE]
                                          ELSE message[m]]
        /\ Respond(w)
        /\ UNCHANGED <<conversation, block, follow, active, old, read, notified, rest>>

-----------------------------------------------------------------------------
(* deleteForEveryone, history *)

Walking == walk # NoWalk /\ ~walk.ended

DeleteForEveryone(w, u, m) ==
    /\ message[m] # NoMessage /\ message[m].sender = u
    /\ m \notin old
    /\ Begin(w, "delete", "delete", u, NoUser, NoConversation, m)
    /\ UNCHANGED <<db, rest>>

EraseMessage(w) ==
    /\ req[w].pc = "delete"
    /\ message' = [message EXCEPT ![req[w].message].deleted = TRUE]
    /\ walk' = IF ~Walking THEN walk
               ELSE [walk EXCEPT !.there = @ \ {req[w].message},
                                 !.torn  = @ \/ walk.cursor = req[w].message]
    /\ Respond(w)
    /\ UNCHANGED <<conversation, block, follow, active, old, read, notified, broadcast, mix>>

\* An hour passes.
GrowOld(m) ==
    /\ "age" \in mix.ops
    /\ message[m] # NoMessage /\ \A k \in Messages : k < m => k \in old
    /\ old' = old \cup {m}
    /\ UNCHANGED <<conversation, block, follow, active, message, read, notified, req, rest>>

\* The first page, with no cursor.
OpenHistory(w, u, c) ==
    /\ u \in conversation[c]
    /\ walk = NoWalk
    /\ Begin(w, "history", "page", u, NoUser, c, NoMessage)
    /\ walk' = [NoWalk EXCEPT !.reader = u, !.conversation = c, !.there = Visible(c)]
    /\ UNCHANGED <<db, broadcast, mix>>

\* The next page, or the same once more when its request has failed.
NextPage(w) ==
    /\ Walking
    /\ \A v \in Workers : req[v].pc # "page"
    /\ Begin(w, "history", "page", walk.reader, NoUser, walk.conversation, walk.cursor)
    /\ UNCHANGED <<db, rest>>

ReadPage(w) ==
    /\ req[w].pc = "page"
    /\ \E found \in CursorQuery(Visible(req[w].conversation), req[w].message, Take) :
          walk' = [walk EXCEPT !.shown  = @ \o Items(found, Take),
                               !.cursor = NextCursor(found, Take),
                               !.ended  = NextCursor(found, Take) = NoMessage]
    /\ Respond(w)
    /\ UNCHANGED <<db, broadcast, mix>>

-----------------------------------------------------------------------------
(* Users, failures *)

Follow(w, u, v) ==
    /\ u # v
    /\ ~Blocked(block, u, v)
    /\ Begin(w, "follow", "follow", u, v, NoConversation, NoMessage)
    /\ UNCHANGED <<db, rest>>

WriteFollow(w) ==
    /\ req[w].pc = "follow"
    /\ follow' = follow \cup {<<req[w].user, req[w].other>>}
    /\ Respond(w)
    /\ UNCHANGED <<conversation, block, active, message, old, read, notified, rest>>

Unfollow(u, v) ==
    /\ "follow" \in mix.ops
    /\ follow' = follow \ {<<u, v>>}
    /\ UNCHANGED <<conversation, block, active, message, old, read, notified, req, rest>>

\* blockUser and unblockUser, a statement each.
BlockUser(p) ==
    /\ "block" \in mix.ops
    /\ block' = block \cup {p}
    /\ UNCHANGED <<conversation, follow, active, message, old, read, notified, req, rest>>

UnblockUser(p) ==
    /\ "block" \in mix.ops
    /\ block' = block \ {p}
    /\ UNCHANGED <<conversation, follow, active, message, old, read, notified, req, rest>>

\* An administrator suspends an account or lifts it.
SetUserStatus(u) ==
    /\ "suspend" \in mix.ops
    /\ active' = IF u \in active THEN active \ {u} ELSE active \cup {u}
    /\ UNCHANGED <<conversation, block, follow, message, old, read, notified, req, rest>>

\* The process or the database fails, or only the write of a notification.
Fail(w) ==
    /\ req[w] # Idle
    /\ Cardinality(faults) < MaxFaults
    /\ faults' = faults \cup {req[w]}
    /\ \/ Respond(w)
       \/ /\ req[w].pc = "notify"
          /\ Goto(w, "emit")
    /\ UNCHANGED <<db, rest>>

-----------------------------------------------------------------------------
Begins(w) ==
    \/ \E u \in Users : \/ \E v \in Users : StartConversation(w, u, v) \/ Follow(w, u, v)
                        \/ \E c \in Conversations : \/ SendMessage(w, u, c) \/ MarkRead(w, u, c)
                                                   \/ OpenHistory(w, u, c)
                        \/ \E m \in Messages : DeleteForEveryone(w, u, m)
    \/ NextPage(w)

Continues(w) ==
    \/ FindRecipient(w) \/ FindConversation(w)
    \/ \E c \in Conversations : CreateConversation(w, c)
    \/ CheckBlock(w) \/ RefuseMedia(w) \/ Notify(w) \/ EmitNewMessage(w)
    \/ \E m \in Messages : InsertMessage(w, m)
    \/ TouchLastRead(w) \/ MarkSeen(w) \/ EraseMessage(w) \/ ReadPage(w) \/ WriteFollow(w)

Others ==
    \/ \E p \in Quarrels : BlockUser(p) \/ UnblockUser(p)
    \/ \E u \in Suspects : SetUserStatus(u)
    \/ \E u, v \in Users : Unfollow(u, v)
    \/ \E m \in Messages : GrowOld(m)

\* What is true for a request's pair as things are after this step.
Observed(q) ==
    {f \in Facts : /\ f = "unblocked" => {<<q.user, q.other>>, <<q.other, q.user>>} \cap block' = {}
                   /\ f = "reachable" => q.other \in active'
                   /\ f = "strangers" => \A c \in Conversations :
                                             ~({q.user, q.other} \subseteq conversation'[c])}

Witness ==
    met' = [w \in Workers |->
              IF req'[w].pc \in {"recipient", "find", "create", "check", "insert", "follow"}
              THEN met[w] \cup Observed(req'[w]) ELSE {}]

Next ==
    /\ \/ (Others \/ \E w \in Workers : Begins(w) \/ Continues(w)) /\ UNCHANGED faults
       \/ \E w \in Workers : Fail(w)
    /\ Witness

Spec == Init /\ [][Next]_vars

-----------------------------------------------------------------------------
(* Properties *)

\* Whoever stays blocked from before a request to its end gets nothing through:
\* no conversation, message or follow is written for a pair with a block, in either
\* direction, all the time the request took.  The check runs ahead of the
\* write, so a block set in between does not count.
BlocksRespected ==
    [][\A w \in Workers :
          /\ req[w].pc \in {"create", "insert", "follow"} /\ req'[w] # req[w]
          /\ conversation' # conversation \/ message' # message \/ follow' # follow
          => "unblocked" \in met[w]]_vars

\* A second conversation of a pair is made only by a request that began before
\* the first was there ("Reuse existing 1:1 conversation if present"), and a
\* conversation only with someone whose account was active meanwhile.
ReusedUnlessRaced ==
    [][\A w \in Workers :
          req[w].pc = "create" /\ req'[w] # req[w] /\ conversation' # conversation
          => {"strangers", "reachable"} \subseteq met[w]]_vars

\* Read receipts are complete: what was there when a participant's lastReadAt
\* was set is marked SEEN, unless a request of that participant for this very
\* conversation is still between the two updates, or died there: they are no
\* transaction.  No other failure leaves a receipt open.
ReadMeansSeen ==
    \A c \in Conversations, u \in Users :
        \/ \A m \in read[<<c, u>>] : message[m].sender # u => message[m].seen
        \/ \E w \in Workers : req[w].pc = "see" /\ req[w].user = u /\ req[w].conversation = c
        \/ \E q \in faults : q.pc = "see" /\ q.user = u /\ q.conversation = c

\* A request that has m in hand, to tell of it.
Tells(q, m) == q.message = m /\ q.pc \in {"notify", "emit"}

\* Requests at these steps that have a message in hand, and who is told of it.
Handlers(m, steps) == {w \in Workers : req[w].message = m /\ req[w].pc \in steps}
Told(m) == {u \in Users : \/ <<u, m>> \in notified
                          \/ \E w \in Handlers(m, {"notify"}) : req[w].other = u}

Delivered(m) ==
    /\ m \in broadcast \/ Handlers(m, {"notify", "emit"}) # {}
    /\ Told(m) = conversation[message[m].conversation] \ {message[m].sender}

\* A stored message is on the other participant's list and in the rooms, or a
\* request that still goes on will put it there, and nobody else is told of it
\* ("Called by the socket handler AND the REST controller so both delivery paths
\* behave identically"); unless what failed is that request, once the message
\* was stored, or its write of the notification.
StoredIsDelivered ==
    \A m \in Messages :
        message[m] # NoMessage => \/ Delivered(m)
                                  \/ \E q \in faults : Tells(q, m)

\* "Stable" pages: a client that follows the cursors of a history to its end, beside
\* new messages, deletions and repeated requests, is shown each message once, newest
\* first, and every one that was there all the while, unless a message that a cursor
\* names was deleted before the next page.  (history, over pagination.util.ts.)
HistoryComplete ==
    /\ \A i, j \in DOMAIN walk.shown : i < j => walk.shown[i] > walk.shown[j]
    /\ walk.ended /\ ~walk.torn => walk.there \subseteq {walk.shown[i] : i \in DOMAIN walk.shown}

=============================================================================
