---------------------------- MODULE MessagingInv ----------------------------
(***************************************************************************)
(* Why the properties of Messaging hold, as one inductive invariant: what  *)
(* a request has learnt by the time it waits at a step, and what the rows  *)
(* say of each other.                                                      *)
(***************************************************************************)
EXTENDS Messaging

\* What the properties need of the types; nothing of the history that is paged through.
Shaped(q) == q = [pc |-> q.pc, user |-> q.user, other |-> q.other,
                  conversation |-> q.conversation, message |-> q.message]

CoreOK ==
    /\ conversation \in [Conversations -> SUBSET Users]
    /\ message \in [Messages -> Row \cup {NoMessage}]
    /\ read \in [Conversations \X Users -> SUBSET Messages]
    /\ DOMAIN req = Workers /\ \A w \in Workers : Shaped(req[w])
    /\ DOMAIN met = Workers

\* The checks a request has passed have left their facts behind.
MetOK(w) ==
    LET pc == req[w].pc
    IN  /\ pc \in {"recipient", "find", "create", "insert", "follow"} => "unblocked" \in met[w]
        /\ pc \in {"find", "create"} => "reachable" \in met[w]
        /\ pc = "create" => "strangers" \in met[w]

\* Who a request is between.
PairOK(w) ==
    LET q == req[w]
    IN  /\ q.pc \in {"recipient", "find", "create"} =>
              q.user \in Users /\ q.other \in Users /\ q.user # q.other
        /\ q.pc \in {"check", "insert", "notify", "emit"} =>
              /\ q.conversation \in Conversations
              /\ q.user \in Users /\ q.other \in Users /\ q.user # q.other
              /\ conversation[q.conversation] = {q.user, q.other}
        /\ q.pc \in {"notify", "emit"} =>
              /\ q.message \in Messages /\ message[q.message] # NoMessage
              /\ message[q.message].conversation = q.conversation
              /\ message[q.message].sender = q.user
        /\ q.pc \in {"touch", "see"} => q.conversation \in Conversations /\ q.user \in Users
        /\ q.pc = "delete" => q.message \in Messages /\ message[q.message] # NoMessage

\* Conversations have two participants for good; rows name rows that are there.
RowsOK ==
    /\ \A c \in Conversations :
          \/ conversation[c] = {}
          \/ \E u, v \in Users : u # v /\ conversation[c] = {u, v}
    /\ \A m \in Messages : message[m] # NoMessage => conversation[message[m].conversation] # {}
    /\ \A c \in Conversations, u \in Users : read[<<c, u>>] \subseteq In(c)
    /\ \A u \in Users, m \in Messages : <<u, m>> \in notified => message[m] # NoMessage

RequestsOK == \A w \in Workers : MetOK(w) /\ PairOK(w)

MInv == CoreOK /\ RequestsOK /\ RowsOK /\ notified \subseteq Users \X Messages
             /\ ReadMeansSeen /\ StoredIsDelivered

-----------------------------------------------------------------------------
(* A history that is paged through *)

\* The types that MInv leaves out.
RestOK ==
    /\ block \subseteq Quarrels /\ follow \subseteq Users \X Users /\ active \subseteq Users
    /\ req \in [Workers -> Request]
    /\ \A w \in Workers : req[w].pc = "follow" => req[w].user \in Users /\ req[w].other \in Users
    /\ broadcast \subseteq Messages /\ old \subseteq Messages
    /\ walk \in Walk /\ mix \in Mixes
    /\ met \in [Workers -> SUBSET Facts] /\ faults \subseteq Request

Sent  == {m \in Messages : message[m] # NoMessage}
Shown == {walk.shown[i] : i \in DOMAIN walk.shown}

\* One page of the walk is asked for at a time, and with its cursor.
OnePage ==
    \A w \in Workers :
        req[w].pc = "page" =>
            /\ Walking /\ req[w].conversation = walk.conversation
            /\ req[w].message = walk.cursor
            /\ \A v \in Workers : req[v].pc = "page" => v = w

\* What has been shown ends at the cursor, and nothing was left out before it.
ShownSoFar ==
    /\ \A i, j \in DOMAIN walk.shown : i < j => walk.shown[i] > walk.shown[j]
    /\ walk.cursor = NoMessage /\ ~walk.ended => walk.shown = <<>>
    /\ walk.cursor # NoMessage => \A m \in Shown : m >= walk.cursor
    /\ ~walk.torn => \A m \in walk.there :
          m \in Shown \/ (~walk.ended /\ (walk.cursor # NoMessage => m < walk.cursor))

\* What has been there all the while is there, and so is the row that the cursor names.
ThereStill ==
    Walking => /\ walk.there \subseteq Visible(walk.conversation)
               /\ ~walk.torn /\ walk.cursor # NoMessage => walk.cursor \in Visible(walk.conversation)

HInv ==
    /\ RestOK /\ IsFiniteSet(Sent)
    /\ walk # NoWalk => walk.reader \in Users
    /\ OnePage /\ ShownSoFar /\ ThereStill

=============================================================================
