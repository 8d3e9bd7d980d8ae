-------------------------- MODULE MessagingProofs --------------------------
(***************************************************************************)
(* Proofs about Messaging, for any number of users, conversations,         *)
(* messages and requests in progress.                                      *)
(***************************************************************************)
EXTENDS MessagingInv, FiniteSetTheorems, SequenceTheorems, TLAPS

-----------------------------------------------------------------------------
(* How a request moves *)

OnlyMoves(w) == \A v \in Workers : v # w => req'[v] = req[v]

\* Well-formed requests, before or after a step.
Formed == DOMAIN req = Workers /\ \A w \in Workers : Shaped(req[w])

LEMMA GotoMoves ==
  ASSUME Formed, NEW w \in Workers, NEW label, Goto(w, label)
  PROVE  /\ Formed' /\ OnlyMoves(w)
         /\ req'[w].pc = label /\ req'[w].user = req[w].user /\ req'[w].other = req[w].other
         /\ req'[w].conversation = req[w].conversation /\ req'[w].message = req[w].message
  <1>1. req[w] = [pc |-> req[w].pc, user |-> req[w].user, other |-> req[w].other,
                  conversation |-> req[w].conversation, message |-> req[w].message]
    BY DEF Formed, Shaped
  <1>2. req'[w] = [pc |-> label, user |-> req[w].user, other |-> req[w].other,
                   conversation |-> req[w].conversation, message |-> req[w].message]
    BY <1>1 DEF Formed, Goto
  <1>3. OnlyMoves(w) /\ DOMAIN req' = Workers
    BY DEF Formed, Goto, OnlyMoves
  <1>4. \A v \in Workers : Shaped(req'[v])
    BY <1>2, <1>3 DEF Formed, Shaped, OnlyMoves
  <1> QED BY <1>2, <1>3, <1>4 DEF Formed, Shaped

LEMMA RespondMoves ==
  ASSUME Formed, NEW w \in Workers, Respond(w)
  PROVE  Formed' /\ OnlyMoves(w) /\ req'[w].pc = "idle"
  <1>1. OnlyMoves(w) /\ DOMAIN req' = Workers /\ req'[w] = Idle
    BY DEF Formed, Respond, OnlyMoves
  <1>2. \A v \in Workers : Shaped(req'[v])
    BY <1>1 DEF Formed, Shaped, OnlyMoves, Idle
  <1> QED BY <1>1, <1>2 DEF Formed, Idle, Shaped

LEMMA BeginMoves ==
  ASSUME Formed, NEW w \in Workers, NEW op, NEW label, NEW u, NEW v, NEW c, NEW m,
         Begin(w, op, label, u, v, c, m)
  PROVE  /\ Formed' /\ OnlyMoves(w) /\ req[w].pc = "idle"
         /\ req'[w].pc = label /\ req'[w].user = u /\ req'[w].other = v
         /\ req'[w].conversation = c /\ req'[w].message = m
  <1>1. OnlyMoves(w) /\ DOMAIN req' = Workers /\ req[w] = Idle
    BY DEF Formed, Begin, OnlyMoves
  <1>2. req'[w] = [pc |-> label, user |-> u, other |-> v, conversation |-> c, message |-> m]
    BY DEF Formed, Begin
  <1>3. \A x \in Workers : Shaped(req'[x])
    BY <1>1, <1>2 DEF Formed, Shaped, OnlyMoves
  <1> QED BY <1>1, <1>2, <1>3 DEF Formed, Shaped, Idle

-----------------------------------------------------------------------------
(* What a request keeps *)

Remembered == {"recipient", "find", "create", "check", "insert", "follow"}

LEMMA FactsGrow ==
  ASSUME Witness, NEW w \in Workers, req'[w].pc \in Remembered
  PROVE  met[w] \subseteq met'[w] /\ Observed(req'[w]) \subseteq met'[w]
  BY DEF Witness, Remembered

LEMMA FactsShaped ==
  ASSUME Witness
  PROVE  DOMAIN met' = Workers
  BY DEF Witness

\* Rows that are there stay, with what does not change of them.
RowsStay ==
    /\ \A c \in Conversations : conversation[c] # {} => conversation'[c] = conversation[c]
    /\ \A m \in Messages : message[m] # NoMessage =>
          /\ message'[m] # NoMessage
          /\ message'[m].conversation = message[m].conversation
          /\ message'[m].sender = message[m].sender

\* A request that did not move.
LEMMA Stays ==
  ASSUME Witness, RowsStay, NEW w \in Workers, MetOK(w), PairOK(w), req'[w] = req[w]
  PROVE  MetOK(w)' /\ PairOK(w)'
  <1>1. MetOK(w)'
    BY FactsGrow DEF MetOK, Remembered
  <1>2. PairOK(w)'
    BY DEF PairOK, RowsStay
  <1> QED BY <1>1, <1>2

LEMMA OneMoves ==
  ASSUME Witness, RowsStay, RequestsOK, NEW w \in Workers, OnlyMoves(w), MetOK(w)', PairOK(w)'
  PROVE  RequestsOK'
  BY Stays DEF RequestsOK, OnlyMoves

-----------------------------------------------------------------------------
(* The two promises *)

\* Receipts stay complete while those who are to mark messages seen wait.
LEMMA ReadStays ==
  ASSUME ReadMeansSeen, UNCHANGED <<read, faults>>,
         \A w \in Workers : req[w].pc = "see" => req'[w] = req[w],
         \A c \in Conversations, u \in Users : \A m \in read[<<c, u>>] :
             /\ message'[m].sender = message[m].sender
             /\ message[m].seen => message'[m].seen
  PROVE  ReadMeansSeen'
  <1> SUFFICES ASSUME NEW c \in Conversations, NEW u \in Users,
                      ~ \E q \in faults : q.pc = "see" /\ q.user = u /\ q.conversation = c,
                      ~ \A m \in read[<<c, u>>] : message[m].sender # u => message[m].seen
               PROVE  \E w \in Workers : req'[w].pc = "see" /\ req'[w].user = u
                                         /\ req'[w].conversation = c
    BY DEF ReadMeansSeen
  <1>1. PICK w \in Workers : req[w].pc = "see" /\ req[w].user = u /\ req[w].conversation = c
    BY DEF ReadMeansSeen
  <1> QED BY <1>1

\* Who is told of a message, while the requests about to write a row for it wait.
LEMMA ToldStays ==
  ASSUME NEW m, UNCHANGED notified,
         \A w \in Workers : \/ req[w].message = m /\ req[w].pc = "notify"
                            \/ req'[w].message = m /\ req'[w].pc = "notify"
                            => req'[w] = req[w]
  PROVE  Told(m)' = Told(m)
  <1>1. Handlers(m, {"notify"})' = Handlers(m, {"notify"})
    BY DEF Handlers
  <1>2. \A w \in Handlers(m, {"notify"}) : req'[w] = req[w]
    BY DEF Handlers
  <1>3. \A u \in Users : (\E w \in Handlers(m, {"notify"})' : req'[w].other = u)
                           <=> \E w \in Handlers(m, {"notify"}) : req[w].other = u
    BY <1>1, <1>2
  <1> QED BY <1>3 DEF Told

\* A message stays delivered while the requests that have it in hand wait.
LEMMA DeliveredStays ==
  ASSUME NEW m, Delivered(m), UNCHANGED notified, broadcast \subseteq broadcast',
         \A w \in Workers : Tells(req[w], m) \/ Tells(req'[w], m) => req'[w] = req[w],
         message'[m].sender = message[m].sender,
         conversation'[message'[m].conversation] = conversation[message[m].conversation]
  PROVE  Delivered(m)'
  <1>1. Handlers(m, {"notify", "emit"})' = Handlers(m, {"notify", "emit"})
    BY DEF Handlers, Tells
  <1>2. Told(m)' = Told(m)
    BY ToldStays DEF Tells
  <1> QED BY <1>1, <1>2 DEF Delivered

-----------------------------------------------------------------------------
(* Steps that leave the rows of conversations, messages and reading alone *)

RowsSame == UNCHANGED <<conversation, message, read, notified>>

LEMMA SameStay ==
  ASSUME RowsSame
  PROVE  RowsStay
  BY DEF RowsSame, RowsStay

\* Requests keep out of the statements that the two invariants speak of.
Aside == \A w \in Workers :
             \/ req'[w] = req[w]
             \/ /\ req[w].pc \notin {"notify", "emit", "see"}
                /\ req'[w].pc \notin {"notify", "emit"}

LEMMA SamePromises ==
  ASSUME RowsSame, UNCHANGED <<broadcast, faults>>, Aside, ReadMeansSeen, StoredIsDelivered
  PROVE  ReadMeansSeen' /\ StoredIsDelivered'
  <1>1. ReadMeansSeen'
    BY ReadStays DEF RowsSame, Aside
  <1>2. ASSUME NEW m \in Messages, Delivered(m)
        PROVE  Delivered(m)'
    BY <1>2, DeliveredStays DEF RowsSame, Aside, Tells
  <1> QED BY <1>1, <1>2 DEF StoredIsDelivered, RowsSame

LEMMA SameRowsOK ==
  ASSUME RowsSame, RowsOK
  PROVE  RowsOK'
  BY DEF RowsSame, RowsOK, In

\* A request w moves, aside of the promises.
LEMMA MovesAside ==
  ASSUME MInv, Witness, RowsSame, UNCHANGED <<broadcast, faults>>,
         NEW w \in Workers, OnlyMoves(w), Formed',
         req[w].pc \notin {"notify", "emit", "see"}, req'[w].pc \notin {"notify", "emit"},
         MetOK(w)', PairOK(w)'
  PROVE  MInv'
  <1>1. CoreOK'
    BY FactsShaped DEF MInv, CoreOK, RowsSame, Formed
  <1>2. RequestsOK'
    BY OneMoves, SameStay DEF MInv
  <1>3. RowsOK' /\ (notified \subseteq Users \X Messages)'
    BY SameRowsOK DEF MInv, RowsSame
  <1>4. ReadMeansSeen' /\ StoredIsDelivered'
    BY SamePromises DEF MInv, Aside, OnlyMoves
  <1> QED BY <1>1, <1>2, <1>3, <1>4 DEF MInv

-----------------------------------------------------------------------------
(* Requests that begin *)

\* Between startConversation's check of the blocks and its lookup.
LEMMA StartConversationKeeps ==
  ASSUME MInv, Witness, UNCHANGED faults, NEW w \in Workers, NEW u \in Users, NEW v \in Users,
         StartConversation(w, u, v)
  PROVE  MInv'
  <1>1. RowsSame /\ UNCHANGED <<broadcast, block>>
    BY DEF StartConversation, RowsSame, db, rest
  <1>2. Formed
    BY DEF MInv, CoreOK, Formed
  <1>3. /\ Formed' /\ OnlyMoves(w) /\ req[w].pc = "idle"
        /\ req'[w].pc = "recipient" /\ req'[w].user = u /\ req'[w].other = v
    BY <1>2, BeginMoves DEF StartConversation
  <1>4. "unblocked" \in Observed(req'[w])
    BY <1>1, <1>3 DEF Observed, Facts, StartConversation, Blocked
  <1>5. MetOK(w)' /\ PairOK(w)'
    BY <1>3, <1>4, FactsGrow DEF MetOK, PairOK, Remembered, StartConversation
  <1> QED BY <1>1, <1>3, <1>5, MovesAside

LEMMA FollowKeeps ==
  ASSUME MInv, Witness, UNCHANGED faults, NEW w \in Workers, NEW u \in Users, NEW v \in Users,
         Follow(w, u, v)
  PROVE  MInv'
  <1>1. RowsSame /\ UNCHANGED <<broadcast, block>>
    BY DEF Follow, RowsSame, db, rest
  <1>2. Formed
    BY DEF MInv, CoreOK, Formed
  <1>3. /\ Formed' /\ OnlyMoves(w) /\ req[w].pc = "idle"
        /\ req'[w].pc = "follow" /\ req'[w].user = u /\ req'[w].other = v
    BY <1>2, BeginMoves DEF Follow
  <1>4. "unblocked" \in Observed(req'[w])
    BY <1>1, <1>3 DEF Observed, Facts, Follow, Blocked
  <1>5. MetOK(w)' /\ PairOK(w)'
    BY <1>3, <1>4, FactsGrow DEF MetOK, PairOK, Remembered
  <1> QED BY <1>1, <1>3, <1>5, MovesAside

\* A conversation with the sender in it has one other participant.
LEMMA SendMessageKeeps ==
  ASSUME MInv, Witness, UNCHANGED faults, NEW w \in Workers, NEW u \in Users,
         NEW c \in Conversations, SendMessage(w, u, c)
  PROVE  MInv'
  <1>1. RowsSame /\ UNCHANGED broadcast
    BY DEF SendMessage, RowsSame, db, rest
  <1>2. Formed
    BY DEF MInv, CoreOK, Formed
  <1>3. PICK v \in conversation[c] \ {u} :
            Begin(w, "send", "check", u, v, c, NoMessage)
    BY DEF SendMessage
  <1>4. /\ Formed' /\ OnlyMoves(w) /\ req[w].pc = "idle"
        /\ req'[w].pc = "check" /\ req'[w].user = u /\ req'[w].other = v
        /\ req'[w].conversation = c
    BY <1>2, <1>3, BeginMoves
  <1>5. v \in Users /\ u # v /\ conversation[c] = {u, v}
    BY DEF MInv, CoreOK, RowsOK, SendMessage
  <1>6. MetOK(w)' /\ PairOK(w)'
    BY <1>1, <1>4, <1>5 DEF MetOK, PairOK, RowsSame
  <1> QED BY <1>1, <1>4, <1>6, MovesAside

LEMMA MarkReadKeeps ==
  ASSUME MInv, Witness, UNCHANGED faults, NEW w \in Workers, NEW u \in Users,
         NEW c \in Conversations, MarkRead(w, u, c)
  PROVE  MInv'
  <1>1. RowsSame /\ UNCHANGED broadcast
    BY DEF MarkRead, RowsSame, db, rest
  <1>2. Formed
    BY DEF MInv, CoreOK, Formed
  <1>3. /\ Formed' /\ OnlyMoves(w) /\ req[w].pc = "idle"
        /\ req'[w].pc = "touch" /\ req'[w].user = u /\ req'[w].conversation = c
    BY <1>2, BeginMoves DEF MarkRead
  <1>4. MetOK(w)' /\ PairOK(w)'
    BY <1>3 DEF MetOK, PairOK
  <1> QED BY <1>1, <1>3, <1>4, MovesAside

LEMMA DeleteForEveryoneKeeps ==
  ASSUME MInv, Witness, UNCHANGED faults, NEW w \in Workers, NEW u \in Users,
         NEW m \in Messages, DeleteForEveryone(w, u, m)
  PROVE  MInv'
  <1>1. RowsSame /\ UNCHANGED broadcast
    BY DEF DeleteForEveryone, RowsSame, db, rest
  <1>2. Formed
    BY DEF MInv, CoreOK, Formed
  <1>3. /\ Formed' /\ OnlyMoves(w) /\ req[w].pc = "idle"
        /\ req'[w].pc = "delete" /\ req'[w].message = m
    BY <1>2, BeginMoves DEF DeleteForEveryone
  <1>4. MetOK(w)' /\ PairOK(w)'
    BY <1>1, <1>3 DEF MetOK, PairOK, DeleteForEveryone, RowsSame
  <1> QED BY <1>1, <1>3, <1>4, MovesAside

\* Pages are read only.
LEMMA PageBegins ==
  ASSUME MInv, Witness, UNCHANGED faults, NEW w \in Workers,
         (\E u \in Users, c \in Conversations : OpenHistory(w, u, c)) \/ NextPage(w)
  PROVE  MInv'
  <1>1. RowsSame /\ UNCHANGED broadcast
    BY DEF OpenHistory, NextPage, RowsSame, db, rest
  <1>2. Formed
    BY DEF MInv, CoreOK, Formed
  <1>3. Formed' /\ OnlyMoves(w) /\ req[w].pc = "idle" /\ req'[w].pc = "page"
    BY <1>2, BeginMoves DEF OpenHistory, NextPage
  <1>4. MetOK(w)' /\ PairOK(w)'
    BY <1>3 DEF MetOK, PairOK
  <1> QED BY <1>1, <1>3, <1>4, MovesAside

LEMMA BeginsKeeps ==
  ASSUME MInv, Witness, UNCHANGED faults, NEW w \in Workers, Begins(w)
  PROVE  MInv'
  BY StartConversationKeeps, FollowKeeps, SendMessageKeeps, MarkReadKeeps,
     DeleteForEveryoneKeeps, PageBegins DEF Begins

-----------------------------------------------------------------------------
(* Requests that go on, aside of the promises *)

LEMMA FindRecipientKeeps ==
  ASSUME MInv, Witness, UNCHANGED faults, NEW w \in Workers, FindRecipient(w)
  PROVE  MInv'
  <1>1. RowsSame /\ UNCHANGED <<broadcast, block, active>>
    BY DEF FindRecipient, RowsSame, db, rest
  <1>2. Formed /\ MetOK(w) /\ PairOK(w)
    BY DEF MInv, CoreOK, RequestsOK, Formed
  <1>3. CASE req[w].other \in active /\ Goto(w, "find")
    <2>1. /\ Formed' /\ OnlyMoves(w) /\ req[w].pc = "recipient" /\ req'[w].pc = "find"
          /\ req'[w].user = req[w].user /\ req'[w].other = req[w].other
      BY <1>2, <1>3, GotoMoves DEF FindRecipient
    <2>2. "reachable" \in Observed(req'[w])
      BY <1>1, <1>3, <2>1 DEF Observed, Facts
    <2>3. MetOK(w)' /\ PairOK(w)'
      BY <1>2, <2>1, <2>2, FactsGrow DEF MetOK, PairOK, Remembered
    <2> QED BY <1>1, <2>1, <2>3, MovesAside
  <1>4. CASE Respond(w)
    <2>1. Formed' /\ OnlyMoves(w) /\ req[w].pc = "recipient" /\ req'[w].pc = "idle"
      BY <1>2, <1>4, RespondMoves DEF FindRecipient
    <2>2. MetOK(w)' /\ PairOK(w)'
      BY <2>1 DEF MetOK, PairOK
    <2> QED BY <1>1, <2>1, <2>2, MovesAside
  <1> QED BY <1>3, <1>4 DEF FindRecipient

LEMMA FindConversationKeeps ==
  ASSUME MInv, Witness, UNCHANGED faults, NEW w \in Workers, FindConversation(w)
  PROVE  MInv'
  <1>1. RowsSame /\ UNCHANGED <<broadcast, conversation>>
    BY DEF FindConversation, RowsSame, db, rest
  <1>2. Formed /\ MetOK(w) /\ PairOK(w)
    BY DEF MInv, CoreOK, RequestsOK, Formed
  <1>3. CASE Existing(req[w].user, req[w].other) = {} /\ Goto(w, "create")
    <2>1. /\ Formed' /\ OnlyMoves(w) /\ req[w].pc = "find" /\ req'[w].pc = "create"
          /\ req'[w].user = req[w].user /\ req'[w].other = req[w].other
      BY <1>2, <1>3, GotoMoves DEF FindConversation
    <2>2. "strangers" \in Observed(req'[w])
      BY <1>1, <1>3, <2>1 DEF Observed, Facts, Existing, Between
    <2>3. MetOK(w)' /\ PairOK(w)'
      BY <1>2, <2>1, <2>2, FactsGrow DEF MetOK, PairOK, Remembered
    <2> QED BY <1>1, <2>1, <2>3, MovesAside
  <1>4. CASE Respond(w)
    <2>1. Formed' /\ OnlyMoves(w) /\ req[w].pc = "find" /\ req'[w].pc = "idle"
      BY <1>2, <1>4, RespondMoves DEF FindConversation
    <2>2. MetOK(w)' /\ PairOK(w)'
      BY <2>1 DEF MetOK, PairOK
    <2> QED BY <1>1, <2>1, <2>2, MovesAside
  <1> QED BY <1>3, <1>4 DEF FindConversation

LEMMA CheckBlockKeeps ==
  ASSUME MInv, Witness, UNCHANGED faults, NEW w \in Workers, CheckBlock(w)
  PROVE  MInv'
  <1>1. RowsSame /\ UNCHANGED <<broadcast, block>>
    BY DEF CheckBlock, RowsSame, db, rest
  <1>2. Formed /\ MetOK(w) /\ PairOK(w)
    BY DEF MInv, CoreOK, RequestsOK, Formed
  <1>3. CASE ~Blocked(block, req[w].user, req[w].other) /\ Goto(w, "insert")
    <2>1. /\ Formed' /\ OnlyMoves(w) /\ req[w].pc = "check" /\ req'[w].pc = "insert"
          /\ req'[w].user = req[w].user /\ req'[w].other = req[w].other
          /\ req'[w].conversation = req[w].conversation
      BY <1>2, <1>3, GotoMoves DEF CheckBlock
    <2>2. "unblocked" \in Observed(req'[w])
      BY <1>1, <1>3, <2>1 DEF Observed, Facts, Blocked
    <2>3. MetOK(w)' /\ PairOK(w)'
      BY <1>1, <1>2, <2>1, <2>2, FactsGrow DEF MetOK, PairOK, Remembered, RowsSame
    <2> QED BY <1>1, <2>1, <2>3, MovesAside
  <1>4. CASE Respond(w)
    <2>1. Formed' /\ OnlyMoves(w) /\ req[w].pc = "check" /\ req'[w].pc = "idle"
      BY <1>2, <1>4, RespondMoves DEF CheckBlock
    <2>2. MetOK(w)' /\ PairOK(w)'
      BY <2>1 DEF MetOK, PairOK
    <2> QED BY <1>1, <2>1, <2>2, MovesAside
  <1> QED BY <1>3, <1>4 DEF CheckBlock

\* A request that ends without touching what the promises are about.
LEMMA EndsKeeps ==
  ASSUME MInv, Witness, UNCHANGED faults, NEW w \in Workers,
         RefuseMedia(w) \/ ReadPage(w) \/ WriteFollow(w)
  PROVE  MInv'
  <1>1. RowsSame /\ UNCHANGED broadcast
    BY DEF RefuseMedia, ReadPage, WriteFollow, RowsSame, db, rest
  <1>2. Formed
    BY DEF MInv, CoreOK, Formed
  <1>3. /\ Formed' /\ OnlyMoves(w) /\ req[w].pc \in {"insert", "page", "follow"}
        /\ req'[w].pc = "idle"
    BY <1>2, RespondMoves DEF RefuseMedia, ReadPage, WriteFollow
  <1>4. MetOK(w)' /\ PairOK(w)'
    BY <1>3 DEF MetOK, PairOK
  <1> QED BY <1>1, <1>3, <1>4, MovesAside

-----------------------------------------------------------------------------
(* Steps of others *)

\* No request moves, and of the rows only blocks, follows, accounts and ages change.
LEMMA OthersKeeps ==
  ASSUME MInv, Witness, UNCHANGED faults, Others
  PROVE  MInv'
  <1>1. RowsSame /\ UNCHANGED <<broadcast, req>>
    BY DEF Others, BlockUser, UnblockUser, SetUserStatus, Unfollow, GrowOld, RowsSame, rest
  <1>2. CoreOK'
    BY <1>1, FactsShaped DEF MInv, CoreOK, RowsSame, Shaped
  <1>3. RequestsOK'
    BY <1>1, SameStay, Stays DEF MInv, RequestsOK
  <1>4. RowsOK' /\ (notified \subseteq Users \X Messages)'
    BY <1>1, SameRowsOK DEF MInv, RowsSame
  <1>5. ReadMeansSeen' /\ StoredIsDelivered'
    BY <1>1, SamePromises DEF MInv, Aside
  <1> QED BY <1>2, <1>3, <1>4, <1>5 DEF MInv

-----------------------------------------------------------------------------
(* Steps that write the rows *)

LEMMA CreateConversationKeeps ==
  ASSUME MInv, Witness, UNCHANGED faults, NEW w \in Workers, NEW c \in Conversations,
         CreateConversation(w, c)
  PROVE  MInv'
  <1>1. Formed /\ MetOK(w) /\ PairOK(w)
    BY DEF MInv, CoreOK, RequestsOK, Formed
  <1>2. Formed' /\ OnlyMoves(w) /\ req[w].pc = "create" /\ req'[w].pc = "idle"
    BY <1>1, RespondMoves DEF CreateConversation
  <1>3. UNCHANGED <<message, read, notified, broadcast>>
    BY DEF CreateConversation, rest
  <1>4. /\ req[w].user \in Users /\ req[w].other \in Users /\ req[w].user # req[w].other
        /\ conversation' \in [Conversations -> SUBSET Users]
        /\ conversation'[c] = {req[w].user, req[w].other} /\ conversation[c] = {}
        /\ \A d \in Conversations : d # c => conversation'[d] = conversation[d]
    BY <1>1, <1>2 DEF PairOK, CreateConversation, MInv, CoreOK
  <1>5. RowsStay
    BY <1>3, <1>4 DEF RowsStay
  <1>6. MetOK(w)' /\ PairOK(w)'
    BY <1>2 DEF MetOK, PairOK
  <1>7. CoreOK'
    BY <1>2, <1>3, <1>4, FactsShaped DEF MInv, CoreOK, Formed
  <1>8. RequestsOK'
    BY <1>2, <1>5, <1>6, OneMoves DEF MInv
  <1>9. RowsOK' /\ (notified \subseteq Users \X Messages)'
    <2>1. \A m \in Messages : message[m] # NoMessage =>
              message[m].conversation \in Conversations
      BY DEF MInv, CoreOK, Row
    <2> QED BY <1>3, <1>4, <2>1 DEF MInv, RowsOK, In
  <1>10. ReadMeansSeen'
    BY <1>2, <1>3, ReadStays DEF MInv, OnlyMoves
  <1>11. ASSUME NEW m \in Messages, message[m] # NoMessage, Delivered(m)
         PROVE  Delivered(m)'
    <2>1. conversation'[message[m].conversation] = conversation[message[m].conversation]
      BY <1>4, <1>11 DEF MInv, CoreOK, RowsOK, Row
    <2>2. \A v \in Workers : Tells(req[v], m) \/ Tells(req'[v], m) => req'[v] = req[v]
      BY <1>2 DEF Tells, OnlyMoves
    <2> QED BY <1>3, <1>11, <2>1, <2>2, DeliveredStays
  <1>12. StoredIsDelivered'
    BY <1>3, <1>11 DEF MInv, StoredIsDelivered
  <1> QED BY <1>7, <1>8, <1>9, <1>10, <1>12 DEF MInv

\* The new message is owed to the other participant by the request that stored it.
LEMMA InsertMessageKeeps ==
  ASSUME MInv, Witness, UNCHANGED faults, NEW w \in Workers, NEW m \in Messages,
         InsertMessage(w, m)
  PROVE  MInv'
  <1> DEFINE row == [conversation |-> req[w].conversation, sender |-> req[w].user,
                     seen |-> FALSE, deleted |-> FALSE]
  <1>1. Formed /\ MetOK(w) /\ PairOK(w) /\ req[w].pc = "insert"
    BY DEF MInv, CoreOK, RequestsOK, Formed, InsertMessage
  <1>2. /\ req[w].conversation \in Conversations
        /\ req[w].user \in Users /\ req[w].other \in Users /\ req[w].user # req[w].other
        /\ conversation[req[w].conversation] = {req[w].user, req[w].other}
    BY <1>1 DEF PairOK
  <1>3. /\ Formed' /\ OnlyMoves(w) /\ req'[w].pc = "notify" /\ req'[w].message = m
        /\ req'[w].user = req[w].user /\ req'[w].other = req[w].other
        /\ req'[w].conversation = req[w].conversation
    <2>1. req[w] = [pc |-> req[w].pc, user |-> req[w].user, other |-> req[w].other,
                    conversation |-> req[w].conversation, message |-> req[w].message]
      BY <1>1 DEF Formed, Shaped
    <2>2. req'[w] = [pc |-> "notify", user |-> req[w].user, other |-> req[w].other,
                     conversation |-> req[w].conversation, message |-> m]
      BY <1>1, <2>1 DEF Formed, InsertMessage
    <2>3. OnlyMoves(w) /\ DOMAIN req' = Workers
      BY <1>1 DEF Formed, InsertMessage, OnlyMoves
    <2>4. \A v \in Workers : Shaped(req'[v])
      BY <1>1, <2>2, <2>3 DEF Formed, Shaped, OnlyMoves
    <2> QED BY <2>2, <2>3, <2>4 DEF Formed, Shaped
  <1>4. UNCHANGED <<conversation, read, notified, broadcast>>
    BY DEF InsertMessage, rest
  <1>5. row \in Row /\ row # NoMessage
    <2>1. row \in Row
      BY <1>2 DEF Row
    <2> QED BY <2>1, RowsDiffer
  <1>6. /\ message' \in [Messages -> Row \cup {NoMessage}]
        /\ message'[m] = row /\ message[m] = NoMessage
        /\ \A k \in Messages : k # m => message'[k] = message[k]
    BY <1>5 DEF InsertMessage, MInv, CoreOK
  <1> HIDE DEF row
  <1>7. row.conversation = req[w].conversation /\ row.sender = req[w].user
    BY DEF row
  <1>8. RowsStay
    BY <1>4, <1>6 DEF RowsStay
  <1>9. MetOK(w)' /\ PairOK(w)'
    BY <1>2, <1>3, <1>4, <1>5, <1>6, <1>7 DEF MetOK, PairOK
  <1>10. CoreOK'
    BY <1>3, <1>4, <1>6, FactsShaped DEF MInv, CoreOK, Formed
  <1>11. RequestsOK'
    BY <1>3, <1>8, <1>9, OneMoves DEF MInv
  <1>12. RowsOK' /\ (notified \subseteq Users \X Messages)'
    <2>1. \A c \in Conversations : In(c) \subseteq In(c)'
      BY <1>6 DEF In
    <2>2. \A k \in Messages : message'[k] # NoMessage =>
              conversation[message'[k].conversation] # {}
      BY <1>2, <1>6, <1>7 DEF MInv, RowsOK
    <2> QED BY <1>4, <1>5, <1>6, <2>1, <2>2 DEF MInv, RowsOK
  <1>13. ReadMeansSeen'
    <2>1. \A c \in Conversations, u \in Users : \A k \in read[<<c, u>>] :
              message'[k] = message[k]
      BY <1>6 DEF MInv, RowsOK, In
    <2> QED BY <1>1, <1>3, <1>4, <2>1, ReadStays DEF MInv, OnlyMoves
  <1>14. ASSUME NEW k \in Messages, k # m, Delivered(k)
         PROVE  Delivered(k)'
    <2>1. \A v \in Workers : Tells(req[v], k) \/ Tells(req'[v], k) => req'[v] = req[v]
      BY <1>1, <1>3, <1>14 DEF Tells, OnlyMoves
    <2> QED BY <1>4, <1>6, <1>14, <2>1, DeliveredStays
  <1>15. Delivered(m)'
    <2>1. \A u \in Users : <<u, m>> \notin notified
      BY <1>6 DEF MInv, RowsOK
    <2>2. \A v \in Workers : v # w => ~(req'[v].pc = "notify" /\ req'[v].message = m)
      BY <1>3, <1>6 DEF OnlyMoves, MInv, RequestsOK, PairOK
    <2>3. Handlers(m, {"notify"})' = {w} /\ w \in Handlers(m, {"notify", "emit"})'
      BY <1>3, <2>2 DEF Handlers
    <2>4. Told(m)' = {req[w].other}
      BY <1>2, <1>3, <1>4, <2>1, <2>3 DEF Told
    <2> QED BY <1>2, <1>4, <1>6, <1>7, <2>3, <2>4 DEF Delivered
  <1>16. StoredIsDelivered'
    BY <1>6, <1>14, <1>15 DEF MInv, StoredIsDelivered
  <1> QED BY <1>10, <1>11, <1>12, <1>13, <1>16 DEF MInv

\* What a request was to be told of becomes a row of its list.
LEMMA NotifyKeeps ==
  ASSUME MInv, Witness, UNCHANGED faults, NEW w \in Workers, Notify(w)
  PROVE  MInv'
  <1> DEFINE n == req[w].message
  <1>1. Formed /\ MetOK(w) /\ PairOK(w) /\ req[w].pc = "notify"
    BY DEF MInv, CoreOK, RequestsOK, Formed, Notify
  <1>2. /\ Formed' /\ OnlyMoves(w) /\ req'[w].pc = "emit" /\ req'[w].message = n
        /\ req'[w].user = req[w].user /\ req'[w].other = req[w].other
        /\ req'[w].conversation = req[w].conversation
    BY <1>1, GotoMoves DEF Notify
  <1>3. UNCHANGED <<conversation, message, read, broadcast>>
    BY DEF Notify, rest
  <1>4. notified' = notified \cup {<<req[w].other, n>>}
    BY DEF Notify
  <1>5. n \in Messages /\ message[n] # NoMessage /\ req[w].other \in Users
    BY <1>1 DEF PairOK
  <1> HIDE DEF n
  <1>6. MetOK(w)' /\ PairOK(w)'
    BY <1>1, <1>2, <1>3 DEF MetOK, PairOK, n
  <1>7. CoreOK'
    BY <1>2, <1>3, FactsShaped DEF MInv, CoreOK, Formed
  <1>8. RequestsOK'
    BY <1>2, <1>3, <1>6, OneMoves DEF MInv, RowsStay
  <1>9. RowsOK' /\ (notified \subseteq Users \X Messages)'
    BY <1>3, <1>4, <1>5 DEF MInv, RowsOK, In
  <1>10. ReadMeansSeen'
    BY <1>1, <1>2, <1>3, ReadStays DEF MInv, OnlyMoves
  <1>11. ASSUME NEW m \in Messages, Delivered(m)
         PROVE  Delivered(m)'
    <2>1. \A u \in Users : <<u, m>> \in notified'
                             <=> <<u, m>> \in notified \/ (m = n /\ u = req[w].other)
      BY <1>4, <1>5
    <2>2. Handlers(m, {"notify", "emit"})' = Handlers(m, {"notify", "emit"})
      BY <1>1, <1>2 DEF Handlers, OnlyMoves, n
    <2>3. \A v \in Workers : v \in Handlers(m, {"notify"})
                               <=> v \in Handlers(m, {"notify"})' \/ (v = w /\ m = n)
      BY <1>1, <1>2 DEF Handlers, OnlyMoves, n
    <2>4. \A v \in Handlers(m, {"notify"})' : v \in Workers /\ v # w /\ req'[v] = req[v]
      BY <1>2 DEF Handlers, OnlyMoves
    <2>5. \A u \in Users :
              (\E v \in Handlers(m, {"notify"}) : req[v].other = u)
                <=> \/ \E v \in Handlers(m, {"notify"})' : req'[v].other = u
                    \/ m = n /\ u = req[w].other
      <3>1. \A v \in Handlers(m, {"notify"}) : v \in Workers
        BY DEF Handlers
      <3> QED BY <2>3, <2>4, <3>1
    <2>6. Told(m)' = Told(m)
      BY <2>1, <2>5 DEF Told
    <2> QED BY <1>3, <1>11, <2>2, <2>6 DEF Delivered
  <1>12. StoredIsDelivered'
    BY <1>3, <1>11 DEF MInv, StoredIsDelivered
  <1> QED BY <1>7, <1>8, <1>9, <1>10, <1>12 DEF MInv

LEMMA EmitNewMessageKeeps ==
  ASSUME MInv, Witness, UNCHANGED faults, NEW w \in Workers, EmitNewMessage(w)
  PROVE  MInv'
  <1>1. Formed /\ MetOK(w) /\ PairOK(w) /\ req[w].pc = "emit"
    BY DEF MInv, CoreOK, RequestsOK, Formed, EmitNewMessage
  <1>2. Formed' /\ OnlyMoves(w) /\ req'[w].pc = "idle"
    BY <1>1, RespondMoves DEF EmitNewMessage
  <1>3. RowsSame /\ broadcast' = broadcast \cup {req[w].message}
    BY DEF EmitNewMessage, db, RowsSame
  <1>4. MetOK(w)' /\ PairOK(w)'
    BY <1>2 DEF MetOK, PairOK
  <1>5. CoreOK'
    BY <1>2, <1>3, FactsShaped DEF MInv, CoreOK, Formed, RowsSame
  <1>6. RequestsOK'
    BY <1>2, <1>3, <1>4, SameStay, OneMoves DEF MInv
  <1>7. RowsOK' /\ (notified \subseteq Users \X Messages)'
    BY <1>3, SameRowsOK DEF MInv, RowsSame
  <1>8. ReadMeansSeen'
    BY <1>1, <1>2, <1>3, ReadStays DEF MInv, OnlyMoves, RowsSame
  <1>9. ASSUME NEW m \in Messages, Delivered(m)
        PROVE  Delivered(m)'
    <2>1. CASE m = req[w].message
      <3>1. Told(m)' = Told(m)
        BY <1>1, <1>2, <1>3, ToldStays DEF OnlyMoves, RowsSame
      <3> QED BY <1>3, <1>9, <2>1, <3>1 DEF Delivered, RowsSame
    <2>2. CASE m # req[w].message
      <3>1. \A v \in Workers : Tells(req[v], m) \/ Tells(req'[v], m) => req'[v] = req[v]
        BY <1>2, <2>2 DEF Tells, OnlyMoves
      <3> QED BY <1>3, <1>9, <3>1, DeliveredStays DEF RowsSame
    <2> QED BY <2>1, <2>2
  <1>10. StoredIsDelivered'
    BY <1>3, <1>9 DEF MInv, StoredIsDelivered, RowsSame
  <1> QED BY <1>5, <1>6, <1>7, <1>8, <1>10 DEF MInv

LEMMA TouchLastReadKeeps ==
  ASSUME MInv, Witness, UNCHANGED faults, NEW w \in Workers, TouchLastRead(w)
  PROVE  MInv'
  <1> DEFINE c == req[w].conversation
             u == req[w].user
  <1>1. Formed /\ MetOK(w) /\ PairOK(w) /\ req[w].pc = "touch"
    BY DEF MInv, CoreOK, RequestsOK, Formed, TouchLastRead
  <1>2. /\ Formed' /\ OnlyMoves(w) /\ req'[w].pc = "see"
        /\ req'[w].user = u /\ req'[w].conversation = c
    BY <1>1, GotoMoves DEF TouchLastRead
  <1>3. UNCHANGED <<conversation, message, notified, broadcast>>
    BY DEF TouchLastRead, rest
  <1>4. /\ c \in Conversations /\ u \in Users /\ In(c) \in SUBSET Messages
        /\ read' = [read EXCEPT ![<<c, u>>] = In(c)]
    BY <1>1 DEF PairOK, TouchLastRead, In
  <1> HIDE DEF c, u
  <1>5. /\ read' \in [Conversations \X Users -> SUBSET Messages]
        /\ read'[<<c, u>>] = In(c)
        /\ \A d \in Conversations, v \in Users : <<d, v>> # <<c, u>> =>
              read'[<<d, v>>] = read[<<d, v>>]
    BY <1>4 DEF MInv, CoreOK
  <1>6. MetOK(w)' /\ PairOK(w)'
    BY <1>2, <1>4 DEF MetOK, PairOK
  <1>7. CoreOK'
    BY <1>2, <1>3, <1>5, FactsShaped DEF MInv, CoreOK, Formed
  <1>8. RequestsOK'
    BY <1>2, <1>3, <1>6, OneMoves DEF MInv, RowsStay
  <1>9. RowsOK' /\ (notified \subseteq Users \X Messages)'
    <2>1. \A d \in Conversations : In(d)' = In(d)
      BY <1>3 DEF In
    <2>2. \A d \in Conversations, v \in Users : read'[<<d, v>>] \subseteq In(d)
      BY <1>5 DEF MInv, RowsOK
    <2> QED BY <1>3, <2>1, <2>2 DEF MInv, RowsOK
  <1>10. ReadMeansSeen'
    <2> SUFFICES ASSUME NEW d \in Conversations, NEW v \in Users,
                        ~ \E q \in faults : q.pc = "see" /\ q.user = v /\ q.conversation = d
                 PROVE  \/ \A m \in read'[<<d, v>>] : message[m].sender # v => message[m].seen
                        \/ \E x \in Workers : req'[x].pc = "see" /\ req'[x].user = v
                                              /\ req'[x].conversation = d
      BY <1>3 DEF ReadMeansSeen
    <2>1. CASE d = c /\ v = u
      BY <1>2, <2>1
    <2>2. CASE ~(d = c /\ v = u)
      <3>1. read'[<<d, v>>] = read[<<d, v>>]
        BY <1>5, <2>2
      <3> QED BY <1>1, <1>2, <3>1 DEF MInv, ReadMeansSeen, OnlyMoves
    <2> QED BY <2>1, <2>2
  <1>11. StoredIsDelivered'
    <2>1. ASSUME NEW m \in Messages, Delivered(m) PROVE Delivered(m)'
      <3>1. \A v \in Workers : Tells(req[v], m) \/ Tells(req'[v], m) => req'[v] = req[v]
        BY <1>1, <1>2 DEF Tells, OnlyMoves
      <3> QED BY <1>3, <2>1, <3>1, DeliveredStays
    <2> QED BY <1>3, <2>1 DEF MInv, StoredIsDelivered
  <1> QED BY <1>7, <1>8, <1>9, <1>10, <1>11 DEF MInv

\* Marking rows leaves who sent them, and marks all that the caller may have read.
LEMMA MarkSeenKeeps ==
  ASSUME MInv, Witness, UNCHANGED faults, NEW w \in Workers, MarkSeen(w)
  PROVE  MInv'
  <1> DEFINE c == req[w].conversation
             u == req[w].user
             marked == Unseen(c, u)
  <1>1. Formed /\ MetOK(w) /\ PairOK(w) /\ req[w].pc = "see"
    BY DEF MInv, CoreOK, RequestsOK, Formed, MarkSeen
  <1>2. Formed' /\ OnlyMoves(w) /\ req'[w].pc = "idle"
    BY <1>1, RespondMoves DEF MarkSeen
  <1>3. UNCHANGED <<conversation, read, notified, broadcast>>
    BY DEF MarkSeen, rest
  <1>4. c \in Conversations /\ u \in Users
    BY <1>1 DEF PairOK
  <1>5. /\ message' = [m \in Messages |-> IF m \in marked
                          THEN [message[m] EXCEPT !.seen = TRUE] ELSE message[m]]
        /\ marked = {m \in In(c) : message[m].sender # u /\ ~message[m].seen}
    BY DEF MarkSeen, Unseen
  <1> HIDE DEF c, u, marked
  <1>6. \A m \in Messages : message[m] # NoMessage => message[m] \in Row
    BY DEF MInv, CoreOK
  <1>7. \A m \in marked : m \in Messages /\ message[m] \in Row
    BY <1>5, <1>6 DEF In
  <1>8. ASSUME NEW m \in Messages, m \in marked
        PROVE  /\ message'[m] \in Row /\ message'[m] # NoMessage /\ message'[m].seen
               /\ message'[m].conversation = message[m].conversation
               /\ message'[m].sender = message[m].sender
    <2>1. message'[m] = [message[m] EXCEPT !.seen = TRUE]
      BY <1>5, <1>8
    <2>2. /\ message'[m] \in Row /\ message'[m].seen
          /\ message'[m].conversation = message[m].conversation
          /\ message'[m].sender = message[m].sender
      BY <1>7, <1>8, <2>1 DEF Row
    <2> QED BY <2>2, RowsDiffer
  <1>9. \A m \in Messages : m \notin marked => message'[m] = message[m]
    BY <1>5
  <1>10. message' \in [Messages -> Row \cup {NoMessage}]
    <2>1. \A m \in Messages : message'[m] \in Row \cup {NoMessage}
      BY <1>8, <1>9 DEF MInv, CoreOK
    <2> QED BY <1>5, <2>1
  <1>11. \A m \in Messages :
             /\ message'[m] = NoMessage <=> message[m] = NoMessage
             /\ message'[m].conversation = message[m].conversation
             /\ message'[m].sender = message[m].sender
    BY <1>7, <1>8, <1>9, RowsDiffer
  <1>12. RowsStay
    BY <1>3, <1>11 DEF RowsStay
  <1>13. MetOK(w)' /\ PairOK(w)'
    BY <1>2 DEF MetOK, PairOK
  <1>14. CoreOK'
    BY <1>2, <1>3, <1>10, FactsShaped DEF MInv, CoreOK, Formed
  <1>15. RequestsOK'
    BY <1>2, <1>12, <1>13, OneMoves DEF MInv
  <1>16. RowsOK' /\ (notified \subseteq Users \X Messages)'
    <2>1. \A d \in Conversations : In(d)' = In(d)
      BY <1>11 DEF In
    <2> QED BY <1>3, <1>11, <2>1 DEF MInv, RowsOK
  <1>17. ReadMeansSeen'
    <2> SUFFICES ASSUME NEW d \in Conversations, NEW v \in Users,
                        ~ \E q \in faults : q.pc = "see" /\ q.user = v /\ q.conversation = d
                 PROVE  \/ \A m \in read[<<d, v>>] : message'[m].sender # v => message'[m].seen
                        \/ \E x \in Workers : req'[x].pc = "see" /\ req'[x].user = v
                                              /\ req'[x].conversation = d
      BY <1>3 DEF ReadMeansSeen
    <2>1. \A m \in read[<<d, v>>] : m \in In(d) /\ m \in Messages
      BY DEF MInv, RowsOK, In
    <2>2. \A m \in read[<<d, v>>] : message[m].seen => message'[m].seen
      BY <1>8, <1>9, <2>1
    <2>3. CASE d = c /\ v = u
      BY <1>5, <1>8, <1>11, <2>1, <2>2, <2>3
    <2>4. CASE \A m \in read[<<d, v>>] : message[m].sender # v => message[m].seen
      BY <1>11, <2>1, <2>2, <2>4
    <2>5. CASE ~(d = c /\ v = u) /\ \E x \in Workers : /\ req[x].pc = "see" /\ req[x].user = v
                                                      /\ req[x].conversation = d
      BY <1>2, <2>5 DEF OnlyMoves, c, u
    <2> QED BY <2>3, <2>4, <2>5 DEF MInv, ReadMeansSeen
  <1>18. StoredIsDelivered'
    <2>1. ASSUME NEW m \in Messages, Delivered(m) PROVE Delivered(m)'
      <3>1. \A v \in Workers : Tells(req[v], m) \/ Tells(req'[v], m) => req'[v] = req[v]
        BY <1>1, <1>2 DEF Tells, OnlyMoves
      <3> QED BY <1>3, <1>11, <2>1, <3>1, DeliveredStays
    <2> QED BY <1>11, <2>1 DEF MInv, StoredIsDelivered
  <1> QED BY <1>14, <1>15, <1>16, <1>17, <1>18 DEF MInv

\* A deleted message is still a row: only its deletion shows.
LEMMA EraseMessageKeeps ==
  ASSUME MInv, Witness, UNCHANGED faults, NEW w \in Workers, EraseMessage(w)
  PROVE  MInv'
  <1> DEFINE n == req[w].message
  <1>1. Formed /\ MetOK(w) /\ PairOK(w) /\ req[w].pc = "delete"
    BY DEF MInv, CoreOK, RequestsOK, Formed, EraseMessage
  <1>2. Formed' /\ OnlyMoves(w) /\ req'[w].pc = "idle"
    BY <1>1, RespondMoves DEF EraseMessage
  <1>3. UNCHANGED <<conversation, read, notified, broadcast>>
    BY DEF EraseMessage
  <1>4. /\ n \in Messages /\ message[n] \in Row
        /\ message' = [message EXCEPT ![n].deleted = TRUE]
    BY <1>1 DEF PairOK, EraseMessage, MInv, CoreOK
  <1> HIDE DEF n
  <1>5. /\ message' \in [Messages -> Row \cup {NoMessage}]
        /\ message'[n] = [message[n] EXCEPT !.deleted = TRUE]
        /\ \A m \in Messages : m # n => message'[m] = message[m]
    <2>1. [message[n] EXCEPT !.deleted = TRUE] \in Row
      BY <1>4 DEF Row
    <2> QED BY <1>4, <2>1 DEF MInv, CoreOK
  <1>6. /\ message'[n] \in Row /\ message'[n] # NoMessage
        /\ message'[n].conversation = message[n].conversation
        /\ message'[n].sender = message[n].sender /\ message'[n].seen = message[n].seen
    <2>1. /\ message'[n] \in Row
          /\ message'[n].conversation = message[n].conversation
          /\ message'[n].sender = message[n].sender /\ message'[n].seen = message[n].seen
      BY <1>4, <1>5 DEF Row
    <2> QED BY <2>1, RowsDiffer
  <1>7. message[n] # NoMessage
    BY <1>4, RowsDiffer
  <1>8. \A m \in Messages :
            /\ message'[m] = NoMessage <=> message[m] = NoMessage
            /\ message'[m].conversation = message[m].conversation
            /\ message'[m].sender = message[m].sender /\ message'[m].seen = message[m].seen
    BY <1>5, <1>6, <1>7
  <1>9. RowsStay
    BY <1>3, <1>8 DEF RowsStay
  <1>10. MetOK(w)' /\ PairOK(w)'
    BY <1>2 DEF MetOK, PairOK
  <1>11. CoreOK'
    BY <1>2, <1>3, <1>5, FactsShaped DEF MInv, CoreOK, Formed
  <1>12. RequestsOK'
    BY <1>2, <1>9, <1>10, OneMoves DEF MInv
  <1>13. RowsOK' /\ (notified \subseteq Users \X Messages)'
    <2>1. \A d \in Conversations : In(d)' = In(d)
      BY <1>8 DEF In
    <2> QED BY <1>3, <1>8, <2>1 DEF MInv, RowsOK
  <1>14. ReadMeansSeen'
    <2>1. \A d \in Conversations, v \in Users : \A m \in read[<<d, v>>] : m \in Messages
      BY DEF MInv, RowsOK, In
    <2> QED BY <1>1, <1>2, <1>3, <1>8, <2>1, ReadStays DEF MInv, OnlyMoves
  <1>15. StoredIsDelivered'
    <2>1. ASSUME NEW m \in Messages, Delivered(m) PROVE Delivered(m)'
      <3>1. \A v \in Workers : Tells(req[v], m) \/ Tells(req'[v], m) => req'[v] = req[v]
        BY <1>1, <1>2 DEF Tells, OnlyMoves
      <3> QED BY <1>3, <1>8, <2>1, <3>1, DeliveredStays
    <2> QED BY <1>8, <2>1 DEF MInv, StoredIsDelivered
  <1> QED BY <1>11, <1>12, <1>13, <1>14, <1>15 DEF MInv

\* What a failed request owed is among the failures; the others owe what they owed.
LEMMA FailKeeps ==
  ASSUME MInv, Witness, NEW w \in Workers, Fail(w)
  PROVE  MInv'
  <1>1. Formed /\ MetOK(w) /\ PairOK(w)
    BY DEF MInv, CoreOK, RequestsOK, Formed
  <1>2. RowsSame /\ UNCHANGED broadcast /\ faults' = faults \cup {req[w]}
    BY DEF Fail, RowsSame, db, rest
  <1>3. Formed' /\ OnlyMoves(w) /\ MetOK(w)' /\ PairOK(w)'
    <2>1. CASE Respond(w)
      <3>1. Formed' /\ OnlyMoves(w) /\ req'[w].pc = "idle"
        BY <1>1, <2>1, RespondMoves
      <3> QED BY <3>1 DEF MetOK, PairOK
    <2>2. CASE req[w].pc = "notify" /\ Goto(w, "emit")
      <3>1. /\ Formed' /\ OnlyMoves(w) /\ req'[w].pc = "emit"
            /\ req'[w].user = req[w].user /\ req'[w].other = req[w].other
            /\ req'[w].conversation = req[w].conversation /\ req'[w].message = req[w].message
        BY <1>1, <2>2, GotoMoves
      <3> QED BY <1>1, <1>2, <2>2, <3>1 DEF MetOK, PairOK, RowsSame
    <2> QED BY <2>1, <2>2 DEF Fail
  <1>4. CoreOK'
    BY <1>2, <1>3, FactsShaped DEF MInv, CoreOK, Formed, RowsSame
  <1>5. RequestsOK'
    BY <1>2, <1>3, SameStay, OneMoves DEF MInv
  <1>6. RowsOK' /\ (notified \subseteq Users \X Messages)'
    BY <1>2, SameRowsOK DEF MInv, RowsSame
  <1>7. ReadMeansSeen'
    <2> SUFFICES ASSUME NEW c \in Conversations, NEW u \in Users,
                        ~ \A m \in read[<<c, u>>] : message[m].sender # u => message[m].seen,
                        ~ \E q \in faults : q.pc = "see" /\ q.user = u /\ q.conversation = c
                 PROVE  \/ \E v \in Workers : req'[v].pc = "see" /\ req'[v].user = u
                                               /\ req'[v].conversation = c
                        \/ \E q \in faults' : q.pc = "see" /\ q.user = u /\ q.conversation = c
      BY <1>2 DEF ReadMeansSeen, RowsSame
    <2>1. PICK v \in Workers : req[v].pc = "see" /\ req[v].user = u /\ req[v].conversation = c
      BY DEF MInv, ReadMeansSeen
    <2>2. CASE v = w
      BY <1>2, <2>1, <2>2
    <2>3. CASE v # w
      BY <1>3, <2>1, <2>3 DEF OnlyMoves
    <2> QED BY <2>2, <2>3
  <1>8. ASSUME NEW m \in Messages, message[m] # NoMessage, ~ \E q \in faults' : Tells(q, m)
        PROVE  Delivered(m)'
    <2>1. ~ \E q \in faults : Tells(q, m)
      BY <1>2, <1>8
    <2>2. Delivered(m)
      BY <1>8, <2>1 DEF MInv, StoredIsDelivered
    <2>3. ~Tells(req[w], m)
      BY <1>2, <1>8
    <2>4. ~Tells(req'[w], m)
      <3>1. CASE Respond(w)
        <4>1. req'[w].pc = "idle"
          BY <1>1, <3>1, RespondMoves
        <4> QED BY <4>1 DEF Tells
      <3>2. CASE req[w].pc = "notify" /\ Goto(w, "emit")
        <4>1. req'[w].message = req[w].message
          BY <1>1, <3>2, GotoMoves
        <4> QED BY <2>3, <3>2, <4>1 DEF Tells
      <3> QED BY <3>1, <3>2 DEF Fail
    <2>5. \A v \in Workers : Tells(req[v], m) \/ Tells(req'[v], m) => req'[v] = req[v]
      BY <1>3, <2>3, <2>4 DEF OnlyMoves
    <2> QED BY <1>2, <2>2, <2>5, DeliveredStays DEF RowsSame
  <1>9. StoredIsDelivered'
    BY <1>2, <1>8 DEF StoredIsDelivered, RowsSame
  <1> QED BY <1>4, <1>5, <1>6, <1>7, <1>9 DEF MInv

-----------------------------------------------------------------------------
(* The theorems *)

LEMMA MInvInit ==
  ASSUME Init
  PROVE  MInv
  <1>1. CoreOK /\ RequestsOK
    BY DEF Init, CoreOK, RequestsOK, Shaped, Idle, MetOK, PairOK
  <1>2. RowsOK /\ notified \subseteq Users \X Messages
    BY DEF Init, RowsOK, In
  <1>3. ReadMeansSeen /\ StoredIsDelivered
    BY DEF Init, ReadMeansSeen, StoredIsDelivered
  <1> QED BY <1>1, <1>2, <1>3 DEF MInv

LEMMA ContinuesKeeps ==
  ASSUME MInv, Witness, UNCHANGED faults, NEW w \in Workers, Continues(w)
  PROVE  MInv'
  BY FindRecipientKeeps, FindConversationKeeps, CreateConversationKeeps, CheckBlockKeeps,
     EndsKeeps, InsertMessageKeeps, NotifyKeeps, EmitNewMessageKeeps, TouchLastReadKeeps,
     MarkSeenKeeps, EraseMessageKeeps DEF Continues

LEMMA MInvNext ==
  ASSUME MInv, [Next]_vars
  PROVE  MInv'
  <1>1. CASE Next
    BY <1>1, BeginsKeeps, ContinuesKeeps, OthersKeeps, FailKeeps DEF Next
  <1>2. CASE UNCHANGED vars
    <2>1. RowsSame /\ UNCHANGED <<broadcast, req, met, faults>>
      BY <1>2 DEF vars, db, rest, RowsSame
    <2>2. CoreOK' /\ RequestsOK'
      BY <2>1 DEF MInv, CoreOK, RequestsOK, RowsSame, MetOK, PairOK, Shaped
    <2>3. RowsOK' /\ (notified \subseteq Users \X Messages)'
      BY <2>1, SameRowsOK DEF MInv, RowsSame
    <2>4. ReadMeansSeen' /\ StoredIsDelivered'
      BY <2>1, SamePromises DEF MInv, Aside
    <2> QED BY <2>2, <2>3, <2>4 DEF MInv
  <1> QED BY <1>1, <1>2

\* What every reachable state satisfies.
THEOREM MInvAlways == Spec => []MInv
  BY MInvInit, MInvNext, PTL DEF Spec

\* Read receipts are complete, whoever reads, sends and deletes meanwhile, but for
\* those of a request between markRead's two updates, or that died there.
THEOREM ReadReceiptsComplete == Spec => []ReadMeansSeen
  <1>1. MInv => ReadMeansSeen
    BY DEF MInv
  <1> QED BY <1>1, MInvAlways, PTL

\* Every stored message reaches the other participant's list and the rooms, or a
\* request that still goes on brings it there, unless the one that stored it failed
\* afterwards; nobody else is told (sendMessage, notify and emitNewMessage).
THEOREM MessagesDelivered == Spec => []StoredIsDelivered
  <1>1. MInv => StoredIsDelivered
    BY DEF MInv
  <1> QED BY <1>1, MInvAlways, PTL

\* A block that has been there for the whole of a request stops what it would write.
THEOREM NothingGetsThrough == Spec => BlocksRespected
  <1>1. MInv /\ [Next]_vars =>
          [\A w \in Workers :
              /\ req[w].pc \in {"create", "insert", "follow"} /\ req'[w] # req[w]
              /\ conversation' # conversation \/ message' # message \/ follow' # follow
              => "unblocked" \in met[w]]_vars
    BY DEF MInv, RequestsOK, MetOK
  <1> QED BY <1>1, MInvAlways, PTL DEF Spec, BlocksRespected

\* startConversation makes a second conversation of a pair only when raced, and none
\* with someone who was suspended all the while.
THEOREM ConversationsReused == Spec => ReusedUnlessRaced
  <1>1. MInv /\ [Next]_vars =>
          [\A w \in Workers :
              req[w].pc = "create" /\ req'[w] # req[w] /\ conversation' # conversation
              => {"strangers", "reachable"} \subseteq met[w]]_vars
    BY DEF MInv, RequestsOK, MetOK
  <1> QED BY <1>1, MInvAlways, PTL DEF Spec, ReusedUnlessRaced

-----------------------------------------------------------------------------
(* Pages *)

\* A sequence of rows from the newest on.
Ordered(s, S) == s \in Seq(S) /\ \A i, j \in DOMAIN s : i < j => s[i] > s[j]
Holds(s, r)   == \E i \in DOMAIN s : s[i] = r

LEMMA SeqFacts ==
  ASSUME NEW S, NEW s \in Seq(S)
  PROVE  /\ Len(s) \in Nat /\ DOMAIN s = 1..Len(s)
         /\ \A i \in DOMAIN s : s[i] \in S
  BY LenProperties, ElementOfSeq

\* The newer a row is, the fewer are newer.
LEMMA NewerFewer ==
  ASSUME NEW rows \in SUBSET Nat, IsFiniteSet(rows), NEW r \in rows, NEW t \in rows, r < t
  PROVE  Newer(rows, t) < Newer(rows, r)
  <1> DEFINE A == {s \in rows : s > t}
             B == {s \in rows : s > r}
  <1>1. A \in SUBSET B /\ t \in B /\ t \notin A /\ A # B
    <2>1. \A s \in A : s \in B
      OBVIOUS
    <2>2. t \in B /\ t \notin A
      OBVIOUS
    <2> QED BY <2>1, <2>2
  <1>2. B \in SUBSET rows
    OBVIOUS
  <1> HIDE DEF A, B
  <1>3. IsFiniteSet(B)
    BY <1>2, FS_Subset
  <1>4. /\ Cardinality(A) <= Cardinality(B)
        /\ Cardinality(B) = Cardinality(A) => B = A
        /\ Cardinality(A) \in Nat /\ Cardinality(B) \in Nat
    BY <1>1, <1>3, FS_Subset, FS_CardinalityType
  <1>5. Cardinality(A) < Cardinality(B)
    BY <1>1, <1>4
  <1> QED BY <1>5 DEF A, B, Newer

LEMMA NewerBound ==
  ASSUME NEW rows \in SUBSET Nat, IsFiniteSet(rows), NEW r \in rows
  PROVE  Cardinality(rows) \in Nat /\ Newer(rows, r) \in 0..(Cardinality(rows) - 1)
  <1> DEFINE A == {s \in rows : s > r}
  <1>1. A \in SUBSET (rows \ {r}) /\ rows \ {r} \in SUBSET rows
    OBVIOUS
  <1> HIDE DEF A
  <1>2. IsFiniteSet(rows \ {r}) /\ Cardinality(rows \ {r}) = Cardinality(rows) - 1
    BY FS_RemoveElement
  <1>3. IsFiniteSet(A) /\ Cardinality(A) <= Cardinality(rows) - 1
    BY <1>1, <1>2, FS_Subset
  <1>4. Cardinality(A) \in Nat /\ Cardinality(rows) \in Nat
    BY <1>3, FS_CardinalityType
  <1> QED BY <1>3, <1>4 DEF A, Newer

\* Every place in the order is somebody's.
LEMMA NewerHits ==
  ASSUME NEW rows \in SUBSET Nat, IsFiniteSet(rows), NEW i \in 1..Cardinality(rows)
  PROVE  \E r \in rows : Newer(rows, r) = i - 1
  <1> DEFINE n == Cardinality(rows)
             f == [r \in rows |-> Newer(rows, r)]
  <1>1. n \in Nat
    BY FS_CardinalityType
  <1>2. f \in [rows -> 0..(n - 1)]
    BY NewerBound
  <1>3. \A r, t \in rows : f[r] = f[t] => r = t
    <2> SUFFICES ASSUME NEW r \in rows, NEW t \in rows, Newer(rows, r) = Newer(rows, t), r # t
                 PROVE  FALSE
      OBVIOUS
    <2>1. Newer(rows, r) \in Nat /\ Newer(rows, t) \in Nat
      BY NewerBound
    <2>2. CASE r < t
      BY <2>1, <2>2, NewerFewer
    <2>3. CASE t < r
      BY <2>1, <2>3, NewerFewer
    <2> QED BY <2>2, <2>3
  <1>4. IsFiniteSet(0..(n - 1)) /\ Cardinality(0..(n - 1)) = n
    <2>1. 0 \in Int /\ n - 1 \in Int
      BY <1>1
    <2>2. /\ IsFiniteSet(0..(n - 1))
          /\ Cardinality(0..(n - 1)) = IF 0 > n - 1 THEN 0 ELSE (n - 1) - 0 + 1
      BY <2>1, FS_Interval
    <2> HIDE DEF n
    <2> QED BY <1>1, <2>2
  <1>5. \A r \in rows : f[r] = Newer(rows, r)
    OBVIOUS
  <1> HIDE DEF f
  <1>6. f \in Injection(rows, 0..(n - 1))
    BY <1>2, <1>3 DEF Injection, IsInjective
  <1>7. f \in Surjection(rows, 0..(n - 1))
    BY <1>4, <1>6, FS_Injection
  <1>8. i - 1 \in 0..(n - 1)
    BY <1>1
  <1> QED BY <1>5, <1>7, <1>8 DEF Surjection

LEMMA NewestFacts ==
  ASSUME NEW rows \in SUBSET Nat, IsFiniteSet(rows)
  PROVE  Ordered(Newest(rows), rows) /\ \A r \in rows : Holds(Newest(rows), r)
  <1> DEFINE n == Cardinality(rows)
             s == Newest(rows)
  <1>1. n \in Nat
    BY FS_CardinalityType
  <1>2. ASSUME NEW i \in 1..n
        PROVE  s[i] \in rows /\ Newer(rows, s[i]) = i - 1
    <2>1. s[i] = CHOOSE r \in rows : Newer(rows, r) = i - 1
      BY DEF Newest
    <2>2. \E r \in rows : Newer(rows, r) = i - 1
      BY NewerHits
    <2> HIDE DEF s
    <2> QED BY <2>1, <2>2
  <1>3. s \in [1..n -> rows]
    <2>1. s = [i \in 1..n |-> s[i]]
      BY DEF Newest
    <2> HIDE DEF s
    <2> QED BY <1>2, <2>1
  <1> HIDE DEF s
  <1>4. s \in Seq(rows) /\ DOMAIN s = 1..n
    BY <1>1, <1>3, SeqDef
  <1>5. ASSUME NEW i \in 1..n, NEW j \in 1..n, i < j
        PROVE  s[i] > s[j]
    <2>1. s[i] \in rows /\ s[j] \in rows /\ s[i] \in Nat /\ s[j] \in Nat
      BY <1>2
    <2>2. s[i] # s[j]
      <3>1. Newer(rows, s[i]) = i - 1 /\ Newer(rows, s[j]) = j - 1
        BY <1>2
      <3>2. i - 1 # j - 1
        BY <1>1, <1>5
      <3> QED BY <3>1, <3>2
    <2>3. CASE s[i] < s[j]
      <3>1. Newer(rows, s[j]) < Newer(rows, s[i])
        BY <2>1, <2>3, NewerFewer
      <3>2. j - 1 < i - 1
        BY <1>2, <3>1
      <3> QED BY <1>1, <1>5, <3>2
    <2> QED BY <2>1, <2>2, <2>3
  <1>6. ASSUME NEW r \in rows
        PROVE  Holds(s, r)
    <2>1. Newer(rows, r) \in 0..(n - 1)
      BY NewerBound
    <2>2. PICK i \in 1..n : i - 1 = Newer(rows, r)
      <3>1. Newer(rows, r) + 1 \in 1..n /\ (Newer(rows, r) + 1) - 1 = Newer(rows, r)
        BY <1>1, <2>1
      <3> QED BY <3>1
    <2>3. s[i] \in rows /\ Newer(rows, s[i]) = Newer(rows, r)
      BY <1>2, <2>2
    <2>4. CASE s[i] < r
      <3>1. Newer(rows, r) < Newer(rows, s[i])
        BY <2>3, <2>4, NewerFewer
      <3> QED BY <1>1, <2>1, <2>3, <3>1
    <2>5. CASE r < s[i]
      <3>1. Newer(rows, s[i]) < Newer(rows, r)
        BY <2>3, <2>5, NewerFewer
      <3> QED BY <1>1, <2>1, <2>3, <3>1
    <2>6. CASE s[i] = r
      BY <1>4, <2>6 DEF Holds
    <2>7. s[i] \in Nat /\ r \in Nat
      BY <2>3
    <2> QED BY <2>4, <2>5, <2>6, <2>7
  <1>7. Ordered(s, rows)
    BY <1>4, <1>5 DEF Ordered
  <1> QED BY <1>6, <1>7 DEF s

\* The beginning of an ordered sequence.
LEMMA UpToFacts ==
  ASSUME NEW S, NEW s, Ordered(s, S), NEW limit \in Nat
  PROVE  /\ Ordered(UpTo(s, limit), S)
         /\ Len(UpTo(s, limit)) = IF Len(s) < limit THEN Len(s) ELSE limit
         /\ \A i \in DOMAIN UpTo(s, limit) : i \in DOMAIN s /\ UpTo(s, limit)[i] = s[i]
  <1> DEFINE n == IF Len(s) < limit THEN Len(s) ELSE limit
             t == SubSeq(s, 1, n)
  <1>1. Len(s) \in Nat /\ DOMAIN s = 1..Len(s) /\ \A i \in DOMAIN s : s[i] \in S
    BY SeqFacts DEF Ordered
  <1>2. n \in Nat /\ n <= Len(s)
    BY <1>1
  <1>3. UpTo(s, limit) = t
    BY DEF UpTo
  <1> HIDE DEF n
  <1>4. \A i \in 1..n : s[i] \in S /\ i \in DOMAIN s
    BY <1>1, <1>2
  <1>5. /\ t \in Seq(S) /\ Len(t) = IF 1 <= n THEN n - 1 + 1 ELSE 0
        /\ \A i \in 1..(n - 1 + 1) : t[i] = s[1 + i - 1]
    BY <1>2, <1>4, SubSeqProperties
  <1> HIDE DEF t
  <1>6. Len(t) = n /\ DOMAIN t = 1..n
    BY <1>2, <1>5, SeqFacts
  <1>7. \A i \in 1..n : t[i] = s[i]
    BY <1>2, <1>5
  <1>8. Ordered(t, S)
    BY <1>4, <1>5, <1>6, <1>7 DEF Ordered
  <1> QED BY <1>3, <1>4, <1>6, <1>7, <1>8 DEF n

\* What follows the first row.
LEMMA TailFacts ==
  ASSUME NEW S \in SUBSET Nat, NEW s, Ordered(s, S), s # <<>>
  PROVE  /\ 1 \in DOMAIN s /\ Ordered(Tail(s), S)
         /\ \A r \in S : Holds(Tail(s), r) <=> Holds(s, r) /\ r # s[1]
         /\ \A i \in DOMAIN Tail(s) : Tail(s)[i] < s[1]
  <1> DEFINE t == Tail(s)
             n == Len(s)
  <1>1. s \in Seq(S) /\ n \in Nat /\ DOMAIN s = 1..n /\ \A i \in DOMAIN s : s[i] \in Nat
    BY SeqFacts DEF Ordered
  <1>2. n # 0
    BY <1>1, EmptySeq
  <1>3. t \in Seq(S) /\ Len(t) = n - 1 /\ \A i \in 1..(n - 1) : t[i] = s[i + 1]
    BY <1>1, HeadTailProperties
  <1>4. DOMAIN t = 1..(n - 1)
    BY <1>3, SeqFacts
  <1> HIDE DEF t, n
  <1>5. 1 \in DOMAIN s
    BY <1>1, <1>2
  <1>6. \A i \in DOMAIN t : i + 1 \in DOMAIN s /\ t[i] = s[i + 1] /\ 1 < i + 1
    BY <1>1, <1>2, <1>3, <1>4
  <1>7. \A i \in DOMAIN s : i = 1 \/ (i - 1 \in DOMAIN t /\ t[i - 1] = s[i])
    BY <1>1, <1>3, <1>4
  <1>8. Ordered(t, S)
    <2> SUFFICES ASSUME NEW i \in DOMAIN t, NEW j \in DOMAIN t, i < j
                 PROVE  t[i] > t[j]
      BY <1>3 DEF Ordered
    <2>1. i + 1 < j + 1
      BY <1>1, <1>4
    <2> QED BY <1>6, <2>1 DEF Ordered
  <1>9. \A i \in DOMAIN t : t[i] < s[1]
    <2> TAKE i \in DOMAIN t
    <2>1. s[1] > s[i + 1]
      BY <1>5, <1>6 DEF Ordered
    <2> QED BY <1>1, <1>5, <1>6, <2>1
  <1>10. ASSUME NEW r \in S
         PROVE  Holds(t, r) <=> Holds(s, r) /\ r # s[1]
    <2>1. ASSUME NEW i \in DOMAIN t, t[i] = r
          PROVE  Holds(s, r) /\ r # s[1]
      <3>1. t[i] < s[1] /\ s[1] \in Nat
        BY <1>1, <1>5, <1>9
      <3>2. r # s[1]
        BY <2>1, <3>1
      <3> QED BY <1>6, <2>1, <3>2 DEF Holds
    <2>2. ASSUME NEW i \in DOMAIN s, s[i] = r, r # s[1]
          PROVE  Holds(t, r)
      BY <1>7, <2>2 DEF Holds
    <2> QED BY <2>1, <2>2 DEF Holds
  <1> QED BY <1>5, <1>8, <1>9, <1>10 DEF t

LEMMA JoinFacts ==
  ASSUME NEW S, NEW a, NEW b, Ordered(a, S), Ordered(b, S),
         \A i \in DOMAIN a, j \in DOMAIN b : a[i] > b[j]
  PROVE  /\ Ordered(a \o b, S)
         /\ \A r : Holds(a \o b, r) <=> Holds(a, r) \/ Holds(b, r)
  <1> DEFINE t == a \o b
             m == Len(a)
             n == Len(b)
  <1>1. /\ a \in Seq(S) /\ m \in Nat /\ DOMAIN a = 1..m
        /\ b \in Seq(S) /\ n \in Nat /\ DOMAIN b = 1..n
    BY SeqFacts DEF Ordered
  <1>2. /\ t \in Seq(S) /\ Len(t) = m + n
        /\ \A i \in 1..(m + n) : t[i] = IF i <= m THEN a[i] ELSE b[i - m]
    BY <1>1, ConcatProperties
  <1>3. DOMAIN t = 1..(m + n)
    BY <1>2, SeqFacts
  <1> HIDE DEF t, m, n
  <1>4. \A i \in DOMAIN a : i \in DOMAIN t /\ t[i] = a[i]
    BY <1>1, <1>2, <1>3
  <1>5. \A i \in DOMAIN b : i + m \in DOMAIN t /\ t[i + m] = b[i]
    BY <1>1, <1>2, <1>3
  <1>6. \A i \in DOMAIN t : \/ i \in DOMAIN a /\ t[i] = a[i]
                            \/ i \notin DOMAIN a /\ i - m \in DOMAIN b /\ t[i] = b[i - m]
    BY <1>1, <1>2, <1>3
  <1>7. Ordered(t, S)
    <2> SUFFICES ASSUME NEW i \in DOMAIN t, NEW j \in DOMAIN t, i < j
                 PROVE  t[i] > t[j]
      BY <1>2 DEF Ordered
    <2>1. CASE i \in DOMAIN a /\ j \in DOMAIN a
      BY <1>6, <2>1 DEF Ordered
    <2>2. CASE i \in DOMAIN a /\ j \notin DOMAIN a
      BY <1>6, <2>2
    <2>3. CASE i \notin DOMAIN a
      <3>1. j \notin DOMAIN a /\ i - m < j - m
        BY <1>1, <1>3, <2>3
      <3> QED BY <1>6, <2>3, <3>1 DEF Ordered
    <2> QED BY <2>1, <2>2, <2>3
  <1>8. \A r : Holds(t, r) <=> Holds(a, r) \/ Holds(b, r)
    BY <1>4, <1>5, <1>6 DEF Holds
  <1> QED BY <1>7, <1>8 DEF t

\* The rows from a cursor on: older ones than the cursor, and all of them while the
\* cursor's own row is there.
LEMMA WindowFacts ==
  ASSUME NEW rows \in SUBSET Messages, IsFiniteSet(rows),
         NEW cursor \in Messages \cup {NoMessage}, NEW s \in Window(rows, cursor)
  PROVE  /\ Ordered(s, rows)
         /\ cursor # NoMessage => \A i \in DOMAIN s : s[i] < cursor
         /\ cursor = NoMessage \/ cursor \in rows =>
               \A r \in rows : (cursor # NoMessage => r < cursor) => Holds(s, r)
  <1> DEFINE R == {r \in rows : cursor = NoMessage \/ r <= cursor}
             from == Newest(R)
  <1>1. R \in SUBSET rows /\ rows \in SUBSET Nat /\ R \in SUBSET Nat /\ NoMessage \notin Messages
    BY MessagesNumbered
  <1>2. IsFiniteSet(R)
    <2> HIDE DEF R
    <2> QED BY <1>1, FS_Subset
  <1>3. Ordered(from, R) /\ \A r \in R : Holds(from, r)
    <2> HIDE DEF R
    <2> QED BY <1>1, <1>2, NewestFacts
  <1>4. s \in CASE cursor = NoMessage -> {from}
                [] cursor \in rows    -> {Tail(from)}
                [] OTHER              -> {IF from = <<>> THEN from ELSE Tail(from), <<>>}
    BY DEF Window
  <1>5. \A r : r \in R <=> r \in rows /\ (cursor = NoMessage \/ r <= cursor)
    OBVIOUS
  <1> HIDE DEF R, from
  <1>6. ASSUME NEW t, Ordered(t, R)
        PROVE  Ordered(t, rows) /\ \A i \in DOMAIN t : t[i] \in R
    <2>1. t \in Seq(R) /\ \A i \in DOMAIN t : t[i] \in R
      BY <1>6, SeqFacts DEF Ordered
    <2>2. t \in Seq(rows)
      BY <1>1, <2>1, SeqMonotonic
    <2> QED BY <1>6, <2>1, <2>2 DEF Ordered
  <1>7. CASE cursor = NoMessage
    <2>1. s = from
      BY <1>1, <1>4, <1>7
    <2>2. \A r \in rows : r \in R
      BY <1>5, <1>7
    <2> QED BY <1>3, <1>6, <1>7, <2>1, <2>2
  <1>8. CASE cursor # NoMessage /\ cursor \in rows
    <2>1. s = Tail(from)
      BY <1>1, <1>4, <1>8
    <2>2. cursor \in Nat /\ cursor \in R
      BY <1>1, <1>5, <1>8
    <2>3. PICK i \in DOMAIN from : from[i] = cursor
      BY <1>3, <2>2 DEF Holds
    <2>4. from # <<>>
      <3>1. DOMAIN from # {}
        BY <2>3
      <3> QED BY <3>1
    <2>5. /\ 1 \in DOMAIN from /\ Ordered(s, R)
          /\ \A r \in R : Holds(s, r) <=> Holds(from, r) /\ r # from[1]
          /\ \A j \in DOMAIN s : s[j] < from[1]
      BY <1>1, <1>3, <2>1, <2>4, TailFacts
    <2>6. from[1] = cursor
      <3>1. i \in Nat /\ i >= 1 /\ from[1] \in Nat /\ from[1] <= cursor
        <4>1. from[1] \in R
          BY <1>3, <1>6, <2>5
        <4>2. Len(from) \in Nat /\ DOMAIN from = 1..Len(from)
          BY <1>3, SeqFacts DEF Ordered
        <4>3. i \in Nat /\ i >= 1
          BY <4>2
        <4>4. from[1] \in Nat /\ from[1] <= cursor
          BY <1>1, <1>5, <1>8, <4>1
        <4> QED BY <4>3, <4>4
      <3>2. CASE i = 1
        BY <2>3, <3>2
      <3>3. CASE i > 1
        <4>1. from[1] > from[i]
          BY <1>3, <2>3, <2>5, <3>3 DEF Ordered
        <4> QED BY <2>2, <2>3, <3>1, <4>1
      <3> QED BY <3>1, <3>2, <3>3
    <2>7. \A r \in rows : r < cursor => r \in R /\ r # cursor
      BY <1>1, <1>5, <2>2
    <2> QED BY <1>3, <1>6, <1>8, <2>5, <2>6, <2>7
  <1>9. CASE cursor # NoMessage /\ cursor \notin rows
    <2>1. s \in {IF from = <<>> THEN from ELSE Tail(from), <<>>}
      BY <1>4, <1>9
    <2>2. Ordered(s, R)
      <3>1. CASE s = from
        BY <1>3, <3>1
      <3>2. CASE from # <<>> /\ s = Tail(from)
        BY <1>1, <1>3, <3>2, TailFacts
      <3>3. CASE s = <<>>
        BY <3>3, EmptySeq DEF Ordered
      <3> QED BY <2>1, <3>1, <3>2, <3>3
    <2>3. \A i \in DOMAIN s : s[i] \in R
      BY <1>6, <2>2
    <2>4. \A r \in R : r < cursor
      BY <1>1, <1>5, <1>9
    <2> QED BY <1>6, <1>9, <2>2, <2>3, <2>4
  <1> QED BY <1>7, <1>8, <1>9

\* A page: older rows than the cursor, down to the next cursor with none left out, or
\* down to the oldest when there is no next.
LEMMA PageFacts ==
  ASSUME NEW rows \in SUBSET Messages, IsFiniteSet(rows),
         NEW cursor \in Messages \cup {NoMessage}, NEW found \in CursorQuery(rows, cursor, Take)
  PROVE  LET items == Items(found, Take)
             next  == NextCursor(found, Take)
         IN  /\ Ordered(items, rows) /\ next \in rows \cup {NoMessage}
             /\ cursor # NoMessage => \A i \in DOMAIN items : items[i] < cursor
             /\ next # NoMessage => Holds(items, next) /\ \A i \in DOMAIN items : items[i] >= next
             /\ cursor = NoMessage \/ cursor \in rows =>
                   \A r \in rows : (cursor # NoMessage => r < cursor)
                                   => Holds(items, r) \/ (next # NoMessage /\ r < next)
  <1> DEFINE L == Limit(Take)
             items == Items(found, Take)
             next  == NextCursor(found, Take)
  <1>1. L \in Nat \ {0}
    BY TakeSome DEF Limit, MaxLimit
  <1>2. PICK s \in Window(rows, cursor) : found = UpTo(s, L + 1)
    BY DEF CursorQuery
  <1>3. /\ Ordered(s, rows)
        /\ cursor # NoMessage => \A i \in DOMAIN s : s[i] < cursor
        /\ cursor = NoMessage \/ cursor \in rows =>
              \A r \in rows : (cursor # NoMessage => r < cursor) => Holds(s, r)
    BY WindowFacts
  <1> HIDE DEF L
  <1>4. /\ Ordered(found, rows) /\ Len(found) = IF Len(s) < L + 1 THEN Len(s) ELSE L + 1
        /\ \A i \in DOMAIN found : i \in DOMAIN s /\ found[i] = s[i]
    BY <1>1, <1>2, <1>3, UpToFacts
  <1>5. items = UpTo(found, L)
    BY DEF Items, L
  <1>6. next = IF Len(found) > L THEN found[L] ELSE NoMessage
    BY DEF NextCursor, L
  <1> HIDE DEF items, next
  <1>7. /\ Ordered(items, rows) /\ Len(items) = IF Len(found) < L THEN Len(found) ELSE L
        /\ \A i \in DOMAIN items : i \in DOMAIN found /\ items[i] = found[i]
    BY <1>1, <1>4, <1>5, UpToFacts
  <1>8. /\ Len(s) \in Nat /\ DOMAIN s = 1..Len(s) /\ \A i \in DOMAIN s : s[i] \in rows
        /\ DOMAIN found = 1..Len(found) /\ DOMAIN items = 1..Len(items)
        /\ Len(found) \in Nat /\ Len(items) \in Nat
    BY <1>3, <1>4, <1>7, SeqFacts DEF Ordered
  <1>9. \A r \in rows : r \in Nat /\ r # NoMessage
    BY MessagesNumbered
  <1>10. \A i \in DOMAIN items : i \in DOMAIN s /\ items[i] = s[i]
    BY <1>4, <1>7
  <1>11. CASE Len(found) > L
    <2>1. Len(items) = L /\ L \in DOMAIN items /\ L \in DOMAIN found /\ L \in DOMAIN s
      <3>1. Len(items) = L /\ L \in 1..L /\ L \in 1..Len(found)
        BY <1>1, <1>7, <1>8, <1>11
      <3> QED BY <1>4, <1>8, <3>1
    <2>2. next = s[L] /\ next \in rows /\ next # NoMessage
      BY <1>4, <1>6, <1>8, <1>9, <1>11, <2>1
    <2>3. Holds(items, next)
      BY <1>10, <2>1, <2>2 DEF Holds
    <2>4. \A i \in DOMAIN items : items[i] >= next
      <3> TAKE i \in DOMAIN items
      <3>1. i = L \/ i < L
        BY <1>1, <1>8, <2>1
      <3>2. i < L => s[i] > s[L]
        BY <1>3, <1>10, <2>1 DEF Ordered
      <3>3. items[i] = s[i] /\ s[i] \in Nat /\ s[L] \in Nat
        BY <1>8, <1>9, <1>10, <2>1
      <3> QED BY <2>2, <3>1, <3>2, <3>3
    <2>5. ASSUME NEW r \in rows, Holds(s, r)
          PROVE  Holds(items, r) \/ r < next
      <3>1. PICK i \in DOMAIN s : s[i] = r
        BY <2>5 DEF Holds
      <3>2. CASE i <= L
        <4>1. i \in DOMAIN items
          BY <1>8, <2>1, <3>1, <3>2
        <4> QED BY <1>10, <3>1, <4>1 DEF Holds
      <3>3. CASE L < i
        <4>1. s[L] > s[i]
          BY <1>3, <2>1, <3>1, <3>3 DEF Ordered
        <4> QED BY <1>9, <2>2, <3>1, <4>1
      <3> QED BY <1>1, <1>8, <3>1, <3>2, <3>3
    <2> QED BY <1>3, <1>7, <1>10, <2>2, <2>3, <2>4, <2>5 DEF items, next
  <1>12. CASE ~(Len(found) > L)
    <2>1. next = NoMessage
      BY <1>6, <1>12
    <2>2. Len(found) = Len(s) /\ Len(items) = Len(s)
      <3>1. Len(s) < L + 1
        BY <1>1, <1>4, <1>12
      <3>2. Len(found) = Len(s)
        BY <1>4, <3>1
      <3>3. Len(items) = IF Len(found) < L THEN Len(found) ELSE L
        BY <1>7
      <3>4. Len(found) \in Nat /\ L \in Nat
        BY <1>1, <1>8
      <3>5. Len(items) = Len(found)
        BY <1>12, <3>3, <3>4
      <3> QED BY <3>2, <3>5
    <2>3. ASSUME NEW r \in rows, Holds(s, r)
          PROVE  Holds(items, r)
      <3>1. PICK i \in DOMAIN s : s[i] = r
        BY <2>3 DEF Holds
      <3>2. i \in DOMAIN items
        BY <1>8, <2>2, <3>1
      <3> QED BY <1>10, <3>1, <3>2 DEF Holds
    <2> QED BY <1>3, <1>7, <1>10, <2>1, <2>3 DEF items, next
  <1> QED BY <1>11, <1>12

-----------------------------------------------------------------------------
(* A history that is paged through: the types *)

ReqOK ==
    /\ req \in [Workers -> Request]
    /\ \A w \in Workers : req[w].pc = "follow" => req[w].user \in Users /\ req[w].other \in Users

LEMMA GotoTyped ==
  ASSUME ReqOK, NEW w \in Workers, NEW label \in Steps \ {"follow", "page"}, Goto(w, label)
  PROVE  ReqOK' /\ \A v \in Workers : req'[v].pc = "page" => req'[v] = req[v]
  <1> DEFINE r == [req[w] EXCEPT !.pc = label]
  <1>1. r \in Request /\ r.pc = label
    BY DEF ReqOK, Request
  <1>2. req' = [req EXCEPT ![w] = r] /\ req \in [Workers -> Request]
    BY DEF Goto, ReqOK
  <1> HIDE DEF r
  <1>3. req' \in [Workers -> Request] /\ req'[w] = r /\ \A v \in Workers : v # w => req'[v] = req[v]
    BY <1>1, <1>2
  <1> QED BY <1>1, <1>3 DEF ReqOK

LEMMA RespondTyped ==
  ASSUME ReqOK, NEW w \in Workers, Respond(w)
  PROVE  ReqOK' /\ \A v \in Workers : req'[v].pc = "page" => req'[v] = req[v]
  <1>1. Idle \in Request /\ Idle.pc = "idle"
    BY DEF Idle, Request, Steps
  <1>2. req' = [req EXCEPT ![w] = Idle] /\ req \in [Workers -> Request]
    BY DEF Respond, ReqOK
  <1>3. req' \in [Workers -> Request] /\ req'[w] = Idle /\ \A v \in Workers : v # w => req'[v] = req[v]
    BY <1>1, <1>2
  <1> QED BY <1>1, <1>3 DEF ReqOK

LEMMA BeginTyped ==
  ASSUME ReqOK, NEW w \in Workers, NEW op, NEW label \in Steps,
         NEW u \in Users \cup {NoUser}, NEW v \in Users \cup {NoUser},
         NEW c \in Conversations \cup {NoConversation}, NEW m \in Messages \cup {NoMessage},
         label = "follow" => u \in Users /\ v \in Users,
         Begin(w, op, label, u, v, c, m)
  PROVE  /\ ReqOK' /\ \A x \in Workers : x # w => req'[x] = req[x]
         /\ req'[w].pc = label /\ req'[w].conversation = c /\ req'[w].message = m
  <1> DEFINE r == [pc |-> label, user |-> u, other |-> v, conversation |-> c, message |-> m]
  <1>1. /\ r \in Request /\ r.pc = label /\ r.user = u /\ r.other = v
        /\ r.conversation = c /\ r.message = m
    BY DEF Request
  <1>2. req' = [req EXCEPT ![w] = r] /\ req \in [Workers -> Request]
    BY DEF Begin, ReqOK
  <1> HIDE DEF r
  <1>3. req' \in [Workers -> Request] /\ req'[w] = r /\ \A x \in Workers : x # w => req'[x] = req[x]
    BY <1>1, <1>2
  <1> QED BY <1>1, <1>3 DEF ReqOK

\* Which steps keep the types: each sends its request on, ends it or begins one.
LEMMA RestStays ==
  ASSUME RestOK, Witness, ReqOK', walk' \in Walk, mix' = mix,
         block' \subseteq Quarrels, follow' \subseteq Users \X Users, active' \subseteq Users,
         broadcast' \subseteq Messages, old' \subseteq Messages, faults' \subseteq Request
  PROVE  RestOK'
  <1>1. met' \in [Workers -> SUBSET Facts]
    <2>1. \A w \in Workers : met[w] \cup Observed(req'[w]) \in SUBSET Facts
      BY DEF RestOK, Observed
    <2> QED BY <2>1 DEF Witness
  <1> QED BY <1>1 DEF RestOK, ReqOK

\* A client at a page is somebody.
LEMMA WalkingIs ==
  ASSUME HInv
  PROVE  Walking <=> walk.reader \in Users /\ ~walk.ended
  BY NoUserIsNone DEF HInv, Walking, NoWalk

LEMMA WalkFields ==
  ASSUME walk \in Walk
  PROVE  walk = [reader |-> walk.reader, conversation |-> walk.conversation,
                 cursor |-> walk.cursor, shown |-> walk.shown, there |-> walk.there,
                 torn |-> walk.torn, ended |-> walk.ended]
  BY DEF Walk

\* Steps that leave the walk, the messages and the pages that are asked for alone.
SameWalk ==
    /\ walk' = walk /\ message' = message
    /\ \A v \in Workers : req'[v].pc = "page" => req'[v] = req[v]

\* What can be seen of a conversation among these rows.
SeenAmong(rows, c) == {m \in Messages : /\ rows[m] # NoMessage /\ rows[m].conversation = c
                                       /\ ~rows[m].deleted}

LEMMA VisibleIs ==
  /\ \A c : Visible(c) = SeenAmong(message, c)
  /\ ThereStill <=> (Walking =>
        /\ walk.there \subseteq SeenAmong(message, walk.conversation)
        /\ ~walk.torn /\ walk.cursor # NoMessage
              => walk.cursor \in SeenAmong(message, walk.conversation))
  <1>1. \A c : Visible(c) = SeenAmong(message, c)
    BY DEF Visible, In, SeenAmong
  <1> QED BY <1>1 DEF ThereStill

LEMMA VisibleIsNext ==
  ThereStill' <=> (Walking' =>
        /\ walk'.there \subseteq SeenAmong(message', walk'.conversation)
        /\ ~walk'.torn /\ walk'.cursor # NoMessage
              => walk'.cursor \in SeenAmong(message', walk'.conversation))
  <1>1. Visible(walk.conversation)' = SeenAmong(message', walk'.conversation)
    BY DEF Visible, In, SeenAmong
  <1> QED BY <1>1 DEF ThereStill

\* Steps after which no message is missing from its conversation.
MoreToSee ==
    /\ walk' = walk /\ IsFiniteSet(Sent')
    /\ \A c : SeenAmong(message, c) \subseteq SeenAmong(message', c)
    /\ \A v \in Workers : req'[v].pc = "page" => req'[v] = req[v]

LEMMA MoreStays ==
  ASSUME HInv, MoreToSee, RestOK'
  PROVE  HInv'
  <1>1. walk' = walk /\ (Walking' <=> Walking)
    BY DEF MoreToSee, Walking
  <1>2. OnePage'
    BY <1>1 DEF HInv, OnePage, MoreToSee
  <1>3. ShownSoFar'
    BY <1>1 DEF HInv, ShownSoFar, Shown
  <1>4. ThereStill'
    <2>1. Walking =>
             /\ walk.there \subseteq SeenAmong(message, walk.conversation)
             /\ ~walk.torn /\ walk.cursor # NoMessage
                   => walk.cursor \in SeenAmong(message, walk.conversation)
      BY VisibleIs DEF HInv
    <2>2. SeenAmong(message, walk.conversation) \subseteq SeenAmong(message', walk.conversation)
      BY DEF MoreToSee
    <2> QED BY <1>1, <2>1, <2>2, VisibleIsNext
  <1>5. (walk # NoWalk => walk.reader \in Users)'
    BY <1>1 DEF HInv
  <1> QED BY <1>2, <1>3, <1>4, <1>5 DEF HInv, MoreToSee

LEMMA SameWalkStays ==
  ASSUME HInv, SameWalk, RestOK'
  PROVE  HInv'
  <1>1. MoreToSee
    BY DEF HInv, SameWalk, MoreToSee, Sent
  <1> QED BY <1>1, MoreStays

-----------------------------------------------------------------------------
(* A history that is paged through: the steps *)

LEMMA RestIs ==
  ASSUME RestOK
  PROVE  /\ ReqOK /\ walk \in Walk /\ block \subseteq Quarrels /\ follow \subseteq Users \X Users
         /\ active \subseteq Users /\ broadcast \subseteq Messages /\ old \subseteq Messages
         /\ faults \subseteq Request
  BY DEF RestOK, ReqOK

\* Requests that are about something else.
LEMMA OthersBegin ==
  ASSUME MInv, HInv, Witness, UNCHANGED faults, NEW w \in Workers,
         \/ \E u, v \in Users : StartConversation(w, u, v) \/ Follow(w, u, v)
         \/ \E u \in Users, c \in Conversations : SendMessage(w, u, c) \/ MarkRead(w, u, c)
         \/ \E u \in Users, m \in Messages : DeleteForEveryone(w, u, m)
  PROVE  HInv'
  <1>1. RestOK /\ ReqOK
    BY RestIs DEF HInv
  <1>2. UNCHANGED <<db, rest>>
    BY DEF StartConversation, Follow, SendMessage, MarkRead, DeleteForEveryone
  <1>3. ReqOK' /\ \A x \in Workers : req'[x].pc = "page" => req'[x] = req[x]
    <2>1. CASE \E u, v \in Users : StartConversation(w, u, v) \/ Follow(w, u, v)
      BY <1>1, <2>1, BeginTyped DEF StartConversation, Follow, Steps
    <2>2. CASE \E u \in Users, c \in Conversations : SendMessage(w, u, c)
      <3>1. PICK u \in Users, c \in Conversations : SendMessage(w, u, c)
        BY <2>2
      <3>2. PICK v \in conversation[c] : Begin(w, "send", "check", u, v, c, NoMessage)
        BY <3>1 DEF SendMessage
      <3>3. v \in Users
        BY DEF MInv, CoreOK
      <3> QED BY <1>1, <3>2, <3>3, BeginTyped DEF Steps
    <2>3. CASE \E u \in Users, c \in Conversations : MarkRead(w, u, c)
      BY <1>1, <2>3, BeginTyped DEF MarkRead, Steps
    <2>4. CASE \E u \in Users, m \in Messages : DeleteForEveryone(w, u, m)
      BY <1>1, <2>4, BeginTyped DEF DeleteForEveryone, Steps
    <2> QED BY <2>1, <2>2, <2>3, <2>4
  <1>4. SameWalk
    BY <1>2, <1>3 DEF SameWalk, db, rest
  <1>5. RestOK'
    BY <1>1, <1>2, <1>3, RestIs, RestStays DEF db, rest
  <1> QED BY <1>4, <1>5, SameWalkStays

LEMMA QuietContinues ==
  ASSUME MInv, HInv, Witness, UNCHANGED faults, NEW w \in Workers,
         \/ FindRecipient(w) \/ FindConversation(w) \/ CheckBlock(w) \/ RefuseMedia(w)
         \/ \E c \in Conversations : CreateConversation(w, c)
         \/ Notify(w) \/ EmitNewMessage(w) \/ TouchLastRead(w) \/ WriteFollow(w)
  PROVE  HInv'
  <1>1. RestOK /\ ReqOK /\ PairOK(w)
    BY RestIs DEF HInv, MInv, RequestsOK
  <1>2. UNCHANGED <<block, active, message, old, walk, mix>>
    BY DEF FindRecipient, FindConversation, CheckBlock, RefuseMedia, CreateConversation, Notify,
           EmitNewMessage, TouchLastRead, WriteFollow, db, rest
  <1>3. Respond(w) \/ \E label \in Steps \ {"follow", "page"} : Goto(w, label)
    <2>1. {"find", "create", "insert", "emit", "see"} \subseteq Steps \ {"follow", "page"}
      BY DEF Steps
    <2> QED BY <2>1 DEF FindRecipient, FindConversation, CheckBlock, RefuseMedia,
           CreateConversation, Notify, EmitNewMessage, TouchLastRead, WriteFollow
  <1>4. ReqOK' /\ \A v \in Workers : req'[v].pc = "page" => req'[v] = req[v]
    BY <1>1, <1>3, GotoTyped, RespondTyped
  <1>5. follow' \subseteq Users \X Users
    <2>1. CASE WriteFollow(w)
      BY <1>1, <2>1, RestIs DEF WriteFollow, ReqOK
    <2>2. CASE follow' = follow
      BY <1>1, <2>2, RestIs
    <2> QED BY <2>1, <2>2 DEF FindRecipient, FindConversation, CheckBlock, RefuseMedia,
                              CreateConversation, Notify, EmitNewMessage, TouchLastRead, db
  <1>6. broadcast' \subseteq Messages
    <2>1. CASE EmitNewMessage(w)
      BY <1>1, <2>1, RestIs DEF EmitNewMessage, PairOK
    <2>2. CASE broadcast' = broadcast
      BY <1>1, <2>2, RestIs
    <2> QED BY <2>1, <2>2 DEF FindRecipient, FindConversation, CheckBlock, RefuseMedia,
                              CreateConversation, Notify, TouchLastRead, WriteFollow, rest
  <1>7. SameWalk
    BY <1>2, <1>4 DEF SameWalk
  <1>8. RestOK'
    BY <1>1, <1>2, <1>4, <1>5, <1>6, RestIs, RestStays
  <1> QED BY <1>7, <1>8, SameWalkStays

LEMMA OthersQuiet ==
  ASSUME MInv, HInv, Witness, UNCHANGED faults, Others
  PROVE  HInv'
  <1>1. RestOK /\ ReqOK
    BY RestIs DEF HInv
  <1>2. UNCHANGED <<message, broadcast, req, walk, mix>>
    BY DEF Others, BlockUser, UnblockUser, SetUserStatus, Unfollow, GrowOld, rest
  <1>3. ReqOK'
    BY <1>1, <1>2 DEF ReqOK
  <1>4. /\ block' \subseteq Quarrels /\ follow' \subseteq Users \X Users /\ active' \subseteq Users
        /\ old' \subseteq Messages
    <2>1. CASE \E p \in Quarrels : BlockUser(p) \/ UnblockUser(p)
      BY <1>1, <2>1, RestIs DEF BlockUser, UnblockUser
    <2>2. CASE \E u \in Suspects : SetUserStatus(u)
      BY <1>1, <2>2, RestIs, SuspectsAreUsers DEF SetUserStatus
    <2>3. CASE \E u, v \in Users : Unfollow(u, v)
      BY <1>1, <2>3, RestIs DEF Unfollow
    <2>4. CASE \E m \in Messages : GrowOld(m)
      BY <1>1, <2>4, RestIs DEF GrowOld
    <2> QED BY <2>1, <2>2, <2>3, <2>4 DEF Others
  <1>5. SameWalk
    BY <1>2 DEF SameWalk
  <1>6. RestOK'
    BY <1>1, <1>2, <1>3, <1>4, RestIs, RestStays
  <1> QED BY <1>5, <1>6, SameWalkStays

LEMMA FailQuiet ==
  ASSUME HInv, Witness, NEW w \in Workers, Fail(w)
  PROVE  HInv'
  <1>1. RestOK /\ ReqOK
    BY RestIs DEF HInv
  <1>2. UNCHANGED <<db, rest>> /\ faults' \subseteq Request
    <2>1. faults \subseteq Request /\ req[w] \in Request
      BY <1>1, RestIs DEF ReqOK
    <2> QED BY <2>1 DEF Fail
  <1>3. ReqOK' /\ \A v \in Workers : req'[v].pc = "page" => req'[v] = req[v]
    <2>1. "emit" \in Steps \ {"follow", "page"}
      BY DEF Steps
    <2> QED BY <1>1, <2>1, GotoTyped, RespondTyped DEF Fail
  <1>4. SameWalk
    BY <1>2, <1>3 DEF SameWalk, db, rest
  <1>5. RestOK'
    BY <1>1, <1>2, <1>3, RestIs, RestStays DEF db, rest
  <1> QED BY <1>4, <1>5, SameWalkStays

\* A new message joins those that are to be seen.
LEMMA InsertShows ==
  ASSUME MInv, HInv, Witness, UNCHANGED faults, NEW w \in Workers, NEW m \in Messages,
         InsertMessage(w, m)
  PROVE  HInv'
  <1>1. RestOK /\ ReqOK
    BY RestIs DEF HInv
  <1>2. /\ message[m] = NoMessage /\ UNCHANGED <<block, follow, active, old, rest>>
        /\ \A k \in Messages : k # m => message'[k] = message[k]
    BY DEF InsertMessage, MInv, CoreOK
  <1>3. ReqOK' /\ \A v \in Workers : req'[v].pc = "page" => req'[v] = req[v]
    <2> DEFINE r == [req[w] EXCEPT !.pc = "notify", !.message = m]
    <2>1. r \in Request /\ r.pc = "notify"
      BY <1>1 DEF ReqOK, Request, Steps
    <2>2. req' = [req EXCEPT ![w] = r] /\ req \in [Workers -> Request]
      BY <1>1 DEF InsertMessage, ReqOK
    <2> HIDE DEF r
    <2>3. req' \in [Workers -> Request] /\ req'[w] = r /\ \A v \in Workers : v # w => req'[v] = req[v]
      BY <2>1, <2>2
    <2> QED BY <1>1, <2>1, <2>3 DEF ReqOK
  <1>4. IsFiniteSet(Sent')
    <2>1. IsFiniteSet(Sent \cup {m})
      BY FS_AddElement DEF HInv
    <2>2. Sent' \in SUBSET (Sent \cup {m})
      BY <1>2 DEF Sent
    <2> QED BY <2>1, <2>2, FS_Subset
  <1>5. \A c : SeenAmong(message, c) \subseteq SeenAmong(message', c)
    BY <1>2 DEF SeenAmong
  <1>6. MoreToSee
    BY <1>2, <1>3, <1>4, <1>5 DEF MoreToSee, rest
  <1>7. RestOK'
    BY <1>1, <1>2, <1>3, RestIs, RestStays DEF rest
  <1> QED BY <1>6, <1>7, MoreStays

LEMMA MarkSeenShows ==
  ASSUME MInv, HInv, Witness, UNCHANGED faults, NEW w \in Workers, MarkSeen(w)
  PROVE  HInv'
  <1>1. RestOK /\ ReqOK
    BY RestIs DEF HInv
  <1>2. UNCHANGED <<block, follow, active, old, rest>> /\ Respond(w)
    BY DEF MarkSeen
  <1>3. ReqOK' /\ \A v \in Workers : req'[v].pc = "page" => req'[v] = req[v]
    BY <1>1, <1>2, RespondTyped
  <1> DEFINE marked == Unseen(req[w].conversation, req[w].user)
  <1>4. \A m \in marked : m \in Messages /\ message[m] \in Row /\ message[m] # NoMessage
    BY DEF Unseen, In, MInv, CoreOK
  <1>5. \A m \in Messages : message'[m] = IF m \in marked THEN [message[m] EXCEPT !.seen = TRUE]
                                           ELSE message[m]
    BY DEF MarkSeen
  <1> HIDE DEF marked
  <1>6. ASSUME NEW m \in Messages
        PROVE  /\ message'[m] # NoMessage => message[m] # NoMessage
               /\ message[m] # NoMessage => /\ message'[m] # NoMessage
                                            /\ message'[m].conversation = message[m].conversation
                                            /\ message'[m].deleted = message[m].deleted
    <2>1. CASE m \in marked
      <3>1. message'[m] = [message[m] EXCEPT !.seen = TRUE] /\ message[m] \in Row
        BY <1>4, <1>5, <2>1
      <3>2. message'[m] \in Row /\ message'[m].conversation = message[m].conversation
            /\ message'[m].deleted = message[m].deleted
        BY <3>1 DEF Row
      <3> QED BY <1>4, <2>1, <3>2, RowsDiffer
    <2>2. CASE m \notin marked
      BY <1>5, <2>2
    <2> QED BY <2>1, <2>2
  <1>7. IsFiniteSet(Sent')
    <2>1. Sent' \in SUBSET Sent
      BY <1>6 DEF Sent
    <2> QED BY <2>1, FS_Subset DEF HInv
  <1>8. \A c : SeenAmong(message, c) \subseteq SeenAmong(message', c)
    BY <1>6 DEF SeenAmong
  <1>9. MoreToSee
    BY <1>2, <1>3, <1>7, <1>8 DEF MoreToSee, rest
  <1>10. RestOK'
    BY <1>1, <1>2, <1>3, RestIs, RestStays DEF rest
  <1> QED BY <1>9, <1>10, MoreStays

\* A message that is erased is one that has not been there all the while.
LEMMA EraseTears ==
  ASSUME MInv, HInv, Witness, UNCHANGED faults, NEW w \in Workers, EraseMessage(w)
  PROVE  HInv'
  <1> DEFINE n == req[w].message
             keep == [walk EXCEPT !.there = @ \ {n}, !.torn = @ \/ walk.cursor = n]
  <1>1. /\ RestOK /\ ReqOK /\ walk \in Walk /\ (walk # NoWalk => walk.reader \in Users)
        /\ OnePage /\ ShownSoFar /\ ThereStill /\ IsFiniteSet(Sent)
    BY RestIs DEF HInv
  <1>2. /\ UNCHANGED <<block, follow, active, old, broadcast, mix>> /\ Respond(w)
        /\ walk' = IF ~Walking THEN walk ELSE keep
    BY DEF EraseMessage
  <1>3. ReqOK' /\ \A v \in Workers : req'[v].pc = "page" => req'[v] = req[v]
    BY <1>1, <1>2, RespondTyped
  <1>4. n \in Messages /\ message[n] \in Row /\ message[n] # NoMessage
    BY DEF EraseMessage, MInv, CoreOK, RequestsOK, PairOK
  <1>5. /\ message'[n] = [message[n] EXCEPT !.deleted = TRUE]
        /\ \A m \in Messages : m # n => message'[m] = message[m]
    BY <1>4 DEF EraseMessage, MInv, CoreOK
  <1>6. /\ keep.reader = walk.reader /\ keep.conversation = walk.conversation
        /\ keep.cursor = walk.cursor /\ keep.shown = walk.shown /\ keep.ended = walk.ended
        /\ keep.there = walk.there \ {n} /\ keep.torn = (walk.torn \/ walk.cursor = n)
        /\ keep \in Walk
    BY <1>1, WalkFields DEF Walk
  <1> HIDE DEF n, keep
  <1>7. /\ walk'.reader = walk.reader /\ walk'.conversation = walk.conversation
        /\ walk'.cursor = walk.cursor /\ walk'.shown = walk.shown /\ walk'.ended = walk.ended
        /\ walk'.there \subseteq walk.there /\ (~walk'.torn => ~walk.torn) /\ walk' \in Walk
    BY <1>1, <1>2, <1>6
  <1>8. Walking' <=> Walking
    <2>1. CASE Walking
      BY <1>1, <1>7, <2>1, NoUserIsNone DEF Walking, NoWalk
    <2>2. CASE ~Walking
      BY <1>2, <2>2 DEF Walking
    <2> QED BY <2>1, <2>2
  <1>9. IsFiniteSet(Sent')
    <2>1. Sent' \in SUBSET Sent
      BY <1>4, <1>5 DEF Sent
    <2> QED BY <1>1, <2>1, FS_Subset
  <1>10. RestOK'
    BY <1>1, <1>2, <1>3, <1>7, RestIs, RestStays
  <1>11. OnePage'
    BY <1>1, <1>3, <1>7, <1>8 DEF OnePage
  <1>12. ShownSoFar'
    <2>1. Shown' = Shown
      BY <1>7 DEF Shown
    <2> QED BY <1>1, <1>7, <2>1 DEF ShownSoFar
  <1>13. ThereStill'
    <2> SUFFICES ASSUME Walking'
                 PROVE  /\ walk'.there \subseteq SeenAmong(message', walk'.conversation)
                        /\ ~walk'.torn /\ walk'.cursor # NoMessage
                              => walk'.cursor \in SeenAmong(message', walk'.conversation)
      BY VisibleIsNext
    <2>1. walk' = keep /\ Walking
      BY <1>2, <1>8
    <2>2. /\ walk.there \subseteq SeenAmong(message, walk.conversation)
          /\ ~walk.torn /\ walk.cursor # NoMessage
                => walk.cursor \in SeenAmong(message, walk.conversation)
      BY <1>1, <2>1, VisibleIs
    <2>3. \A m \in SeenAmong(message, walk.conversation) :
              m # n => m \in SeenAmong(message', walk.conversation)
      BY <1>5 DEF SeenAmong
    <2> QED BY <1>6, <2>1, <2>2, <2>3
  <1>14. (walk # NoWalk => walk.reader \in Users)'
    BY <1>1, <1>2, <1>7 DEF Walking
  <1> QED BY <1>9, <1>10, <1>11, <1>12, <1>13, <1>14 DEF HInv

\* The first page is asked for: nothing has been shown, and nothing is missing.
LEMMA OpenHistoryWalks ==
  ASSUME MInv, HInv, Witness, UNCHANGED faults, NEW w \in Workers,
         NEW u \in Users, NEW c \in Conversations, OpenHistory(w, u, c)
  PROVE  HInv'
  <1>1. /\ RestOK /\ ReqOK /\ OnePage /\ IsFiniteSet(Sent)
    BY RestIs DEF HInv
  <1>2. /\ UNCHANGED <<db, broadcast, mix>> /\ walk = NoWalk
        /\ Begin(w, "history", "page", u, NoUser, c, NoMessage)
        /\ walk' = [NoWalk EXCEPT !.reader = u, !.conversation = c, !.there = Visible(c)]
    BY DEF OpenHistory
  <1>3. /\ ReqOK' /\ \A x \in Workers : x # w => req'[x] = req[x]
        /\ req'[w].pc = "page" /\ req'[w].conversation = c /\ req'[w].message = NoMessage
    <2>1. "page" \in Steps
      BY DEF Steps
    <2> HIDE DEF Steps
    <2> QED BY <1>1, <1>2, <2>1, BeginTyped
  <1>4. \A v \in Workers : req[v].pc # "page"
    BY <1>1, <1>2 DEF OnePage, Walking
  <1>5. Visible(c) \subseteq Messages /\ SeenAmong(message', c) = Visible(c)
    BY <1>2 DEF Visible, In, SeenAmong, db
  <1>6. /\ walk' = [reader |-> u, conversation |-> c, cursor |-> NoMessage, shown |-> <<>>,
                    there |-> Visible(c), torn |-> FALSE, ended |-> FALSE]
    BY <1>2 DEF NoWalk
  <1>7. /\ walk'.reader = u /\ walk'.conversation = c /\ walk'.cursor = NoMessage
        /\ walk'.shown = <<>> /\ walk'.there = Visible(c) /\ ~walk'.torn /\ ~walk'.ended
    BY <1>6
  <1>8. walk' \in Walk
    BY <1>5, <1>6 DEF Walk
  <1>9. Walking'
    BY <1>7, NoUserIsNone DEF Walking, NoWalk
  <1>10. RestOK'
    BY <1>1, <1>2, <1>3, <1>8, RestIs, RestStays DEF db
  <1>11. IsFiniteSet(Sent')
    BY <1>1, <1>2 DEF Sent, db
  <1>12. OnePage'
    BY <1>3, <1>4, <1>7, <1>9 DEF OnePage
  <1>13. ShownSoFar'
    BY <1>7, EmptySeq DEF ShownSoFar
  <1>14. ThereStill'
    BY <1>5, <1>7, VisibleIsNext
  <1> QED BY <1>7, <1>10, <1>11, <1>12, <1>13, <1>14 DEF HInv

\* The next page is asked for, or the same once more.
LEMMA NextPageWalks ==
  ASSUME MInv, HInv, Witness, UNCHANGED faults, NEW w \in Workers, NextPage(w)
  PROVE  HInv'
  <1>1. /\ RestOK /\ ReqOK /\ walk \in Walk /\ ShownSoFar /\ ThereStill /\ IsFiniteSet(Sent)
        /\ (walk # NoWalk => walk.reader \in Users)
    BY RestIs DEF HInv
  <1>2. /\ UNCHANGED <<db, rest>> /\ Walking /\ \A v \in Workers : req[v].pc # "page"
        /\ Begin(w, "history", "page", walk.reader, NoUser, walk.conversation, walk.cursor)
    BY DEF NextPage
  <1> DEFINE u == walk.reader
             c == walk.conversation
             m == walk.cursor
  <1>3. /\ ReqOK' /\ \A x \in Workers : x # w => req'[x] = req[x]
        /\ req'[w].pc = "page" /\ req'[w].conversation = c /\ req'[w].message = m
    <2>1. "page" \in Steps
      BY DEF Steps
    <2>2. /\ u \in Users \cup {NoUser} /\ NoUser \in Users \cup {NoUser}
          /\ c \in Conversations \cup {NoConversation} /\ m \in Messages \cup {NoMessage}
      BY <1>1 DEF Walk
    <2>3. Begin(w, "history", "page", u, NoUser, c, m)
      BY <1>2
    <2> HIDE DEF u, c, m
    <2> QED BY <1>1, <2>1, <2>2, <2>3, BeginTyped
  <1>4. walk' = walk /\ message' = message /\ Walking'
    BY <1>2 DEF db, rest, Walking
  <1>5. RestOK'
    BY <1>1, <1>2, <1>3, RestIs, RestStays DEF db, rest
  <1>6. IsFiniteSet(Sent')
    BY <1>1, <1>4 DEF Sent
  <1>7. OnePage'
    BY <1>2, <1>3, <1>4 DEF OnePage
  <1>8. ShownSoFar'
    BY <1>1, <1>4 DEF ShownSoFar, Shown
  <1>9. ThereStill'
    BY <1>1, <1>2, <1>4, VisibleIs, VisibleIsNext
  <1> QED BY <1>1, <1>4, <1>5, <1>6, <1>7, <1>8, <1>9 DEF HInv

\* A page is shown: it goes on where the last one ended, and leaves nothing out.
LEMMA ReadPageShows ==
  ASSUME MInv, HInv, Witness, UNCHANGED faults, NEW w \in Workers, ReadPage(w)
  PROVE  HInv'
  <1> DEFINE rows == Visible(walk.conversation)
  <1>1. /\ RestOK /\ ReqOK /\ walk \in Walk /\ OnePage /\ ShownSoFar /\ ThereStill
        /\ IsFiniteSet(Sent) /\ (walk # NoWalk => walk.reader \in Users)
    BY RestIs DEF HInv
  <1>2. /\ req[w].pc = "page" /\ UNCHANGED <<db, broadcast, mix>> /\ Respond(w)
    BY DEF ReadPage
  <1>3. /\ Walking /\ req[w].conversation = walk.conversation /\ req[w].message = walk.cursor
        /\ \A v \in Workers : req[v].pc = "page" => v = w
    BY <1>1, <1>2 DEF OnePage
  <1>4. PICK found \in CursorQuery(rows, walk.cursor, Take) :
           walk' = [walk EXCEPT !.shown  = @ \o Items(found, Take),
                                !.cursor = NextCursor(found, Take),
                                !.ended  = NextCursor(found, Take) = NoMessage]
    BY <1>3 DEF ReadPage
  <1> DEFINE items == Items(found, Take)
             next  == NextCursor(found, Take)
  <1>5. /\ rows \in SUBSET Messages /\ IsFiniteSet(rows)
        /\ \A r \in rows : r \in Nat /\ r # NoMessage
    <2>1. rows \in SUBSET Sent /\ rows \in SUBSET Messages
      BY DEF Visible, In, Sent
    <2> QED BY <1>1, <2>1, FS_Subset, MessagesNumbered
  <1>6. walk.cursor \in Messages \cup {NoMessage} /\ walk.shown \in Seq(Messages)
    BY <1>1 DEF Walk
  <1>7. /\ Ordered(items, rows) /\ next \in rows \cup {NoMessage}
        /\ walk.cursor # NoMessage => \A i \in DOMAIN items : items[i] < walk.cursor
        /\ next # NoMessage => Holds(items, next) /\ \A i \in DOMAIN items : items[i] >= next
        /\ walk.cursor = NoMessage \/ walk.cursor \in rows =>
              \A r \in rows : (walk.cursor # NoMessage => r < walk.cursor)
                              => Holds(items, r) \/ (next # NoMessage /\ r < next)
    <2> HIDE DEF rows
    <2> QED BY <1>4, <1>5, <1>6, PageFacts
  <1>8. walk' = [walk EXCEPT !.shown = @ \o items, !.cursor = next, !.ended = (next = NoMessage)]
    BY <1>4
  <1>9. /\ walk'.shown = walk.shown \o items /\ walk'.cursor = next
        /\ walk'.ended = (next = NoMessage) /\ walk'.reader = walk.reader
        /\ walk'.conversation = walk.conversation
        /\ walk'.there = walk.there /\ walk'.torn = walk.torn
    <2> HIDE DEF items, next
    <2> QED BY <1>1, <1>8, WalkFields
  <1> HIDE DEF rows, items, next
  <1>10. /\ Ordered(walk.shown, Messages) /\ Ordered(items, Messages)
         /\ \A i \in DOMAIN items : items[i] \in rows
    BY <1>1, <1>5, <1>6, <1>7, SeqFacts DEF Ordered, ShownSoFar
  <1>11. \A i \in DOMAIN walk.shown, j \in DOMAIN items : walk.shown[i] > items[j]
    <2>1. CASE walk.cursor = NoMessage
      BY <1>1, <1>3, <2>1, EmptySeq DEF ShownSoFar, Walking
    <2>2. CASE walk.cursor # NoMessage
      <3> TAKE i \in DOMAIN walk.shown, j \in DOMAIN items
      <3>1. walk.shown[i] >= walk.cursor
        BY <1>1, <2>2 DEF ShownSoFar, Shown
      <3>2. walk.cursor \in Nat /\ walk.shown[i] \in Nat /\ items[j] \in Nat
        BY <1>5, <1>6, <1>10, <2>2, SeqFacts, MessagesNumbered
      <3> QED BY <1>7, <2>2, <3>1, <3>2
    <2> QED BY <2>1, <2>2
  <1>12. /\ Ordered(walk'.shown, Messages)
         /\ \A r : Holds(walk'.shown, r) <=> Holds(walk.shown, r) \/ Holds(items, r)
    <2>1. /\ Ordered(walk.shown \o items, Messages)
          /\ \A r : Holds(walk.shown \o items, r) <=> Holds(walk.shown, r) \/ Holds(items, r)
      BY <1>10, <1>11, JoinFacts
    <2> QED BY <1>9, <2>1
  <1>13. walk' \in Walk
    <2>1. next \in Messages \cup {NoMessage} /\ walk'.ended \in BOOLEAN
      BY <1>5, <1>7, <1>9
    <2>2. walk'.shown \in Seq(Messages)
      BY <1>12 DEF Ordered
    <2>3. walk' = [reader |-> walk.reader, conversation |-> walk.conversation,
                   cursor |-> next, shown |-> walk'.shown, there |-> walk.there,
                   torn |-> walk.torn, ended |-> walk'.ended]
      BY <1>1, <1>8, <1>9, WalkFields
    <2>4. /\ walk.reader \in Users \cup {NoUser}
          /\ walk.conversation \in Conversations \cup {NoConversation}
          /\ walk.there \in SUBSET Messages /\ walk.torn \in BOOLEAN
      BY <1>1 DEF Walk
    <2> QED BY <2>1, <2>2, <2>3, <2>4 DEF Walk
  <1>14. ReqOK' /\ \A v \in Workers : req'[v].pc # "page"
    <2>1. ReqOK' /\ \A v \in Workers : req'[v].pc = "page" => req'[v] = req[v]
      BY <1>1, <1>2, RespondTyped
    <2>2. req'[w].pc # "page"
      BY <1>1, <1>2 DEF Respond, ReqOK, Idle
    <2> QED BY <1>3, <2>1, <2>2
  <1>15. RestOK'
    BY <1>1, <1>2, <1>13, <1>14, RestIs, RestStays DEF db
  <1>16. IsFiniteSet(Sent') /\ message' = message
    BY <1>1, <1>2 DEF Sent, db
  <1>17. \A r : r \in Shown' <=> Holds(walk'.shown, r)
    BY DEF Shown, Holds
  <1>18. \A r : r \in Shown <=> Holds(walk.shown, r)
    BY DEF Shown, Holds
  <1>19. ShownSoFar'
    <2>1. \A i, j \in DOMAIN walk'.shown : i < j => walk'.shown[i] > walk'.shown[j]
      BY <1>12 DEF Ordered
    <2>2. next # NoMessage => \A m \in Shown' : m >= next
      <3> SUFFICES ASSUME next # NoMessage, NEW m \in Shown'
                   PROVE  m >= next
        OBVIOUS
      <3>1. CASE Holds(items, m)
        BY <1>7, <3>1 DEF Holds
      <3>2. CASE Holds(walk.shown, m)
        <4>1. PICK k \in DOMAIN items : items[k] = next
          BY <1>7 DEF Holds
        <4>2. PICK i \in DOMAIN walk.shown : walk.shown[i] = m
          BY <3>2 DEF Holds
        <4>3. m > next
          BY <1>11, <4>1, <4>2
        <4>4. m \in Nat /\ next \in Nat
          BY <1>5, <1>6, <1>10, <4>1, <4>2, SeqFacts, MessagesNumbered
        <4> QED BY <4>3, <4>4
      <3> QED BY <1>12, <1>17, <3>1, <3>2
    <2>3. ASSUME ~walk.torn, NEW m \in walk.there
          PROVE  m \in Shown' \/ (next # NoMessage /\ m < next)
      <3>1. m \in Shown \/ (walk.cursor # NoMessage => m < walk.cursor)
        BY <1>1, <2>3 DEF ShownSoFar
      <3>2. m \in rows /\ (walk.cursor = NoMessage \/ walk.cursor \in rows)
        BY <1>1, <1>3, <2>3 DEF ThereStill, rows
      <3>3. CASE m \in Shown
        BY <1>12, <1>17, <1>18, <3>3
      <3>4. CASE walk.cursor # NoMessage => m < walk.cursor
        BY <1>7, <1>12, <1>17, <3>2, <3>4
      <3> QED BY <3>1, <3>3, <3>4
    <2> QED BY <1>9, <2>1, <2>2, <2>3 DEF ShownSoFar
  <1>20. OnePage'
    BY <1>14 DEF OnePage
  <1>21. ThereStill'
    <2>1. /\ walk.there \subseteq SeenAmong(message, walk.conversation)
          /\ rows = SeenAmong(message, walk.conversation)
      BY <1>1, <1>3, VisibleIs DEF rows
    <2> QED BY <1>7, <1>9, <1>16, <2>1, VisibleIsNext
  <1>22. (walk # NoWalk => walk.reader \in Users)'
    BY <1>1, <1>3, <1>9 DEF Walking
  <1> QED BY <1>15, <1>16, <1>19, <1>20, <1>21, <1>22 DEF HInv

-----------------------------------------------------------------------------
(* The theorems about a history that is paged through *)

LEMMA HInvInit ==
  ASSUME Init
  PROVE  HInv
  <1>1. walk = NoWalk /\ ~Walking
    BY DEF Init, Walking
  <1>2. /\ NoWalk.cursor = NoMessage /\ NoWalk.shown = <<>> /\ NoWalk.there = {}
        /\ ~NoWalk.torn /\ ~NoWalk.ended /\ NoWalk \in Walk
    BY EmptySeq DEF NoWalk, Walk
  <1>3. RestOK
    <2>1. Idle \in Request /\ Idle.pc = "idle"
      BY DEF Idle, Request, Steps
    <2>2. met \in [Workers -> SUBSET Facts]
      BY DEF Init
    <2>3. req \in [Workers -> Request] /\ \A w \in Workers : req[w].pc # "follow"
      BY <2>1 DEF Init
    <2>4. walk \in Walk /\ mix \in Mixes /\ faults \subseteq Request
      BY <1>2 DEF Init
    <2> QED BY <2>2, <2>3, <2>4 DEF Init, RestOK
  <1>4. IsFiniteSet(Sent)
    <2>1. Sent = {}
      BY DEF Init, Sent
    <2> QED BY <2>1, FS_EmptySet
  <1>5. OnePage
    BY DEF Init, Idle, OnePage
  <1>6. ShownSoFar
    BY <1>1, <1>2, EmptySeq DEF ShownSoFar, Shown
  <1>7. ThereStill
    BY <1>1 DEF ThereStill
  <1> QED BY <1>1, <1>3, <1>4, <1>5, <1>6, <1>7 DEF HInv

LEMMA BeginsWalks ==
  ASSUME MInv, HInv, Witness, UNCHANGED faults, NEW w \in Workers, Begins(w)
  PROVE  HInv'
  BY OthersBegin, OpenHistoryWalks, NextPageWalks DEF Begins

LEMMA ContinuesWalks ==
  ASSUME MInv, HInv, Witness, UNCHANGED faults, NEW w \in Workers, Continues(w)
  PROVE  HInv'
  BY QuietContinues, InsertShows, MarkSeenShows, EraseTears, ReadPageShows DEF Continues

LEMMA HInvNext ==
  ASSUME MInv, HInv, [Next]_vars
  PROVE  HInv'
  <1>1. CASE Next
    BY <1>1, BeginsWalks, ContinuesWalks, OthersQuiet, FailQuiet DEF Next
  <1>2. CASE UNCHANGED vars
    <2>1. SameWalk
      BY <1>2 DEF vars, db, rest, SameWalk
    <2>2. RestOK'
      BY <1>2 DEF vars, db, rest, HInv, RestOK
    <2> QED BY <2>1, <2>2, SameWalkStays
  <1> QED BY <1>1, <1>2

\* What every reachable state satisfies of the history that a client pages through.
THEOREM HInvAlways == Spec => []HInv
  <1>1. Init => HInv
    BY HInvInit
  <1>2. MInv /\ HInv /\ [Next]_vars => HInv'
    BY HInvNext
  <1> QED BY <1>1, <1>2, MInvAlways, PTL DEF Spec

\* Every variable keeps its type; a conversation has two participants for good.
THEOREM MessagingTyped == Spec => []TypeOK
  <1>1. ASSUME NEW c \in Conversations, MInv
        PROVE  conversation[c] \in {P \in SUBSET Users : Cardinality(P) \in {0, 2}}
    <2>1. CASE conversation[c] = {}
      BY <2>1, FS_EmptySet
    <2>2. CASE \E u, v \in Users : u # v /\ conversation[c] = {u, v}
      <3>1. PICK u \in Users, v \in Users : u # v /\ conversation[c] = {u, v}
        BY <2>2
      <3>2. IsFiniteSet({u}) /\ Cardinality({u}) = 1
        BY FS_Singleton
      <3>3. {u} \cup {v} = {u, v} /\ v \notin {u}
        BY <3>1
      <3>4. Cardinality({u} \cup {v}) = 2
        <4>1. v \notin {u} => Cardinality({u} \cup {v}) = Cardinality({u}) + 1
          BY <3>2, FS_AddElement
        <4> QED BY <3>2, <3>3, <4>1
      <3> QED BY <3>1, <3>3, <3>4
    <2> QED BY <1>1, <2>1, <2>2 DEF MInv, RowsOK
  <1>2. MInv /\ HInv => TypeOK
    <2> SUFFICES ASSUME MInv, HInv PROVE TypeOK
      OBVIOUS
    <2>1. conversation \in [Conversations -> {P \in SUBSET Users : Cardinality(P) \in {0, 2}}]
      BY <1>1 DEF MInv, CoreOK
    <2> QED BY <2>1 DEF MInv, CoreOK, HInv, RestOK, TypeOK
  <1> QED BY <1>2, MInvAlways, HInvAlways, PTL

\* A client that follows the cursors of a history is shown each message once, newest
\* first, and at the end every one that was there all the while, unless a message that
\* a cursor named was deleted before the next page (history over toCursorPage), beside
\* any number of senders, deletions and repeated requests, and whatever a page holds.
THEOREM HistoryShownOnce == Spec => []HistoryComplete
  <1>1. HInv => HistoryComplete
    BY DEF HInv, ShownSoFar, Shown, HistoryComplete
  <1> QED BY <1>1, HInvAlways, PTL

=============================================================================
