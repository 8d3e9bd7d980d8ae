---------------------------- MODULE PostsProofs ----------------------------
(***************************************************************************)
(* Proofs about Posts and Media, for any number of users, posts, uploads   *)
(* and requests in progress.                                               *)
(***************************************************************************)
EXTENDS PostsInv, FiniteSetTheorems, TLAPS

-----------------------------------------------------------------------------
(* How a request moves *)

OnlyMoves(w) == \A v \in Workers : v # w => req'[v] = req[v]

Formed == req \in [Workers -> Request]

LEMMA IdleFormed == Idle \in Request
  BY DEF Idle, Request, Steps, Viewers, Accesses

LEMMA GotoMoves ==
  ASSUME Formed, NEW w \in Workers, NEW label \in Steps, Goto(w, label)
  PROVE  /\ Formed' /\ OnlyMoves(w)
         /\ req'[w].pc = label /\ req'[w].user = req[w].user /\ req'[w].item = req[w].item
         /\ req'[w].access = req[w].access
  <1>1. req[w] \in Request
    BY DEF Formed
  <1>2. [req[w] EXCEPT !.pc = label] \in Request
    BY <1>1 DEF Request
  <1>3. req'[w] = [req[w] EXCEPT !.pc = label] /\ OnlyMoves(w) /\ Formed'
    BY <1>2 DEF Formed, Goto, OnlyMoves
  <1> QED BY <1>1, <1>3 DEF Request

LEMMA RespondMoves ==
  ASSUME Formed, NEW w \in Workers, Respond(w)
  PROVE  Formed' /\ OnlyMoves(w) /\ req'[w] = Idle /\ req'[w].pc = "idle"
  <1>1. req'[w] = Idle /\ OnlyMoves(w) /\ Formed'
    BY IdleFormed DEF Formed, Respond, OnlyMoves
  <1> QED BY <1>1 DEF Idle

LEMMA BeginMoves ==
  ASSUME Formed, NEW w \in Workers, NEW op, NEW r \in Request, Begin(w, op, r)
  PROVE  Formed' /\ OnlyMoves(w) /\ req[w] = Idle /\ req[w].pc = "idle" /\ req'[w] = r
  <1>1. req'[w] = r /\ OnlyMoves(w) /\ Formed' /\ req[w] = Idle
    BY DEF Formed, Begin, OnlyMoves
  <1> QED BY <1>1 DEF Idle

-----------------------------------------------------------------------------
(* What a request keeps *)

LEMMA FactsGrow ==
  ASSUME Witness, NEW w \in Workers, req'[w].pc # "idle"
  PROVE  met[w] \subseteq met'[w] /\ Observed(req'[w]) \subseteq met'[w]
  BY DEF Witness, Idle

LEMMA FactsFormed ==
  ASSUME Witness, met \in [Workers -> SUBSET Facts]
  PROVE  met' \in [Workers -> SUBSET Facts]
  <1>1. ASSUME NEW q PROVE Observed(q) \subseteq Facts
    BY DEF Observed
  <1>2. ASSUME NEW w \in Workers
        PROVE  (IF req'[w] = Idle THEN {} ELSE met[w] \cup Observed(req'[w])) \in SUBSET Facts
    BY <1>1
  <1> QED BY <1>2 DEF Witness

\* Rows that are there stay, with what does not change of them.
RowsStay ==
    /\ \A p \in Posts : post[p] # NoPost =>
          /\ post'[p] # NoPost
          /\ post'[p].author = post[p].author /\ post'[p].access = post[p].access
          /\ post'[p].media = post[p].media
    /\ \A m \in Media : media[m] # NoMedia => media'[m] # NoMedia

\* A request that did not move.
LEMMA Stays ==
  ASSUME Witness, RowsStay, NEW w \in Workers, Learnt(w), req'[w] = req[w]
  PROVE  Learnt(w)'
  <1>1. CASE req[w].pc = "idle"
    BY <1>1 DEF Learnt
  <1>2. CASE req[w].pc # "idle"
    <2>1. \A f : f \in met[w] => f \in met'[w]
      BY <1>2, FactsGrow
    <2>2. /\ OfMedia(req[w]) => OfMedia(req[w])'
          /\ OfPost(req[w]) => /\ OfPost(req[w])'
                               /\ post'[req[w].item].access = post[req[w].item].access
      BY DEF OfMedia, OfPost, RowsStay
    <2> DEFINE q  == req[w]
               pc == q.pc
               Knows(f) == f \in met[w]
    <2>3. (/\ pc \in {"head", "insert"} => q.item \in Media /\ q.user = Owner[q.item]
           /\ pc = "insert" => Knows("fit")
           /\ pc \in {"entitle", "sign"} => Knows("live")
           /\ pc \in {"sign", "open", "comment"} => Knows("may")
           /\ pc \in {"refuse", "lock"} => Knows("barred")
           /\ pc \in {"gate", "open", "lock", "check", "comment", "mark", "like", "raise",
                      "commit like"} => Knows("visible"))'
      BY <2>1 DEF Learnt
    <2>4. (/\ pc \in {"entitle", "sign", "refuse"} => OfMedia(q)
           /\ pc = "publish" => q.user \in Users /\ q.item \in Media \cup {NoItem}
           /\ pc = "publish" /\ q.item # NoItem =>
                 OfMedia(q) /\ Owner[q.item] = q.user /\ Knows("live"))'
      BY <2>1, <2>2 DEF Learnt
    <2>5. (/\ pc \in {"gate", "check"} => OfPost(q) /\ q.access = post[q.item].access
           /\ pc \in {"marked", "comment"} => q.item \in Posts)'
      BY <2>2 DEF Learnt
    <2>6. (/\ pc \in {"mark", "like", "raise", "commit like", "unlike", "lower", "commit unlike"} =>
                 q.item \in Posts /\ q.user \in Users
           /\ pc = "erase" => OfPost(q)
           /\ pc = "portray" => q.user \in Users /\ OfMedia(q) /\ Owner[q.item] = q.user)'
      BY <2>2 DEF Learnt
    <2> QED BY <2>3, <2>4, <2>5, <2>6 DEF Learnt
  <1> QED BY <1>1, <1>2

LEMMA OneLearns ==
  ASSUME Witness, RowsStay, RequestsOK, NEW w \in Workers, OnlyMoves(w), Learnt(w)'
  PROVE  RequestsOK'
  BY Stays DEF RequestsOK, OnlyMoves

\* Transactions on likes, while no row of a like is written.
LEMMA LikesStay ==
  ASSUME LikesOK, UNCHANGED like, NEW w \in Workers, OnlyMoves(w), LikeOK(w)',
         \A v \in Workers : v # w => Apart(v, w)'
  PROVE  LikesOK'
  <1>1. \A v \in Workers : LikeOK(v)'
    BY DEF LikesOK, LikeOK, OnlyMoves
  <1>2. ASSUME NEW u \in Workers, NEW v \in Workers, u # v
        PROVE  Apart(u, v)'
    <2>1. CASE u # w /\ v # w
      BY <1>2, <2>1 DEF LikesOK, Apart, OnlyMoves
    <2>2. CASE v = w
      BY <1>2, <2>2
    <2>3. CASE u = w
      <3>1. Apart(v, w)'
        BY <1>2, <2>3
      <3> QED BY <2>3, <3>1 DEF Apart
    <2> QED BY <2>1, <2>2, <2>3
  <1> QED BY <1>1, <1>2 DEF LikesOK

-----------------------------------------------------------------------------
(* The rest of the state *)

\* Everything but requests.
DataOK ==
    /\ subscription \subseteq {p \in Users \X Users : p[1] # p[2]}
    /\ purchase \subseteq Users \X Items /\ mix \in Mixes
    /\ MediaOK
    /\ post \in [Posts -> PostRow \cup {NoPost}]
    /\ like \subseteq Users \X Posts /\ bookmark \subseteq Users \X Posts
    /\ likeCount \in [Posts -> Nat]
    /\ comments \in [Posts -> 0..MaxComments]
    /\ avatar \in [Users -> Media \cup {NoItem}]

LEMMA TypesSplit == TypeOK <=> DataOK /\ Formed /\ met \in [Workers -> SUBSET Facts]
  BY DEF TypeOK, RightsOK, DataOK, Formed

\* A step of one request: what is left to show of it.
LEMMA StepOfOne ==
  ASSUME PInv, Witness, RowsStay, NEW w \in Workers, OnlyMoves(w), Formed', DataOK',
         Learnt(w)', LikesOK', CountersMatchRows', OwnMediaOnly'
  PROVE  PInv'
  <1>1. TypeOK'
    BY FactsFormed, TypesSplit DEF PInv, DataOK, Formed, TypeOK, RightsOK
  <1>2. RequestsOK'
    BY OneLearns DEF PInv
  <1> QED BY <1>1, <1>2 DEF PInv

\* A step of one request that reads only.
LEMMA Reads ==
  ASSUME PInv, Witness, UNCHANGED <<rights, content, mix>>, NEW w \in Workers, OnlyMoves(w),
         Formed', Learnt(w)', LikeOK(w)', \A v \in Workers : v # w => Apart(v, w)'
  PROVE  PInv'
  <1>1. UNCHANGED <<subscription, purchase, object, media, post, like, likeCount, bookmark,
                    comments, avatar, mix>>
    BY DEF rights, content
  <1>2. DataOK'
    BY <1>1, TypesSplit DEF PInv, DataOK, MediaOK
  <1>3. RowsStay
    BY <1>1 DEF RowsStay
  <1>4. LikesOK'
    BY <1>1, LikesStay DEF PInv
  <1>5. CountersMatchRows' /\ OwnMediaOnly'
    BY <1>1 DEF PInv, CountersMatchRows, OwnMediaOnly
  <1> QED BY <1>2, <1>3, <1>4, <1>5, StepOfOne

\* The same, of a request that is in no transaction on likes.
LEMMA ReadsOnly ==
  ASSUME PInv, Witness, UNCHANGED <<rights, content, mix>>, NEW w \in Workers, OnlyMoves(w),
         Formed', Learnt(w)', req'[w].pc \notin Inserting \cup Deleting
  PROVE  PInv'
  <1>1. LikeOK(w)' /\ \A v \in Workers : Apart(v, w)'
    BY DEF LikeOK, Apart
  <1> QED BY <1>1, Reads

-----------------------------------------------------------------------------
(* The access rule *)

\* The rule of the code, which asks by kind of access, is the documented one.
LEMMA EntitledIsGranted ==
  ASSUME NEW v, NEW owner, NEW access \in Accesses, NEW item
  PROVE  Entitled(v, owner, access, item)
           <=> Granted(subscription, purchase, v, owner, access, item)
  BY DEF Entitled, Granted, Accesses

\* What a request that looks at the rights of its item has seen.
LEMMA SeesRights ==
  ASSUME NEW q, UNCHANGED <<subscription, purchase, post>>, q.access \in Accesses,
         NEW owner, \/ q.item \in Media /\ owner = Owner[q.item]
                    \/ /\ q.item \in Posts /\ owner = post[q.item].author
                       /\ q.access = post[q.item].access
  PROVE  /\ Entitled(q.user, owner, q.access, q.item) => "may" \in Observed(q)
         /\ ~Entitled(q.user, owner, q.access, q.item) => "barred" \in Observed(q)
  <1>1. Entitled(q.user, owner, q.access, q.item)
          <=> Granted(subscription', purchase', q.user, owner, q.access, q.item)
    BY EntitledIsGranted
  <1>2. CASE q.item \in Media
    BY <1>1, <1>2, ItemsDiffer DEF Observed, Facts
  <1>3. CASE q.item \in Posts
    BY <1>1, <1>3, ItemsDiffer DEF Observed, Facts
  <1> QED BY <1>2, <1>3

\* What a request that looks at a row has seen.
LEMMA SeesLive ==
  ASSUME NEW q, q.item \in Media, Live(q.item), UNCHANGED media
  PROVE  "live" \in Observed(q)
  BY DEF Live, Observed, Facts

LEMMA SeesVisible ==
  ASSUME NEW q, q.item \in Posts, Visible(q.item), UNCHANGED post
  PROVE  "visible" \in Observed(q)
  BY DEF Visible, Observed, Facts

-----------------------------------------------------------------------------
(* Requests on media *)

LEMMA ConfirmUploadKeeps ==
  ASSUME PInv, Witness, UNCHANGED <<rights, content, mix>>, NEW w \in Workers,
         NEW u \in Users, NEW m \in Media, ConfirmUpload(w, u, m)
  PROVE  PInv'
  <1> DEFINE r == [Idle EXCEPT !.pc = "head", !.user = u, !.item = m]
  <1>1. r \in Request /\ r.pc = "head" /\ r.user = u /\ r.item = m
    BY DEF Idle, Request, Steps, Viewers, Items, Accesses
  <1>2. Formed' /\ OnlyMoves(w) /\ req'[w] = r
    BY <1>1, BeginMoves, TypesSplit DEF PInv, ConfirmUpload
  <1>3. Learnt(w)'
    BY <1>1, <1>2 DEF Learnt, ConfirmUpload
  <1> QED BY <1>1, <1>2, <1>3, ReadsOnly DEF Inserting, Deleting

LEMMA HeadObjectKeeps ==
  ASSUME PInv, Witness, UNCHANGED <<rights, content, mix>>, NEW w \in Workers, HeadObject(w)
  PROVE  PInv'
  <1>1. Formed /\ Learnt(w) /\ req[w].pc = "head"
    BY TypesSplit DEF PInv, RequestsOK, HeadObject
  <1>2. CASE Accepted(req[w].item) /\ Goto(w, "insert")
    <2>1. /\ Formed' /\ OnlyMoves(w) /\ req'[w].pc = "insert"
          /\ req'[w].user = req[w].user /\ req'[w].item = req[w].item
      BY <1>1, <1>2, GotoMoves DEF Steps
    <2>2. "fit" \in met'[w]
      BY <1>1, <1>2, <2>1, FactsGrow DEF Observed, Facts, Accepted, Learnt, content
    <2>3. Learnt(w)'
      BY <1>1, <2>1, <2>2 DEF Learnt
    <2> QED BY <2>1, <2>3, ReadsOnly DEF Inserting, Deleting
  <1>3. CASE Respond(w)
    <2>1. Formed' /\ OnlyMoves(w) /\ req'[w].pc = "idle"
      BY <1>1, <1>3, RespondMoves
    <2>2. Learnt(w)'
      BY <2>1 DEF Learnt
    <2> QED BY <2>1, <2>2, ReadsOnly DEF Inserting, Deleting
  <1> QED BY <1>2, <1>3 DEF HeadObject

LEMMA GetDeliveryUrlKeeps ==
  ASSUME PInv, Witness, UNCHANGED <<rights, content, mix>>, NEW w \in Workers,
         NEW v \in Users, NEW m \in Media, GetDeliveryUrl(w, v, m)
  PROVE  PInv'
  <1> DEFINE r == [Idle EXCEPT !.pc = "entitle", !.user = v, !.item = m,
                               !.access = media[m].access]
  <1>1. media[m].access \in Accesses /\ media[m] # NoMedia
    BY DEF PInv, TypeOK, MediaOK, MediaRow, GetDeliveryUrl, Live
  <1>2. r \in Request /\ r.pc = "entitle" /\ r.item = m
    BY <1>1 DEF Idle, Request, Steps, Viewers, Items
  <1>3. Formed' /\ OnlyMoves(w) /\ req'[w] = r
    BY <1>2, BeginMoves, TypesSplit DEF PInv, GetDeliveryUrl
  <1>4. "live" \in met'[w]
    BY <1>2, <1>3, SeesLive, FactsGrow DEF GetDeliveryUrl, content
  <1>5. Learnt(w)'
    BY <1>1, <1>2, <1>3, <1>4 DEF Learnt, OfMedia, content
  <1> QED BY <1>2, <1>3, <1>5, ReadsOnly DEF Inserting, Deleting

LEMMA GetPublicUrlKeeps ==
  ASSUME PInv, Witness, UNCHANGED <<rights, content, mix>>, NEW w \in Workers,
         NEW m \in Media, GetPublicUrl(w, m)
  PROVE  PInv'
  <1> DEFINE r == [Idle EXCEPT !.pc = "sign", !.item = m]
  <1>1. r \in Request /\ r.pc = "sign" /\ r.item = m /\ r.access = "FREE"
    BY DEF Idle, Request, Steps, Viewers, Items, Accesses
  <1>2. Formed' /\ OnlyMoves(w) /\ req'[w] = r
    BY <1>1, BeginMoves, TypesSplit DEF PInv, GetPublicUrl
  <1>3. "live" \in met'[w]
    BY <1>1, <1>2, SeesLive, FactsGrow DEF GetPublicUrl, content
  <1>4. "may" \in met'[w]
    <2>1. Entitled(r.user, Owner[m], r.access, r.item)
      BY <1>1 DEF Entitled
    <2>2. "may" \in Observed(r)
      BY <1>1, <2>1, SeesRights DEF rights, content, Accesses
    <2> QED BY <1>1, <1>2, <2>2, FactsGrow
  <1>5. Learnt(w)'
    BY <1>1, <1>2, <1>3, <1>4 DEF Learnt, OfMedia, content, GetPublicUrl, Live
  <1> QED BY <1>1, <1>2, <1>5, ReadsOnly DEF Inserting, Deleting

LEMMA CheckEntitledKeeps ==
  ASSUME PInv, Witness, UNCHANGED <<rights, content, mix>>, NEW w \in Workers,
         CheckEntitled(w)
  PROVE  PInv'
  <1> DEFINE q == req[w]
             may == Entitled(q.user, Owner[q.item], q.access, q.item)
  <1>1. Formed /\ Learnt(w) /\ q.pc = "entitle" /\ q.access \in Accesses
    BY TypesSplit DEF PInv, RequestsOK, CheckEntitled, Formed, Request
  <1>2. Goto(w, IF may THEN "sign" ELSE "refuse")
    BY DEF CheckEntitled
  <1>3. /\ Formed' /\ OnlyMoves(w) /\ req'[w].pc = IF may THEN "sign" ELSE "refuse"
        /\ req'[w].user = q.user /\ req'[w].item = q.item /\ req'[w].access = q.access
    BY <1>1, <1>2, GotoMoves DEF Steps
  <1>4. q.item \in Media /\ media[q.item] # NoMedia /\ "live" \in met[w]
    BY <1>1 DEF Learnt, OfMedia
  <1>5. (may => "may" \in met'[w]) /\ (~may => "barred" \in met'[w]) /\ "live" \in met'[w]
    <2>1. /\ may => "may" \in Observed(req'[w])
          /\ ~may => "barred" \in Observed(req'[w])
      BY <1>1, <1>3, <1>4, SeesRights DEF rights, content
    <2> QED BY <1>3, <1>4, <2>1, FactsGrow
  <1>6. Learnt(w)'
    BY <1>3, <1>4, <1>5 DEF Learnt, OfMedia, content
  <1> QED BY <1>3, <1>6, ReadsOnly DEF Inserting, Deleting

\* A request that answers, or dies.
LEMMA EndsKeeps ==
  ASSUME PInv, Witness, UNCHANGED <<rights, content, mix>>, NEW w \in Workers, Respond(w)
  PROVE  PInv'
  <1>1. Formed' /\ OnlyMoves(w) /\ req'[w].pc = "idle"
    BY RespondMoves, TypesSplit DEF PInv
  <1>2. Learnt(w)'
    BY <1>1 DEF Learnt
  <1> QED BY <1>1, <1>2, ReadsOnly DEF Inserting, Deleting

-----------------------------------------------------------------------------
(* Requests on posts that begin *)

LEMMA VisiblePost ==
  ASSUME TypeOK, NEW p \in Posts, post[p] # NoPost
  PROVE  post[p] \in PostRow /\ post[p].author \in Users /\ post[p].access \in Accesses
  BY DEF TypeOK, PostRow

LEMMA CreatePostKeeps ==
  ASSUME PInv, Witness, UNCHANGED <<rights, content, mix>>, NEW w \in Workers,
         NEW u \in Users, NEW m \in Media \cup {NoItem}, CreatePost(w, u, m)
  PROVE  PInv'
  <1> DEFINE r == [Idle EXCEPT !.pc = "publish", !.user = u, !.item = m]
  <1>1. r \in Request /\ r.pc = "publish" /\ r.user = u /\ r.item = m
    BY DEF Idle, Request, Steps, Viewers, Items, Accesses
  <1>2. Formed' /\ OnlyMoves(w) /\ req'[w] = r
    BY <1>1, BeginMoves, TypesSplit DEF PInv, CreatePost
  <1>3. m # NoItem => m \in Media /\ Live(m) /\ Owner[m] = u
    BY DEF CreatePost, Attachable
  <1>4. m # NoItem => "live" \in met'[w]
    BY <1>1, <1>2, <1>3, SeesLive, FactsGrow DEF content
  <1>5. Learnt(w)'
    BY <1>1, <1>2, <1>3, <1>4 DEF Learnt, OfMedia, content, Live
  <1> QED BY <1>1, <1>2, <1>5, ReadsOnly DEF Inserting, Deleting

LEMMA UpdateProfileKeeps ==
  ASSUME PInv, Witness, UNCHANGED <<rights, content, mix>>, NEW w \in Workers,
         NEW u \in Users, NEW m \in Media, UpdateProfile(w, u, m)
  PROVE  PInv'
  <1> DEFINE r == [Idle EXCEPT !.pc = "portray", !.user = u, !.item = m]
  <1>1. r \in Request /\ r.pc = "portray" /\ r.user = u /\ r.item = m
    BY DEF Idle, Request, Steps, Viewers, Items, Accesses
  <1>2. Formed' /\ OnlyMoves(w) /\ req'[w] = r
    BY <1>1, BeginMoves, TypesSplit DEF PInv, UpdateProfile
  <1>3. Learnt(w)'
    BY <1>1, <1>2 DEF Learnt, OfMedia, content, UpdateProfile, Portrayable
  <1> QED BY <1>1, <1>2, <1>3, ReadsOnly DEF Inserting, Deleting

LEMMA DeletePostKeeps ==
  ASSUME PInv, Witness, UNCHANGED <<rights, content, mix>>, NEW w \in Workers,
         NEW p \in Posts, DeletePost(w, p)
  PROVE  PInv'
  <1> DEFINE r == [Idle EXCEPT !.pc = "erase", !.item = p]
  <1>1. r \in Request /\ r.pc = "erase" /\ r.item = p
    BY DEF Idle, Request, Steps, Viewers, Items, Accesses
  <1>2. Formed' /\ OnlyMoves(w) /\ req'[w] = r
    BY <1>1, BeginMoves, TypesSplit DEF PInv, DeletePost
  <1>3. Learnt(w)'
    BY <1>1, <1>2 DEF Learnt, OfPost, content, DeletePost
  <1> QED BY <1>1, <1>2, <1>3, ReadsOnly DEF Inserting, Deleting

\* A post that is read with its row, to be gated or commented on.
LEMMA ReadsRow ==
  ASSUME PInv, Witness, UNCHANGED <<rights, content, mix>>, NEW w \in Workers,
         NEW v \in Viewers, NEW p \in Posts, Visible(p), NEW op, NEW label \in {"gate", "check"},
         Begin(w, op, [Idle EXCEPT !.pc = label, !.user = v, !.item = p,
                                   !.access = post[p].access])
  PROVE  PInv'
  <1> DEFINE r == [Idle EXCEPT !.pc = label, !.user = v, !.item = p,
                               !.access = post[p].access]
  <1>1. post[p] # NoPost /\ post[p].access \in Accesses
    BY VisiblePost DEF Visible, PInv
  <1>2. r \in Request /\ r.pc = label /\ r.item = p /\ r.access = post[p].access
    BY <1>1 DEF Idle, Request, Steps, Items
  <1>3. Formed' /\ OnlyMoves(w) /\ req'[w] = r
    BY <1>2, BeginMoves, TypesSplit DEF PInv
  <1>4. "visible" \in met'[w]
    BY <1>2, <1>3, SeesVisible, FactsGrow DEF content
  <1>5. Learnt(w)'
    BY <1>1, <1>2, <1>3, <1>4 DEF Learnt, OfPost, content
  <1> QED BY <1>2, <1>3, <1>5, ReadsOnly DEF Inserting, Deleting

LEMMA HomeFeedKeeps ==
  ASSUME PInv, Witness, UNCHANGED <<rights, content, mix>>, NEW w \in Workers,
         NEW v, HomeFeed(w, v)
  PROVE  PInv'
  <1> DEFINE r == [Idle EXCEPT !.pc = "rows", !.user = v,
                       !.authors = {v} \cup {c \in Users : <<v, c>> \in subscription}]
  <1>1. r \in Request /\ r.pc = "rows"
    BY DEF Idle, Request, Steps, Viewers, Accesses, HomeFeed
  <1>2. Formed' /\ OnlyMoves(w) /\ req'[w] = r
    BY <1>1, BeginMoves, TypesSplit DEF PInv, HomeFeed
  <1>3. Learnt(w)'
    BY <1>1, <1>2 DEF Learnt
  <1> QED BY <1>1, <1>2, <1>3, ReadsOnly DEF Inserting, Deleting

\* A user's request on a post of which only the name is kept.
LEMMA NamesPost ==
  ASSUME PInv, Witness, UNCHANGED <<rights, content, mix>>, NEW w \in Workers,
         NEW u \in Users, NEW p \in Posts, NEW op,
         NEW label \in {"marked", "mark", "like", "unlike"},
         label \in {"mark", "like"} => Visible(p),
         Begin(w, op, [Idle EXCEPT !.pc = label, !.user = u, !.item = p])
  PROVE  PInv'
  <1> DEFINE r == [Idle EXCEPT !.pc = label, !.user = u, !.item = p]
  <1>1. r \in Request /\ r.pc = label /\ r.user = u /\ r.item = p
    BY DEF Idle, Request, Steps, Viewers, Items, Accesses
  <1>2. Formed' /\ OnlyMoves(w) /\ req'[w] = r
    BY <1>1, BeginMoves, TypesSplit DEF PInv
  <1>3. label \in {"mark", "like"} => "visible" \in met'[w]
    BY <1>1, <1>2, SeesVisible, FactsGrow DEF content
  <1>4. Learnt(w)'
    BY <1>1, <1>2, <1>3 DEF Learnt
  <1> QED BY <1>1, <1>2, <1>4, ReadsOnly DEF Inserting, Deleting

LEMMA BeginsKeeps ==
  ASSUME PInv, Witness, UNCHANGED mix, NEW w \in Workers, Begins(w)
  PROVE  PInv'
  <1>1. PICK p \in Posts :
           \/ DeletePost(w, p)
           \/ \E v \in Viewers : ReadFeed(w, v, p)
           \/ \E u \in Users : \/ HomeFeed(w, u) \/ BookmarksFeed(w, u, p)
                               \/ Like(w, u, p) \/ Unlike(w, u, p)
                               \/ Comment(w, u, p) \/ Bookmark(w, u, p)
                               \/ \E m \in Media \cup {NoItem} : CreatePost(w, u, m)
                               \/ \E m \in Media : UpdateProfile(w, u, m)
    BY DEF Begins
  <1>2. UNCHANGED <<rights, content>>
    BY <1>1 DEF DeletePost, ReadFeed, HomeFeed, BookmarksFeed, Like, Unlike, Comment, Bookmark,
                CreatePost, UpdateProfile
  <1>3. CASE DeletePost(w, p)
    BY <1>2, <1>3, DeletePostKeeps
  <1>4. CASE \E v \in Viewers : ReadFeed(w, v, p)
    BY <1>2, <1>4, ReadsRow DEF ReadFeed
  <1>5. ASSUME NEW u \in Users, HomeFeed(w, u) PROVE PInv'
    BY <1>2, <1>5, HomeFeedKeeps
  <1>6. ASSUME NEW u \in Users, \/ BookmarksFeed(w, u, p) \/ Like(w, u, p)
                                \/ Unlike(w, u, p) \/ Bookmark(w, u, p)
        PROVE  PInv'
    BY <1>2, <1>6, NamesPost DEF BookmarksFeed, Like, Unlike, Bookmark
  <1>7. ASSUME NEW u \in Users, Comment(w, u, p) PROVE PInv'
    BY <1>2, <1>7, ReadsRow DEF Comment, Viewers
  <1>8. ASSUME NEW u \in Users, NEW m \in Media \cup {NoItem}, CreatePost(w, u, m) PROVE PInv'
    BY <1>2, <1>8, CreatePostKeeps
  <1>9. ASSUME NEW u \in Users, NEW m \in Media, UpdateProfile(w, u, m) PROVE PInv'
    BY <1>2, <1>9, UpdateProfileKeeps
  <1> QED BY <1>1, <1>3, <1>4, <1>5, <1>6, <1>7, <1>8, <1>9

-----------------------------------------------------------------------------
(* Requests on posts that go on, and read *)

LEMMA HomeRowsKeeps ==
  ASSUME PInv, Witness, UNCHANGED <<rights, content, mix>>, NEW w \in Workers,
         NEW p \in Posts, HomeRows(w, p)
  PROVE  PInv'
  <1>1. CASE Respond(w)
    BY <1>1, EndsKeeps
  <1>2. CASE /\ Visible(p)
             /\ req' = [req EXCEPT ![w].pc = "gate", ![w].item = p, ![w].access = post[p].access]
    <2>1. post[p] # NoPost /\ post[p].access \in Accesses
      BY <1>2, VisiblePost DEF Visible, PInv
    <2>2. Formed /\ req[w] \in Request
      BY TypesSplit DEF PInv, Formed
    <2>3. [req[w] EXCEPT !.pc = "gate", !.item = p, !.access = post[p].access] \in Request
      BY <2>1, <2>2 DEF Request, Steps, Items
    <2>4. /\ Formed' /\ OnlyMoves(w)
          /\ req'[w] = [req[w] EXCEPT !.pc = "gate", !.item = p, !.access = post[p].access]
      BY <1>2, <2>2, <2>3 DEF Formed, OnlyMoves
    <2>5. req'[w].pc = "gate" /\ req'[w].item = p /\ req'[w].access = post[p].access
      BY <2>2, <2>4 DEF Request
    <2>6. "visible" \in met'[w]
      BY <1>2, <2>5, SeesVisible, FactsGrow DEF content
    <2>7. Learnt(w)'
      BY <2>1, <2>5, <2>6 DEF Learnt, OfPost, content
    <2> QED BY <2>4, <2>5, <2>7, ReadsOnly DEF Inserting, Deleting
  <1> QED BY <1>1, <1>2 DEF HomeRows

LEMMA MarkedRowsKeeps ==
  ASSUME PInv, Witness, UNCHANGED <<rights, content, mix>>, NEW w \in Workers, MarkedRows(w)
  PROVE  PInv'
  <1> DEFINE p == req[w].item
  <1>1. CASE Respond(w)
    BY <1>1, EndsKeeps
  <1>2. CASE /\ Visible(p)
             /\ req' = [req EXCEPT ![w].pc = "gate", ![w].access = post[p].access]
    <2>1. Formed /\ req[w] \in Request /\ p \in Posts
      BY TypesSplit DEF PInv, Formed, RequestsOK, Learnt, MarkedRows
    <2>2. post[p] # NoPost /\ post[p].access \in Accesses
      BY <1>2, <2>1, VisiblePost DEF Visible, PInv
    <2>3. [req[w] EXCEPT !.pc = "gate", !.access = post[p].access] \in Request
      BY <2>1, <2>2 DEF Request, Steps
    <2>4. /\ Formed' /\ OnlyMoves(w)
          /\ req'[w] = [req[w] EXCEPT !.pc = "gate", !.access = post[p].access]
      BY <1>2, <2>1, <2>3 DEF Formed, OnlyMoves
    <2>5. req'[w].pc = "gate" /\ req'[w].item = p /\ req'[w].access = post[p].access
      BY <2>1, <2>4 DEF Request
    <2>6. "visible" \in met'[w]
      BY <1>2, <2>1, <2>5, SeesVisible, FactsGrow DEF content
    <2>7. Learnt(w)'
      BY <2>1, <2>2, <2>5, <2>6 DEF Learnt, OfPost, content
    <2> QED BY <2>4, <2>5, <2>7, ReadsOnly DEF Inserting, Deleting
  <1> QED BY <1>1, <1>2 DEF MarkedRows

\* The gate of a feed, and the check of a comment's writer.
LEMMA RightsSeen ==
  ASSUME PInv, Witness, UNCHANGED <<rights, content, mix>>, NEW w \in Workers,
         req[w].pc \in {"gate", "check"}, NEW label \in Steps, label # "idle", Goto(w, label)
  PROVE  /\ Formed' /\ OnlyMoves(w) /\ req'[w].pc = label /\ req'[w].item \in Posts
         /\ "visible" \in met'[w]
         /\ MayRead(req[w]) => "may" \in met'[w]
         /\ ~MayRead(req[w]) => "barred" \in met'[w]
  <1> DEFINE q == req[w]
  <1>1. Formed /\ Learnt(w) /\ q.access \in Accesses
    BY TypesSplit DEF PInv, RequestsOK, Formed, Request
  <1>2. /\ Formed' /\ OnlyMoves(w) /\ req'[w].pc = label
        /\ req'[w].user = q.user /\ req'[w].item = q.item /\ req'[w].access = q.access
    BY <1>1, GotoMoves
  <1>3. /\ q.item \in Posts /\ q.access = post[q.item].access /\ "visible" \in met[w]
    BY <1>1 DEF Learnt, OfPost
  <1>4. /\ MayRead(q) => "may" \in Observed(req'[w])
        /\ ~MayRead(q) => "barred" \in Observed(req'[w])
    BY <1>1, <1>2, <1>3, SeesRights DEF rights, content, MayRead
  <1> QED BY <1>2, <1>3, <1>4, FactsGrow

LEMMA GateKeeps ==
  ASSUME PInv, Witness, UNCHANGED <<rights, content, mix>>, NEW w \in Workers, Gate(w)
  PROVE  PInv'
  <1> DEFINE label == IF MayRead(req[w]) THEN "open" ELSE "lock"
  <1>1. /\ Formed' /\ OnlyMoves(w) /\ req'[w].pc = label
        /\ "visible" \in met'[w]
        /\ MayRead(req[w]) => "may" \in met'[w]
        /\ ~MayRead(req[w]) => "barred" \in met'[w]
    <2>1. label \in Steps /\ label # "idle"
      BY DEF Steps
    <2> QED BY <2>1, RightsSeen DEF Gate
  <1>2. Learnt(w)'
    BY <1>1 DEF Learnt
  <1> QED BY <1>1, <1>2, ReadsOnly DEF Inserting, Deleting

LEMMA CheckReaderKeeps ==
  ASSUME PInv, Witness, UNCHANGED <<rights, content, mix>>, NEW w \in Workers, CheckReader(w)
  PROVE  PInv'
  <1>1. CASE Respond(w)
    BY <1>1, EndsKeeps
  <1>2. CASE MayRead(req[w]) /\ Goto(w, "comment")
    <2>1. /\ Formed' /\ OnlyMoves(w) /\ req'[w].pc = "comment" /\ req'[w].item \in Posts
          /\ {"visible", "may"} \subseteq met'[w]
      BY <1>2, RightsSeen DEF CheckReader, Steps
    <2>2. Learnt(w)'
      BY <2>1 DEF Learnt
    <2> QED BY <2>1, <2>2, ReadsOnly DEF Inserting, Deleting
  <1> QED BY <1>1, <1>2 DEF CheckReader

-----------------------------------------------------------------------------
(* Transactions on likes *)

\* The first statement of a like waits, and finds no row.
LEMMA InsertLikeKeeps ==
  ASSUME PInv, Witness, UNCHANGED <<rights, content, mix>>, NEW w \in Workers, InsertLike(w)
  PROVE  PInv'
  <1>1. CASE Respond(w)
    BY <1>1, EndsKeeps
  <1>2. CASE <<req[w].user, req[w].item>> \notin like /\ Goto(w, "raise")
    <2>1. Formed /\ Learnt(w) /\ req[w].pc = "like"
      BY TypesSplit DEF PInv, RequestsOK, InsertLike
    <2>2. /\ Formed' /\ OnlyMoves(w) /\ req'[w].pc = "raise"
          /\ req'[w].user = req[w].user /\ req'[w].item = req[w].item
      BY <1>2, <2>1, GotoMoves DEF Steps
    <2>3. Learnt(w)'
      BY <2>1, <2>2, FactsGrow DEF Learnt
    <2>4. LikeOK(w)'
      BY <1>2, <2>2 DEF LikeOK, Deleting, content
    <2>5. ASSUME NEW v \in Workers, v # w PROVE Apart(v, w)'
      BY <2>2, <2>5 DEF Apart, OnlyMoves, InsertLike, LikeBusy, Inserting, Deleting
    <2> QED BY <2>2, <2>3, <2>4, <2>5, Reads
  <1> QED BY <1>1, <1>2 DEF InsertLike

LEMMA DeleteLikeKeeps ==
  ASSUME PInv, Witness, UNCHANGED <<rights, content, mix>>, NEW w \in Workers, DeleteLike(w)
  PROVE  PInv'
  <1>1. CASE Respond(w)
    BY <1>1, EndsKeeps
  <1>2. CASE <<req[w].user, req[w].item>> \in like /\ Goto(w, "lower")
    <2>1. Formed /\ Learnt(w) /\ req[w].pc = "unlike"
      BY TypesSplit DEF PInv, RequestsOK, DeleteLike
    <2>2. /\ Formed' /\ OnlyMoves(w) /\ req'[w].pc = "lower"
          /\ req'[w].user = req[w].user /\ req'[w].item = req[w].item
      BY <1>2, <2>1, GotoMoves DEF Steps
    <2>3. Learnt(w)'
      BY <2>1, <2>2, FactsGrow DEF Learnt
    <2>4. LikeOK(w)'
      BY <1>2, <2>2 DEF LikeOK, Inserting, content
    <2>5. ASSUME NEW v \in Workers, v # w PROVE Apart(v, w)'
      BY <2>2, <2>5 DEF Apart, OnlyMoves, DeleteLike, LikeBusy, Inserting, Deleting
    <2> QED BY <2>2, <2>3, <2>4, <2>5, Reads
  <1> QED BY <1>1, <1>2 DEF DeleteLike

LEMMA CountKeeps ==
  ASSUME PInv, Witness, UNCHANGED <<rights, content, mix>>, NEW w \in Workers, Count(w)
  PROVE  PInv'
  <1> DEFINE label == IF req[w].pc = "raise" THEN "commit like" ELSE "commit unlike"
  <1>1. Formed /\ Learnt(w) /\ LikeOK(w) /\ req[w].pc \in {"raise", "lower"}
    BY TypesSplit DEF PInv, RequestsOK, LikesOK, Count
  <1>2. /\ Formed' /\ OnlyMoves(w) /\ req'[w].pc = label
        /\ req'[w].user = req[w].user /\ req'[w].item = req[w].item
    <2>1. label \in Steps
      BY DEF Steps
    <2> QED BY <1>1, <2>1, GotoMoves DEF Count
  <1>3. /\ req'[w].pc \in Inserting <=> req[w].pc \in Inserting
        /\ req'[w].pc \in Deleting <=> req[w].pc \in Deleting
    BY <1>1, <1>2 DEF Inserting, Deleting
  <1>4. Learnt(w)'
    BY <1>1, <1>2, FactsGrow DEF Learnt
  <1>5. LikeOK(w)'
    BY <1>1, <1>2, <1>3 DEF LikeOK, content
  <1>6. ASSUME NEW v \in Workers, v # w PROVE Apart(v, w)'
    <2>1. Apart(v, w) /\ req'[v] = req[v]
      BY <1>2, <1>6 DEF PInv, LikesOK, OnlyMoves
    <2> QED BY <1>2, <1>3, <2>1 DEF Apart
  <1> QED BY <1>2, <1>4, <1>5, <1>6, Reads

\* How many there are once one came, or went.
LEMMA Counted ==
  ASSUME NEW S \in SUBSET Users, NEW u \in Users
  PROVE  /\ Cardinality(S) \in Nat
         /\ u \notin S => Cardinality(S \cup {u}) = Cardinality(S) + 1
         /\ u \in S => Cardinality(S \ {u}) = Cardinality(S) - 1
                       /\ Cardinality(S \ {u}) \in Nat
  <1>1. IsFiniteSet(S)
    BY UsersFinite, FS_Subset
  <1>2. IsFiniteSet(S \ {u})
    BY <1>1, FS_RemoveElement
  <1> QED BY <1>1, <1>2, FS_AddElement, FS_RemoveElement, FS_CardinalityType

\* The commit brings the row and the counter's change at once; no other transaction
\* has the row in hand, so the row and the count agree.
LEMMA CommitKeeps ==
  ASSUME PInv, Witness, UNCHANGED mix, NEW w \in Workers, Commit(w)
  PROVE  PInv'
  <1> DEFINE p == req[w].item
             u == req[w].user
             Likers(x) == {y \in Users : <<y, x>> \in like}
             NextCount(x) == Cardinality({y \in Users : <<y, x>> \in like'})
  <1>1. /\ Formed /\ Learnt(w) /\ LikeOK(w)
        /\ req[w].pc \in {"commit like", "commit unlike"} /\ p \in Posts /\ u \in Users
    BY TypesSplit DEF PInv, RequestsOK, LikesOK, Commit, Learnt
  <1>2. Formed' /\ OnlyMoves(w) /\ req'[w].pc = "idle"
    BY <1>1, RespondMoves DEF Commit
  <1>3. UNCHANGED <<subscription, purchase, object, media, post, bookmark, comments, avatar>>
    BY DEF Commit, rights
  <1>4. \/ /\ req[w].pc \in Inserting /\ <<u, p>> \notin like
           /\ like' = like \cup {<<u, p>>} /\ likeCount' = [likeCount EXCEPT ![p] = @ + 1]
        \/ /\ req[w].pc \in Deleting /\ <<u, p>> \in like
           /\ like' = like \ {<<u, p>>} /\ likeCount' = [likeCount EXCEPT ![p] = @ - 1]
    BY <1>1 DEF Commit, LikeOK, Inserting, Deleting
  <1>5. likeCount \in [Posts -> Nat] /\ like \subseteq Users \X Posts
    BY DEF PInv, TypeOK
  <1>6. \A x \in Posts : likeCount[x] = Cardinality(Likers(x))
    BY DEF PInv, CountersMatchRows
  <1>7. \A x \in Posts : /\ likeCount'[x] = Cardinality({y \in Users : <<y, x>> \in like'})
                         /\ likeCount'[x] \in Nat
    <2> SUFFICES ASSUME NEW x \in Posts
                 PROVE  /\ likeCount'[x] = Cardinality({y \in Users : <<y, x>> \in like'})
                        /\ likeCount'[x] \in Nat
      OBVIOUS
    <2>1. CASE x # p
      <3>1. likeCount'[x] = likeCount[x]
        BY <1>4, <1>5, <2>1
      <3>2. {y \in Users : <<y, x>> \in like'} = Likers(x)
        BY <1>4, <2>1
      <3> QED BY <1>5, <1>6, <3>1, <3>2
    <2>2. CASE x = p /\ <<u, p>> \notin like /\ like' = like \cup {<<u, p>>}
                 /\ likeCount' = [likeCount EXCEPT ![p] = @ + 1]
      <3>1. {y \in Users : <<y, x>> \in like'} = Likers(x) \cup {u} /\ u \notin Likers(x)
        BY <1>1, <2>2
      <3>2. likeCount'[x] = likeCount[x] + 1
        BY <1>5, <2>2
      <3>3. Likers(x) \in SUBSET Users /\ likeCount[x] = Cardinality(Likers(x))
        BY <1>6
      <3>4. NextCount(x) = Cardinality(Likers(x) \cup {u})
        BY <3>1
      <3> HIDE DEF Likers, NextCount
      <3>5. NextCount(x) = likeCount'[x] /\ NextCount(x) \in Nat
        BY <1>1, <3>1, <3>2, <3>3, <3>4, Counted
      <3> QED BY <3>5 DEF NextCount
    <2>3. CASE x = p /\ <<u, p>> \in like /\ like' = like \ {<<u, p>>}
                 /\ likeCount' = [likeCount EXCEPT ![p] = @ - 1]
      <3>1. {y \in Users : <<y, x>> \in like'} = Likers(x) \ {u} /\ u \in Likers(x)
        BY <1>1, <2>3
      <3>2. likeCount'[x] = likeCount[x] - 1
        BY <1>5, <2>3
      <3>3. Likers(x) \in SUBSET Users /\ likeCount[x] = Cardinality(Likers(x))
        BY <1>6
      <3>4. NextCount(x) = Cardinality(Likers(x) \ {u})
        BY <3>1
      <3> HIDE DEF Likers, NextCount
      <3>5. NextCount(x) = likeCount'[x] /\ NextCount(x) \in Nat
        BY <1>1, <3>1, <3>2, <3>3, <3>4, Counted
      <3> QED BY <3>5 DEF NextCount
    <2> QED BY <1>4, <2>1, <2>2, <2>3
  <1>8. CountersMatchRows'
    BY <1>7 DEF CountersMatchRows
  <1>9. DataOK'
    <2>1. likeCount' \in [Posts -> Nat]
      BY <1>4, <1>5, <1>7
    <2>2. like' \subseteq Users \X Posts
      <3>1. <<u, p>> \in Users \X Posts
        BY <1>1
      <3> HIDE DEF u, p
      <3> QED BY <1>4, <1>5, <3>1
    <2> QED BY <1>3, <2>1, <2>2, TypesSplit DEF PInv, DataOK, MediaOK
  <1>10. RowsStay
    BY <1>3 DEF RowsStay
  <1>11. LikesOK'
    <2>1. ASSUME NEW v \in Workers PROVE LikeOK(v)'
      <3>1. CASE v = w
        BY <1>2, <3>1 DEF LikeOK, Inserting, Deleting
      <3>2. CASE v # w
        <4>1. req'[v] = req[v] /\ LikeOK(v) /\ Apart(v, w)
          BY <1>2, <3>2 DEF OnlyMoves, PInv, LikesOK
        <4> QED BY <1>4, <4>1 DEF LikeOK, Apart
      <3> QED BY <3>1, <3>2
    <2>2. ASSUME NEW v \in Workers, NEW x \in Workers, v # x PROVE Apart(v, x)'
      BY <1>2, <2>2 DEF Apart, OnlyMoves, PInv, LikesOK, Inserting, Deleting
    <2> QED BY <2>1, <2>2 DEF LikesOK
  <1>12. Learnt(w)'
    BY <1>2 DEF Learnt
  <1>13. OwnMediaOnly'
    BY <1>3 DEF PInv, OwnMediaOnly
  <1> QED BY <1>2, <1>8, <1>9, <1>10, <1>11, <1>12, <1>13, StepOfOne

-----------------------------------------------------------------------------
(* Steps that write rows *)

\* A request that ends with a write, none of a like.
LEMMA EndsWriting ==
  ASSUME PInv, Witness, RowsStay, DataOK', UNCHANGED <<like, likeCount>>, OwnMediaOnly',
         NEW w \in Workers, Respond(w)
  PROVE  PInv'
  <1>1. Formed' /\ OnlyMoves(w) /\ req'[w].pc = "idle"
    BY RespondMoves, TypesSplit DEF PInv
  <1>2. Learnt(w)'
    BY <1>1 DEF Learnt
  <1>3. LikeOK(w)' /\ \A v \in Workers : Apart(v, w)'
    BY <1>1 DEF LikeOK, Apart, Inserting, Deleting
  <1>4. LikesOK'
    BY <1>1, <1>3, LikesStay DEF PInv
  <1>5. CountersMatchRows'
    BY DEF PInv, CountersMatchRows
  <1> QED BY <1>1, <1>2, <1>4, <1>5, StepOfOne

\* A write of one statement.
LEMMA NobodyMoves ==
  ASSUME PInv, Witness, RowsStay, DataOK', UNCHANGED <<like, likeCount, req>>, OwnMediaOnly'
  PROVE  PInv'
  <1>1. TypeOK'
    BY FactsFormed, TypesSplit DEF PInv, DataOK, Formed, TypeOK, RightsOK
  <1>2. RequestsOK'
    BY Stays DEF PInv, RequestsOK
  <1>3. LikesOK' /\ CountersMatchRows'
    BY DEF PInv, LikesOK, LikeOK, Apart, CountersMatchRows
  <1> QED BY <1>1, <1>2, <1>3 DEF PInv

\* What is attached stays the author's while no post or profile is given anything new.
LEMMA OwnStays ==
  ASSUME OwnMediaOnly, RowsStay, UNCHANGED avatar, TypeOK,
         \A p \in Posts : post[p] = NoPost => post'[p] = NoPost
  PROVE  OwnMediaOnly'
  <1>1. \A p \in Posts : post[p] # NoPost => post[p].media \in Media \cup {NoItem}
    BY DEF TypeOK, PostRow
  <1>2. \A u \in Users : avatar[u] \in Media \cup {NoItem}
    BY DEF TypeOK
  <1> QED BY <1>1, <1>2 DEF OwnMediaOnly, RowsStay

\* Media rows that are there stay, and posts are left alone.
LEMMA MediaWritten ==
  ASSUME PInv, media' \in [Media -> MediaRow \cup {NoMedia}],
         \A m \in Media : media[m] # NoMedia => media'[m] # NoMedia,
         UNCHANGED <<subscription, purchase, object, post, like, likeCount, bookmark, comments,
                     avatar, mix>>
  PROVE  RowsStay /\ DataOK' /\ OwnMediaOnly'
  <1>1. RowsStay
    BY DEF RowsStay
  <1>2. DataOK'
    BY TypesSplit DEF PInv, DataOK, MediaOK
  <1>3. OwnMediaOnly'
    BY <1>1, OwnStays DEF PInv
  <1> QED BY <1>1, <1>2, <1>3

LEMMA InsertMediaKeeps ==
  ASSUME PInv, Witness, UNCHANGED <<post, like, likeCount, bookmark, comments, avatar, mix>>,
         NEW w \in Workers, InsertMedia(w)
  PROVE  PInv'
  <1> DEFINE m   == req[w].item
             row == [access |-> "FREE", trashed |-> FALSE]
  <1>1. m \in Media
    BY DEF PInv, RequestsOK, Learnt, InsertMedia
  <1>2. row \in MediaRow /\ row # NoMedia
    <2>1. row \in MediaRow
      BY DEF MediaRow, Accesses
    <2> QED BY <2>1, RowsDiffer
  <1>3. media' = [media EXCEPT ![m] = IF @ = NoMedia THEN row ELSE @]
    BY DEF InsertMedia
  <1> HIDE DEF m, row
  <1>4. /\ media' \in [Media -> MediaRow \cup {NoMedia}]
        /\ \A x \in Media : media[x] # NoMedia => media'[x] # NoMedia
    BY <1>1, <1>2, <1>3 DEF PInv, TypeOK, MediaOK
  <1>5. RowsStay /\ DataOK' /\ OwnMediaOnly'
    BY <1>4, MediaWritten DEF InsertMedia, rights
  <1> QED BY <1>5, EndsWriting DEF InsertMedia

LEMMA UpdateAccessKeeps ==
  ASSUME PInv, Witness, UNCHANGED <<post, like, likeCount, bookmark, comments, avatar, mix>>,
         NEW u \in Users, NEW m \in Media, NEW access \in Accesses, UpdateAccess(u, m, access)
  PROVE  PInv'
  <1>1. media[m] \in MediaRow
    BY DEF PInv, TypeOK, MediaOK, UpdateAccess
  <1>2. [media[m] EXCEPT !.access = access] \in MediaRow
    BY <1>1 DEF MediaRow
  <1>3. [media[m] EXCEPT !.access = access] # NoMedia
    BY <1>2, RowsDiffer
  <1>4. /\ media' \in [Media -> MediaRow \cup {NoMedia}]
        /\ \A x \in Media : media[x] # NoMedia => media'[x] # NoMedia
    BY <1>2, <1>3 DEF UpdateAccess, PInv, TypeOK, MediaOK
  <1>5. RowsStay /\ DataOK' /\ OwnMediaOnly'
    BY <1>4, MediaWritten DEF UpdateAccess, rights
  <1> QED BY <1>5, NobodyMoves DEF UpdateAccess

LEMMA TrashKeeps ==
  ASSUME PInv, Witness, UNCHANGED <<post, like, likeCount, bookmark, comments, avatar, mix>>,
         NEW u \in Users, NEW m \in Media, Trash(u, m)
  PROVE  PInv'
  <1>1. media[m] \in MediaRow
    BY DEF PInv, TypeOK, MediaOK, Trash, Live
  <1>2. [media[m] EXCEPT !.trashed = TRUE] \in MediaRow
    BY <1>1 DEF MediaRow
  <1>3. [media[m] EXCEPT !.trashed = TRUE] # NoMedia
    BY <1>2, RowsDiffer
  <1>4. /\ media' \in [Media -> MediaRow \cup {NoMedia}]
        /\ \A x \in Media : media[x] # NoMedia => media'[x] # NoMedia
    BY <1>2, <1>3 DEF Trash, PInv, TypeOK, MediaOK
  <1>5. RowsStay /\ DataOK' /\ OwnMediaOnly'
    BY <1>4, MediaWritten DEF Trash, rights
  <1> QED BY <1>5, NobodyMoves DEF Trash

\* Rights come and go, and clients upload.
LEMMA OutsideKeeps ==
  ASSUME PInv, Witness, UNCHANGED <<media, post, like, likeCount, bookmark, comments, avatar,
                                    mix, req>>,
         \/ \E v, c \in Users : Subscribe(v, c) /\ UNCHANGED object
         \/ \E v, c \in Users : Lapse(v, c) /\ UNCHANGED object
         \/ \E v \in Users, i \in Items : Buy(v, i) /\ UNCHANGED object
         \/ \E m \in Media, what \in {"fit", "unfit"} : Upload(m, what)
  PROVE  PInv'
  <1>1. /\ subscription' \subseteq {p \in Users \X Users : p[1] # p[2]}
        /\ purchase' \subseteq Users \X Items
        /\ object' \in [Media -> Objects]
    BY DEF PInv, TypeOK, RightsOK, MediaOK, Subscribe, Lapse, Buy, Upload, Objects, rights
  <1>2. RowsStay
    BY DEF RowsStay
  <1>3. DataOK'
    BY <1>1, TypesSplit DEF PInv, DataOK, MediaOK
  <1>4. OwnMediaOnly'
    BY <1>2, OwnStays DEF PInv
  <1> QED BY <1>2, <1>3, <1>4, NobodyMoves

\* What a new post carries was confirmed by its author when the request checked it,
\* and a media row never goes.
LEMMA InsertPostKeeps ==
  ASSUME PInv, Witness, UNCHANGED mix, NEW w \in Workers, NEW p \in Posts,
         NEW access \in Accesses, NEW status \in Statuses, InsertPost(w, p, access, status)
  PROVE  PInv'
  <1> DEFINE row == [author |-> req[w].user, access |-> access, status |-> status,
                     media |-> req[w].item]
  <1>1. /\ req[w].user \in Users /\ req[w].item \in Media \cup {NoItem}
        /\ req[w].item # NoItem => OfMedia(req[w]) /\ Owner[req[w].item] = req[w].user
    BY DEF PInv, RequestsOK, Learnt, InsertPost
  <1>2. row \in PostRow /\ row # NoPost
    <2>1. row \in PostRow
      BY <1>1 DEF PostRow
    <2> QED BY <2>1, RowsDiffer
  <1>3. row.author = req[w].user /\ row.media = req[w].item
    OBVIOUS
  <1>4. post' = [post EXCEPT ![p] = row] /\ post[p] = NoPost
    BY DEF InsertPost
  <1> HIDE DEF row
  <1>5. /\ post' \in [Posts -> PostRow \cup {NoPost}] /\ post'[p] = row
        /\ \A x \in Posts : x # p => post'[x] = post[x]
    BY <1>2, <1>4 DEF PInv, TypeOK
  <1>6. UNCHANGED <<subscription, purchase, object, media, like, likeCount, bookmark, comments,
                    avatar, mix>>
    BY DEF InsertPost, rights
  <1>7. RowsStay
    BY <1>4, <1>5, <1>6 DEF RowsStay
  <1>8. DataOK'
    BY <1>5, <1>6, TypesSplit DEF PInv, DataOK, MediaOK
  <1>9. OwnMediaOnly'
    BY <1>1, <1>3, <1>5, <1>6 DEF PInv, OwnMediaOnly, OfMedia
  <1> QED BY <1>6, <1>7, <1>8, <1>9, EndsWriting DEF InsertPost

\* A removed post is still a row: only its status changes.
LEMMA Erased ==
  ASSUME PInv, NEW p \in Posts, post[p] # NoPost,
         post' = [post EXCEPT ![p].status = "DELETED"],
         UNCHANGED <<rights, object, media, like, likeCount, bookmark, comments, avatar, mix>>
  PROVE  RowsStay /\ DataOK' /\ OwnMediaOnly'
  <1> DEFINE row == [post[p] EXCEPT !.status = "DELETED"]
  <1>1. post[p] \in PostRow
    BY VisiblePost DEF PInv
  <1>2. /\ row \in PostRow /\ row.author = post[p].author /\ row.access = post[p].access
        /\ row.media = post[p].media
    BY <1>1 DEF PostRow, Statuses
  <1>3. row # NoPost
    BY <1>2, RowsDiffer
  <1>4. post' = [post EXCEPT ![p] = row]
    OBVIOUS
  <1> HIDE DEF row
  <1>5. /\ post' \in [Posts -> PostRow \cup {NoPost}] /\ post'[p] = row
        /\ \A x \in Posts : x # p => post'[x] = post[x]
    BY <1>2, <1>4 DEF PInv, TypeOK
  <1>6. RowsStay
    BY <1>2, <1>3, <1>5 DEF RowsStay
  <1>7. DataOK'
    BY <1>5, TypesSplit DEF PInv, DataOK, MediaOK, rights
  <1>8. OwnMediaOnly'
    BY <1>5, <1>6, OwnStays DEF PInv
  <1> QED BY <1>6, <1>7, <1>8

LEMMA ErasePostKeeps ==
  ASSUME PInv, Witness, UNCHANGED mix, NEW w \in Workers, ErasePost(w)
  PROVE  PInv'
  <1>1. req[w].item \in Posts /\ post[req[w].item] # NoPost
    BY DEF PInv, RequestsOK, Learnt, OfPost, ErasePost
  <1>2. RowsStay /\ DataOK' /\ OwnMediaOnly'
    BY <1>1, Erased DEF ErasePost
  <1> QED BY <1>2, EndsWriting DEF ErasePost

LEMMA RemoveKeeps ==
  ASSUME PInv, Witness, UNCHANGED mix, NEW u \in Users, NEW p \in Posts, Remove(u, p)
  PROVE  PInv'
  <1>1. RowsStay /\ DataOK' /\ OwnMediaOnly'
    BY Erased DEF Remove, NotDeleted
  <1> QED BY <1>1, NobodyMoves DEF Remove

\* Bookmarks and comments, which nothing above depends on.
LEMMA AsideKeeps ==
  ASSUME PInv, Witness, UNCHANGED mix,
         \/ \E w \in Workers : WriteComment(w) \/ WriteBookmark(w)
         \/ \E u \in Users, p \in Posts : Unbookmark(u, p)
  PROVE  PInv'
  <1>1. UNCHANGED <<subscription, purchase, object, media, post, like, likeCount, avatar>>
    BY DEF WriteComment, WriteBookmark, Unbookmark, rights
  <1>2. RowsStay
    BY <1>1 DEF RowsStay
  <1>3. OwnMediaOnly'
    BY <1>1, <1>2, OwnStays DEF PInv
  <1>4. bookmark' \subseteq Users \X Posts
    <2>1. CASE \E w \in Workers : WriteBookmark(w)
      <3>1. PICK w \in Workers : WriteBookmark(w)
        BY <2>1
      <3>2. <<req[w].user, req[w].item>> \in Users \X Posts
        BY <3>1 DEF PInv, RequestsOK, Learnt, WriteBookmark
      <3>3. bookmark' = bookmark \cup {<<req[w].user, req[w].item>>}
        BY <3>1 DEF WriteBookmark
      <3> QED BY <3>2, <3>3 DEF PInv, TypeOK
    <2>2. CASE bookmark' \subseteq bookmark
      BY <2>2 DEF PInv, TypeOK
    <2> QED BY <2>1, <2>2 DEF WriteComment, Unbookmark
  <1>5. comments' \in [Posts -> 0..MaxComments]
    <2>1. CASE UNCHANGED comments
      BY <2>1 DEF PInv, TypeOK
    <2>2. CASE \E w \in Workers : WriteComment(w)
      <3>1. PICK w \in Workers : WriteComment(w)
        BY <2>2
      <3>2. /\ req[w].item \in Posts /\ comments[req[w].item] < MaxComments
            /\ comments' = [comments EXCEPT ![req[w].item] = comments[req[w].item] + 1]
        BY <3>1 DEF WriteComment, PInv, RequestsOK, Learnt
      <3>3. comments[req[w].item] + 1 \in 0..MaxComments
        BY <3>2, CommentBound DEF PInv, TypeOK
      <3> QED BY <3>2, <3>3 DEF PInv, TypeOK
    <2> QED BY <2>1, <2>2 DEF WriteBookmark, Unbookmark
  <1>6. DataOK'
    BY <1>1, <1>4, <1>5, TypesSplit DEF PInv, DataOK, MediaOK
  <1>7. CASE \E w \in Workers : Respond(w)
    BY <1>1, <1>2, <1>3, <1>6, <1>7, EndsWriting
  <1>8. CASE UNCHANGED req
    BY <1>1, <1>2, <1>3, <1>6, <1>8, NobodyMoves
  <1> QED BY <1>7, <1>8 DEF WriteComment, WriteBookmark, Unbookmark

LEMMA WriteProfileKeeps ==
  ASSUME PInv, Witness, UNCHANGED mix, NEW w \in Workers, WriteProfile(w)
  PROVE  PInv'
  <1>1. /\ req[w].user \in Users /\ req[w].item \in Media /\ media[req[w].item] # NoMedia
        /\ Owner[req[w].item] = req[w].user
    BY DEF PInv, RequestsOK, Learnt, OfMedia, WriteProfile
  <1>2. /\ avatar' = [avatar EXCEPT ![req[w].user] = req[w].item]
        /\ UNCHANGED <<subscription, purchase, object, media, post, like, likeCount, bookmark,
                       comments, mix>>
    BY DEF WriteProfile, rights
  <1>3. avatar' \in [Users -> Media \cup {NoItem}]
    BY <1>1, <1>2 DEF PInv, TypeOK
  <1>4. RowsStay
    BY <1>2 DEF RowsStay
  <1>5. DataOK'
    BY <1>2, <1>3, TypesSplit DEF PInv, DataOK, MediaOK
  <1>6. OwnMediaOnly'
    BY <1>1, <1>2, <1>3 DEF PInv, OwnMediaOnly, TypeOK
  <1> QED BY <1>2, <1>4, <1>5, <1>6, EndsWriting DEF WriteProfile

-----------------------------------------------------------------------------
(* The theorems *)

LEMMA PInvInit ==
  ASSUME Init
  PROVE  PInv
  <1>1. TypeOK
    BY IdleFormed, CommentBound
       DEF Init, RightsInit, MediaInit, TypeOK, RightsOK, MediaOK, Objects
  <1>2. RequestsOK /\ LikesOK
    BY DEF Init, RightsInit, RequestsOK, Learnt, LikesOK, LikeOK, Apart, Idle, Inserting, Deleting
  <1>3. CountersMatchRows
    <2>1. \A p \in Posts : {u \in Users : <<u, p>> \in like} = {}
      BY DEF Init
    <2> QED BY <2>1, FS_EmptySet DEF Init, CountersMatchRows
  <1>4. OwnMediaOnly
    BY DEF Init, OwnMediaOnly
  <1> QED BY <1>1, <1>2, <1>3, <1>4 DEF PInv

LEMMA MediaNextKeeps ==
  ASSUME PInv, Witness, UNCHANGED <<post, like, likeCount, bookmark, comments, avatar, mix>>,
         MediaNext
  PROVE  PInv'
  <1>1. ASSUME NEW w \in Workers, MediaBegins(w)
        PROVE  PInv'
    <2>1. UNCHANGED <<rights, content>>
      BY <1>1 DEF MediaBegins, ConfirmUpload, GetDeliveryUrl, GetPublicUrl, content
    <2> QED BY <1>1, <2>1, ConfirmUploadKeeps, GetDeliveryUrlKeeps, GetPublicUrlKeeps
            DEF MediaBegins
  <1>2. ASSUME NEW w \in Workers, MediaContinues(w)
        PROVE  PInv'
    <2>1. CASE InsertMedia(w)
      BY <2>1, InsertMediaKeeps
    <2>2. CASE HeadObject(w) \/ CheckEntitled(w) \/ Answer(w)
      <3>1. UNCHANGED <<rights, content>>
        BY <2>2 DEF HeadObject, CheckEntitled, Answer, content
      <3> QED BY <2>2, <3>1, HeadObjectKeeps, CheckEntitledKeeps, EndsKeeps DEF Answer
    <2> QED BY <1>2, <2>1, <2>2 DEF MediaContinues
  <1>3. CASE MediaOthers
    <2>1. ASSUME NEW m \in Media, NEW what \in {"fit", "unfit"}, Upload(m, what)
          PROVE  PInv'
      BY <2>1, OutsideKeeps DEF Upload
    <2> QED BY <1>3, <2>1, UpdateAccessKeeps, TrashKeeps DEF MediaOthers
  <1> QED BY <1>1, <1>2, <1>3 DEF MediaNext

LEMMA RightsKeeps ==
  ASSUME PInv, Witness, Rights,
         UNCHANGED <<object, media, post, like, likeCount, bookmark, comments, avatar, mix>>
  PROVE  PInv'
  <1>1. CASE \E w \in Workers : Die(w)
    BY <1>1, EndsKeeps DEF Die, content
  <1>2. CASE \/ \E v, c \in Users : Subscribe(v, c) \/ Lapse(v, c)
             \/ \E v \in Users, i \in Items : Buy(v, i)
    <2>1. UNCHANGED req
      BY <1>2 DEF Subscribe, Lapse, Buy
    <2> QED BY <1>2, <2>1, OutsideKeeps
  <1> QED BY <1>1, <1>2 DEF Rights

LEMMA ContinuesKeeps ==
  ASSUME PInv, Witness, UNCHANGED mix, NEW w \in Workers, Continues(w)
  PROVE  PInv'
  <1>1. CASE \/ \E p \in Posts : HomeRows(w, p)
             \/ MarkedRows(w) \/ Gate(w) \/ Show(w) \/ InsertLike(w) \/ DeleteLike(w) \/ Count(w)
             \/ CheckReader(w)
    <2>1. UNCHANGED <<rights, content>>
      BY <1>1 DEF HomeRows, MarkedRows, Gate, Show, InsertLike, DeleteLike, Count, CheckReader
    <2> QED BY <1>1, <2>1, HomeRowsKeeps, MarkedRowsKeeps, GateKeeps, EndsKeeps, InsertLikeKeeps,
               DeleteLikeKeeps, CountKeeps, CheckReaderKeeps DEF Show
  <1>2. CASE \E p \in Posts, access \in Accesses, status \in Statuses \ {"DELETED"} :
                InsertPost(w, p, access, status)
    BY <1>2, InsertPostKeeps
  <1>3. CASE \/ Commit(w) \/ WriteComment(w) \/ WriteBookmark(w) \/ ErasePost(w)
             \/ WriteProfile(w)
    BY <1>3, CommitKeeps, AsideKeeps, ErasePostKeeps, WriteProfileKeeps
  <1> QED BY <1>1, <1>2, <1>3 DEF Continues

LEMMA PInvNext ==
  ASSUME PInv, [Next]_vars
  PROVE  PInv'
  <1>1. CASE Next
    <2>1. ASSUME NEW u \in Users, NEW p \in Posts, Remove(u, p) \/ Unbookmark(u, p)
          PROVE  PInv'
      BY <1>1, <2>1, RemoveKeeps, AsideKeeps DEF Next
    <2> QED BY <1>1, <2>1, RightsKeeps, MediaNextKeeps, BeginsKeeps, ContinuesKeeps DEF Next
  <1>2. CASE UNCHANGED vars
    <2>1. UNCHANGED <<subscription, purchase, req, mix, met, object, media, post, like, likeCount,
                      bookmark, comments, avatar>>
      BY <1>2 DEF vars
    <2>2. TypeOK' /\ RequestsOK'
      BY <2>1 DEF PInv, TypeOK, RightsOK, MediaOK, RequestsOK, Learnt, OfMedia, OfPost
    <2>3. LikesOK' /\ CountersMatchRows' /\ OwnMediaOnly'
      BY <2>1 DEF PInv, LikesOK, LikeOK, Apart, CountersMatchRows, OwnMediaOnly
    <2> QED BY <2>2, <2>3 DEF PInv
  <1> QED BY <1>1, <1>2

\* What every reachable state satisfies.
THEOREM PInvAlways == Spec => []PInv
  BY PInvInit, PInvNext, PTL DEF Spec

\* Rows, rights and requests stay well formed; no counter becomes negative.
THEOREM TypeAlwaysOK == Spec => []TypeOK
  <1>1. PInv => TypeOK
    BY DEF PInv
  <1> QED BY <1>1, PInvAlways, PTL

\* likePost and unlikePost: the counter is the number of rows, however many likes and
\* unlikes of the same and of different users run at once, repeat or are rolled back.
THEOREM CountersAlwaysMatch == Spec => []CountersMatchRows
  <1>1. PInv => CountersMatchRows
    BY DEF PInv
  <1> QED BY <1>1, PInvAlways, PTL

\* create and updateProfile: nobody ever attaches, or shows, what another uploaded.
THEOREM OwnMediaAlways == Spec => []OwnMediaOnly
  <1>1. PInv => OwnMediaOnly
    BY DEF PInv
  <1> QED BY <1>1, PInvAlways, PTL

\* getDeliveryUrl and getPublicUrl: a URL is signed, or refused, for what the row and
\* the rights said at some moment of the request.
THEOREM UrlsAlwaysHaveReason == Spec => []UrlsHaveReason
  <1>1. PInv => UrlsHaveReason
    BY DEF PInv, RequestsOK, Learnt, UrlsHaveReason
  <1> QED BY <1>1, PInvAlways, PTL

\* Every feed shows a post open, or locked, for such a reason.
THEOREM FeedsAlwaysHaveReason == Spec => []FeedShowsWithReason
  <1>1. PInv => FeedShowsWithReason
    BY DEF PInv, RequestsOK, Learnt, FeedShowsWithReason
  <1> QED BY <1>1, PInvAlways, PTL

\* So does whatever is written on a check made before.
THEOREM WritesAlwaysHaveReason == Spec => WritesHaveReason
  <1>1. PInv /\ [Next]_vars =>
          [\A w \in Workers : req'[w] # req[w] =>
             /\ req[w].pc = "commit like" /\ like' # like => "visible" \in met[w]
             /\ req[w].pc = "mark" /\ bookmark' # bookmark => "visible" \in met[w]
             /\ req[w].pc = "comment" /\ comments' # comments =>
                   {"visible", "may"} \subseteq met[w]
             /\ req[w].pc = "publish" /\ post' # post /\ req[w].item # NoItem =>
                   "live" \in met[w]
             /\ req[w].pc = "insert" /\ media' # media => "fit" \in met[w]]_vars
    BY DEF PInv, RequestsOK, Learnt
  <1> QED BY <1>1, PInvAlways, PTL DEF Spec, WritesHaveReason

\* A media row changes while a request moves only when that request inserts it.
LEMMA ConfirmStep ==
  ASSUME PInv, Next, NEW w \in Workers, req'[w] # req[w], NEW m \in Media, media[m] # NoMedia
  PROVE  media'[m] = media[m]
  <1>1. CASE UNCHANGED media
    BY <1>1
  <1>2. ASSUME NEW v \in Workers, InsertMedia(v)
        PROVE  media'[m] = media[m]
    BY <1>2 DEF PInv, TypeOK, MediaOK, InsertMedia
  <1>3. CASE MediaOthers
    <2>1. UNCHANGED media \/ UNCHANGED req
      BY <1>3 DEF MediaOthers, Upload, UpdateAccess, Trash
    <2> QED BY <2>1
  <1>4. ASSUME NEW v \in Workers, MediaBegins(v)
        PROVE  media'[m] = media[m]
    BY <1>4 DEF MediaBegins, ConfirmUpload, GetDeliveryUrl, GetPublicUrl
  <1>5. ASSUME NEW v \in Workers, MediaContinues(v)
        PROVE  media'[m] = media[m]
    BY <1>2, <1>5 DEF MediaContinues, HeadObject, CheckEntitled, Answer
  <1>6. ASSUME NEW v \in Workers, Begins(v)
        PROVE  media'[m] = media[m]
    BY <1>6 DEF Begins, DeletePost, ReadFeed, HomeFeed, BookmarksFeed, Like, Unlike, Comment,
                Bookmark, CreatePost, UpdateProfile, content
  <1>7. ASSUME NEW v \in Workers, Continues(v)
        PROVE  media'[m] = media[m]
    BY <1>7 DEF Continues, HomeRows, InsertPost, MarkedRows, Gate, Show, InsertLike, DeleteLike,
                Count, Commit, CheckReader, WriteComment, WriteBookmark, ErasePost,
                WriteProfile, content
  <1>8. ASSUME NEW u \in Users, NEW p \in Posts, Remove(u, p) \/ Unbookmark(u, p)
        PROVE  media'[m] = media[m]
    BY <1>8 DEF Remove, Unbookmark
  <1> QED BY <1>1, <1>3, <1>4, <1>5, <1>6, <1>7, <1>8 DEF Next, MediaNext

\* confirmUpload: late and repeated confirmations leave the row that is there alone.
THEOREM ConfirmationsIdempotent == Spec => ConfirmKeepsRow
  <1>1. PInv /\ [Next]_vars =>
          [\A w \in Workers, m \in Media :
              req[w].pc = "insert" /\ req'[w] # req[w] /\ media[m] # NoMedia
              => media'[m] = media[m]]_vars
    BY ConfirmStep
  <1> QED BY <1>1, PInvAlways, PTL DEF Spec, ConfirmKeepsRow

-----------------------------------------------------------------------------
(* The board that posts promise *)

Holding == {"check", "comment", "mark", "like", "raise", "commit like"}

\* How a request comes to hold a post: it found it published, or held it already.
Takes(w) ==
    req'[w].pc \in Holding =>
        \/ req'[w].item \in Posts /\ Visible(req'[w].item)
        \/ req[w].pc \in Holding /\ req'[w].item = req[w].item

LEMMA BeginsTakes ==
  ASSUME PInv, NEW w \in Workers, Begins(w)
  PROVE  OnlyMoves(w) /\ Takes(w) /\ UNCHANGED content
  <1>1. PICK p \in Posts :
           \/ DeletePost(w, p)
           \/ \E v \in Viewers : ReadFeed(w, v, p)
           \/ \E u \in Users : \/ HomeFeed(w, u) \/ BookmarksFeed(w, u, p)
                               \/ Like(w, u, p) \/ Unlike(w, u, p)
                               \/ Comment(w, u, p) \/ Bookmark(w, u, p)
                               \/ \E m \in Media \cup {NoItem} : CreatePost(w, u, m)
                               \/ \E m \in Media : UpdateProfile(w, u, m)
    BY DEF Begins
  <1>2. UNCHANGED content
    BY <1>1 DEF DeletePost, ReadFeed, HomeFeed, BookmarksFeed, Like, Unlike, Comment, Bookmark,
                CreatePost, UpdateProfile
  <1>3. Formed
    BY TypesSplit DEF PInv
  <1>4. OnlyMoves(w)
    BY <1>1, <1>3 DEF Formed, OnlyMoves, Begin, DeletePost, ReadFeed, HomeFeed, BookmarksFeed, Like,
                      Unlike, Comment, Bookmark, CreatePost, UpdateProfile
  <1>5. CASE \E u \in Users : Like(w, u, p) \/ Comment(w, u, p) \/ Bookmark(w, u, p)
    <2>1. req'[w].item = p /\ Visible(p)
      BY <1>3, <1>5 DEF Formed, Begin, Like, Comment, Bookmark, Idle
    <2> QED BY <1>2, <1>4, <2>1 DEF Takes
  <1>6. CASE \/ DeletePost(w, p) \/ \E v \in Viewers : ReadFeed(w, v, p)
             \/ \E u \in Users : \/ HomeFeed(w, u) \/ BookmarksFeed(w, u, p) \/ Unlike(w, u, p)
                                 \/ \E m \in Media \cup {NoItem} : CreatePost(w, u, m)
                                 \/ \E m \in Media : UpdateProfile(w, u, m)
    <2>1. req'[w].pc \notin Holding
      BY <1>3, <1>6 DEF Formed, Begin, DeletePost, ReadFeed, HomeFeed, BookmarksFeed, Unlike,
                        CreatePost, UpdateProfile, Idle, Holding
    <2> QED BY <1>2, <1>4, <2>1 DEF Takes
  <1> QED BY <1>1, <1>2, <1>4, <1>5, <1>6

LEMMA MediaBeginsTakes ==
  ASSUME PInv, NEW w \in Workers, MediaBegins(w)
  PROVE  OnlyMoves(w) /\ Takes(w) /\ UNCHANGED media
  <1>1. Formed
    BY TypesSplit DEF PInv
  <1>2. OnlyMoves(w) /\ UNCHANGED media
    BY <1>1 DEF Formed, OnlyMoves, Begin, MediaBegins, ConfirmUpload, GetDeliveryUrl, GetPublicUrl
  <1>3. req'[w].pc \notin Holding
    BY <1>1 DEF Formed, Begin, MediaBegins, ConfirmUpload, GetDeliveryUrl, GetPublicUrl, Idle,
                Holding
  <1> QED BY <1>2, <1>3 DEF Takes

LEMMA EndsTakes ==
  ASSUME PInv, NEW w \in Workers, Respond(w)
  PROVE  OnlyMoves(w) /\ Takes(w)
  <1>1. Formed
    BY TypesSplit DEF PInv
  <1> QED BY <1>1, RespondMoves DEF Takes, Holding

LEMMA GoesTakes ==
  ASSUME PInv, NEW w \in Workers, NEW label \in Steps, Goto(w, label),
         label \in Holding => req[w].pc \in Holding
  PROVE  OnlyMoves(w) /\ Takes(w)
  <1>1. Formed
    BY TypesSplit DEF PInv
  <1> QED BY <1>1, GotoMoves DEF Takes

LEMMA ContinuesTakes ==
  ASSUME PInv, NEW w \in Workers, Continues(w) \/ MediaContinues(w)
  PROVE  OnlyMoves(w) /\ Takes(w)
  <1>1. CASE Respond(w)
    BY <1>1, EndsTakes
  <1>2. CASE HeadObject(w) \/ CheckEntitled(w) \/ Gate(w) \/ DeleteLike(w)
    <2>1. Respond(w) \/ \E label \in {"insert", "sign", "refuse", "open", "lock", "lower"} :
                            Goto(w, label)
      BY <1>2 DEF HeadObject, CheckEntitled, Gate, DeleteLike
    <2> QED BY <2>1, EndsTakes, GoesTakes DEF Steps, Holding
  <1>3. CASE InsertLike(w) \/ CheckReader(w)
    <2>1. /\ req[w].pc \in Holding
          /\ Respond(w) \/ \E label \in {"raise", "comment"} : Goto(w, label)
      BY <1>3 DEF InsertLike, CheckReader, Holding
    <2> QED BY <2>1, EndsTakes, GoesTakes DEF Steps
  <1>4. CASE Count(w)
    <2>1. (req[w].pc = "raise" /\ Goto(w, "commit like")) \/ Goto(w, "commit unlike")
      BY <1>4 DEF Count
    <2> QED BY <2>1, GoesTakes DEF Steps, Holding
  <1>5. Formed /\ req[w] \in Request
    BY TypesSplit DEF PInv, Formed
  <1>6. CASE \E p \in Posts : HomeRows(w, p)
    <2>1. PICK p \in Posts : HomeRows(w, p)
      BY <1>6
    <2>2. CASE req' = [req EXCEPT ![w].pc = "gate", ![w].item = p, ![w].access = post[p].access]
      <3>1. /\ req'[w] = [req[w] EXCEPT !.pc = "gate", !.item = p, !.access = post[p].access]
            /\ OnlyMoves(w)
        BY <1>5, <2>2 DEF Formed, OnlyMoves
      <3>2. req'[w].pc = "gate"
        BY <1>5, <3>1 DEF Request
      <3> QED BY <3>1, <3>2 DEF Takes, Holding
    <2> QED BY <1>1, <2>1, <2>2 DEF HomeRows
  <1>7. CASE MarkedRows(w)
    <2>1. CASE req' = [req EXCEPT ![w].pc = "gate", ![w].access = post[req[w].item].access]
      <3>1. /\ req'[w] = [req[w] EXCEPT !.pc = "gate", !.access = post[req[w].item].access]
            /\ OnlyMoves(w)
        BY <1>5, <2>1 DEF Formed, OnlyMoves
      <3>2. req'[w].pc = "gate"
        BY <1>5, <3>1 DEF Request
      <3> QED BY <3>1, <3>2 DEF Takes, Holding
    <2> QED BY <1>1, <1>7, <2>1 DEF MarkedRows
  <1>8. \/ Respond(w) \/ HeadObject(w) \/ CheckEntitled(w) \/ Gate(w) \/ DeleteLike(w)
        \/ InsertLike(w) \/ CheckReader(w) \/ Count(w) \/ MarkedRows(w)
        \/ \E p \in Posts : HomeRows(w, p)
    BY DEF Continues, MediaContinues, InsertMedia, Answer, InsertPost, Show, Commit, WriteComment,
           WriteBookmark, ErasePost, WriteProfile
  <1> QED BY <1>1, <1>2, <1>3, <1>4, <1>6, <1>7, <1>8

\* A deletion changes the status of the post and nothing else.
LEMMA DeletionStays ==
  ASSUME PInv, NEW p \in Posts, post[p] # NoPost, post' = [post EXCEPT ![p].status = "DELETED"],
         NEW q \in Posts, Released(q)
  PROVE  Released(q)'
  <1>1. post[p] \in PostRow
    BY VisiblePost DEF PInv
  <1>2. /\ [post[p] EXCEPT !.status = "DELETED"] \in PostRow
        /\ [post[p] EXCEPT !.status = "DELETED"].status = "DELETED"
    BY <1>1 DEF PostRow, Statuses
  <1>3. /\ post'[p] = [post[p] EXCEPT !.status = "DELETED"]
        /\ q # p => post'[q] = post[q]
    BY DEF PInv, TypeOK
  <1> QED BY <1>2, <1>3, RowsDiffer DEF Released

\* What a step can do to the posts.
LEMMA PostsChange ==
  ASSUME PInv, Next
  PROVE  \/ UNCHANGED post
         \/ \E w \in Workers, p \in Posts, access \in Accesses, status \in Statuses \ {"DELETED"} :
                InsertPost(w, p, access, status)
         \/ \E w \in Workers : ErasePost(w)
         \/ \E u \in Users, p \in Posts : Remove(u, p)
  <1>1. ASSUME NEW w \in Workers, Begins(w)
        PROVE  UNCHANGED post
    BY <1>1, BeginsTakes DEF content
  <1>2. ASSUME NEW w \in Workers, Continues(w)
        PROVE  \/ UNCHANGED post \/ ErasePost(w)
               \/ \E p \in Posts, access \in Accesses, status \in Statuses \ {"DELETED"} :
                      InsertPost(w, p, access, status)
    BY <1>2 DEF Continues, HomeRows, MarkedRows, Gate, Show, InsertLike, DeleteLike, Count, Commit,
                CheckReader, WriteComment, WriteBookmark, WriteProfile, content
  <1> QED BY <1>1, <1>2 DEF Next, Unbookmark

LEMMA ReleasedStays ==
  ASSUME PInv, Next, NEW q \in Posts, Released(q)
  PROVE  Released(q)'
  <1>1. CASE UNCHANGED post
    BY <1>1 DEF Released
  <1>2. CASE \E w \in Workers, p \in Posts, access \in Accesses, status \in Statuses \ {"DELETED"} :
                InsertPost(w, p, access, status)
    <2>1. PICK p \in Posts : post[p] = NoPost /\ \E row : post' = [post EXCEPT ![p] = row]
      BY <1>2 DEF InsertPost
    <2>2. post'[q] = post[q]
      BY <2>1 DEF Released, PInv, TypeOK
    <2> QED BY <2>2 DEF Released
  <1>3. CASE \E w \in Workers : ErasePost(w)
    <2>1. PICK w \in Workers : ErasePost(w)
      BY <1>3
    <2>2. req[w].item \in Posts /\ post[req[w].item] # NoPost
      BY <2>1 DEF PInv, RequestsOK, Learnt, OfPost, ErasePost
    <2> QED BY <2>1, <2>2, DeletionStays DEF ErasePost
  <1>4. CASE \E u \in Users, p \in Posts : Remove(u, p)
    BY <1>4, DeletionStays DEF Remove, NotDeleted
  <1> QED BY <1>1, <1>2, <1>3, <1>4, PostsChange

\* Who moves in a step.
LEMMA MovesTake ==
  ASSUME PInv, Next
  PROVE  UNCHANGED req \/ \E w \in Workers : OnlyMoves(w) /\ Takes(w)
  <1>1. CASE Rights
    BY <1>1, EndsTakes DEF Rights, Subscribe, Lapse, Buy, Die
  <1>2. CASE MediaNext
    <2>1. CASE MediaOthers
      BY <2>1 DEF MediaOthers, Upload, UpdateAccess, Trash
    <2> QED BY <1>2, <2>1, MediaBeginsTakes, ContinuesTakes DEF MediaNext
  <1>3. CASE \E w \in Workers : Begins(w) \/ Continues(w)
    BY <1>3, BeginsTakes, ContinuesTakes
  <1>4. CASE \E u \in Users, p \in Posts : Remove(u, p) \/ Unbookmark(u, p)
    BY <1>4 DEF Remove, Unbookmark
  <1> QED BY <1>1, <1>2, <1>3, <1>4 DEF Next

LEMMA ReleasedNext ==
  ASSUME PInv, ReleasedOK, [Next]_vars
  PROVE  ReleasedOK'
  <1>1. CASE Next
    <2> SUFFICES ASSUME NEW w \in Workers, req'[w].pc \in Holding
                 PROVE  /\ req'[w].item \in Posts /\ post'[req'[w].item] # NoPost
                        /\ post'[req'[w].item].status \in {"PUBLISHED", "DELETED"}
      BY DEF ReleasedOK, Released, Holding
    <2> DEFINE p == req'[w].item
    <2>1. \/ req[w].pc \in Holding /\ p = req[w].item
          \/ p \in Posts /\ Visible(p)
      <3>1. CASE req'[w] = req[w]
        BY <3>1
      <3>2. CASE req'[w] # req[w]
        BY <1>1, <3>2, MovesTake DEF OnlyMoves, Takes
      <3> QED BY <3>1, <3>2
    <2>2. p \in Posts /\ Released(p)
      BY <2>1 DEF ReleasedOK, Holding, Released, Visible
    <2>3. ASSUME NEW q \in Posts, Released(q)
          PROVE  post'[q] # NoPost /\ post'[q].status \in {"PUBLISHED", "DELETED"}
      <3>1. Released(q)'
        BY <1>1, <2>3, ReleasedStays
      <3> QED BY <3>1 DEF Released
    <2> QED BY <2>2, <2>3
  <1>2. CASE UNCHANGED vars
    BY <1>2 DEF vars, ReleasedOK, Released
  <1> QED BY <1>1, <1>2

LEMMA ReleasedAlways == Spec => []ReleasedOK
  <1>1. Init => ReleasedOK
    <2>1. Init => \A w \in Workers : req[w] = Idle
      BY DEF Init, RightsInit
    <2>2. Idle.pc = "idle"
      BY DEF Idle
    <2> QED BY <2>1, <2>2 DEF ReleasedOK
  <1>2. PInv /\ ReleasedOK /\ [Next]_vars => ReleasedOK'
    BY ReleasedNext
  <1> QED BY <1>1, <1>2, PInvAlways, PTL DEF Spec


LEMMA BoardInit == Init => Promised!Init
  BY DEF Init, MediaInit, Promised!Init

LEMMA BoardSame ==
  ASSUME UNCHANGED <<media, avatar, post, like, likeCount, bookmark, comments>>
  PROVE  UNCHANGED Promised!vars
  BY DEF Promised!vars, Promised!board

\* A confirmation that comes second leaves the row alone.
LEMMA InsertConfirms ==
  ASSUME PInv, NEW w \in Workers, InsertMedia(w),
         UNCHANGED <<post, like, likeCount, bookmark, comments, avatar>>
  PROVE  Promised!Next \/ UNCHANGED Promised!vars
  <1> DEFINE m == req[w].item
  <1>1. m \in Media /\ media \in [Media -> MediaRow \cup {NoMedia}]
    BY DEF PInv, TypeOK, MediaOK, RequestsOK, Learnt, InsertMedia
  <1>2. media' = [media EXCEPT ![m] = IF @ = NoMedia THEN [access |-> "FREE", trashed |-> FALSE]
                                                     ELSE @]
    BY DEF InsertMedia
  <1> HIDE DEF m
  <1>3. CASE media[m] = NoMedia
    <2>1. media' = [media EXCEPT ![m] = [access |-> "FREE", trashed |-> FALSE]]
      BY <1>1, <1>2, <1>3
    <2>2. Promised!Confirm(m)
      BY <1>3, <2>1 DEF Promised!Confirm, Promised!board
    <2> QED BY <1>1, <2>2 DEF Promised!Next
  <1>4. CASE media[m] # NoMedia
    <2>1. media' = media
      BY <1>1, <1>2, <1>4
    <2> QED BY <2>1, BoardSame
  <1> QED BY <1>3, <1>4

LEMMA MediaBoard ==
  ASSUME PInv, MediaNext, UNCHANGED <<post, like, likeCount, bookmark, comments, avatar>>
  PROVE  Promised!Next \/ UNCHANGED Promised!vars
  <1>1. CASE UNCHANGED media
    BY <1>1, BoardSame
  <1>2. CASE \E w \in Workers : InsertMedia(w)
    BY <1>2, InsertConfirms
  <1>3. CASE \E m \in Media, u \in Users, access \in Accesses : UpdateAccess(u, m, access)
    <2>1. PICK m \in Media, u \in Users, access \in Accesses : UpdateAccess(u, m, access)
      BY <1>3
    <2>2. Promised!Protect(m, access) /\ access \in Promised!Accesses
      BY <2>1 DEF UpdateAccess, Promised!Protect, Promised!board, Accesses, Promised!Accesses
    <2> QED BY <2>2 DEF Promised!Next
  <1>4. CASE \E m \in Media, u \in Users : Trash(u, m)
    <2>1. PICK m \in Media, u \in Users : Trash(u, m)
      BY <1>4
    <2>2. Promised!Trash(m)
      BY <2>1 DEF Trash, Live, Promised!Trash, Promised!board
    <2> QED BY <2>2 DEF Promised!Next
  <1>5. ASSUME NEW w \in Workers, MediaBegins(w) \/ HeadObject(w) \/ CheckEntitled(w) \/ Answer(w)
        PROVE  UNCHANGED media
    BY <1>5, MediaBeginsTakes DEF HeadObject, CheckEntitled, Answer
  <1> QED BY <1>1, <1>2, <1>3, <1>4, <1>5 DEF MediaNext, MediaOthers, MediaContinues, Upload

LEMMA InsertPublishes ==
  ASSUME PInv, NEW w \in Workers, NEW p \in Posts, NEW access \in Accesses,
         NEW status \in Statuses \ {"DELETED"}, InsertPost(w, p, access, status)
  PROVE  Promised!Next
  <1>1. /\ req[w].user \in Users /\ req[w].item \in Media \cup {NoItem}
        /\ req[w].item # NoItem => media[req[w].item] # NoMedia /\ Owner[req[w].item] = req[w].user
    BY DEF PInv, RequestsOK, Learnt, OfMedia, InsertPost
  <1>2. Promised!Publish(req[w].user, p, req[w].item, access, status)
    BY <1>1 DEF InsertPost, Promised!Publish, Promised!Vault
  <1> QED BY <1>1, <1>2 DEF Promised!Next, Accesses, Promised!Accesses, Statuses,
                            Promised!Statuses

LEMMA CommitsBoard ==
  ASSUME PInv, ReleasedOK, NEW w \in Workers, Commit(w)
  PROVE  Promised!Next
  <1>1. req[w].user \in Users /\ req[w].item \in Posts /\ LikeOK(w)
    BY DEF PInv, RequestsOK, Learnt, LikesOK, Commit
  <1>2. CASE req[w].pc = "commit like"
    <2>1. Released(req[w].item)
      BY <1>2 DEF ReleasedOK
    <2>2. Promised!Like(req[w].user, req[w].item)
      BY <1>1, <1>2, <2>1 DEF Commit, LikeOK, Inserting, Released, Promised!Like, Promised!Out
    <2> QED BY <1>1, <2>2 DEF Promised!Next
  <1>3. CASE req[w].pc = "commit unlike"
    <2>1. Promised!Unlike(req[w].user, req[w].item)
      BY <1>1, <1>3 DEF Commit, LikeOK, Deleting, Promised!Unlike
    <2> QED BY <1>1, <2>1 DEF Promised!Next
  <1> QED BY <1>2, <1>3 DEF Commit

\* Marks and comments: of what a request found published.
LEMMA WritesBoard ==
  ASSUME PInv, ReleasedOK, NEW w \in Workers, WriteBookmark(w) \/ WriteComment(w)
  PROVE  Promised!Next
  <1>1. req[w].item \in Posts /\ Promised!Out(req[w].item)
    BY DEF WriteBookmark, WriteComment, ReleasedOK, Released, Promised!Out
  <1>2. CASE WriteBookmark(w)
    <2>1. req[w].user \in Users
      BY <1>2 DEF PInv, RequestsOK, Learnt, WriteBookmark
    <2>2. Promised!Mark(req[w].user, req[w].item)
      BY <1>1, <1>2 DEF WriteBookmark, Promised!Mark
    <2> QED BY <1>1, <2>1, <2>2 DEF Promised!Next
  <1>3. CASE WriteComment(w)
    <2>1. Promised!Comment(req[w].item)
      BY <1>1, <1>3 DEF WriteComment, Promised!Comment
    <2> QED BY <1>1, <2>1 DEF Promised!Next
  <1> QED BY <1>2, <1>3

LEMMA ErasesBoard ==
  ASSUME PInv, NEW w \in Workers, ErasePost(w)
  PROVE  Promised!Next
  <1>1. req[w].item \in Posts /\ post[req[w].item] # NoPost
    BY DEF PInv, RequestsOK, Learnt, OfPost, ErasePost
  <1>2. Promised!Delete(req[w].item)
    BY <1>1 DEF ErasePost, Promised!Delete
  <1> QED BY <1>1, <1>2 DEF Promised!Next

LEMMA PortraysBoard ==
  ASSUME PInv, NEW w \in Workers, WriteProfile(w)
  PROVE  Promised!Next
  <1>1. /\ req[w].user \in Users /\ req[w].item \in Media
        /\ media[req[w].item] # NoMedia /\ Owner[req[w].item] = req[w].user
    BY DEF PInv, RequestsOK, Learnt, OfMedia, WriteProfile
  <1>2. Promised!Portray(req[w].user, req[w].item)
    BY <1>1 DEF WriteProfile, Promised!Portray, Promised!Vault, Promised!board
  <1> QED BY <1>1, <1>2 DEF Promised!Next

LEMMA AsideBoard ==
  ASSUME NEW u \in Users, NEW p \in Posts, Remove(u, p) \/ Unbookmark(u, p)
  PROVE  Promised!Next
  <1>1. CASE Remove(u, p)
    <2>1. Promised!Delete(p)
      BY <1>1 DEF Remove, NotDeleted, Promised!Delete
    <2> QED BY <2>1 DEF Promised!Next
  <1>2. CASE Unbookmark(u, p)
    <2>1. Promised!Unmark(u, p)
      BY <1>2 DEF Unbookmark, Promised!Unmark
    <2> QED BY <2>1 DEF Promised!Next
  <1> QED BY <1>1, <1>2

LEMMA ContinuesBoard ==
  ASSUME PInv, ReleasedOK, NEW w \in Workers, Continues(w)
  PROVE  Promised!Next \/ UNCHANGED Promised!vars
  <1>1. CASE UNCHANGED content
    BY <1>1, BoardSame DEF content
  <1>2. CASE \E p \in Posts, access \in Accesses, status \in Statuses \ {"DELETED"} :
                InsertPost(w, p, access, status)
    BY <1>2, InsertPublishes
  <1>3. CASE \/ Commit(w) \/ WriteComment(w) \/ WriteBookmark(w) \/ ErasePost(w)
             \/ WriteProfile(w)
    BY <1>3, CommitsBoard, WritesBoard, ErasesBoard, PortraysBoard
  <1>4. CASE \/ \E p \in Posts : HomeRows(w, p)
             \/ MarkedRows(w) \/ Gate(w) \/ Show(w) \/ InsertLike(w) \/ DeleteLike(w) \/ Count(w)
             \/ CheckReader(w)
    BY <1>1, <1>4 DEF HomeRows, MarkedRows, Gate, Show, InsertLike, DeleteLike, Count, CheckReader
  <1> QED BY <1>2, <1>3, <1>4 DEF Continues

LEMMA BoardStep ==
  ASSUME PInv, ReleasedOK, [Next]_vars
  PROVE  Promised!Next \/ UNCHANGED Promised!vars
  <1>1. CASE UNCHANGED vars
    BY <1>1, BoardSame DEF vars
  <1>2. CASE Rights /\ UNCHANGED <<object, media, post, like, likeCount, bookmark, comments, avatar>>
    BY <1>2, BoardSame
  <1>3. CASE MediaNext /\ UNCHANGED <<post, like, likeCount, bookmark, comments, avatar>>
    BY <1>3, MediaBoard
  <1>4. CASE \E w \in Workers : Begins(w)
    BY <1>4, BeginsTakes, BoardSame DEF content
  <1>5. CASE \E w \in Workers : Continues(w)
    BY <1>5, ContinuesBoard
  <1>6. CASE \E u \in Users, p \in Posts : Remove(u, p) \/ Unbookmark(u, p)
    BY <1>6, AsideBoard
  <1> QED BY <1>1, <1>2, <1>3, <1>4, <1>5, <1>6 DEF Next

\* Posts implements Board: whatever requests run at once, are repeated or die between two
\* statements of posts.service.ts, media.service.ts, users.service.ts and admin.service.ts,
\* posts, likes, comments, marks, vaults and profiles change as if by one request at a time.
THEOREM BoardImplemented == Spec => ImplementsBoard
  <1>1. PInv /\ ReleasedOK /\ [Next]_vars => [Promised!Next]_(Promised!vars)
    BY BoardStep
  <1> QED BY <1>1, BoardInit, PInvAlways, ReleasedAlways, PTL
          DEF Spec, ImplementsBoard, Promised!Spec
=============================================================================
