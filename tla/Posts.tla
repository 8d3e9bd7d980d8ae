------------------------------- MODULE Posts -------------------------------
(***************************************************************************)
(* posts.service.ts, over the media it attaches: posts, feeds with access  *)
(* gating, likes and comments with their counters, removal; the pictures   *)
(* of a profile (users.service.ts) and staff who remove a post             *)
(* (admin.service.ts).                                                     *)
(*                                                                         *)
(* An interactive transaction holds the rows it wrote until it ends; what  *)
(* it wrote appears at its commit (read committed).  Pins, what a post says   *)
(* and the decoration of a feed are left out.                              *)
(***************************************************************************)
EXTENDS Media

CONSTANTS
    MaxComments,    \* bound: comments of a post
    NoPost

ASSUME CommentBound == MaxComments \in Nat
ASSUME UsersFinite == IsFiniteSet(Users)

VARIABLES
    post,
    like,           \* Like rows, <<user, post>>
    likeCount,
    bookmark,       \* Bookmark rows, <<user, post>>
    comments,       \* Comment rows of a post, and commentCount: one batch writes both
    avatar          \* Profile.avatarMediaId and bannerMediaId: one rule for both

content == <<object, media, post, like, likeCount, bookmark, comments, avatar>>
vars    == <<subscription, purchase, req, mix, met, object, media, post, like, likeCount,
             bookmark, comments, avatar>>

Statuses == {"PUBLISHED", "DRAFT", "SCHEDULED", "DELETED"}
PostRow  == [author: Users, access: Accesses, status: Statuses, media: Media \cup {NoItem}]

ASSUME RowsDiffer == NoPost \notin PostRow /\ NoMedia \notin MediaRow

TypeOK ==
    /\ RightsOK /\ MediaOK
    /\ post \in [Posts -> PostRow \cup {NoPost}]
    /\ like \subseteq Users \X Posts /\ bookmark \subseteq Users \X Posts
    /\ likeCount \in [Posts -> Nat]
    /\ comments \in [Posts -> 0..MaxComments]
    /\ avatar \in [Users -> Media \cup {NoItem}]

Init ==
    /\ RightsInit /\ MediaInit
    /\ post = [p \in Posts |-> NoPost]
    /\ like = {} /\ bookmark = {}
    /\ likeCount = [p \in Posts |-> 0]
    /\ comments = [p \in Posts |-> 0]
    /\ avatar = [u \in Users |-> NoItem]

\* assertVisible, and the filter of every feed.
\* Mutant: a draft shows.
NotDeleted(p) == post[p] # NoPost /\ post[p].status # "DELETED"
Visible(p)    == post[p] # NoPost /\ post[p].status = "PUBLISHED"

-----------------------------------------------------------------------------
(* create *)

\* The media are counted, those the author owns and has not trashed.
\* Mutant: whoever owns it.
AnyLive(u, m)     == Live(m)
Attachable(u, m)  == Live(m) /\ Owner[m] = u

CreatePost(w, u, m) ==
    /\ m \in {x \in Media : Attachable(u, x)} \cup {NoItem}
    /\ Begin(w, "create", [Idle EXCEPT !.pc = "publish", !.user = u, !.item = m])
    /\ UNCHANGED <<rights, content>>

\* Neither a draft nor a scheduled post is published later: no code does it.
InsertPost(w, p, access, status) ==
    /\ req[w].pc = "publish"
    /\ post[p] = NoPost
    /\ post' = [post EXCEPT ![p] = [author |-> req[w].user, access |-> access,
                                    status |-> status, media |-> req[w].item]]
    /\ Respond(w)
    /\ UNCHANGED <<rights, object, media, like, likeCount, bookmark, comments, avatar>>

-----------------------------------------------------------------------------
(* Feeds *)

\* creatorFeed reads the published rows, then gates each.
ReadFeed(w, v, p) ==
    /\ Visible(p)
    /\ Begin(w, "feed", [Idle EXCEPT !.pc = "gate", !.user = v, !.item = p,
                                     !.access = post[p].access])
    /\ UNCHANGED <<rights, content>>

\* homeFeed reads the subscriptions first.
HomeFeed(w, v) ==
    /\ v \in Users
    /\ Begin(w, "feed", [Idle EXCEPT !.pc = "rows", !.user = v,
                             !.authors = {v} \cup {c \in Users : <<v, c>> \in subscription}])
    /\ UNCHANGED <<rights, content>>

HomeRows(w, p) ==
    /\ req[w].pc = "rows"
    /\ IF Visible(p) /\ post[p].author \in req[w].authors
       THEN req' = [req EXCEPT ![w].pc = "gate", ![w].item = p, ![w].access = post[p].access]
       ELSE Respond(w)
    /\ UNCHANGED <<rights, content>>

\* bookmarksFeed reads the marks first, and the rows they name then.
BookmarksFeed(w, v, p) ==
    /\ <<v, p>> \in bookmark
    /\ Begin(w, "feed", [Idle EXCEPT !.pc = "marked", !.user = v, !.item = p])
    /\ UNCHANGED <<rights, content>>

MarkedRows(w) ==
    /\ req[w].pc = "marked"
    /\ IF Visible(req[w].item)
       THEN req' = [req EXCEPT ![w].pc = "gate", ![w].access = post[req[w].item].access]
       ELSE Respond(w)
    /\ UNCHANGED <<rights, content>>

MayRead(q) == Entitled(q.user, post[q.item].author, q.access, q.item)

\* shapeAndDecorate: an open post, or one with its body and media left out.
Gate(w) ==
    /\ req[w].pc = "gate"
    /\ Goto(w, IF MayRead(req[w]) THEN "open" ELSE "lock")
    /\ UNCHANGED <<rights, content>>

Show(w) ==
    /\ req[w].pc \in {"open", "lock"}
    /\ Respond(w)
    /\ UNCHANGED <<rights, content>>

-----------------------------------------------------------------------------
(* Transactions on likes *)

\* Requests other than w that hold p's row, or u's like of p.
HoldsPost(w, p)    == \E v \in Workers \ {w} : /\ req[v].pc \in {"commit like", "commit unlike"}
                                               /\ req[v].item = p
LikeBusy(w, kinds) == \E v \in Workers \ {w} : /\ req[v].pc \in kinds
                                               /\ req[v].item = req[w].item
                                               /\ req[v].user = req[w].user
Inserting == {"raise", "commit like"}
Deleting  == {"lower", "commit unlike"}

Like(w, u, p) ==
    /\ Visible(p)
    /\ Begin(w, "like", [Idle EXCEPT !.pc = "like", !.user = u, !.item = p])
    /\ UNCHANGED <<rights, content>>

\* createMany with skipDuplicates waits for whoever is writing the same row.
\* Mutant: it does not wait.
InsertLikeAtOnce(w) ==
    /\ req[w].pc = "like"
    /\ IF <<req[w].user, req[w].item>> \in like THEN Respond(w) ELSE Goto(w, "raise")
    /\ UNCHANGED <<rights, content>>

InsertLike(w) ==
    /\ req[w].pc = "like"
    /\ ~LikeBusy(w, Inserting \cup Deleting)
    /\ IF <<req[w].user, req[w].item>> \in like THEN Respond(w) ELSE Goto(w, "raise")
    /\ UNCHANGED <<rights, content>>

Unlike(w, u, p) ==
    /\ post[p] # NoPost
    /\ Begin(w, "like", [Idle EXCEPT !.pc = "unlike", !.user = u, !.item = p])
    /\ UNCHANGED <<rights, content>>

\* deleteMany does not see a row that is being inserted.
\* Mutant: the counter is lowered whether a row went or not.
DeleteLikeBlindly(w) ==
    /\ req[w].pc = "unlike"
    /\ ~LikeBusy(w, Deleting)
    /\ Goto(w, "lower")
    /\ UNCHANGED <<rights, content>>

DeleteLike(w) ==
    /\ req[w].pc = "unlike"
    /\ ~LikeBusy(w, Deleting)
    /\ IF <<req[w].user, req[w].item>> \in like THEN Goto(w, "lower") ELSE Respond(w)
    /\ UNCHANGED <<rights, content>>

\* The counter's row is locked and changed by one, either way.
Count(w) ==
    /\ req[w].pc \in {"raise", "lower"}
    /\ ~HoldsPost(w, req[w].item)
    /\ Goto(w, IF req[w].pc = "raise" THEN "commit like" ELSE "commit unlike")
    /\ UNCHANGED <<rights, content>>

Commit(w) ==
    LET p   == req[w].item
        row == <<req[w].user, p>>
    IN  /\ \/ /\ req[w].pc = "commit like"
              /\ like' = like \cup {row}
              /\ likeCount' = [likeCount EXCEPT ![p] = @ + 1]
           \/ /\ req[w].pc = "commit unlike"
              /\ like' = like \ {row}
              /\ likeCount' = [likeCount EXCEPT ![p] = @ - 1]
        /\ Respond(w)
        /\ UNCHANGED <<rights, object, media, post, bookmark, comments, avatar>>

-----------------------------------------------------------------------------
(* bookmark, comment, remove *)

Bookmark(w, u, p) ==
    /\ Visible(p)
    /\ Begin(w, "bookmark", [Idle EXCEPT !.pc = "mark", !.user = u, !.item = p])
    /\ UNCHANGED <<rights, content>>

\* createMany with skipDuplicates.
WriteBookmark(w) ==
    /\ req[w].pc = "mark"
    /\ bookmark' = bookmark \cup {<<req[w].user, req[w].item>>}
    /\ Respond(w)
    /\ UNCHANGED <<rights, object, media, post, like, likeCount, comments, avatar>>

Unbookmark(u, p) ==
    /\ "bookmark" \in mix
    /\ bookmark' = bookmark \ {<<u, p>>}
    /\ UNCHANGED <<rights, req, object, media, post, like, likeCount, comments, avatar>>

Comment(w, u, p) ==
    /\ Visible(p)
    /\ Begin(w, "comment", [Idle EXCEPT !.pc = "check", !.user = u, !.item = p,
                                        !.access = post[p].access])
    /\ UNCHANGED <<rights, content>>

CheckReader(w) ==
    /\ req[w].pc = "check"
    /\ IF MayRead(req[w]) THEN Goto(w, "comment") ELSE Respond(w)
    /\ UNCHANGED <<rights, content>>

WriteComment(w) ==
    LET p == req[w].item
    IN  /\ req[w].pc = "comment"
        /\ ~HoldsPost(w, p)
        /\ comments[p] < MaxComments
        /\ comments' = [comments EXCEPT ![p] = @ + 1]
        /\ Respond(w)
        /\ UNCHANGED <<rights, object, media, post, like, likeCount, bookmark, avatar>>

\* One statement, which waits for a transaction on the same post.
Remove(u, p) ==
    /\ "remove" \in mix
    /\ NotDeleted(p) /\ post[p].author = u
    /\ ~\E w \in Workers : HoldsPost(w, p)
    /\ post' = [post EXCEPT ![p].status = "DELETED"]
    /\ UNCHANGED <<rights, req, object, media, like, likeCount, bookmark, comments, avatar>>

\* deletePost of admin.service.ts: whatever the row says, and whoever wrote it.
DeletePost(w, p) ==
    /\ post[p] # NoPost
    /\ Begin(w, "moderate", [Idle EXCEPT !.pc = "erase", !.item = p])
    /\ UNCHANGED <<rights, content>>

ErasePost(w) ==
    /\ req[w].pc = "erase"
    /\ ~HoldsPost(w, req[w].item)
    /\ post' = [post EXCEPT ![req[w].item].status = "DELETED"]
    /\ Respond(w)
    /\ UNCHANGED <<rights, object, media, like, likeCount, bookmark, comments, avatar>>

-----------------------------------------------------------------------------
(* updateProfile *)

\* Trashed media pass.
Portrayable(u, m) == media[m] # NoMedia /\ Owner[m] = u

UpdateProfile(w, u, m) ==
    /\ Portrayable(u, m)
    /\ Begin(w, "profile", [Idle EXCEPT !.pc = "portray", !.user = u, !.item = m])
    /\ UNCHANGED <<rights, content>>

WriteProfile(w) ==
    /\ req[w].pc = "portray"
    /\ avatar' = [avatar EXCEPT ![req[w].user] = req[w].item]
    /\ Respond(w)
    /\ UNCHANGED <<rights, object, media, post, like, likeCount, bookmark, comments>>

-----------------------------------------------------------------------------
Begins(w) ==
    \E p \in Posts :
        \/ DeletePost(w, p)
        \/ \E v \in Viewers : ReadFeed(w, v, p)
        \/ \E u \in Users : \/ HomeFeed(w, u) \/ BookmarksFeed(w, u, p)
                            \/ Like(w, u, p) \/ Unlike(w, u, p)
                            \/ Comment(w, u, p) \/ Bookmark(w, u, p)
                            \/ \E m \in Media \cup {NoItem} : CreatePost(w, u, m)
                            \/ \E m \in Media : UpdateProfile(w, u, m)

Continues(w) ==
    \/ \E p \in Posts : \/ HomeRows(w, p)
                        \/ \E access \in Accesses, status \in Statuses \ {"DELETED"} :
                              InsertPost(w, p, access, status)
    \/ MarkedRows(w) \/ Gate(w) \/ Show(w)
    \/ InsertLike(w) \/ DeleteLike(w) \/ Count(w) \/ Commit(w)
    \/ CheckReader(w) \/ WriteComment(w) \/ WriteBookmark(w)
    \/ ErasePost(w) \/ WriteProfile(w)

Rights ==
    \/ \E v, c \in Users : Subscribe(v, c) \/ Lapse(v, c)
    \/ \E v \in Users, i \in Items : Buy(v, i)
    \/ \E w \in Workers : Die(w)

\* The rule as the documentation has it: "owner, free content, active subscriber,
\* or purchaser".
Granted(subs, bought, v, owner, access, item) ==
    v = owner \/ CASE access = "FREE"         -> TRUE
                   [] access = "SUBSCRIBERS"  -> <<v, owner>> \in subs
                   [] access = "PAY_PER_VIEW" -> <<v, item>> \in bought

\* What is true of a request's item once this step is done.
Observed(q) ==
    LET isMedia == q.item \in Media
        isPost  == q.item \in Posts
        owner   == IF isMedia THEN Owner[q.item] ELSE post'[q.item].author
        access  == IF isMedia THEN q.access ELSE post'[q.item].access
        granted == Granted(subscription', purchase', q.user, owner, access, q.item)
    IN  {f \in Facts :
            \/ f = "fit" /\ isMedia /\ object'[q.item] = "fit"
            \/ f = "live" /\ isMedia /\ media'[q.item] # NoMedia /\ ~media'[q.item].trashed
            \/ f = "visible" /\ isPost /\ post'[q.item].status = "PUBLISHED"
            \/ f = "may" /\ (isMedia \/ isPost) /\ granted
            \/ f = "barred" /\ (isMedia \/ isPost) /\ ~granted}

Witness ==
    met' = [w \in Workers |-> IF req'[w] = Idle THEN {} ELSE met[w] \cup Observed(req'[w])]

Next ==
    /\ \/ /\ \/ Rights /\ UNCHANGED <<object, media>>
             \/ MediaNext
          /\ UNCHANGED <<post, like, likeCount, bookmark, comments, avatar>>
       \/ \E w \in Workers : Begins(w) \/ Continues(w)
       \/ \E u \in Users, p \in Posts : Remove(u, p) \/ Unbookmark(u, p)
    /\ Witness
    /\ UNCHANGED mix

Spec == Init /\ [][Next]_vars

-----------------------------------------------------------------------------
(* Properties *)

\* likeCount counts the rows, whatever likes and unlikes of the same and of other
\* users run at once, are repeated or are rolled back.
CountersMatchRows ==
    \A p \in Posts : likeCount[p] = Cardinality({u \in Users : <<u, p>> \in like})

\* "No attaching others' assets", nor "pointing at others' media": what a post carries,
\* or a profile shows, was confirmed, by its author.
OwnMediaOnly ==
    LET Confirmed(u, m) == m # NoItem => media[m] # NoMedia /\ Owner[m] = u
    IN  /\ \A p \in Posts : post[p] # NoPost => Confirmed(post[p].author, post[p].media)
        /\ \A u \in Users : Confirmed(u, avatar[u])

\* "Returns a delivery URL ONLY if the viewer is entitled": by what the row said
\* when it was read, and by the rights there were at some moment of the request.
UrlsHaveReason ==
    \A w \in Workers :
        /\ req[w].pc = "sign" => {"live", "may"} \subseteq met[w]
        /\ req[w].pc = "refuse" => "barred" \in met[w]

\* A post is shown open only if it was published and the viewer entitled, and
\* locked only if the viewer was not, at some moment of the request.
FeedShowsWithReason ==
    \A w \in Workers :
        /\ req[w].pc = "open" => {"visible", "may"} \subseteq met[w]
        /\ req[w].pc = "lock" => "visible" \in met[w] /\ "barred" \in met[w]

\* Likes, bookmarks, comments, attachments and media rows are written only for what was
\* visible, open to the writer, live and in the storage meanwhile.
WritesHaveReason ==
    [][\A w \in Workers : req'[w] # req[w] =>
          /\ req[w].pc = "commit like" /\ like' # like => "visible" \in met[w]
          /\ req[w].pc = "mark" /\ bookmark' # bookmark => "visible" \in met[w]
          /\ req[w].pc = "comment" /\ comments' # comments => {"visible", "may"} \subseteq met[w]
          /\ req[w].pc = "publish" /\ post' # post /\ req[w].item # NoItem => "live" \in met[w]
          /\ req[w].pc = "insert" /\ media' # media => "fit" \in met[w]]_vars

\* "Idempotent confirm": a late or repeated confirmation changes no row that is
\* there, so it neither revives trashed media nor resets their access.
ConfirmKeepsRow ==
    [][\A w \in Workers, m \in Media :
          req[w].pc = "insert" /\ req'[w] # req[w] /\ media[m] # NoMedia
          => media'[m] = media[m]]_vars

\* Whatever requests run at once, are repeated or die, what a reader can see of posts and
\* profiles, and an owner of the vault, changes as if by one request at a time: a draft
\* gets no likes, marks or comments, a like is a row and a count, what is deleted or
\* trashed does not come back.
Promised == INSTANCE Board
ImplementsBoard == Promised!Spec

=============================================================================
