------------------------------ MODULE PostsInv ------------------------------
(***************************************************************************)
(* Why the properties of Posts hold, as one inductive invariant: what a    *)
(* request has learnt by the step it waits at, and how the transactions on *)
(* likes keep out of each other's way.                                     *)
(***************************************************************************)
EXTENDS Posts

\* The request is about media, or a post, that has a row.
OfMedia(q) == q.item \in Media /\ media[q.item] # NoMedia
OfPost(q)  == q.item \in Posts /\ post[q.item] # NoPost

Learnt(w) ==
    LET q  == req[w]
        pc == q.pc
        Knows(f) == f \in met[w]
    IN  /\ pc \in {"head", "insert"} => q.item \in Media /\ q.user = Owner[q.item]
        /\ pc = "insert" => Knows("fit")
        /\ pc \in {"entitle", "sign", "refuse"} => OfMedia(q)
        /\ pc \in {"entitle", "sign"} => Knows("live")
        /\ pc \in {"sign", "open", "comment"} => Knows("may")
        /\ pc \in {"refuse", "lock"} => Knows("barred")
        /\ pc = "publish" => q.user \in Users /\ q.item \in Media \cup {NoItem}
        /\ pc = "publish" /\ q.item # NoItem =>
              OfMedia(q) /\ Owner[q.item] = q.user /\ Knows("live")
        /\ pc \in {"gate", "check"} => OfPost(q) /\ q.access = post[q.item].access
        /\ pc \in {"gate", "open", "lock", "check", "comment", "mark", "like", "raise",
                   "commit like"} => Knows("visible")
        /\ pc \in {"marked", "comment"} => q.item \in Posts
        /\ pc \in {"mark", "like", "raise", "commit like", "unlike", "lower", "commit unlike"} =>
              q.item \in Posts /\ q.user \in Users
        /\ pc = "erase" => OfPost(q)
        /\ pc = "portray" => q.user \in Users /\ OfMedia(q) /\ Owner[q.item] = q.user

\* An insertion is of a row that is not there, a deletion of one that is.
LikeOK(w) ==
    LET row == <<req[w].user, req[w].item>>
    IN  /\ req[w].pc \in Inserting => row \notin like
        /\ req[w].pc \in Deleting => row \in like

\* Two transactions never insert, or delete, one row at once.
Apart(v, w) ==
    req[v].user = req[w].user /\ req[v].item = req[w].item =>
        /\ ~(req[v].pc \in Inserting /\ req[w].pc \in Inserting)
        /\ ~(req[v].pc \in Deleting /\ req[w].pc \in Deleting)

LikesOK ==
    /\ \A w \in Workers : LikeOK(w)
    /\ \A v, w \in Workers : v # w => Apart(v, w)

RequestsOK == \A w \in Workers : Learnt(w)

PInv == TypeOK /\ RequestsOK /\ LikesOK /\ CountersMatchRows /\ OwnMediaOnly

\* A post that a request has found published is not a draft, and never will be.
Released(p) == post[p] # NoPost /\ post[p].status \in {"PUBLISHED", "DELETED"}

ReleasedOK ==
    \A w \in Workers :
        req[w].pc \in {"check", "comment", "mark", "like", "raise", "commit like"} =>
            req[w].item \in Posts /\ Released(req[w].item)

=============================================================================
