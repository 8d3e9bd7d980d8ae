------------------------------- MODULE Board -------------------------------
(***************************************************************************)
(* What posts and the vault promise, with no requests, batches or          *)
(* transactions in sight: every change is one step, and is made of what    *)
(* the rows say at that very step.                                         *)
(*                                                                         *)
(* Posts.tla is the specification of the code; it implements this one.     *)
(***************************************************************************)
EXTENDS Integers

CONSTANTS Users, Posts, Media, Owner, NoPost, NoMedia, NoItem

Accesses == {"FREE", "SUBSCRIBERS", "PAY_PER_VIEW"}
Statuses == {"PUBLISHED", "DRAFT", "SCHEDULED", "DELETED"}

VARIABLES
    media,      \* the vault: [access, trashed] of what was confirmed
    avatar,     \* what the profile of a user shows
    post,       \* [author, access, status, media]
    like, likeCount, bookmark, comments

board == <<post, like, likeCount, bookmark, comments>>
vars  == <<media, avatar, board>>

Init ==
    /\ media = [m \in Media |-> NoMedia]
    /\ avatar = [u \in Users |-> NoItem]
    /\ post = [p \in Posts |-> NoPost]
    /\ like = {} /\ bookmark = {}
    /\ likeCount = [p \in Posts |-> 0]
    /\ comments = [p \in Posts |-> 0]

-----------------------------------------------------------------------------
(* The vault *)

\* Confirmed once: free, until its owner says otherwise, and not trashed.
Confirm(m) ==
    /\ media[m] = NoMedia
    /\ media' = [media EXCEPT ![m] = [access |-> "FREE", trashed |-> FALSE]]
    /\ UNCHANGED <<avatar, board>>

Protect(m, access) ==
    /\ media[m] # NoMedia
    /\ media' = [media EXCEPT ![m].access = access]
    /\ UNCHANGED <<avatar, board>>

\* Nothing comes back from the trash.
Trash(m) ==
    /\ media[m] # NoMedia
    /\ media' = [media EXCEPT ![m].trashed = TRUE]
    /\ UNCHANGED <<avatar, board>>

Vault(u) == {m \in Media : media[m] # NoMedia /\ Owner[m] = u}

Portray(u, m) ==
    /\ m \in Vault(u)
    /\ avatar' = [avatar EXCEPT ![u] = m]
    /\ UNCHANGED <<media, board>>

-----------------------------------------------------------------------------
(* Posts *)

\* Whatever else the author has said of a post, that is how it stays.
Publish(u, p, m, access, status) ==
    /\ post[p] = NoPost
    /\ m \in Vault(u) \cup {NoItem}
    /\ post' = [post EXCEPT ![p] = [author |-> u, access |-> access, status |-> status,
                                    media |-> m]]
    /\ UNCHANGED <<media, avatar, like, likeCount, bookmark, comments>>

Delete(p) ==
    /\ post[p] # NoPost
    /\ post' = [post EXCEPT ![p].status = "DELETED"]
    /\ UNCHANGED <<media, avatar, like, likeCount, bookmark, comments>>

\* A draft is nobody's business; a request that is under way may come after the deletion.
Out(p) == post[p] # NoPost /\ post[p].status \in {"PUBLISHED", "DELETED"}

\* The row and the counter, which is raised for a new row only.
Like(u, p) ==
    /\ Out(p)
    /\ <<u, p>> \notin like
    /\ like' = like \cup {<<u, p>>}
    /\ likeCount' = [likeCount EXCEPT ![p] = @ + 1]
    /\ UNCHANGED <<media, avatar, post, bookmark, comments>>

Unlike(u, p) ==
    /\ <<u, p>> \in like
    /\ like' = like \ {<<u, p>>}
    /\ likeCount' = [likeCount EXCEPT ![p] = @ - 1]
    /\ UNCHANGED <<media, avatar, post, bookmark, comments>>

Mark(u, p) ==
    /\ Out(p)
    /\ bookmark' = bookmark \cup {<<u, p>>}
    /\ UNCHANGED <<media, avatar, post, like, likeCount, comments>>

Unmark(u, p) ==
    /\ bookmark' = bookmark \ {<<u, p>>}
    /\ UNCHANGED <<media, avatar, post, like, likeCount, comments>>

Comment(p) ==
    /\ Out(p)
    /\ comments' = [comments EXCEPT ![p] = @ + 1]
    /\ UNCHANGED <<media, avatar, post, like, likeCount, bookmark>>

-----------------------------------------------------------------------------
Next ==
    \/ \E m \in Media : \/ Confirm(m) \/ Trash(m)
                        \/ \E access \in Accesses : Protect(m, access)
                        \/ \E u \in Users : Portray(u, m)
    \/ \E p \in Posts :
          \/ Delete(p) \/ Comment(p)
          \/ \E u \in Users :
                \/ Like(u, p) \/ Unlike(u, p) \/ Mark(u, p) \/ Unmark(u, p)
                \/ \E m \in Media \cup {NoItem}, access \in Accesses,
                      status \in Statuses \ {"DELETED"} : Publish(u, p, m, access, status)

Spec == Init /\ [][Next]_vars

=============================================================================
