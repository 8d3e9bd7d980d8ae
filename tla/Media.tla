------------------------------- MODULE Media -------------------------------
(***************************************************************************)
(* media.service.ts: uploads are confirmed against the storage, the vault  *)
(* changes or trashes them, and URLs are signed for who may see them.      *)
(***************************************************************************)
EXTENDS Entitlement

CONSTANTS
    Owner,          \* the user a storage key names: users/{id}/...
    NoMedia

ASSUME OwnersAreUsers == Owner \in [Media -> Users]

VARIABLES
    object,         \* what the storage holds under a key
    media           \* the row of a key

Objects  == {"absent", "fit", "unfit"}
MediaRow == [access: Accesses, trashed: BOOLEAN]

MediaOK ==
    /\ object \in [Media -> Objects]
    /\ media \in [Media -> MediaRow \cup {NoMedia}]

MediaInit ==
    /\ object = [m \in Media |-> "absent"]
    /\ media = [m \in Media |-> NoMedia]

Live(m) == media[m] # NoMedia /\ ~media[m].trashed

-----------------------------------------------------------------------------
(* Uploads *)

\* The client PUTs to a URL of signUpload, again if it likes.
Upload(m, what) ==
    /\ "upload" \in mix
    /\ object' = [object EXCEPT ![m] = what]
    /\ UNCHANGED <<rights, req, media>>

\* The key is the caller's and has no row; with one, that row is the answer.
ConfirmUpload(w, u, m) ==
    /\ u = Owner[m] /\ media[m] = NoMedia
    /\ Begin(w, "upload", [Idle EXCEPT !.pc = "head", !.user = u, !.item = m])
    /\ UNCHANGED <<rights, object, media>>

\* Found, of an accepted format and not too large.
\* Mutant: found is enough.
FoundIsEnough(m) == object[m] # "absent"
Accepted(m)      == object[m] = "fit"

HeadObject(w) ==
    /\ req[w].pc = "head"
    /\ IF Accepted(req[w].item) THEN Goto(w, "insert") ELSE Respond(w)
    /\ UNCHANGED <<rights, object, media>>

\* publicId is unique: the second insert is an error and leaves the row alone.
\* Mutant: an upsert.
UpsertMedia(w) ==
    /\ req[w].pc = "insert"
    /\ media' = [media EXCEPT ![req[w].item] = [access |-> "FREE", trashed |-> FALSE]]
    /\ Respond(w)
    /\ UNCHANGED <<rights, object>>

InsertMedia(w) ==
    /\ req[w].pc = "insert"
    /\ media' = [media EXCEPT ![req[w].item] =
                   IF @ = NoMedia THEN [access |-> "FREE", trashed |-> FALSE] ELSE @]
    /\ Respond(w)
    /\ UNCHANGED <<rights, object>>

-----------------------------------------------------------------------------
(* The vault: one statement each *)

\* Mutant: the row is written anew, so it leaves the trash.
UpdateAccessAnew(u, m, access) ==
    /\ "vault" \in mix
    /\ u = Owner[m] /\ media[m] # NoMedia
    /\ media' = [media EXCEPT ![m] = [access |-> access, trashed |-> FALSE]]
    /\ UNCHANGED <<rights, req, object>>

UpdateAccess(u, m, access) ==
    /\ "vault" \in mix
    /\ u = Owner[m] /\ media[m] # NoMedia
    /\ media' = [media EXCEPT ![m].access = access]
    /\ UNCHANGED <<rights, req, object>>

Trash(u, m) ==
    /\ "vault" \in mix
    /\ u = Owner[m] /\ Live(m)
    /\ media' = [media EXCEPT ![m].trashed = TRUE]
    /\ UNCHANGED <<rights, req, object>>

-----------------------------------------------------------------------------
(* Delivery *)

\* getDeliveryUrl and getMediaMeta read the row, then the viewer's rights.
GetDeliveryUrl(w, v, m) ==
    /\ v \in Users /\ Live(m)
    /\ Begin(w, "deliver", [Idle EXCEPT !.pc = "entitle", !.user = v, !.item = m,
                                        !.access = media[m].access])
    /\ UNCHANGED <<rights, object, media>>

CheckEntitled(w) ==
    /\ req[w].pc = "entitle"
    /\ LET q == req[w]
       IN  Goto(w, IF Entitled(q.user, Owner[q.item], q.access, q.item) THEN "sign"
                                                                        ELSE "refuse")
    /\ UNCHANGED <<rights, object, media>>

\* For anybody, of free media.
GetPublicUrl(w, m) ==
    /\ Live(m) /\ media[m].access = "FREE"
    /\ Begin(w, "deliver", [Idle EXCEPT !.pc = "sign", !.item = m])
    /\ UNCHANGED <<rights, object, media>>

Answer(w) ==
    /\ req[w].pc \in {"sign", "refuse"}
    /\ Respond(w)
    /\ UNCHANGED <<rights, object, media>>

-----------------------------------------------------------------------------
MediaBegins(w) ==
    \E m \in Media : \/ \E u \in Users : ConfirmUpload(w, u, m) \/ GetDeliveryUrl(w, u, m)
                     \/ GetPublicUrl(w, m)

MediaContinues(w) == HeadObject(w) \/ InsertMedia(w) \/ CheckEntitled(w) \/ Answer(w)

MediaOthers ==
    \E m \in Media : \/ \E what \in {"fit", "unfit"} : Upload(m, what)
                     \/ \E u \in Users : \/ \E access \in Accesses : UpdateAccess(u, m, access)
                                         \/ Trash(u, m)

MediaNext == MediaOthers \/ \E w \in Workers : MediaBegins(w) \/ MediaContinues(w)

=============================================================================
