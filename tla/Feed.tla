-------------------------------- MODULE Feed --------------------------------
(***************************************************************************)
(* Feed posts: publishing an upload, the author's delete, moderation       *)
(* (remove and restore) and permanent deletion.                            *)
(***************************************************************************)
CONSTANTS
    Post         \* uploads, each of at most one post: UNIQUE (media_path)

VARIABLES
    postStatus,  \* posts.status; "none" when there is no row
    removedBy,   \* posts.removed_by is set
    media,       \* objects of feed-media
    publishing,  \* POST /feed past statObject
    unlinked,    \* author's deletes that have not removed the object yet
    purging,     \* permanent deletions: the row is locked
    purged       \* history: posts a permanent deletion was begun for

feedVars == <<postStatus, removedBy, media, publishing, unlinked, purging, purged>>

FeedTypeOK ==
    /\ postStatus \in [Post -> {"none", "active", "removed"}]
    /\ removedBy \in [Post -> BOOLEAN]
    /\ media \subseteq Post /\ publishing \subseteq Post /\ unlinked \subseteq Post
    /\ purging \subseteq Post /\ purged \subseteq Post

FeedInit ==
    /\ postStatus = [p \in Post |-> "none"] /\ removedBy = [p \in Post |-> FALSE]
    /\ media = {} /\ publishing = {} /\ unlinked = {} /\ purging = {} /\ purged = {}

-----------------------------------------------------------------------------
(* The author *)

\* The client uploads and POST /feed finds the object.
PublishStatted(p) ==
    /\ postStatus[p] = "none" /\ p \notin publishing /\ p \notin purged
    /\ media' = media \cup {p} /\ publishing' = publishing \cup {p}
    /\ UNCHANGED <<postStatus, removedBy, unlinked, purging, purged>>

\* A second registration of the upload, under way when the first commits.
PublishedTwice(p) ==
    /\ postStatus[p] # "none" /\ p \in media /\ publishing' = publishing \cup {p}
    /\ UNCHANGED <<postStatus, removedBy, media, unlinked, purging, purged>>

\* INSERT ... ON CONFLICT (media_path) DO NOTHING.
Published(p) ==
    /\ p \in publishing /\ p \notin purging /\ publishing' = publishing \ {p}
    /\ postStatus' = IF postStatus[p] = "none" THEN [postStatus EXCEPT ![p] = "active"]
                     ELSE postStatus
    /\ UNCHANGED <<removedBy, media, unlinked, purging, purged>>

\* DELETE /feed/:postId: UPDATE ... WHERE status = 'active', then the object.
AuthorDeletes(p) ==
    /\ postStatus[p] = "active" /\ p \notin purging
    /\ postStatus' = [postStatus EXCEPT ![p] = "removed"]
    /\ unlinked' = unlinked \cup {p}
    /\ UNCHANGED <<removedBy, media, publishing, purging, purged>>

\* Best-effort.
ObjectUnlinked(p, ok) ==
    /\ p \in unlinked /\ unlinked' = unlinked \ {p}
    /\ media' = IF ok THEN media \ {p} ELSE media
    /\ UNCHANGED <<postStatus, removedBy, publishing, purging, purged>>

-----------------------------------------------------------------------------
(* Moderation: POST and DELETE /admin/posts/:id, under FOR UPDATE *)

Removed(p) ==
    /\ postStatus[p] = "active" /\ p \notin purging
    /\ postStatus' = [postStatus EXCEPT ![p] = "removed"]
    /\ removedBy' = [removedBy EXCEPT ![p] = TRUE]
    /\ UNCHANGED <<media, publishing, unlinked, purging, purged>>

\* A slip worth ruling out: the restore leaves removed_by set.
RestoredByName(p) ==
    /\ postStatus[p] = "removed" /\ removedBy[p] /\ p \notin purging
    /\ postStatus' = [postStatus EXCEPT ![p] = "active"]
    /\ UNCHANGED <<removedBy, media, publishing, unlinked, purging, purged>>
PostRestored(p) ==
    /\ postStatus[p] = "removed" /\ removedBy[p] /\ p \notin purging
    /\ postStatus' = [postStatus EXCEPT ![p] = "active"]
    /\ removedBy' = [removedBy EXCEPT ![p] = FALSE]
    /\ UNCHANGED <<media, publishing, unlinked, purging, purged>>

PurgeBegins(p) ==
    /\ postStatus[p] # "none" /\ p \notin purging
    /\ purging' = purging \cup {p} /\ purged' = purged \cup {p}
    /\ UNCHANGED <<postStatus, removedBy, media, publishing, unlinked>>

\* removeStrict, then COMMIT; a failure of either leaves the row.
PurgeRemoves(p) ==
    /\ p \in purging /\ p \in media /\ media' = media \ {p}
    /\ UNCHANGED <<postStatus, removedBy, publishing, unlinked, purging, purged>>

PurgeCommits(p) ==
    /\ p \in purging /\ p \notin media /\ purging' = purging \ {p}
    /\ postStatus' = [postStatus EXCEPT ![p] = "none"]
    /\ removedBy' = [removedBy EXCEPT ![p] = FALSE]
    /\ UNCHANGED <<media, publishing, unlinked, purged>>

PurgeFails(p) ==
    /\ p \in purging /\ purging' = purging \ {p}
    /\ UNCHANGED <<postStatus, removedBy, media, publishing, unlinked, purged>>

FeedNext ==
    \/ \E p \in Post :
         \/ PublishStatted(p) \/ PublishedTwice(p) \/ Published(p) \/ AuthorDeletes(p)
         \/ \E ok \in BOOLEAN : ObjectUnlinked(p, ok)
         \/ Removed(p) \/ PostRestored(p)
         \/ PurgeBegins(p) \/ PurgeRemoves(p) \/ PurgeCommits(p) \/ PurgeFails(p)

FeedSpec == FeedInit /\ [][FeedNext]_feedVars

-----------------------------------------------------------------------------
(* Properties *)

\* A post in the feed has its media, whatever its author and moderators did
\* to it in turn, unless its permanent deletion was begun.
VisiblePostHasMedia ==
    \A p \in Post \ purged : postStatus[p] = "active" => p \in media
=============================================================================
