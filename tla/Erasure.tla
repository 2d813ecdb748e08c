------------------------------ MODULE Erasure -------------------------------
(***************************************************************************)
(* The uploads of one account and its permanent deletion.  Rows live in    *)
(* PostgreSQL and objects in Supabase Storage, which no transaction spans. *)
(* The three media buckets are one folder here; avatars are stored under   *)
(* another prefix of the bucket.  At most 100 objects, so that             *)
(* removeStrict is one call.                                               *)
(***************************************************************************)
EXTENDS Integers, FiniteSets

CONSTANTS
    Media,       \* object paths <user>/<file>: posts, photos, chat images
    Avatar       \* object paths avatars/<user>/<file>

ASSUME PathAssumption ==
    /\ Media \cap Avatar = {} /\ IsFiniteSet(Media) /\ Cardinality(Media) <= 100

VARIABLES
    stored,      \* objects in Storage
    rows,        \* paths a posts, listener_photos or messages row points at
    late,        \* history: uploads that no strict sweep has listed
    registering, \* registrations past statObject, before their INSERT
    unlinking,   \* objects whose row the owner's own delete has removed
    phase,       \* where the administrator's deletion stands
    listed,      \* paths that deletion has read and not yet removed
    doomed,      \* rows its transaction deletes
    gone         \* users.status is 'deleted'

fileVars == <<stored, rows, late, registering, unlinking, phase, listed, doomed, gone>>

FileTypeOK ==
    /\ stored \subseteq Media \cup Avatar /\ late \subseteq Media
    /\ rows \subseteq Media /\ registering \subseteq Media /\ unlinking \subseteq Media
    /\ phase \in {"none", "read", "removed", "listing", "swept", "committed"}
    /\ listed \subseteq Media /\ doomed \subseteq Media /\ gone \in BOOLEAN

FileInit ==
    /\ stored = {} /\ rows = {} /\ late = {} /\ registering = {} /\ unlinking = {}
    /\ phase = "none" /\ listed = {} /\ doomed = {} /\ gone = FALSE

-----------------------------------------------------------------------------
(* The owner; only authenticate asks for the account's status *)

\* PUT to a signed URL, which outlives the account.
Upload(p) ==
    /\ p \notin stored /\ stored' = stored \cup {p}
    /\ late' = IF p \in Media /\ (gone \/ phase \in {"listing", "swept"})
               THEN late \cup {p} ELSE late
    /\ UNCHANGED <<rows, registering, unlinking, phase, listed, doomed, gone>>

\* authenticate, and statObject finds the upload.
Statted(p) ==
    /\ ~gone /\ p \in stored \ (registering \cup rows)
    /\ registering' = registering \cup {p}
    /\ UNCHANGED <<stored, rows, late, unlinking, phase, listed, doomed, gone>>

\* INSERT ... ON CONFLICT DO NOTHING.
RowInserted(p) ==
    /\ p \in registering
    /\ registering' = registering \ {p} /\ rows' = rows \cup {p}
    /\ UNCHANGED <<stored, late, unlinking, phase, listed, doomed, gone>>

\* The registration is refused; an oversized upload is removed.
Refused(p, oversized) ==
    /\ p \in registering
    /\ registering' = registering \ {p}
    /\ stored' = IF oversized THEN stored \ {p} ELSE stored
    /\ UNCHANGED <<rows, late, unlinking, phase, listed, doomed, gone>>

\* The owner deletes a post or a photo: the row, then the object.
RowDeleted(p) ==
    /\ ~gone /\ p \in rows \ doomed
    /\ rows' = rows \ {p} /\ unlinking' = unlinking \cup {p}
    /\ UNCHANGED <<stored, late, registering, phase, listed, doomed, gone>>

\* remove is best-effort.
ObjectRemoved(p, ok) ==
    /\ p \in unlinking
    /\ unlinking' = unlinking \ {p}
    /\ stored' = IF ok THEN stored \ {p} ELSE stored
    /\ UNCHANGED <<rows, late, registering, phase, listed, doomed, gone>>

-----------------------------------------------------------------------------
(* DELETE /admin/users/:id *)

\* Users row locked, media paths read, rows deleted (until COMMIT others see
\* them).
ErasureReads ==
    /\ phase = "none"
    /\ phase' = "read" /\ listed' = rows /\ doomed' = rows
    /\ UNCHANGED <<stored, rows, late, registering, unlinking, gone>>

RegisteredRemoved ==
    /\ phase = "read"
    /\ phase' = "removed" /\ stored' = stored \ listed /\ listed' = {}
    /\ UNCHANGED <<rows, late, registering, unlinking, doomed, gone>>

\* A slip worth ruling out: only what rows point at is removed.
SweepsRegistered ==
    /\ phase = "removed"
    /\ phase' = "listing" /\ listed' = doomed
    /\ late' = IF gone THEN late ELSE {}
    /\ UNCHANGED <<stored, rows, registering, unlinking, doomed, gone>>
\* sweep: listPrefix.
SweepLists ==
    /\ phase = "removed"
    /\ phase' = "listing" /\ listed' = stored \cap Media
    /\ late' = IF gone THEN late ELSE {}
    /\ UNCHANGED <<stored, rows, registering, unlinking, doomed, gone>>

\* sweep: removeStrict.
SweepRemoves ==
    /\ phase = "listing"
    /\ phase' = "swept" /\ stored' = stored \ listed
    /\ late' = late \ listed /\ listed' = {}
    /\ UNCHANGED <<rows, registering, unlinking, doomed, gone>>

ErasureCommits ==
    /\ phase = "swept"
    /\ phase' = "committed" /\ rows' = rows \ doomed /\ doomed' = {} /\ gone' = TRUE
    /\ UNCHANGED <<stored, late, registering, unlinking, listed>>

\* Storage refuses, COMMIT fails or the instance dies: the transaction rolls
\* back, and what was removed stays removed.
ErasureFails ==
    /\ phase \in {"read", "removed", "listing", "swept"}
    /\ phase' = "none" /\ listed' = {} /\ doomed' = {}
    /\ UNCHANGED <<stored, rows, late, registering, unlinking, gone>>

\* The sweep after COMMIT is best-effort; the deletion may be asked for again.
LateSwept(ok) ==
    /\ phase = "committed" /\ phase' = "none"
    /\ stored' = IF ok THEN stored \ Media ELSE stored
    /\ late' = IF ok THEN {} ELSE late
    /\ UNCHANGED <<rows, registering, unlinking, listed, doomed, gone>>

FileNext ==
    \/ \E p \in Media \cup Avatar : Upload(p)
    \/ \E p \in Media :
         \/ Statted(p) \/ RowInserted(p) \/ RowDeleted(p)
         \/ \E b \in BOOLEAN : Refused(p, b) \/ ObjectRemoved(p, b)
    \/ ErasureReads \/ RegisteredRemoved \/ SweepLists \/ SweepRemoves
    \/ ErasureCommits \/ ErasureFails
    \/ \E ok \in BOOLEAN : LateSwept(ok)

FileSpec == FileInit /\ [][FileNext]_fileVars

-----------------------------------------------------------------------------
(* Properties *)

\* When a permanent deletion has committed, the only media of the account
\* left in Storage was uploaded behind its back: nothing registered,
\* refused, orphaned by a failed delete or by an earlier attempt survives.
ErasedMediaIsGone == gone => stored \cap Media \subseteq late
=============================================================================
