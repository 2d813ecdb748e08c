---------------------------- MODULE ListenerDesk ----------------------------
(***************************************************************************)
(* One creator's profile: photos, the KYC application and its review, the  *)
(* online switch, suspension.  photo_count is kept by a trigger on         *)
(* listener_photos and is here the number of rows.  Handlers that read     *)
(* first and write later are two steps; a transaction under FOR UPDATE of  *)
(* the profile is one.                                                     *)
(***************************************************************************)
EXTENDS Integers, FiniteSets

CONSTANTS
    Photo,       \* storage paths of uploaded photos
    MinPhotos,   \* LISTENER_PHOTOS.minCount
    MaxPhotos,   \* LISTENER_PHOTOS.maxCount
    DeskRequest  \* requests in flight

ASSUME PhotoAssumption == /\ IsFiniteSet(Photo) /\ Photo # {}
                          /\ MinPhotos \in Nat /\ MaxPhotos \in Nat
                          /\ MinPhotos <= MaxPhotos

VARIABLES
    kyc,         \* listener_profiles.kyc_status; "none" while there is no profile
    photos,      \* rows of listener_photos
    online,      \* listener_profiles.is_online
    account,     \* users.status
    moderated,   \* history: an administrator took a photo since the approval
    revived,     \* history: a report suspended the deleted account since then
    deskStep,    \* where a request stands
    deskPhoto    \* the photo a registration is about

deskVars == <<kyc, photos, online, account, moderated, revived, deskStep, deskPhoto>>

Count == Cardinality(photos)
\* listenerEligibleSql.
Eligible == kyc = "approved" /\ Count >= MinPhotos

DeskTypeOK ==
    /\ kyc \in {"none", "unsubmitted", "pending", "approved", "rejected"}
    /\ photos \subseteq Photo /\ online \in BOOLEAN /\ moderated \in BOOLEAN
    /\ revived \in BOOLEAN
    /\ account \in {"active", "suspended", "deleted"}
    /\ deskStep \in [DeskRequest -> {"idle", "statted", "adding", "submitting",
                                     "toggling", "delisting", "suspending"}]
    /\ deskPhoto \in [DeskRequest -> Photo]

DeskInit ==
    /\ kyc = "none" /\ photos = {} /\ online = FALSE /\ account = "active"
    /\ moderated = FALSE /\ revived = FALSE
    /\ deskStep = [r \in DeskRequest |-> "idle"]
    /\ deskPhoto \in [DeskRequest -> {CHOOSE p \in Photo : TRUE}]

Goes(r, from, to) == deskStep[r] = from /\ deskStep' = [deskStep EXCEPT ![r] = to]

-----------------------------------------------------------------------------
(* The profile, and its photos *)

\* POST /users/me/become-listener: INSERT ... ON CONFLICT keeps what there is.
BecameListener ==
    /\ account = "active"
    /\ kyc' = IF kyc = "none" THEN "unsubmitted" ELSE kyc
    /\ UNCHANGED <<photos, online, account, moderated, revived, deskStep, deskPhoto>>
\* POST /admin/listeners, under FOR UPDATE of the account: a draft, as hers.
ListenerCreated ==
    /\ account = "active" /\ kyc = "none" /\ kyc' = "unsubmitted"
    /\ UNCHANGED <<photos, online, account, moderated, revived, deskStep, deskPhoto>>

\* statObject finds her upload, or the one an administrator made on her
\* behalf, whatever the account's status.
PhotoFound(r, p, to) ==
    /\ Goes(r, "idle", to) /\ deskPhoto' = [deskPhoto EXCEPT ![r] = p]
    /\ UNCHANGED <<kyc, photos, online, account, moderated, revived>>
PhotoStatted(r, p) == account = "active" /\ PhotoFound(r, p, "statted")
PhotoGiven(r, p) == PhotoFound(r, p, "adding")

\* FOR UPDATE, the limit, INSERT ... ON CONFLICT DO NOTHING.
PhotoInserted(r, from) ==
    /\ Goes(r, from, "idle") /\ kyc # "none" /\ Count < MaxPhotos
    /\ photos' = photos \cup {deskPhoto[r]}
    /\ UNCHANGED <<kyc, online, account, moderated, revived, deskPhoto>>
PhotoRegistered(r) == PhotoInserted(r, "statted")
PhotoAdded(r) == PhotoInserted(r, "adding")

\* A slip worth ruling out: one photo too few may remain.
PhotoDeletedAtMinimum(p) ==
    /\ account = "active" /\ p \in photos
    /\ ~(kyc = "approved" /\ Count < MinPhotos)
    /\ photos' = photos \ {p}
    /\ UNCHANGED <<kyc, online, account, moderated, revived, deskStep, deskPhoto>>
\* DELETE /listeners/me/photos/:id.
PhotoDeleted(p) ==
    /\ account = "active" /\ p \in photos
    /\ ~(kyc = "approved" /\ Count <= MinPhotos)
    /\ photos' = photos \ {p}
    /\ UNCHANGED <<kyc, online, account, moderated, revived, deskStep, deskPhoto>>

\* DELETE /admin/listener-photos/:id; takeOffline is decided in the
\* transaction and done after it.
PhotoModerated(r, p) ==
    /\ p \in photos /\ photos' = photos \ {p}
    /\ moderated' = TRUE
    /\ deskStep[r] = "idle"
    /\ deskStep' = IF online /\ ~(kyc = "approved" /\ Count > MinPhotos)
                   THEN [deskStep EXCEPT ![r] = "delisting"] ELSE deskStep
    /\ UNCHANGED <<kyc, online, account, revived, deskPhoto>>

TakenOffline(r) ==
    /\ Goes(r, "delisting", "idle") /\ online' = FALSE
    /\ UNCHANGED <<kyc, photos, account, moderated, revived, deskPhoto>>

-----------------------------------------------------------------------------
(* KYC *)

\* POST /listeners/kyc: photo_count is read, the application is written later.
KycChecked(r) ==
    /\ account = "active" /\ kyc # "none" /\ Count >= MinPhotos
    /\ Goes(r, "idle", "submitting")
    /\ UNCHANGED <<kyc, photos, online, account, moderated, revived, deskPhoto>>

\* UPDATE ... WHERE kyc_status <> 'approved'.
KycSubmitted(r) ==
    /\ Goes(r, "submitting", "idle")
    /\ kyc' = IF kyc = "approved" THEN kyc ELSE "pending"
    /\ UNCHANGED <<photos, online, account, moderated, revived, deskPhoto>>

\* POST /admin/kyc/:id: approvalBlockers under FOR UPDATE of the profile.
KycApproved ==
    /\ kyc = "pending" /\ Count >= MinPhotos /\ account = "active"
    /\ kyc' = "approved" /\ moderated' = FALSE /\ revived' = FALSE
    /\ UNCHANGED <<photos, online, account, deskStep, deskPhoto>>

KycRejected ==
    /\ kyc \in {"pending", "approved"}
    /\ kyc' = "rejected" /\ online' = FALSE
    /\ UNCHANGED <<photos, account, moderated, revived, deskStep, deskPhoto>>

-----------------------------------------------------------------------------
(* The online switch and the account *)

\* PATCH /listeners/status: eligibility is read, setOnline follows.
SwitchChecked(r) ==
    /\ account = "active" /\ Eligible /\ Goes(r, "idle", "toggling")
    /\ UNCHANGED <<kyc, photos, online, account, moderated, revived, deskPhoto>>

SwitchedOn(r) ==
    /\ Goes(r, "toggling", "idle") /\ online' = TRUE
    /\ UNCHANGED <<kyc, photos, account, moderated, revived, deskPhoto>>

SwitchedOff ==
    /\ account = "active" /\ online /\ online' = FALSE
    /\ UNCHANGED <<kyc, photos, account, moderated, revived, deskStep, deskPhoto>>

\* POST /admin/users/:id/status, under FOR UPDATE of the account.
Suspended ==
    /\ account = "active" /\ account' = "suspended" /\ online' = FALSE
    /\ UNCHANGED <<kyc, photos, moderated, revived, deskStep, deskPhoto>>

Restored ==
    /\ account = "suspended" /\ account' = "active"
    /\ UNCHANGED <<kyc, photos, online, moderated, revived, deskStep, deskPhoto>>

\* POST /admin/reports/:id, suspend: FOR UPDATE OF r locks the report, and
\* the status read beside it may be another by the time it is replaced.
StatusRead(r) ==
    /\ account = "active" /\ Goes(r, "idle", "suspending")
    /\ UNCHANGED <<kyc, photos, online, account, moderated, revived, deskPhoto>>

SuspendedByReport(r) ==
    /\ Goes(r, "suspending", "idle")
    /\ account' = "suspended" /\ online' = FALSE
    /\ revived' = (revived \/ account = "deleted")
    /\ UNCHANGED <<kyc, photos, moderated, deskPhoto>>

\* DELETE /users/me, DELETE /admin/users/:id, which may be sent again.
ProfileCleared ==
    /\ account' = "deleted" /\ photos' = {} /\ online' = FALSE
    /\ UNCHANGED <<kyc, moderated, revived, deskStep, deskPhoto>>

DeskRequestEnds(r) ==
    /\ deskStep[r] # "idle" /\ deskStep' = [deskStep EXCEPT ![r] = "idle"]
    /\ UNCHANGED <<kyc, photos, online, account, moderated, revived, deskPhoto>>

DeskNext ==
    \/ \E r \in DeskRequest :
         \/ \E p \in Photo : PhotoStatted(r, p) \/ PhotoGiven(r, p) \/ PhotoModerated(r, p)
         \/ PhotoRegistered(r) \/ PhotoAdded(r) \/ TakenOffline(r) \/ KycChecked(r) \/ KycSubmitted(r)
         \/ SwitchChecked(r) \/ SwitchedOn(r) \/ DeskRequestEnds(r)
         \/ StatusRead(r) \/ SuspendedByReport(r)
    \/ \E p \in Photo : PhotoDeleted(p)
    \/ BecameListener \/ ListenerCreated \/ KycApproved \/ KycRejected
    \/ SwitchedOff \/ Suspended \/ Restored \/ ProfileCleared

DeskSpec == DeskInit /\ [][DeskNext]_deskVars

-----------------------------------------------------------------------------
(* Properties *)

\* An approved creator is complete: she has the minimum of photos, unless a
\* moderator took one, or a report brought her account back after a deletion
\* had taken them all (reports.admin.js by a status it read unlocked, which
\* users.admin.js would have refused).  The application, its review, her own
\* deletes, deletion and late registrations interleave; discovery and calls
\* rely on it.
ApprovedIsComplete ==
    kyc = "approved" /\ account # "deleted" /\ ~moderated /\ ~revived => Count >= MinPhotos
=============================================================================
