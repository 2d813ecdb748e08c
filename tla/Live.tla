-------------------------------- MODULE Live --------------------------------
(***************************************************************************)
(* Moco Live: the mirror of the provider's list of online models.  Several *)
(* syncs may run at once (the request slot lasts 5 seconds, a fetch up to  *)
(* 60), each fetches, compares, writes what changed, marks the absent ones *)
(* offline and records the snapshot; the listing joins rows and snapshot   *)
(* and hides what is banned where the viewer may be.                       *)
(***************************************************************************)
EXTENDS Integers, FiniteSets

CONSTANTS
    Model,       \* usernames of the provider
    Sync,        \* runs of sync(), of any instance
    Country, Region,
    BanSets,     \* the geobans the provider uses, as normalizeModel keeps them
    Offers,      \* the statuses it reports
    Unknown,     \* a header the edge did not send
    Absent       \* not in the provider's list; also: no row

\* blocked_countries holds countries, blocked_regions pairs <<country, region>>.
ASSUME BanAssumption ==
    /\ BanSets \subseteq SUBSET (Country \cup (Country \X Region))
    /\ Country \cap (Country \X Region) = {}
    /\ Unknown \notin Country \cup Region /\ "offline" \notin Offers

VARIABLES
    mirror,      \* live_models, by username
    snapshot,    \* live_snapshot, with what that sync fetched
    usable,      \* the snapshot is inside the listing's window
    syncing,     \* the runs of sync() under way
    slot,        \* live:stripcash:rate_slot is held
    calm,        \* history: the last run recorded its snapshot and had overlapped no other
    erasing      \* the deleted models of a cleanup that has asked and not removed them

liveVars == <<mirror, snapshot, usable, syncing, slot, calm, erasing>>

\* What a fetch says of one model: contentHash covers both fields.
Content == [status : Offers, bans : BanSets]
Fetched == Content \cup {Absent}
\* hash is the content of the last upsert; "offline" is written beside it.
Row == [status : Offers \cup {"offline"}, hash : Content, seen : {"now", "hours", "days"}]
Idle == [at |-> "idle"]
Run == [at : {"fetched", "written", "marked"}, got : [Model -> Fetched], alone : BOOLEAN]
        \cup [at : {"read"}, got : [Model -> Fetched], alone : BOOLEAN,
              changed : SUBSET Model, touch : SUBSET Model]

LiveTypeOK ==
    /\ mirror \in [Model -> Row \cup {Absent}]
    /\ snapshot \in [Model -> Fetched]
    /\ usable \in BOOLEAN /\ slot \in BOOLEAN /\ calm \in BOOLEAN
    /\ \A s \in Sync : syncing[s] = Idle \/ syncing[s] \in Run
    /\ erasing \subseteq Model

LiveInit ==
    /\ mirror = [m \in Model |-> Absent] /\ snapshot = [m \in Model |-> Absent]
    /\ usable = FALSE /\ slot = FALSE /\ calm = TRUE
    /\ syncing = [s \in Sync |-> Idle] /\ erasing = {}

Busy == {s \in Sync : syncing[s] # Idle}
SyncAt(s, where) == syncing[s].at = where
SyncGoes(s, where) == syncing' = [syncing EXCEPT ![s].at = where]
Sees(content) == [status |-> content.status, hash |-> content, seen |-> "now"]

-----------------------------------------------------------------------------
(* sync() *)

\* The slot is claimed and the provider answers: whatever it says.  A refused
\* slot or a failed fetch returns with the stored data as it was.
ListFetched(s) ==
    /\ syncing[s] = Idle /\ ~slot /\ slot' = TRUE
    /\ \E got \in [Model -> Fetched] :
         syncing' = [r \in Sync |->
             IF r = s THEN [at |-> "fetched", got |-> got, alone |-> Busy = {}]
             ELSE IF r \in Busy THEN [syncing[r] EXCEPT !.alone = FALSE] ELSE Idle]
    /\ UNCHANGED <<mirror, snapshot, usable, calm, erasing>>

FetchFailed == /\ ~slot /\ slot' = TRUE
               /\ UNCHANGED <<mirror, snapshot, usable, syncing, calm, erasing>>

SlotExpires == /\ slot /\ slot' = FALSE
               /\ UNCHANGED <<mirror, snapshot, usable, syncing, calm, erasing>>

\* A slip worth ruling out: bans left out of contentHash.
HashWithoutBans(m, got) == mirror[m] = Absent \/ mirror[m].hash.status # got[m].status

\* row.content_hash !== m.contentHash, or a model not stored yet.
Changed(m, got) == mirror[m] = Absent \/ mirror[m].hash # got[m]

\* SELECT username, content_hash, last_seen_at: what will be written.
StoredRead(s) ==
    /\ SyncAt(s, "fetched")
    /\ LET got == syncing[s].got
           online == {m \in Model : got[m] # Absent}
           changed == {m \in online : Changed(m, got)} IN
       syncing' = [syncing EXCEPT ![s] =
           [at |-> "read", got |-> got, alone |-> @.alone, changed |-> changed,
            touch |-> {m \in online \ changed : mirror[m].seen # "now"}]]
    /\ UNCHANGED <<mirror, snapshot, usable, slot, calm, erasing>>

\* upsertModels(changed), then last_seen_at of the ones touched.
RowsWritten(s) ==
    /\ SyncAt(s, "read")
    /\ mirror' = [m \in Model |->
         IF m \in syncing[s].changed THEN Sees(syncing[s].got[m])
         ELSE IF m \in syncing[s].touch /\ mirror[m] # Absent
              THEN [mirror[m] EXCEPT !.seen = "now"] ELSE mirror[m]]
    /\ syncing' = [syncing EXCEPT ![s] =
         [at |-> "written", got |-> @.got, alone |-> @.alone]]
    /\ UNCHANGED <<snapshot, usable, slot, calm, erasing>>

\* UPDATE ... SET status = 'offline' of every row the list does not name.
AbsentMarked(s) ==
    /\ SyncAt(s, "written") /\ SyncGoes(s, "marked")
    /\ mirror' = [m \in Model |->
         IF mirror[m] # Absent /\ syncing[s].got[m] = Absent
         THEN [mirror[m] EXCEPT !.status = "offline"] ELSE mirror[m]]
    /\ UNCHANGED <<snapshot, usable, slot, calm, erasing>>

SnapshotRecorded(s) ==
    /\ SyncAt(s, "marked")
    /\ snapshot' = syncing[s].got /\ usable' = TRUE /\ calm' = syncing[s].alone
    /\ syncing' = [syncing EXCEPT ![s] = Idle] /\ UNCHANGED <<mirror, slot, erasing>>

\* The instance is stopped in the middle of a run, or a statement fails.
SyncDies(s) == /\ syncing[s] # Idle /\ syncing' = [syncing EXCEPT ![s] = Idle]
               /\ calm' = FALSE /\ UNCHANGED <<mirror, snapshot, usable, slot, erasing>>

-----------------------------------------------------------------------------
(* Time and cleanup() *)

SnapshotExpires == /\ usable /\ usable' = FALSE
                   /\ UNCHANGED <<mirror, snapshot, syncing, slot, calm, erasing>>

\* 6 hours, later 30 days, since last_seen_at.
SeenAges(m) ==
    /\ mirror[m] # Absent /\ mirror[m].seen # "days"
    /\ mirror' = [mirror EXCEPT ![m].seen = IF @ = "now" THEN "hours" ELSE "days"]
    /\ UNCHANGED <<snapshot, usable, syncing, slot, calm, erasing>>

\* DELETE ... WHERE last_seen_at < now() - 30 days.
LongAbsentRemoved ==
    /\ mirror' = [m \in Model |-> IF mirror[m] # Absent /\ mirror[m].seen = "days"
                                  THEN Absent ELSE mirror[m]]
    /\ UNCHANGED <<snapshot, usable, syncing, slot, calm, erasing>>

\* fetchDeletedModels takes the same slot; its answer may name any model.
DeletedFetched(gone) ==
    /\ ~slot /\ slot' = TRUE /\ erasing = {} /\ erasing' = gone
    /\ UNCHANGED <<mirror, snapshot, usable, syncing, calm>>

DeletedRemoved ==
    /\ mirror' = [m \in Model |-> IF m \in erasing THEN Absent ELSE mirror[m]]
    /\ erasing' = {} /\ UNCHANGED <<snapshot, usable, syncing, slot, calm>>

-----------------------------------------------------------------------------
(* list() *)

\* Where someone is, and what the edge may say of it: all, the country, nothing.
Place == Country \X Region
Shown(place) == {[country |-> place[1], region |-> place[2]],
                 [country |-> place[1], region |-> Unknown],
                 [country |-> Unknown, region |-> Unknown]}

\* What geobanClause lets through of one row.
GeobanAllows(bans, viewer) ==
    \/ viewer.country = Unknown /\ bans = {}
    \/ /\ viewer.country # Unknown /\ viewer.country \notin bans
       /\ IF viewer.region # Unknown THEN <<viewer.country, viewer.region>> \notin bans
          ELSE \A r \in Region : <<viewer.country, r>> \notin bans

\* ONLINE_MODELS joined with the default settings' status filter.
Listed(m, viewer) ==
    /\ usable /\ snapshot[m] # Absent /\ mirror[m] # Absent
    /\ mirror[m].status = "public" /\ GeobanAllows(mirror[m].hash.bans, viewer)

LiveNext ==
    \/ \E s \in Sync : \/ ListFetched(s) \/ StoredRead(s) \/ RowsWritten(s)
                       \/ AbsentMarked(s) \/ SnapshotRecorded(s) \/ SyncDies(s)
    \/ FetchFailed \/ SlotExpires \/ SnapshotExpires \/ LongAbsentRemoved \/ DeletedRemoved
    \/ \E m \in Model : SeenAges(m)
    \/ \E gone \in SUBSET Model : DeletedFetched(gone)

LiveSpec == LiveInit /\ [][LiveNext]_liveVars

-----------------------------------------------------------------------------
(* Properties *)

Banned(bans, place) == place[1] \in bans \/ place \in bans

\* Whatever the edge discloses of where a viewer is, a model whose geobans, as
\* the latest sync fetched them, cover that place is not listed there; for a
\* sync that overlapped no other, since the last to write wins.
BannedPlacesSeeNothing ==
    calm /\ Busy = {} =>
        \A m \in Model, place \in Place : \A viewer \in Shown(place) :
            Listed(m, viewer) => ~Banned(snapshot[m].bans, place)

\* docs/API.md: the listing is the online, public-status models.  Every model
\* that the latest sync saw public, and that is stored, is listed where nothing
\* bans it.
OnlinePublicIsListed ==
    calm /\ Busy = {} /\ usable =>
        \A m \in Model, place \in Place :
            /\ snapshot[m] # Absent /\ mirror[m] # Absent
            /\ snapshot[m].status = "public" /\ ~Banned(snapshot[m].bans, place)
            => Listed(m, [country |-> place[1], region |-> place[2]])
=============================================================================
