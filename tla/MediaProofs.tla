---------------------------- MODULE MediaProofs ----------------------------
(***************************************************************************)
(* What is stored, shown and hidden, for any number of objects, photos,    *)
(* requests, models and overlapping runs: a deletion leaves nothing of the *)
(* account's media behind, an approved creator is complete, and no model   *)
(* is listed where it is banned.                                           *)
(***************************************************************************)
EXTENDS Erasure, ListenerDesk, Live, FiniteSetTheorems, TLAPS

-----------------------------------------------------------------------------
(* The permanent deletion *)

\* What the strict sweep has listed and has to remove, or has removed: only an
\* upload behind its back escapes it.
SweepCovers ==
    /\ phase = "listing" => stored \cap Media \subseteq listed \cup late
    /\ phase = "swept" => stored \cap Media \subseteq late
    /\ phase = "committed" => gone

FileIInv == FileTypeOK /\ SweepCovers /\ ErasedMediaIsGone

LEMMA FileTypeStep == FileTypeOK /\ [FileNext]_fileVars => FileTypeOK'
<1> SUFFICES ASSUME FileTypeOK, [FileNext]_fileVars PROVE FileTypeOK'
  OBVIOUS
<1> USE DEF FileTypeOK
<1>1. ASSUME NEW p \in Media \cup Avatar, Upload(p) PROVE FileTypeOK'
  BY <1>1 DEF Upload
<1>2. ASSUME NEW p \in Media,
             Statted(p) \/ RowInserted(p) \/ RowDeleted(p)
      PROVE  FileTypeOK'
  BY <1>2 DEF Statted, RowInserted, RowDeleted
<1>3. ASSUME NEW p \in Media, NEW b \in BOOLEAN, Refused(p, b) \/ ObjectRemoved(p, b)
      PROVE  FileTypeOK'
  BY <1>3 DEF Refused, ObjectRemoved
<1>4. CASE ErasureReads \/ RegisteredRemoved \/ SweepLists \/ SweepRemoves
  BY <1>4 DEF ErasureReads, RegisteredRemoved, SweepLists, SweepRemoves
<1>5. CASE ErasureCommits \/ ErasureFails
  BY <1>5 DEF ErasureCommits, ErasureFails
<1>6. ASSUME NEW ok \in BOOLEAN, LateSwept(ok) PROVE FileTypeOK'
  BY <1>6 DEF LateSwept
<1>7. CASE UNCHANGED fileVars
  BY <1>7 DEF fileVars
<1> QED
  BY <1>1, <1>2, <1>3, <1>4, <1>5, <1>6, <1>7 DEF FileNext

LEMMA FileStep == FileIInv /\ [FileNext]_fileVars => FileIInv'
<1> SUFFICES ASSUME FileIInv, [FileNext]_fileVars PROVE FileIInv'
  OBVIOUS
<1>0. FileTypeOK'
  BY FileTypeStep DEF FileIInv
<1> USE DEF FileIInv, SweepCovers, ErasedMediaIsGone
<1>1. ASSUME NEW p \in Media \cup Avatar, Upload(p) PROVE FileIInv'
  BY <1>0, <1>1 DEF Upload
\* What takes rows, or takes objects away, uncovers nothing.
<1>2. ASSUME stored' \subseteq stored, UNCHANGED <<late, phase, listed, gone>>
      PROVE  FileIInv'
  BY <1>0, <1>2
<1>3. ASSUME NEW p \in Media, NEW b \in BOOLEAN,
             \/ Statted(p) \/ RowInserted(p) \/ RowDeleted(p)
             \/ Refused(p, b) \/ ObjectRemoved(p, b)
      PROVE  FileIInv'
  <2>1. stored' \subseteq stored /\ UNCHANGED <<late, phase, listed, gone>>
    BY <1>0, <1>3 DEF Statted, RowInserted, RowDeleted, Refused, ObjectRemoved
  <2> QED BY <1>2, <2>1
<1>4. CASE ErasureReads \/ RegisteredRemoved \/ ErasureFails
  BY <1>0, <1>4 DEF ErasureReads, RegisteredRemoved, ErasureFails
<1>5. CASE SweepLists
  BY <1>0, <1>5 DEF SweepLists
<1>6. CASE SweepRemoves
  BY <1>0, <1>6 DEF SweepRemoves
<1>7. CASE ErasureCommits
  BY <1>0, <1>7 DEF ErasureCommits
<1>8. ASSUME NEW ok \in BOOLEAN, LateSwept(ok) PROVE FileIInv'
  BY <1>0, <1>8 DEF LateSwept
<1>9. CASE UNCHANGED fileVars
  BY <1>2, <1>9 DEF fileVars
<1> QED
  BY <1>1, <1>3, <1>4, <1>5, <1>6, <1>7, <1>8, <1>9 DEF FileNext

LEMMA FileStart == FileInit => FileIInv
BY DEF FileInit, FileIInv, FileTypeOK, SweepCovers, ErasedMediaIsGone

\* Whatever the owner registers, deletes or is refused meanwhile, and however
\* often a deletion fails half way and is asked for again: once it commits, no
\* object of the account is left but one uploaded behind the sweep's back.
THEOREM NothingOutlivesTheAccount == FileSpec => []ErasedMediaIsGone
<1>1. FileIInv => ErasedMediaIsGone
  BY DEF FileIInv
<1> QED BY <1>1, FileStart, FileStep, PTL DEF FileSpec

-----------------------------------------------------------------------------
(* The creator's desk *)

DeskIInv == DeskTypeOK /\ IsFiniteSet(photos) /\ ApprovedIsComplete

LEMMA DeskTypeStep == DeskTypeOK /\ [DeskNext]_deskVars => DeskTypeOK'
<1> SUFFICES ASSUME DeskTypeOK, [DeskNext]_deskVars PROVE DeskTypeOK'
  OBVIOUS
<1> USE DEF DeskTypeOK
<1>1. ASSUME NEW r \in DeskRequest, NEW p \in Photo,
             PhotoStatted(r, p) \/ PhotoGiven(r, p) \/ PhotoModerated(r, p)
      PROVE  DeskTypeOK'
  BY <1>1 DEF PhotoStatted, PhotoGiven, PhotoFound, PhotoModerated, Goes
<1>2. ASSUME NEW r \in DeskRequest, PhotoRegistered(r) \/ PhotoAdded(r) PROVE DeskTypeOK'
  <2>1. deskPhoto[r] \in Photo
    OBVIOUS
  <2> QED BY <1>2, <2>1 DEF PhotoRegistered, PhotoAdded, PhotoInserted, Goes
<1>3. ASSUME NEW r \in DeskRequest,
             \/ TakenOffline(r) \/ KycChecked(r) \/ KycSubmitted(r)
             \/ SwitchChecked(r) \/ SwitchedOn(r) \/ DeskRequestEnds(r)
             \/ StatusRead(r) \/ SuspendedByReport(r)
      PROVE  DeskTypeOK'
  BY <1>3 DEF TakenOffline, KycChecked, KycSubmitted, SwitchChecked, SwitchedOn,
              DeskRequestEnds, StatusRead, SuspendedByReport, Goes
<1>4. ASSUME NEW p \in Photo, PhotoDeleted(p) PROVE DeskTypeOK'
  BY <1>4 DEF PhotoDeleted
<1>5. CASE BecameListener \/ ListenerCreated \/ KycApproved \/ KycRejected
  BY <1>5 DEF BecameListener, ListenerCreated, KycApproved, KycRejected
<1>6. CASE SwitchedOff \/ Suspended \/ Restored \/ ProfileCleared
  BY <1>6 DEF SwitchedOff, Suspended, Restored, ProfileCleared
<1>7. CASE UNCHANGED deskVars
  BY <1>7 DEF deskVars
<1> QED
  BY <1>1, <1>2, <1>3, <1>4, <1>5, <1>6, <1>7 DEF DeskNext

LEMMA OneMore ==
    ASSUME NEW S, IsFiniteSet(S), NEW x
    PROVE  /\ IsFiniteSet(S \cup {x}) /\ Cardinality(S \cup {x}) \in Nat
           /\ Cardinality(S \cup {x}) >= Cardinality(S)
<1>1. Cardinality(S) \in Nat
  BY FS_CardinalityType
<1>2. /\ IsFiniteSet(S \cup {x})
      /\ Cardinality(S \cup {x}) = IF x \in S THEN Cardinality(S) ELSE Cardinality(S) + 1
  BY FS_AddElement
<1> QED
  BY <1>1, <1>2

LEMMA DeskStep == DeskIInv /\ [DeskNext]_deskVars => DeskIInv'
<1> SUFFICES ASSUME DeskIInv, [DeskNext]_deskVars PROVE DeskIInv'
  OBVIOUS
<1>10. DeskTypeOK'
  BY DeskTypeStep DEF DeskIInv
<1> USE DEF DeskIInv, ApprovedIsComplete, Count
<1>0. Cardinality(photos) \in Nat /\ MinPhotos \in Nat
  BY FS_CardinalityType, PhotoAssumption
\* What leaves the photos alone, and neither approves nor revives, keeps it.
<1>1. ASSUME photos' = photos, kyc' = "approved" => kyc = "approved",
             account' # "deleted" => account # "deleted" \/ revived',
             moderated' = moderated, revived => revived'
      PROVE  DeskIInv'
  BY <1>1, <1>10
<1>2. ASSUME NEW r \in DeskRequest, NEW from, PhotoInserted(r, from) PROVE DeskIInv'
  <2>1. /\ photos' = photos \cup {deskPhoto[r]}
        /\ UNCHANGED <<kyc, account, moderated, revived>>
    BY <1>2 DEF PhotoInserted
  <2>2. /\ IsFiniteSet(photos \cup {deskPhoto[r]})
        /\ Cardinality(photos \cup {deskPhoto[r]}) \in Nat
        /\ Cardinality(photos \cup {deskPhoto[r]}) >= Cardinality(photos)
    BY OneMore
  <2> QED BY <1>0, <1>10, <2>1, <2>2
<1>3. ASSUME NEW r \in DeskRequest, NEW p \in Photo, PhotoModerated(r, p) PROVE DeskIInv'
  BY <1>3, <1>10, FS_RemoveElement DEF PhotoModerated
<1>4. ASSUME NEW p \in Photo, PhotoDeleted(p) PROVE DeskIInv'
  <2>1. /\ p \in photos /\ photos' = photos \ {p}
        /\ kyc = "approved" => Cardinality(photos) > MinPhotos
        /\ UNCHANGED <<kyc, account, moderated, revived>>
    BY <1>0, <1>4 DEF PhotoDeleted
  <2>2. /\ IsFiniteSet(photos \ {p})
        /\ Cardinality(photos \ {p}) = Cardinality(photos) - 1
    BY <2>1, FS_RemoveElement
  <2> QED BY <1>0, <1>10, <2>1, <2>2
<1>5. ASSUME NEW r \in DeskRequest,
             \/ \E p \in Photo : PhotoStatted(r, p) \/ PhotoGiven(r, p)
             \/ TakenOffline(r) \/ KycChecked(r) \/ KycSubmitted(r)
             \/ SwitchChecked(r) \/ SwitchedOn(r) \/ DeskRequestEnds(r)
             \/ StatusRead(r)
      PROVE  DeskIInv'
  <2>1. /\ photos' = photos /\ moderated' = moderated /\ revived' = revived
        /\ account' # "deleted" => account # "deleted"
        /\ kyc' = "approved" => kyc = "approved"
    BY <1>5 DEF PhotoStatted, PhotoGiven, PhotoFound, TakenOffline, KycChecked, KycSubmitted,
                SwitchChecked, SwitchedOn, DeskRequestEnds, StatusRead
  <2> QED BY <1>1, <2>1
<1>6. CASE BecameListener \/ ListenerCreated \/ KycRejected \/ SwitchedOff
             \/ Suspended \/ Restored
  <2>1. /\ photos' = photos /\ moderated' = moderated /\ revived' = revived
        /\ kyc' = "approved" => kyc = "approved"
        /\ account' # "deleted" => account # "deleted"
    BY <1>6 DEF BecameListener, ListenerCreated, KycRejected, SwitchedOff,
                Suspended, Restored
  <2> QED BY <1>1, <2>1
<1>7. CASE KycApproved
  BY <1>7, <1>10 DEF KycApproved
<1>8. CASE ProfileCleared
  BY <1>8, <1>10, FS_EmptySet DEF ProfileCleared
<1>9. CASE UNCHANGED deskVars
  BY <1>1, <1>9 DEF deskVars
<1>11. ASSUME NEW r \in DeskRequest, SuspendedByReport(r) PROVE DeskIInv'
  <2>1. UNCHANGED <<photos, kyc, moderated>> /\ (revived' <=> revived \/ account = "deleted")
    BY <1>11 DEF SuspendedByReport
  <2> QED BY <1>1, <2>1
<1> QED
  BY <1>2, <1>3, <1>4, <1>5, <1>6, <1>7, <1>8, <1>9, <1>11
     DEF DeskNext, PhotoRegistered, PhotoAdded

LEMMA DeskStart == DeskInit => DeskIInv
<1> SUFFICES ASSUME DeskInit PROVE DeskIInv
  OBVIOUS
<1>1. (CHOOSE p \in Photo : TRUE) \in Photo
  BY PhotoAssumption
<1>2. DeskTypeOK
  BY <1>1 DEF DeskInit, DeskTypeOK
<1> QED BY <1>2, FS_EmptySet DEF DeskInit, DeskIInv, ApprovedIsComplete

\* An application checked before it is written, a review, late registrations
\* and the creator's own deletes never leave an approved profile with too few
\* photos; only a moderator's removal does, or a report that suspends the
\* account after its deletion.
THEOREM ApprovedStaysComplete == DeskSpec => []ApprovedIsComplete
<1>1. DeskIInv => ApprovedIsComplete
  BY DEF DeskIInv
<1> QED BY DeskStart, <1>1, DeskStep, PTL DEF DeskSpec

-----------------------------------------------------------------------------
(* Moco Live.  A run that overlaps no other leaves every stored row of its
   list as it fetched it: what it does not write it compared, and nobody but
   it writes contents before it records its snapshot. *)

Agrees(held, got, models) ==
    \A m \in models : got[m] # Absent /\ held[m] # Absent => held[m].hash = got[m]

SyncingTyped == syncing \in [Sync -> Run \cup {Idle}]
\* What a run will write it has seen in the list.
ChangedIsSeen ==
    \A s \in Sync : syncing[s].at = "read" =>
        \A m \in syncing[s].changed : syncing[s].got[m] \in Content
AloneIsAlone ==
    \A s, r \in Sync : s # r /\ syncing[s] # Idle /\ syncing[s].alone => syncing[r] = Idle
RunsAgree ==
    \A s \in Sync : syncing[s] # Idle /\ syncing[s].alone =>
        /\ syncing[s].at = "read" =>
               Agrees(mirror, syncing[s].got, Model \ syncing[s].changed)
        /\ syncing[s].at \in {"written", "marked"} => Agrees(mirror, syncing[s].got, Model)
SnapshotAgrees == calm /\ Busy = {} => Agrees(mirror, snapshot, Model)

LiveIInv ==
    /\ LiveTypeOK /\ SyncingTyped /\ ChangedIsSeen
    /\ AloneIsAlone /\ RunsAgree /\ SnapshotAgrees

LEMMA RunFields ==
    ASSUME NEW run \in Run \cup {Idle}
    PROVE  /\ run = Idle <=> run.at = "idle"
           /\ run # Idle => /\ run.at \in {"fetched", "read", "written", "marked"}
                            /\ run.got \in [Model -> Fetched] /\ run.alone \in BOOLEAN
           /\ run.at = "read" => run.changed \in SUBSET Model /\ run.touch \in SUBSET Model
BY DEF Run, Idle

\* The runs that stages make.
LEMMA StagesAreRuns ==
    ASSUME NEW got \in [Model -> Fetched], NEW alone \in BOOLEAN
    PROVE  /\ [at |-> "fetched", got |-> got, alone |-> alone] \in Run
           /\ [at |-> "written", got |-> got, alone |-> alone] \in Run
           /\ \A changed, touch \in SUBSET Model :
                [at |-> "read", got |-> got, alone |-> alone,
                 changed |-> changed, touch |-> touch] \in Run
BY DEF Run

LEMMA RunChanges ==
    ASSUME NEW run \in Run
    PROVE  /\ [run EXCEPT !.alone = FALSE] \in Run
           /\ [run EXCEPT !.alone = FALSE].alone = FALSE
           /\ [run EXCEPT !.alone = FALSE].got = run.got
           /\ [run EXCEPT !.alone = FALSE].at = run.at
           /\ run.at = "read" => [run EXCEPT !.alone = FALSE].changed = run.changed
           /\ run.at = "written" => /\ [run EXCEPT !.at = "marked"] \in Run
                                    /\ [run EXCEPT !.at = "marked"].at = "marked"
                                    /\ [run EXCEPT !.at = "marked"].got = run.got
                                    /\ [run EXCEPT !.at = "marked"].alone = run.alone
<1>1. CASE run \in [at : {"fetched", "written", "marked"}, got : [Model -> Fetched],
                    alone : BOOLEAN]
  BY <1>1 DEF Run
<1>2. CASE run \in [at : {"read"}, got : [Model -> Fetched], alone : BOOLEAN,
                    changed : SUBSET Model, touch : SUBSET Model]
  BY <1>2 DEF Run
<1> QED
  BY <1>1, <1>2 DEF Run

LEMMA IdleIsNoRun == \A run \in Run : run # Idle
BY DEF Run, Idle

\* Rows that only go, age or change their status keep what they agree with.
LEMMA AgreesStays ==
    ASSUME NEW got, NEW models \in SUBSET Model,
           \A m \in Model : mirror'[m] # Absent =>
               mirror[m] # Absent /\ mirror'[m].hash = mirror[m].hash,
           Agrees(mirror, got, models)
    PROVE  Agrees(mirror', got, models)
BY DEF Agrees

\* A step that moves no run and no snapshot.
LEMMA RowsAgeOrGo ==
    ASSUME LiveIInv, LiveTypeOK', UNCHANGED <<syncing, snapshot, calm>>,
           \A m \in Model : mirror'[m] # Absent =>
               mirror[m] # Absent /\ mirror'[m].hash = mirror[m].hash
    PROVE  LiveIInv'
<1>1. SyncingTyped' /\ ChangedIsSeen' /\ AloneIsAlone'
  BY DEF LiveIInv, SyncingTyped, ChangedIsSeen, AloneIsAlone
<1>2. ASSUME NEW s \in Sync, syncing[s] # Idle, syncing[s].alone, syncing[s].at = "read"
      PROVE  Agrees(mirror', syncing[s].got, Model \ syncing[s].changed)
  <2>1. Agrees(mirror, syncing[s].got, Model \ syncing[s].changed)
    BY <1>2 DEF LiveIInv, RunsAgree
  <2> QED
    BY <2>1, AgreesStays
<1>3. ASSUME NEW s \in Sync, syncing[s] # Idle, syncing[s].alone,
             syncing[s].at \in {"written", "marked"}
      PROVE  Agrees(mirror', syncing[s].got, Model)
  <2>1. Agrees(mirror, syncing[s].got, Model)
    BY <1>3 DEF LiveIInv, RunsAgree
  <2> QED
    BY <2>1, AgreesStays
<1>4. RunsAgree'
  BY <1>2, <1>3 DEF RunsAgree
<1>5. SnapshotAgrees'
  <2> SUFFICES ASSUME calm, Busy = {} PROVE Agrees(mirror', snapshot, Model)
    BY DEF SnapshotAgrees, Busy
  <2>1. Agrees(mirror, snapshot, Model)
    BY DEF LiveIInv, SnapshotAgrees
  <2> QED
    BY <2>1, AgreesStays
<1> QED
  BY <1>1, <1>4, <1>5 DEF LiveIInv

LEMMA ListFetchedStep ==
    ASSUME LiveIInv, NEW s \in Sync, ListFetched(s) PROVE LiveIInv'
<1>1. PICK got \in [Model -> Fetched] :
         syncing' = [r \in Sync |->
             IF r = s THEN [at |-> "fetched", got |-> got, alone |-> Busy = {}]
             ELSE IF r \in Busy THEN [syncing[r] EXCEPT !.alone = FALSE] ELSE Idle]
  BY DEF ListFetched
<1>2. slot' = TRUE /\ UNCHANGED <<mirror, snapshot, usable, calm, erasing>>
  BY DEF ListFetched
<1>3. SyncingTyped /\ LiveTypeOK
  BY DEF LiveIInv
<1>4. [at |-> "fetched", got |-> got, alone |-> Busy = {}] \in Run
  BY StagesAreRuns
<1>5. \A r \in Sync : r \in Busy => /\ [syncing[r] EXCEPT !.alone = FALSE] \in Run
                                    /\ [syncing[r] EXCEPT !.alone = FALSE].alone = FALSE
  BY <1>3, RunChanges DEF Busy, SyncingTyped
<1>6. syncing'[s] = [at |-> "fetched", got |-> got, alone |-> Busy = {}]
  BY <1>1
<1>7. \A r \in Sync \ {s} :
         /\ r \in Busy => syncing'[r] \in Run /\ syncing'[r].alone = FALSE
         /\ r \notin Busy => syncing'[r] = Idle
  BY <1>1, <1>5
<1>8. SyncingTyped'
  BY <1>1, <1>4, <1>5 DEF SyncingTyped
<1>9. LiveTypeOK'
  BY <1>2, <1>3, <1>8 DEF LiveTypeOK, SyncingTyped
<1>10. AloneIsAlone'
  <2> SUFFICES ASSUME NEW r \in Sync, NEW q \in Sync, r # q,
                      syncing'[r] # Idle, syncing'[r].alone
               PROVE  syncing'[q] = Idle
    BY DEF AloneIsAlone
  <2>1. r = s
    BY <1>7
  <2>2. Busy = {}
    <3>1. syncing'[s].alone = (Busy = {})
      BY <1>6
    <3> QED
      BY <2>1, <3>1
  <2> QED
    BY <1>7, <2>1, <2>2
<1>11. RunsAgree'
  BY <1>6, <1>7 DEF RunsAgree
<1>12. s \in Busy'
  BY <1>4, <1>6, IdleIsNoRun DEF Busy
<1>13. SnapshotAgrees'
  BY <1>12 DEF SnapshotAgrees
<1>14. ChangedIsSeen'
  <2> SUFFICES ASSUME NEW r \in Sync \ {s}, r \in Busy, syncing'[r].at = "read"
               PROVE  \A m \in syncing'[r].changed : syncing'[r].got[m] \in Content
    BY <1>6, <1>7 DEF ChangedIsSeen, Idle
  <2>1. syncing[r] \in Run /\ syncing'[r] = [syncing[r] EXCEPT !.alone = FALSE]
    BY <1>1, <1>3 DEF SyncingTyped, Busy
  <2>2. /\ syncing[r].at = "read" /\ syncing'[r].changed = syncing[r].changed
        /\ syncing'[r].got = syncing[r].got
    BY <2>1, RunChanges
  <2> QED
    BY <2>2 DEF LiveIInv, ChangedIsSeen
<1> QED
  BY <1>8, <1>9, <1>10, <1>11, <1>13, <1>14 DEF LiveIInv

\* A run moves on to its next stage: it agrees with what it has to.
LEMMA RunMoves ==
    ASSUME LiveIInv, NEW s \in Sync, NEW run \in Run,
           syncing[s] # Idle, run.alone = syncing[s].alone,
           syncing' = [syncing EXCEPT ![s] = run],
           UNCHANGED <<snapshot, usable, slot, calm, erasing>>,
           mirror' \in [Model -> Row \cup {Absent}],
           run.at = "read" => \A m \in run.changed : run.got[m] \in Content,
           run.alone =>
               /\ run.at = "read" => Agrees(mirror', run.got, Model \ run.changed)
               /\ run.at \in {"written", "marked"} => Agrees(mirror', run.got, Model)
    PROVE  LiveIInv'
<1>1. SyncingTyped /\ LiveTypeOK /\ AloneIsAlone /\ RunsAgree
  BY DEF LiveIInv
<1>2. SyncingTyped'
  BY <1>1 DEF SyncingTyped
<1>3. LiveTypeOK'
  BY <1>1, <1>2 DEF LiveTypeOK, SyncingTyped
<1>4. syncing'[s] = run /\ \A r \in Sync \ {s} : syncing'[r] = syncing[r]
  BY <1>1 DEF SyncingTyped
<1>5. run # Idle
  BY IdleIsNoRun
<1>6. AloneIsAlone'
  BY <1>1, <1>4 DEF AloneIsAlone
<1>7. RunsAgree'
  <2> SUFFICES ASSUME NEW r \in Sync, syncing'[r] # Idle, syncing'[r].alone
               PROVE  /\ syncing'[r].at = "read" =>
                           Agrees(mirror', syncing'[r].got, Model \ syncing'[r].changed)
                      /\ syncing'[r].at \in {"written", "marked"} =>
                           Agrees(mirror', syncing'[r].got, Model)
    BY DEF RunsAgree
  <2>1. r = s
    BY <1>1, <1>4 DEF AloneIsAlone
  <2> QED
    BY <1>4, <2>1
<1>8. s \in Busy'
  BY <1>4, <1>5 DEF Busy
<1>9. SnapshotAgrees'
  BY <1>8 DEF SnapshotAgrees
<1>10. ChangedIsSeen'
  BY <1>4 DEF LiveIInv, ChangedIsSeen
<1> QED
  BY <1>2, <1>3, <1>6, <1>7, <1>9, <1>10 DEF LiveIInv

LEMMA StoredReadStep ==
    ASSUME LiveIInv, NEW s \in Sync, StoredRead(s) PROVE LiveIInv'
<1> DEFINE got == syncing[s].got
           present == {m \in Model : got[m] # Absent}
           changed == {m \in present : Changed(m, got)}
           touch == {m \in present \ changed : mirror[m].seen # "now"}
           run == [at |-> "read", got |-> got, alone |-> syncing[s].alone,
                   changed |-> changed, touch |-> touch]
<1>1. SyncingTyped /\ LiveTypeOK
  BY DEF LiveIInv
<1>2. syncing[s].at = "fetched" /\ syncing' = [syncing EXCEPT ![s] = run]
  BY <1>1 DEF StoredRead, SyncAt, SyncingTyped
<1>3. UNCHANGED <<mirror, snapshot, usable, slot, calm, erasing>>
  BY DEF StoredRead
<1>4. /\ syncing[s] \in Run \cup {Idle} /\ syncing[s] # Idle
      /\ got \in [Model -> Fetched] /\ syncing[s].alone \in BOOLEAN
  BY <1>1, <1>2, RunFields DEF SyncingTyped
<1>5. run \in Run
  BY <1>4, StagesAreRuns
<1>6. \A m \in Model \ changed : got[m] # Absent /\ mirror[m] # Absent => mirror[m].hash = got[m]
  BY DEF Changed
<1>7. /\ run.at = "read" /\ run.got = got /\ run.changed = changed
      /\ run.alone = syncing[s].alone
  OBVIOUS
<1>9. \A m \in changed : got[m] \in Content
  BY <1>4 DEF Fetched
<1> HIDE DEF run, changed, got
<1>8. Agrees(mirror', run.got, Model \ run.changed)
  BY <1>3, <1>6, <1>7 DEF Agrees
<1> QED
  BY <1>1, <1>2, <1>3, <1>4, <1>5, <1>7, <1>8, <1>9, RunMoves DEF LiveTypeOK

LEMMA SeesIsARow ==
    ASSUME NEW content \in Content
    PROVE  Sees(content) \in Row /\ Sees(content).hash = content
BY DEF Sees, Content, Row

LEMMA RowChanges ==
    ASSUME NEW row \in Row
    PROVE  /\ [row EXCEPT !.seen = "now"] \in Row /\ [row EXCEPT !.seen = "now"].hash = row.hash
           /\ [row EXCEPT !.seen = "hours"] \in Row /\ [row EXCEPT !.seen = "hours"].hash = row.hash
           /\ [row EXCEPT !.seen = "days"] \in Row /\ [row EXCEPT !.seen = "days"].hash = row.hash
           /\ [row EXCEPT !.status = "offline"] \in Row
           /\ [row EXCEPT !.status = "offline"].hash = row.hash
BY DEF Row

LEMMA RowsWrittenStep ==
    ASSUME LiveIInv, NEW s \in Sync, RowsWritten(s) PROVE LiveIInv'
<1> DEFINE got == syncing[s].got
           run == [at |-> "written", got |-> got, alone |-> syncing[s].alone]
<1>1. SyncingTyped /\ ChangedIsSeen /\ LiveTypeOK /\ RunsAgree
  BY DEF LiveIInv
<1>2. /\ syncing[s].at = "read" /\ syncing' = [syncing EXCEPT ![s] = run]
      /\ mirror' = [m \in Model |->
           IF m \in syncing[s].changed THEN Sees(got[m])
           ELSE IF m \in syncing[s].touch /\ mirror[m] # Absent
                THEN [mirror[m] EXCEPT !.seen = "now"] ELSE mirror[m]]
  BY <1>1 DEF RowsWritten, SyncAt, SyncingTyped
<1>3. UNCHANGED <<snapshot, usable, slot, calm, erasing>>
  BY DEF RowsWritten
<1>4. /\ syncing[s] \in Run \cup {Idle} /\ syncing[s] # Idle
      /\ got \in [Model -> Fetched] /\ syncing[s].alone \in BOOLEAN
  BY <1>1, <1>2, RunFields DEF SyncingTyped
<1>5. run \in Run /\ run.at = "written" /\ run.got = got /\ run.alone = syncing[s].alone
  BY <1>4, StagesAreRuns
<1>6. \A m \in syncing[s].changed : Sees(got[m]) \in Row /\ Sees(got[m]).hash = got[m]
  BY <1>1, <1>2, SeesIsARow DEF ChangedIsSeen
<1>7. \A m \in Model : mirror[m] # Absent =>
          /\ mirror[m] \in Row /\ [mirror[m] EXCEPT !.seen = "now"] \in Row
          /\ [mirror[m] EXCEPT !.seen = "now"].hash = mirror[m].hash
  BY <1>1, RowChanges DEF LiveTypeOK
<1>8. /\ \A m \in syncing[s].changed \cap Model :
             mirror'[m] \in Row /\ mirror'[m].hash = got[m]
      /\ \A m \in Model \ syncing[s].changed :
             IF mirror[m] = Absent THEN mirror'[m] = Absent
             ELSE mirror'[m] \in Row /\ mirror'[m].hash = mirror[m].hash
  BY <1>2, <1>6, <1>7
<1>9. mirror' \in [Model -> Row \cup {Absent}]
  <2>1. \A m \in Model : mirror'[m] \in Row \cup {Absent}
    BY <1>8
  <2> QED
    BY <1>2, <2>1
<1>10. ASSUME run.alone PROVE Agrees(mirror', run.got, Model)
  <2>1. Agrees(mirror, got, Model \ syncing[s].changed)
    BY <1>1, <1>2, <1>4, <1>5, <1>10 DEF RunsAgree
  <2> HIDE DEF run, got
  <2> SUFFICES ASSUME NEW m \in Model, got[m] # Absent, mirror'[m] # Absent
               PROVE  mirror'[m].hash = got[m]
    BY <1>5 DEF Agrees
  <2>2. CASE m \in syncing[s].changed
    BY <1>8, <2>2
  <2>3. CASE m \notin syncing[s].changed
    BY <1>8, <2>1, <2>3 DEF Agrees
  <2> QED
    BY <2>2, <2>3
<1> HIDE DEF run, got
<1> QED
  BY <1>1, <1>2, <1>3, <1>4, <1>5, <1>9, <1>10, RunMoves DEF LiveTypeOK

LEMMA AbsentMarkedStep ==
    ASSUME LiveIInv, NEW s \in Sync, AbsentMarked(s) PROVE LiveIInv'
<1> DEFINE run == [syncing[s] EXCEPT !.at = "marked"]
<1>1. SyncingTyped /\ LiveTypeOK /\ RunsAgree
  BY DEF LiveIInv
<1>2. /\ syncing[s].at = "written" /\ syncing' = [syncing EXCEPT ![s] = run]
      /\ mirror' = [m \in Model |->
           IF mirror[m] # Absent /\ syncing[s].got[m] = Absent
           THEN [mirror[m] EXCEPT !.status = "offline"] ELSE mirror[m]]
  BY <1>1 DEF AbsentMarked, SyncAt, SyncGoes, SyncingTyped
<1>3. UNCHANGED <<snapshot, usable, slot, calm, erasing>>
  BY DEF AbsentMarked
<1>4. syncing[s] \in Run /\ syncing[s] # Idle
  BY <1>1, <1>2, RunFields DEF SyncingTyped
<1>5. /\ run \in Run /\ run.at = "marked" /\ run.got = syncing[s].got
      /\ run.alone = syncing[s].alone
  BY <1>2, <1>4, RunChanges
<1>6. \A m \in Model : mirror[m] # Absent =>
          /\ mirror[m] \in Row /\ [mirror[m] EXCEPT !.status = "offline"] \in Row
          /\ [mirror[m] EXCEPT !.status = "offline"].hash = mirror[m].hash
  BY <1>1, RowChanges DEF LiveTypeOK
<1>7. \A m \in Model :
          IF mirror[m] = Absent THEN mirror'[m] = Absent
          ELSE mirror'[m] \in Row /\ mirror'[m].hash = mirror[m].hash
  BY <1>2, <1>6
<1>8. mirror' \in [Model -> Row \cup {Absent}]
  <2>1. \A m \in Model : mirror'[m] \in Row \cup {Absent}
    BY <1>7
  <2> QED
    BY <1>2, <2>1
<1> HIDE DEF run
<1>9. ASSUME run.alone PROVE Agrees(mirror', run.got, Model)
  <2>1. Agrees(mirror, syncing[s].got, Model)
    BY <1>1, <1>2, <1>4, <1>5, <1>9 DEF RunsAgree
  <2> QED
    BY <1>5, <1>7, <2>1, AgreesStays
<1> QED
  BY <1>2, <1>3, <1>4, <1>5, <1>8, <1>9, RunMoves

\* A run is over: nobody else was there if it was alone.
LEMMA RunEnds ==
    ASSUME LiveIInv, NEW s \in Sync, syncing' = [syncing EXCEPT ![s] = Idle], UNCHANGED mirror
    PROVE  SyncingTyped' /\ ChangedIsSeen' /\ AloneIsAlone' /\ RunsAgree'
<1>1. SyncingTyped /\ ChangedIsSeen /\ AloneIsAlone /\ RunsAgree
  BY DEF LiveIInv
<1>2. syncing'[s] = Idle /\ \A r \in Sync \ {s} : syncing'[r] = syncing[r]
  BY <1>1 DEF SyncingTyped
<1>3. SyncingTyped' /\ AloneIsAlone'
  BY <1>1, <1>2 DEF SyncingTyped, AloneIsAlone
<1>4. ChangedIsSeen'
  BY <1>1, <1>2 DEF ChangedIsSeen, Idle
<1>5. RunsAgree'
  <2> SUFFICES ASSUME NEW r \in Sync, syncing'[r] # Idle, syncing'[r].alone
               PROVE  /\ syncing'[r].at = "read" =>
                           Agrees(mirror', syncing'[r].got, Model \ syncing'[r].changed)
                      /\ syncing'[r].at \in {"written", "marked"} =>
                           Agrees(mirror', syncing'[r].got, Model)
    BY DEF RunsAgree
  <2>1. syncing'[r] = syncing[r] /\ mirror' = mirror
    BY <1>2
  <2> QED
    BY <1>1, <2>1 DEF RunsAgree
<1> QED
  BY <1>3, <1>4, <1>5

LEMMA SnapshotRecordedStep ==
    ASSUME LiveIInv, NEW s \in Sync, SnapshotRecorded(s) PROVE LiveIInv'
<1>1. SyncingTyped /\ LiveTypeOK /\ RunsAgree /\ AloneIsAlone
  BY DEF LiveIInv
<1>2. /\ syncing[s].at = "marked"
      /\ snapshot' = syncing[s].got /\ usable' = TRUE /\ calm' = syncing[s].alone
      /\ syncing' = [syncing EXCEPT ![s] = Idle] /\ UNCHANGED <<mirror, slot, erasing>>
  BY DEF SnapshotRecorded, SyncAt
<1>3. /\ syncing[s] # Idle /\ syncing[s].got \in [Model -> Fetched]
      /\ syncing[s].alone \in BOOLEAN
  BY <1>1, <1>2, RunFields DEF SyncingTyped
<1>4. SyncingTyped' /\ ChangedIsSeen' /\ AloneIsAlone' /\ RunsAgree'
  BY <1>2, RunEnds
<1>5. LiveTypeOK'
  BY <1>1, <1>2, <1>3, <1>4 DEF LiveTypeOK, SyncingTyped
<1>6. SnapshotAgrees'
  BY <1>1, <1>2, <1>3 DEF SnapshotAgrees, RunsAgree
<1> QED
  BY <1>4, <1>5, <1>6 DEF LiveIInv

LEMMA LiveStep == LiveIInv /\ [LiveNext]_liveVars => LiveIInv'
<1> SUFFICES ASSUME LiveIInv, [LiveNext]_liveVars PROVE LiveIInv'
  OBVIOUS
<1>0. LiveTypeOK /\ SyncingTyped
  BY DEF LiveIInv
<1>1. ASSUME UNCHANGED <<mirror, snapshot, syncing, calm>>,
             usable' \in BOOLEAN, slot' \in BOOLEAN, erasing' \subseteq Model
      PROVE  LiveIInv'
  <2>1. LiveTypeOK'
    BY <1>0, <1>1 DEF LiveTypeOK
  <2> QED
    BY <1>1, <2>1, RowsAgeOrGo
<1>2. CASE UNCHANGED liveVars
  BY <1>0, <1>1, <1>2 DEF liveVars, LiveTypeOK
<1>3. CASE FetchFailed \/ SlotExpires \/ SnapshotExpires
  BY <1>0, <1>1, <1>3 DEF FetchFailed, SlotExpires, SnapshotExpires, LiveTypeOK
<1>4. ASSUME NEW dead \in SUBSET Model, DeletedFetched(dead) PROVE LiveIInv'
  BY <1>0, <1>1, <1>4 DEF DeletedFetched, LiveTypeOK
<1>5. ASSUME NEW s \in Sync, SyncDies(s) PROVE LiveIInv'
  <2>1. /\ syncing' = [syncing EXCEPT ![s] = Idle] /\ calm' = FALSE
        /\ UNCHANGED <<mirror, snapshot, usable, slot, erasing>>
    BY <1>5 DEF SyncDies
  <2>2. SyncingTyped' /\ ChangedIsSeen' /\ AloneIsAlone' /\ RunsAgree'
    BY <2>1, RunEnds
  <2>3. LiveTypeOK' /\ SnapshotAgrees'
    BY <1>0, <2>1, <2>2 DEF LiveTypeOK, SyncingTyped, SnapshotAgrees
  <2> QED
    BY <2>2, <2>3 DEF LiveIInv
<1>6. ASSUME UNCHANGED <<snapshot, usable, syncing, slot, calm>>, erasing' \subseteq Model,
             mirror' \in [Model -> Row \cup {Absent}],
             \A m \in Model : mirror'[m] # Absent =>
                 mirror[m] # Absent /\ mirror'[m].hash = mirror[m].hash
      PROVE  LiveIInv'
  <2>1. LiveTypeOK'
    BY <1>0, <1>6 DEF LiveTypeOK
  <2> QED
    BY <1>6, <2>1, RowsAgeOrGo
<1>7. CASE LongAbsentRemoved
  BY <1>0, <1>6, <1>7 DEF LongAbsentRemoved, LiveTypeOK
<1>8. CASE DeletedRemoved
  BY <1>0, <1>6, <1>8 DEF DeletedRemoved, LiveTypeOK
<1>9. ASSUME NEW m \in Model, SeenAges(m) PROVE LiveIInv'
  <2>1. mirror[m] \in Row /\ mirror[m] # Absent
    BY <1>0, <1>9 DEF SeenAges, LiveTypeOK
  <2>2. PICK seen \in {"hours", "days"} : mirror' = [mirror EXCEPT ![m] = [mirror[m] EXCEPT !.seen = seen]]
    BY <1>0, <1>9 DEF SeenAges, LiveTypeOK
  <2>3. /\ [mirror[m] EXCEPT !.seen = seen] \in Row
        /\ [mirror[m] EXCEPT !.seen = seen].hash = mirror[m].hash
    BY <2>1, RowChanges
  <2>4. /\ mirror'[m] \in Row /\ mirror'[m].hash = mirror[m].hash
        /\ \A n \in Model \ {m} : mirror'[n] = mirror[n]
        /\ mirror' \in [Model -> Row \cup {Absent}]
    BY <1>0, <2>2, <2>3 DEF LiveTypeOK
  <2>5. \A n \in Model : mirror'[n] # Absent =>
            mirror[n] # Absent /\ mirror'[n].hash = mirror[n].hash
    BY <2>1, <2>4
  <2>6. UNCHANGED <<snapshot, usable, syncing, slot, calm>> /\ erasing' \subseteq Model
    BY <1>0, <1>9 DEF SeenAges, LiveTypeOK
  <2> QED
    BY <1>6, <2>4, <2>5, <2>6
<1> QED
  BY <1>2, <1>3, <1>4, <1>5, <1>7, <1>8, <1>9, ListFetchedStep, StoredReadStep, RowsWrittenStep,
     AbsentMarkedStep, SnapshotRecordedStep DEF LiveNext

\* Whatever the edge discloses of a place, the clause lets no row through that
\* bans it.
LEMMA AllowedIsNotBanned ==
    ASSUME NEW bans \in BanSets, NEW place \in Place, NEW viewer \in Shown(place),
           GeobanAllows(bans, viewer)
    PROVE  ~Banned(bans, place)
<1>1. PICK c \in Country, r \in Region : place = <<c, r>>
  BY DEF Place
<1>2. place[1] = c /\ place[2] = r
  BY <1>1
<1>3. c # Unknown /\ r # Unknown
  BY BanAssumption
<1>4. /\ viewer.country \in {c, Unknown} /\ viewer.region \in {r, Unknown}
      /\ viewer.country = Unknown => viewer.region = Unknown
  BY <1>2, <1>3 DEF Shown
<1>5. CASE viewer.country = Unknown
  BY <1>5 DEF GeobanAllows, Banned
<1>6. CASE viewer.country = c
  <2>1. c \notin bans
    BY <1>3, <1>6 DEF GeobanAllows
  <2>2. <<c, r>> \notin bans
    BY <1>3, <1>4, <1>6 DEF GeobanAllows
  <2> QED
    BY <1>1, <1>2, <2>1, <2>2 DEF Banned
<1> QED
  BY <1>4, <1>5, <1>6

LEMMA LiveStart == LiveInit => LiveIInv
<1> SUFFICES ASSUME LiveInit PROVE LiveIInv
  OBVIOUS
<1>1. LiveTypeOK
  BY DEF LiveInit, LiveTypeOK, Fetched
<1>2. SyncingTyped /\ \A s \in Sync : syncing[s] = Idle
  BY DEF LiveInit, SyncingTyped
<1>3. ChangedIsSeen /\ AloneIsAlone /\ RunsAgree
  BY <1>2 DEF ChangedIsSeen, AloneIsAlone, RunsAgree, Idle
<1>4. SnapshotAgrees
  BY DEF LiveInit, SnapshotAgrees, Agrees
<1> QED
  BY <1>1, <1>2, <1>3, <1>4 DEF LiveIInv

LEMMA ListedWhereAllowed == LiveIInv => BannedPlacesSeeNothing
<1> SUFFICES ASSUME LiveIInv, calm, Busy = {}, NEW m \in Model, NEW place \in Place,
                    NEW viewer \in Shown(place), Listed(m, viewer)
             PROVE  ~Banned(snapshot[m].bans, place)
  BY DEF BannedPlacesSeeNothing
<1>1. /\ snapshot[m] # Absent /\ mirror[m] # Absent
      /\ GeobanAllows(mirror[m].hash.bans, viewer)
  BY DEF Listed
<1>2. mirror[m].hash = snapshot[m]
  BY <1>1 DEF LiveIInv, SnapshotAgrees, Agrees
<1>3. snapshot[m].bans \in BanSets
  BY <1>1 DEF LiveIInv, LiveTypeOK, Fetched, Content
<1> QED
  BY <1>1, <1>2, <1>3, AllowedIsNotBanned

\* A model is not listed where its geobans cover the viewer: sync() of
\* live.service.js leaves the bans it fetched in every row it stored, and
\* list() asks them of the row.
THEOREM BansAreObeyed == LiveSpec => []BannedPlacesSeeNothing
BY LiveStart, LiveStep, ListedWhereAllowed, PTL DEF LiveSpec
=============================================================================
