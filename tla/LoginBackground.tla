-------------------------- MODULE LoginBackground --------------------------
(***************************************************************************)
(* The background of the login screen: the setting in app_settings, its    *)
(* media in Storage, and the administrators' tabs that upload and save     *)
(* (modules/settings/login_background.js; renderLoginBackground in         *)
(* admin.js).  Signed URLs, their cache, and limits other than the size an *)
(* object turns out to have are left out.                                  *)
(***************************************************************************)
EXTENDS Integers, FiniteSets

CONSTANTS
    Tab,            \* administrators' tabs
    Picture, Film,  \* objects that can be uploaded, each once
    TooLarge,       \* the objects over the cap of their kind
    NoMedia

VARIABLES
    background,     \* the setting: its image and its video
    bucket,         \* objects in Storage
    uploaded,       \* objects that were ever uploaded
    choice,         \* [Tab -> the draft]
    save,           \* [Tab -> the save under way]
    overlapped      \* whether two saves ever overlapped

backgroundVars == <<background, bucket, uploaded, choice, save, overlapped>>

Setting == [image : Picture \cup {NoMedia}, video : Film \cup {NoMedia}]
Plain == [image |-> NoMedia, video |-> NoMedia]
MediaOf(setting) == {setting.image, setting.video} \ {NoMedia}
NoSave == [at |-> "none", next |-> Plain, checks |-> {}, drops |-> {}]

BackgroundInit ==
    /\ background = Plain /\ bucket = {} /\ uploaded = {}
    /\ choice = [t \in Tab |-> Plain] /\ save = [t \in Tab |-> NoSave]
    /\ overlapped = FALSE

\* The tab loads, or loads again after its save.
TabLoads(t) == /\ choice' = [choice EXCEPT ![t] = background]
               /\ UNCHANGED <<background, bucket, uploaded, save, overlapped>>

TabUploads(t) ==
    /\ \/ \E p \in Picture \ uploaded : /\ uploaded' = uploaded \cup {p}
                                        /\ choice' = [choice EXCEPT ![t].image = p]
       \/ \E f \in Film \ uploaded : /\ uploaded' = uploaded \cup {f}
                                     /\ choice' = [choice EXCEPT ![t].video = f]
    /\ bucket' = bucket \cup (uploaded' \ uploaded)
    /\ UNCHANGED <<background, save, overlapped>>

\* Bound: after an overlap the saves under way end, and no other begins.
Begins(t, next) ==
    /\ save[t].at = "none" /\ ~overlapped
    /\ save' = [save EXCEPT ![t] = [at |-> "checking", next |-> next,
                                    checks |-> MediaOf(next), drops |-> {}]]
    /\ overlapped' = (overlapped \/ \E u \in Tab : save[u].at # "none")
    /\ UNCHANGED <<background, bucket, uploaded, choice>>

\* The body by the type chosen; an image needs its picture, a video its film,
\* and the default is also what DELETE saves.
BackgroundSaved(t) ==
    \/ choice[t].image # NoMedia /\ Begins(t, [choice[t] EXCEPT !.video = NoMedia])
    \/ choice[t].video # NoMedia /\ Begins(t, choice[t])
    \/ Begins(t, Plain)

SaveGoes(t, at) == save' = [save EXCEPT ![t].at = at]

\* verifyUpload, one object: refused when it is not there, and removed when
\* it is too large.
ObjectChecked(t) ==
    /\ save[t].at = "checking"
    /\ \E o \in save[t].checks :
          IF o \in bucket \ TooLarge
          THEN save' = [save EXCEPT ![t].checks = @ \ {o}] /\ UNCHANGED bucket
          ELSE save' = [save EXCEPT ![t] = NoSave] /\ bucket' = bucket \ ({o} \cap TooLarge)
    /\ UNCHANGED <<background, uploaded, choice, overlapped>>

\* A slip worth ruling out: all of the previous media is removed.
DropsAll(t) ==
    /\ save[t].at = "checking" /\ save[t].checks = {}
    /\ save' = [save EXCEPT ![t].at = "read", ![t].drops = MediaOf(background)]
    /\ UNCHANGED <<background, bucket, uploaded, choice, overlapped>>

\* read(): the previous setting, whose media the new one may no longer use.
PreviousRead(t) ==
    /\ save[t].at = "checking" /\ save[t].checks = {}
    /\ save' = [save EXCEPT ![t].at = "read",
                            ![t].drops = MediaOf(background) \ MediaOf(save[t].next)]
    /\ UNCHANGED <<background, bucket, uploaded, choice, overlapped>>

BackgroundStored(t) ==
    /\ save[t].at = "read" /\ SaveGoes(t, "dropping")
    /\ background' = save[t].next
    /\ UNCHANGED <<bucket, uploaded, choice, overlapped>>

MediaDropped(t) ==
    /\ save[t].at = "dropping"
    /\ \E o \in save[t].drops : /\ bucket' = bucket \ {o}
                                /\ save' = [save EXCEPT ![t].drops = @ \ {o}]
    /\ UNCHANGED <<background, uploaded, choice, overlapped>>

\* It is done, or it fails or its instance stops on the way.
SaveOver(t) ==
    /\ save[t].at # "none" /\ save' = [save EXCEPT ![t] = NoSave]
    /\ UNCHANGED <<background, bucket, uploaded, choice, overlapped>>

BackgroundNext ==
    \E t \in Tab : \/ TabLoads(t) \/ TabUploads(t) \/ BackgroundSaved(t) \/ ObjectChecked(t)
                   \/ PreviousRead(t) \/ BackgroundStored(t) \/ MediaDropped(t) \/ SaveOver(t)

BackgroundSpec == BackgroundInit /\ [][BackgroundNext]_backgroundVars

BackgroundTypeOK ==
    /\ background \in Setting /\ bucket \subseteq uploaded /\ uploaded \subseteq Picture \cup Film
    /\ choice \in [Tab -> Setting] /\ overlapped \in BOOLEAN
    /\ save \in [Tab -> [at : {"none", "checking", "read", "dropping"}, next : Setting,
                         checks : SUBSET (Picture \cup Film), drops : SUBSET (Picture \cup Film)]]

\* The login screen's media is in Storage, although tabs save choices they
\* loaded long ago, uploads go on during saves and saves stop half-way - as
\* long as no two saves overlap: a save that checks an object just before
\* another drops it brings it back as a name with nothing behind it.
BackgroundHasMedia == ~overlapped => MediaOf(background) \subseteq bucket
=============================================================================
