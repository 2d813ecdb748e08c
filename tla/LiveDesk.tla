------------------------------ MODULE LiveDesk ------------------------------
(***************************************************************************)
(* Settings -> Live in the console (public/admin/live-settings.js) over    *)
(* the one stored document (live.settings.js): an administrator's editor   *)
(* with its draft, its preview of the draft, and its saves, while other    *)
(* administrators save too.  A document is its featured and its hidden     *)
(* list; the order of a list and every other field are left out.           *)
(***************************************************************************)
EXTENDS Integers, FiniteSets

CONSTANTS
    Star,           \* usernames of synced models
    MaxList,        \* MAX_LIST
    Previews,       \* bound: preview requests under way
    Saves           \* bound: PUTs under way

ASSUME MaxListAssumption == MaxList \in Nat

VARIABLES
    settings,       \* the document in app_settings; the defaults until a save
    saved, draft,   \* the editor's copies
    timer,          \* previewTimer is set
    previews,       \* preview requests under way; newest: seq = previewSeq
    frame,          \* whose models the preview shows: a document, or an error
    lastPreview,    \* the document last previewed with success
    note,           \* what the preview's heading says of it
    button,         \* the Save button is enabled
    saving,         \* PUTs under way
    mixed           \* history: names others saved on both lists at once

pane == <<frame, lastPreview, note>>
editorVars == <<saved, draft, timer, previews, pane, button, saving>>
liveDeskVars == <<settings, editorVars, mixed>>

Document == [featured : SUBSET Star, hidden : SUBSET Star]
Both(doc) == doc.featured \cap doc.hidden
Defaults == [featured |-> {}, hidden |-> {}]
Failure == [error |-> TRUE]
Nothing == [error |-> FALSE]

\* merge and read: what is stored, or the defaults when the query fails.
ReadSettings == {settings, Defaults}

\* loadPreview: a new number makes the answers of all earlier requests void.
Asks(doc) ==
    /\ previews' = {[p EXCEPT !.newest = FALSE] : p \in previews}
                      \cup {[of |-> doc, newest |-> TRUE]}
    /\ note' = "updating" /\ UNCHANGED <<frame, lastPreview>>

LiveDeskInit ==
    /\ settings = Defaults
    /\ saved \in ReadSettings /\ draft = saved
    /\ timer = FALSE /\ previews = {[of |-> draft, newest |-> TRUE]}
    /\ frame = Nothing /\ lastPreview = Nothing /\ note = "updating"
    /\ button = FALSE /\ saving = {} /\ mixed = {}

\* changed(): the preview follows in 350 ms.
DraftBecomes(doc) == /\ draft' = doc /\ timer' = TRUE /\ button' = (doc # saved)
                     /\ UNCHANGED <<settings, saved, previews, pane, saving, mixed>>

\* A slip worth ruling out: a name may stand on both lists.
FeaturesToo(n) ==
    /\ n \notin draft.featured /\ Cardinality(draft.featured) < MaxList
    /\ DraftBecomes([draft EXCEPT !.featured = @ \cup {n}])

Features(n) ==
    /\ n \notin draft.featured /\ Cardinality(draft.featured) < MaxList
    /\ DraftBecomes([featured |-> draft.featured \cup {n}, hidden |-> draft.hidden \ {n}])
Hides(n) ==
    /\ n \notin draft.hidden /\ Cardinality(draft.hidden) < MaxList
    /\ DraftBecomes([featured |-> draft.featured \ {n}, hidden |-> draft.hidden \cup {n}])
TakesOff(n) == /\ n \in draft.featured \cup draft.hidden
               /\ \/ DraftBecomes([draft EXCEPT !.featured = @ \ {n}])
                  \/ DraftBecomes([draft EXCEPT !.hidden = @ \ {n}])
Discards == draft # saved /\ DraftBecomes(saved)
ResetToDefaults == DraftBecomes(Defaults)

TimerFires ==
    /\ timer /\ Cardinality(previews) < Previews
    /\ timer' = FALSE /\ Asks(draft)
    /\ UNCHANGED <<settings, saved, draft, button, saving, mixed>>

\* The models, with a note whether they are those of unsaved settings, or an
\* error; dirty() is asked when the answer comes.
Rendered(doc) ==
    \/ /\ frame' = doc /\ lastPreview' = doc
       /\ note' = IF draft = saved THEN "saved" ELSE "unsaved"
    \/ frame' = Failure /\ note' = "none" /\ UNCHANGED lastPreview

\* A slip worth ruling out: the answers shown in the order they come in.
PreviewShown(p) ==
    /\ p \in previews /\ previews' = previews \ {p} /\ Rendered(p.of)
    /\ UNCHANGED <<settings, saved, draft, timer, button, saving, mixed>>

PreviewAnswered(p) ==
    /\ p \in previews /\ previews' = previews \ {p}
    /\ IF p.newest THEN Rendered(p.of) ELSE UNCHANGED pane
    /\ UNCHANGED <<settings, saved, draft, timer, button, saving, mixed>>

\* A device button: the last preview again, whatever the draft is by now.
DeviceChosen ==
    /\ lastPreview # Nothing /\ frame' = lastPreview
    /\ UNCHANGED <<settings, saved, draft, timer, previews, lastPreview, note,
                   button, saving, mixed>>

\* The button is disabled until the answer, or until the next edit.
SavePressed ==
    /\ button /\ Cardinality(saving) < Saves
    /\ button' = FALSE /\ saving' = saving \cup {[doc |-> draft, at |-> "sent"]}
    /\ UNCHANGED <<settings, saved, draft, timer, previews, pane, mixed>>

\* PUT /settings: the whole document is replaced.
SettingsStored(put) ==
    /\ put \in saving /\ put.at = "sent" /\ settings' = put.doc
    /\ saving' = (saving \ {put}) \cup {[put EXCEPT !.at = "stored"]}
    /\ UNCHANGED <<saved, draft, timer, previews, pane, button, mixed>>

\* The answer: what a read finds then; edits made since are gone.  A pending
\* timer stays set.
SaveAnswered(put) ==
    /\ put \in saving /\ put.at = "stored" /\ Cardinality(previews) < Previews
    /\ saved' \in ReadSettings /\ draft' = saved'
    /\ button' = FALSE /\ saving' = saving \ {put}
    /\ Asks(draft')
    /\ UNCHANGED <<settings, timer, mixed>>

SaveFails(put) ==
    /\ put \in saving /\ saving' = saving \ {put} /\ button' = (draft # saved)
    /\ UNCHANGED <<settings, saved, draft, timer, previews, pane, mixed>>

\* The same PUT from elsewhere: its schema looks at each list by itself.
AnotherAdminSaves ==
    /\ settings' \in {doc \in Document : Cardinality(doc.featured) <= MaxList
                                          /\ Cardinality(doc.hidden) <= MaxList}
    /\ mixed' = mixed \cup Both(settings')
    /\ UNCHANGED editorVars

LiveDeskNext ==
    \/ \E n \in Star : Features(n) \/ Hides(n) \/ TakesOff(n)
    \/ Discards \/ ResetToDefaults
    \/ TimerFires \/ DeviceChosen \/ \E p \in previews : PreviewAnswered(p)
    \/ SavePressed
    \/ \E put \in saving : SettingsStored(put) \/ SaveAnswered(put) \/ SaveFails(put)
    \/ AnotherAdminSaves

LiveDeskSpec == LiveDeskInit /\ [][LiveDeskNext]_liveDeskVars

LiveDeskTypeOK ==
    /\ {settings, saved, draft} \subseteq Document /\ timer \in BOOLEAN
    /\ previews \subseteq [of : Document, newest : BOOLEAN]
    /\ frame \in Document \cup {Nothing, Failure} /\ lastPreview \in Document \cup {Nothing}
    /\ note \in {"updating", "saved", "unsaved", "none"} /\ mixed \subseteq Star
    /\ button \in BOOLEAN /\ saving \subseteq [doc : Document, at : {"sent", "stored"}]

\* live-settings.js: "A model cannot be both featured and hidden": whatever
\* is edited, discarded, saved and loaded again, a name is on both lists of a
\* draft, of a save under way or of the stored document only if another's
\* save, which the server does not refuse, once put it on both.
FeaturedNotHidden ==
    /\ Both(settings) \cup Both(saved) \cup Both(draft) \subseteq mixed
    /\ \A put \in saving : Both(put.doc) \subseteq mixed

\* What the heading says of the preview is so: whatever the order of edits,
\* saves, answers, failures and device buttons, a preview headed "saved" or
\* "unsaved settings" shows the models of the draft beside it once no edit
\* waits for its preview, and "saved" just when that draft is.  Under an
\* empty heading, after a failure, a device button may bring back the models
\* of an earlier draft.
PreviewIsOfTheDraft ==
    ~timer /\ note \in {"saved", "unsaved"} =>
        frame = draft /\ (note = "saved" <=> draft = saved)
=============================================================================
