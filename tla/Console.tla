------------------------------ MODULE Console ------------------------------
(***************************************************************************)
(* The admin console (public/admin/admin.js) against the admin routes: one *)
(* browser tab, another administrator, and one item of one kind.  The tab  *)
(* shows the item as some earlier load found it, offers buttons by what it *)
(* shows, and confirms in a dialog; the route decides by the row as it is  *)
(* when the request arrives.                                               *)
(*                                                                         *)
(* A rule <<from, action, to>> is one outcome a route has for an action on *)
(* a row in status "from"; in any other status the route refuses.  Fields, *)
(* rendering, and the rows of other items are left out.                    *)
(***************************************************************************)
EXTENDS Integers, Sequences

CONSTANTS
    Dialog,        \* calls of dialog() that can be pending at a time
    NoDialog       \* nothing in #modal-root

VARIABLES
    kind,          \* what the item is
    row,           \* its status in the database
    past,          \* the statuses it has had: a load may have read any of them
    entries,       \* its audit entries from its last decision on, oldest first
    seen,          \* the status the tab shows
    session,       \* whether the tab holds a token
    dlg,           \* [Dialog -> what it asks, its styled and its native form]
    overlay,       \* the dialog in #modal-root
    onEscape,      \* closeActiveDialog: the dialog Escape cancels
    sent           \* [Dialog -> [Form -> where its submission is]]

consoleVars == <<kind, row, past, entries, seen, session, dlg, overlay, onEscape, sent>>
screen == <<dlg, overlay, onEscape>>
server == <<kind, row, past, entries>>

Each(from, action, to) == {<<f, action, to>> : f \in from}

\* A route may refuse for what is not in the status (an erasure with a live
\* call or an open payout): Unheard covers that.
Standing == {"active", "suspended"}
StatusRules == {<<"active", "suspend", "suspended">>, <<"suspended", "restore", "active">>}
EraseRules == Each(Standing, "erase", "deleted")
ReviewRules == {<<"pending", "approve", "approved">>}
               \cup Each({"pending", "approved"}, "reject", "rejected")
PostRules == {<<"live", "remove", "hidden">>, <<"hidden", "restore", "live">>}
PurgeRules == Each({"live", "hidden", "withdrawn"}, "purge", "gone")
PhotoRules == {<<"stored", "purge", "gone">>}
\* A slip worth ruling out: a payout declined although it is approved.
LatePayoutRules == {<<"requested", "pay", "approved">>}
                   \cup Each({"requested", "approved"}, "decline", "declined")
PayoutRules == {<<"requested", "pay", "approved">>, <<"requested", "decline", "declined">>}
ReferenceRules == Each({"paid", "referenced"}, "reference", "referenced")
ReportRules == Each({"open", "reviewing"}, "review", "reviewing")
               \cup Each({"open", "reviewing"}, "resolve", "actioned")
               \cup Each({"open", "reviewing"}, "dismiss", "dismissed")
               \cup Each({"open", "reviewing", "actioned", "dismissed"}, "suspend reported", "actioned")
CallRules == {<<"unbilled", "strike", "gone">>}
\* Fields whose change leaves every status alone: the identity of an account,
\* the profile of a creator, the caption of a post; and coins added or taken.
FieldRules == {<<"kept", "edit", "kept">>, <<"kept", "adjust", "kept">>}

Rules == [account |-> StatusRules \cup EraseRules, application |-> ReviewRules,
          post |-> PostRules \cup PurgeRules, photo |-> PhotoRules,
          payout |-> PayoutRules \cup ReferenceRules, report |-> ReportRules,
          call |-> CallRules, fields |-> FieldRules]

Buttons(status, actions) == status \X actions
AccountOffers == Buttons({"active"}, {"suspend"}) \cup Buttons({"suspended"}, {"restore"})
                 \cup Buttons(Standing, {"erase"})
ApplicationOffers == Buttons({"pending"}, {"approve", "reject"})
                     \cup Buttons({"approved"}, {"reject"})
PostOffers == Buttons({"live"}, {"remove"}) \cup Buttons({"hidden"}, {"restore"})
              \cup Buttons({"live", "hidden", "withdrawn"}, {"purge"})
PhotoOffers == Buttons({"stored"}, {"purge"})
PayoutOffers == Buttons({"requested"}, {"pay", "decline"}) \cup Buttons({"paid"}, {"reference"})
ReportOffers == Buttons({"open"}, {"review"})
                \cup Buttons({"open", "reviewing"}, {"resolve", "dismiss"})
                \cup Buttons({"open", "reviewing", "actioned", "dismissed"}, {"suspend reported"})
CallOffers == Buttons({"unbilled", "reported"}, {"strike"})
FieldOffers == Buttons({"kept"}, {"edit", "adjust"})

Offered == [account |-> AccountOffers, application |-> ApplicationOffers, post |-> PostOffers,
            photo |-> PhotoOffers, payout |-> PayoutOffers, report |-> ReportOffers,
            call |-> CallOffers, fields |-> FieldOffers]

\* What happens to the item without an administrator.
Lives == [account |-> {<<"active", "deleted">>},
          application |-> {<<"unsubmitted", "pending">>, <<"rejected", "pending">>},
          post |-> {<<"live", "withdrawn">>}, photo |-> {},
          payout |-> {<<"approved", "paid">>}, report |-> {},
          call |-> {<<"live call", "billed">>, <<"live call", "unbilled">>, <<"unbilled", "reported">>},
          fields |-> {<<"kept", "deleted">>}]
Beginning == [account |-> "active", application |-> "unsubmitted", post |-> "live",
              photo |-> "stored", payout |-> "requested", report |-> "open",
              call |-> "live call", fields |-> "kept"]

Form == {"styled", "native"}     \* dialog(), and topLayerDialog() in its place
Unsent == [styled |-> "none", native |-> "none"]
Closed == [act |-> "none", styled |-> "none", native |-> "none"]

ConsoleInit ==
    /\ kind \in DOMAIN Rules
    /\ row = Beginning[kind] /\ seen = row /\ past = {row} /\ entries = <<>>
    /\ session = TRUE
    /\ dlg = [d \in Dialog |-> Closed] /\ overlay = NoDialog /\ onEscape = NoDialog
    /\ sent = [d \in Dialog |-> Unsent]

(***************************************************************************)
(* The door, and what the tab shows.  Loads answer in any order.           *)
(***************************************************************************)
SignedIn == ~session /\ session' = TRUE /\ UNCHANGED <<server, seen, screen, sent>>
SignedOut == /\ session /\ overlay = NoDialog
             /\ session' = FALSE /\ UNCHANGED <<server, seen, screen, sent>>

LoadShown == session /\ seen' \in past \ {seen}
             /\ UNCHANGED <<server, session, screen, sent>>

(***************************************************************************)
(* Dialogs.                                                                *)
(***************************************************************************)
OnScreen(d) == overlay = d \/ dlg[d].native = "up"
\* A dialog is forgotten once it is over and no answer is on its way to it.
Forgets(form, act) == act.native # "up" /\ act.styled = "settled" /\ form = Unsent
Tidy(form, act) == IF Forgets(form, act) THEN Closed ELSE act

\* Nothing can reach it any more: it is over, or another took its place.
Free(d) == \/ dlg[d] = Closed
           \/ dlg[d].styled = "checked" /\ overlay # d /\ sent[d] = Unsent
\* Which of them the next one is makes no difference.
NextFree == CHOOSE d \in Dialog : Free(d) \/ \A e \in Dialog : ~Free(e)

Looks == {"edit", "erase"}       \* buttons that ask the server before the dialog

Shows(d, act) == /\ dlg' = [dlg EXCEPT ![d] = [Closed EXCEPT !.act = act, !.styled = "fresh"]]
                 /\ overlay' = d /\ onEscape' = d
RenderFails(d) == /\ dlg' = [dlg EXCEPT ![d] = Closed]
                  /\ overlay' = NoDialog /\ onEscape' = NoDialog
Opened(d, act) == Shows(d, act) \/ RenderFails(d)

Pressed(d, act) ==
    /\ session /\ \A e \in Dialog : ~OnScreen(e)
    /\ d = NextFree /\ Free(d) /\ <<seen, act>> \in Offered[kind]
    /\ IF act \in Looks
       THEN /\ dlg' = [dlg EXCEPT ![d] = [Closed EXCEPT !.act = act, !.styled = "asking"]]
            /\ UNCHANGED <<overlay, onEscape>>
       ELSE Opened(d, act)
    /\ UNCHANGED <<server, seen, session, sent>>

\* The preview or the detail is here: the dialog opens over whatever is open.
Looked(d) ==
    /\ dlg[d].styled = "asking"
    /\ \/ dlg[d].act = "erase" /\ Opened(d, "inform")
       \/ (dlg[d].act = "erase" => row \in Standing) /\ Opened(d, dlg[d].act)
    /\ UNCHANGED <<server, seen, session, sent>>

LookFails(d) ==
    /\ dlg[d].styled = "asking"
    /\ dlg' = [dlg EXCEPT ![d] = Closed]
    /\ UNCHANGED <<server, seen, session, overlay, onEscape, sent>>

\* finish() of each form; "left" is what stays on its way to the dialog.
Settles(d, left) ==
    IF dlg[d].styled \in {"fresh", "checked"}
    THEN /\ dlg' = [dlg EXCEPT ![d] = Tidy(left, [@ EXCEPT !.styled = "settled"])]
         /\ overlay' = NoDialog /\ onEscape' = NoDialog
    ELSE dlg' = [dlg EXCEPT ![d] = Tidy(left, @)] /\ UNCHANGED <<overlay, onEscape>>
NativeSettles(d, left) ==
    /\ dlg' = [dlg EXCEPT ![d] = Tidy(left, [@ EXCEPT !.native = "settled"])]
    /\ UNCHANGED <<overlay, onEscape>>
Finishes(d, form, left) == IF form = "styled" THEN Settles(d, left) ELSE NativeSettles(d, left)

\* A slip worth ruling out: the hidden overlay stays beneath the native dialog.
ReplacedOver(d) == /\ dlg' = [dlg EXCEPT ![d].styled = "settled", ![d].native = "up"]
                   /\ UNCHANGED <<overlay, onEscape>>

\* Two frames on: a dialog no one can see is replaced by a native one.
Replaced(d) == /\ dlg' = [dlg EXCEPT ![d].styled = "settled", ![d].native = "up"]
               /\ overlay' = NoDialog /\ onEscape' = NoDialog
FramesPass(d) ==
    /\ dlg[d].styled = "fresh"
    /\ \/ /\ overlay # NoDialog
          /\ dlg' = [dlg EXCEPT ![d].styled = "checked"]
          /\ UNCHANGED <<overlay, onEscape>>
       \/ Replaced(d)
    /\ UNCHANGED <<server, seen, session, sent>>

Usable(d, form) == IF form = "styled" THEN overlay = d ELSE dlg[d].native = "up"
Submitted(d, form) ==
    /\ Usable(d, form) /\ sent[d][form] = "none"
    /\ IF dlg[d].act = "inform"
       THEN Finishes(d, form, sent[d]) /\ UNCHANGED sent
       ELSE sent' = [sent EXCEPT ![d][form] = "sent"] /\ UNCHANGED screen
    /\ UNCHANGED <<server, seen, session>>

Cancelled(d, form) ==
    /\ Usable(d, form) /\ Finishes(d, form, sent[d])
    /\ UNCHANGED <<server, seen, session, sent>>

EscapePressed ==
    /\ onEscape # NoDialog \/ overlay # NoDialog
    /\ IF onEscape # NoDialog THEN Settles(onEscape, sent[onEscape])
       ELSE overlay' = NoDialog /\ UNCHANGED <<dlg, onEscape>>
    /\ UNCHANGED <<server, seen, session, sent>>

(***************************************************************************)
(* The routes, and their answers.                                          *)
(***************************************************************************)
Last == {"erase", "purge", "strike", "pay", "decline", "resolve", "dismiss"}
Decided(act) ==
    /\ \E rule \in {r \in Rules[kind] : r[1] = row /\ r[2] = act} :
          row' = rule[3] /\ past' = past \cup {rule[3]}
    /\ entries' = IF act \in Last \/ entries # <<>> THEN Append(entries, act) ELSE entries
    /\ Len(entries') < 3 /\ UNCHANGED kind

\* The route decides; the answer comes, or is lost and the form is back.
Handled(d, form) ==
    /\ sent[d][form] = "sent" /\ Decided(dlg[d].act)
    /\ sent' = [sent EXCEPT ![d][form] = "done"]
    /\ UNCHANGED <<seen, session, screen>>

\* Refused, or the request or its answer lost: the dialog says so and stays.
Unheard(d, form) ==
    /\ sent[d][form] # "none"
    /\ sent' = [sent EXCEPT ![d][form] = "none"]
    /\ dlg' = [dlg EXCEPT ![d] = Tidy(sent'[d], @)]
    /\ UNCHANGED <<server, seen, session, overlay, onEscape>>

\* 401, for a token that is over: api() signs the tab out.
TurnedAway(d, form) ==
    /\ sent[d][form] = "sent" /\ session' = FALSE
    /\ sent' = [sent EXCEPT ![d][form] = "none"]
    /\ dlg' = [dlg EXCEPT ![d] = Tidy(sent'[d], @)]
    /\ UNCHANGED <<server, seen, overlay, onEscape>>

Confirmed(d, form) ==
    /\ sent[d][form] = "done"
    /\ sent' = [sent EXCEPT ![d][form] = "none"]
    /\ Finishes(d, form, sent'[d])
    /\ UNCHANGED <<server, seen, session>>

AnotherDecides(act) == Decided(act) /\ UNCHANGED <<seen, session, screen, sent>>

ItemLives ==
    /\ \E l \in Lives[kind] : l[1] = row /\ row' = l[2] /\ past' = past \cup {l[2]}
    /\ UNCHANGED <<kind, entries, seen, session, screen, sent>>

Decisions == UNION {{r[2] : r \in Rules[k]} : k \in DOMAIN Rules}
DialogNext(d) == \/ \E act \in Decisions : Pressed(d, act)
                 \/ Looked(d) \/ LookFails(d) \/ FramesPass(d)
                 \/ \E f \in Form : \/ Submitted(d, f) \/ Cancelled(d, f) \/ Handled(d, f)
                                    \/ Unheard(d, f) \/ TurnedAway(d, f) \/ Confirmed(d, f)
ConsoleNext == \/ SignedIn \/ SignedOut \/ LoadShown \/ EscapePressed \/ ItemLives
               \/ \E d \in Dialog : DialogNext(d)
               \/ \E act \in Decisions : AnotherDecides(act)
ConsoleSpec == ConsoleInit /\ [][ConsoleNext]_consoleVars

(***************************************************************************)
(* Properties.                                                             *)
(***************************************************************************)
Statuses == (UNION {{r[1], r[3]} : r \in UNION {Rules[k] : k \in DOMAIN Rules}})
            \cup (UNION {{l[1], l[2]} : l \in UNION {Lives[k] : k \in DOMAIN Rules}})
ConsoleTypeOK ==
    /\ kind \in DOMAIN Rules /\ {row, seen} \subseteq past /\ past \subseteq Statuses
    /\ entries \in Seq(Decisions) /\ session \in BOOLEAN
    /\ dlg \in [Dialog -> [act : Decisions \cup {"none", "inform"},
                           styled : {"none", "asking", "fresh", "checked", "settled"},
                           native : {"none", "up", "settled"}]]
    /\ {overlay, onEscape} \subseteq Dialog \cup {NoDialog}
    /\ sent \in [Dialog -> [Form -> {"none", "sent", "done"}]]

\* The promise of dialog(): whatever the order of slow previews, hidden
\* dialogs, answers, Escape and sign-outs, an overlay on screen carries a
\* dialog that is not over, and Escape cancels that one.
NoBareOverlay ==
    overlay # NoDialog =>
        dlg[overlay].styled \in {"fresh", "checked"} /\ onEscape = overlay

\* A last decision stays the last: stale lists, two administrators, a
\* confirmation sent again after a lost answer, or twice by a replaced
\* dialog, never add a second one.  Only a transfer reference follows an
\* approval, and only a suspension a resolved report.
LastDecisionIsLast ==
    \A m, n \in DOMAIN entries :
        m < n /\ entries[m] \in Last => entries[n] \in {"reference", "suspend reported"}
=============================================================================
