--------------------------- MODULE ConsoleProofs ----------------------------
(***************************************************************************)
(* The admin console and what it edits, for every number of dialogs        *)
(* pending at a time, of models, lists, previews, saves, tabs and uploads. *)
(***************************************************************************)
EXTENDS Console, LiveDesk, LoginBackground, FiniteSetTheorems, TLAPS

(* The dialogs of the console *)

\* The part of the type that the dialogs need.
DialogType ==
    /\ dlg \in [Dialog -> [act : Decisions \cup {"none", "inform"},
                           styled : {"none", "asking", "fresh", "checked", "settled"},
                           native : {"none", "up", "settled"}]]
    /\ overlay \in Dialog \cup {NoDialog} /\ onEscape \in Dialog \cup {NoDialog}

Act == [act : Decisions \cup {"none", "inform"},
        styled : {"none", "asking", "fresh", "checked", "settled"},
        native : {"none", "up", "settled"}]

-----------------------------------------------------------------------------
(* What a dialog may become *)

LEMMA ClosedAct == Closed \in Act /\ Closed.styled = "none"
BY DEF Closed, Act

LEMMA TidyAct ==
    ASSUME NEW act \in Act, NEW form
    PROVE  /\ Tidy(form, act) \in Act
           /\ act.styled \in {"fresh", "checked"} => Tidy(form, act) = act
BY ClosedAct DEF Tidy, Forgets, Act

\* Whatever happens to a dialog, its entry becomes another of these; the
\* overlay stays over a dialog that is not over, or goes.
LEMMA DialogChanges ==
    ASSUME DialogType, NoBareOverlay, NEW d \in Dialog, NEW act \in Act,
           dlg' = [dlg EXCEPT ![d] = act],
           \/ UNCHANGED <<overlay, onEscape>>
              /\ (overlay = d => act.styled \in {"fresh", "checked"})
           \/ overlay' = NoDialog /\ onEscape' = NoDialog
           \/ overlay' = d /\ onEscape' = d /\ act.styled = "fresh"
    PROVE  DialogType' /\ NoBareOverlay'
<1>1. \A e \in Dialog : dlg'[e] = IF e = d THEN act ELSE dlg[e]
  BY DEF DialogType
<1>2. DialogType'
  BY DEF DialogType, Act
<1>3. overlay' # NoDialog => overlay' \in Dialog
  BY <1>2 DEF DialogType
<1> QED
  BY <1>1, <1>2, <1>3 DEF NoBareOverlay

LEMMA OpenedDialog ==
    ASSUME DialogType, NoBareOverlay, NEW d \in Dialog,
           NEW act \in Decisions \cup {"none", "inform"}, Opened(d, act)
    PROVE  DialogType' /\ NoBareOverlay'
<1> DEFINE new == [Closed EXCEPT !.act = act, !.styled = "fresh"]
<1>1. new \in Act /\ new.styled = "fresh"
  BY DEF Closed, Act
<1>2. CASE Shows(d, act)
  BY <1>1, <1>2, DialogChanges DEF Shows
<1>3. CASE RenderFails(d)
  BY <1>3, ClosedAct, DialogChanges DEF RenderFails
<1> QED
  BY <1>2, <1>3 DEF Opened

LEMMA FinishedDialog ==
    ASSUME DialogType, NoBareOverlay, NEW d \in Dialog, NEW form \in Form, NEW left,
           Finishes(d, form, left)
    PROVE  DialogType' /\ NoBareOverlay'
<1>0. dlg[d] \in Act
  BY DEF DialogType, Act
<1>1. CASE form = "styled" /\ dlg[d].styled \in {"fresh", "checked"}
  <2>1. [dlg[d] EXCEPT !.styled = "settled"] \in Act
    BY <1>0 DEF Act
  <2>2. Tidy(left, [dlg[d] EXCEPT !.styled = "settled"]) \in Act
    BY <2>1, TidyAct
  <2>3. dlg' = [dlg EXCEPT ![d] = Tidy(left, [dlg[d] EXCEPT !.styled = "settled"])]
    BY <1>1 DEF Finishes, Settles
  <2>4. overlay' = NoDialog /\ onEscape' = NoDialog
    BY <1>1 DEF Finishes, Settles
  <2> QED
    BY <2>2, <2>3, <2>4, DialogChanges
<1>2. CASE form = "styled" /\ dlg[d].styled \notin {"fresh", "checked"}
  <2>1. Tidy(left, dlg[d]) \in Act
    BY <1>0, TidyAct
  <2>2. overlay # d \/ overlay = NoDialog
    BY <1>2 DEF NoBareOverlay
  <2>3. dlg' = [dlg EXCEPT ![d] = Tidy(left, dlg[d])] /\ UNCHANGED <<overlay, onEscape>>
    BY <1>2 DEF Finishes, Settles
  <2>4. CASE overlay # d
    BY <2>1, <2>3, <2>4, DialogChanges
  <2>5. CASE overlay = NoDialog
    <3>1. DialogType'
      BY <2>1, <2>3 DEF DialogType, Act
    <3> QED
      BY <2>3, <2>5, <3>1 DEF NoBareOverlay
  <2> QED
    BY <2>2, <2>4, <2>5
<1>3. CASE form = "native"
  <2> DEFINE act == [dlg[d] EXCEPT !.native = "settled"]
  <2>1. act \in Act /\ act.styled = dlg[d].styled
    BY <1>0 DEF Act
  <2>2. Tidy(left, act) \in Act
    BY <2>1, TidyAct
  <2>3. dlg' = [dlg EXCEPT ![d] = Tidy(left, act)] /\ UNCHANGED <<overlay, onEscape>>
    BY <1>3 DEF Finishes, NativeSettles
  <2>4. CASE overlay = NoDialog
    <3>1. DialogType'
      BY <2>2, <2>3 DEF DialogType, Act
    <3> QED
      BY <2>3, <2>4, <3>1 DEF NoBareOverlay
  <2>5. CASE overlay # NoDialog
    <3>1. overlay = d => Tidy(left, act).styled \in {"fresh", "checked"}
      BY <2>1, <2>5, TidyAct DEF NoBareOverlay
    <3> QED
      BY <2>2, <2>3, <3>1, DialogChanges
  <2> QED
    BY <2>4, <2>5
<1> QED
  BY <1>1, <1>2, <1>3 DEF Form

\* An answer that does not close the dialog may still be the last thing the
\* dialog waited for.
LEMMA TidiedDialog ==
    ASSUME DialogType, NoBareOverlay, NEW d \in Dialog, NEW form,
           dlg' = [dlg EXCEPT ![d] = Tidy(form, @)], UNCHANGED <<overlay, onEscape>>
    PROVE  DialogType' /\ NoBareOverlay'
<1>1. dlg[d] \in Act
  BY DEF DialogType, Act
<1>2. Tidy(form, dlg[d]) \in Act
  BY <1>1, TidyAct
<1>3. dlg' = [dlg EXCEPT ![d] = Tidy(form, dlg[d])]
  OBVIOUS
<1>4. CASE overlay = NoDialog
  <2>1. DialogType'
    BY <1>2, <1>3 DEF DialogType, Act
  <2> QED
    BY <1>4, <2>1 DEF NoBareOverlay
<1>5. CASE overlay # NoDialog
  <2>1. overlay = d => Tidy(form, dlg[d]).styled \in {"fresh", "checked"}
    BY <1>1, <1>5, TidyAct DEF NoBareOverlay
  <2> QED
    BY <1>2, <1>3, <2>1, DialogChanges
<1> QED
  BY <1>4, <1>5

-----------------------------------------------------------------------------
(* Every step *)

LEMMA DialogStep ==
    ASSUME DialogType, NoBareOverlay, NEW d \in Dialog, DialogNext(d)
    PROVE  DialogType' /\ NoBareOverlay'
<1>0. dlg[d] \in Act
  BY DEF DialogType, Act
<1>1. ASSUME NEW act \in Decisions, Pressed(d, act) PROVE DialogType' /\ NoBareOverlay'
  <2>1. CASE Opened(d, act)
    BY <2>1, OpenedDialog
  <2>2. CASE ~Opened(d, act)
    <3> DEFINE new == [Closed EXCEPT !.act = act, !.styled = "asking"]
    <3>1. new \in Act
      BY DEF Closed, Act
    <3>2. dlg' = [dlg EXCEPT ![d] = new] /\ UNCHANGED <<overlay, onEscape>>
      BY <1>1, <2>2 DEF Pressed
    <3>3. overlay # d
      BY <1>1 DEF Pressed, OnScreen
    <3> QED
      BY <3>1, <3>2, <3>3, DialogChanges
  <2> QED
    BY <2>1, <2>2
<1>2. CASE Looked(d)
  <2>1. dlg[d].act \in Decisions \cup {"none", "inform"}
    BY <1>0 DEF Act
  <2> QED
    BY <1>2, <2>1, OpenedDialog DEF Looked
<1>3. CASE LookFails(d)
  <2>1. overlay = NoDialog \/ overlay # d
    BY <1>3 DEF LookFails, NoBareOverlay
  <2>2. DialogType'
    BY <1>3, ClosedAct DEF LookFails, DialogType, Act
  <2>3. \A e \in Dialog : e # d => dlg'[e] = dlg[e]
    BY <1>3 DEF LookFails, DialogType
  <2> QED
    BY <1>3, <2>1, <2>2, <2>3 DEF LookFails, NoBareOverlay, DialogType
<1>4. CASE FramesPass(d)
  <2>1. CASE Replaced(d)
    <3> DEFINE new == [dlg[d] EXCEPT !.styled = "settled", !.native = "up"]
    <3>1. new \in Act
      BY <1>0 DEF Act
    <3>2. dlg' = [dlg EXCEPT ![d] = new]
      BY <2>1 DEF Replaced, DialogType
    <3> QED
      BY <2>1, <3>1, <3>2, DialogChanges DEF Replaced
  <2>2. CASE ~Replaced(d)
    <3> DEFINE new == [dlg[d] EXCEPT !.styled = "checked"]
    <3>1. new \in Act /\ new.styled = "checked"
      BY <1>0 DEF Act
    <3>2. dlg' = [dlg EXCEPT ![d] = new] /\ UNCHANGED <<overlay, onEscape>>
      BY <1>4, <2>2 DEF FramesPass, DialogType
    <3> QED
      BY <3>1, <3>2, DialogChanges
  <2> QED
    BY <2>1, <2>2
<1>5. ASSUME NEW f \in Form, Submitted(d, f) \/ Cancelled(d, f) \/ Confirmed(d, f)
      PROVE  DialogType' /\ NoBareOverlay'
  <2>1. CASE \E left : Finishes(d, f, left)
    BY <2>1, FinishedDialog
  <2>2. CASE UNCHANGED screen
    BY <2>2 DEF screen, DialogType, NoBareOverlay
  <2> QED
    BY <1>5, <2>1, <2>2 DEF Submitted, Cancelled, Confirmed
<1>6. ASSUME NEW f \in Form, Handled(d, f) PROVE DialogType' /\ NoBareOverlay'
  BY <1>6 DEF Handled, screen, DialogType, NoBareOverlay
<1>7. ASSUME NEW f \in Form, Unheard(d, f) \/ TurnedAway(d, f)
      PROVE  DialogType' /\ NoBareOverlay'
  BY <1>7, TidiedDialog DEF Unheard, TurnedAway
<1> QED
  BY <1>1, <1>2, <1>3, <1>4, <1>5, <1>6, <1>7 DEF DialogNext

LEMMA ScreenStep ==
    DialogType /\ NoBareOverlay /\ [ConsoleNext]_consoleVars => DialogType' /\ NoBareOverlay'
<1> SUFFICES ASSUME DialogType, NoBareOverlay, [ConsoleNext]_consoleVars
             PROVE  DialogType' /\ NoBareOverlay'
  OBVIOUS
<1>1. CASE UNCHANGED screen
  BY <1>1 DEF screen, DialogType, NoBareOverlay
<1>2. CASE EscapePressed
  <2>1. CASE onEscape # NoDialog
    <3>1. onEscape \in Dialog
      BY <2>1 DEF DialogType
    <3>2. Finishes(onEscape, "styled", sent[onEscape])
      BY <1>2, <2>1 DEF EscapePressed, Finishes
    <3> QED
      BY <3>1, <3>2, FinishedDialog DEF Form
  <2>2. CASE onEscape = NoDialog
    BY <1>2, <2>2 DEF EscapePressed, DialogType, NoBareOverlay
  <2> QED
    BY <2>1, <2>2
<1>3. ASSUME NEW d \in Dialog, DialogNext(d) PROVE DialogType' /\ NoBareOverlay'
  BY <1>3, DialogStep
<1> QED
  BY <1>1, <1>2, <1>3
  DEF ConsoleNext, consoleVars, screen, SignedIn, SignedOut, LoadShown, ItemLives, AnotherDecides

LEMMA ScreenStart == ConsoleInit => DialogType /\ NoBareOverlay
BY ClosedAct DEF ConsoleInit, DialogType, NoBareOverlay, Act

\* However many dialogs are opened over each other by previews that answer
\* late, cancelled with a submission under way, or replaced by native ones.
THEOREM NoOverlayIsBare == ConsoleSpec => []NoBareOverlay
<1> QED
  BY ScreenStart, ScreenStep, PTL DEF ConsoleSpec

-----------------------------------------------------------------------------
(* The last decision *)

\* Where a last decision leaves an item; every kind of item with one.
Ended == {"deleted", "gone", "approved", "paid", "referenced", "declined", "actioned",
          "dismissed"}
Endable == {"account", "post", "photo", "payout", "report", "call"}
After == {"reference", "suspend reported"}

EndedOnce ==
    /\ kind \in DOMAIN Rules /\ entries \in Seq(Decisions)
    /\ entries # <<>> => kind \in Endable /\ row \in Ended
    /\ \A n \in DOMAIN entries : n > 1 => entries[n] \in After

LEMMA Kinds ==
    DOMAIN Rules = {"account", "application", "post", "photo", "payout", "report", "call",
                    "fields"}
BY DEF Rules

LEMMA KindRules ==
    /\ Rules["account"] = StatusRules \cup EraseRules /\ Rules["application"] = ReviewRules
    /\ Rules["post"] = PostRules \cup PurgeRules /\ Rules["photo"] = PhotoRules
    /\ Rules["payout"] = PayoutRules \cup ReferenceRules /\ Rules["report"] = ReportRules
    /\ Rules["call"] = CallRules /\ Rules["fields"] = FieldRules
BY DEF Rules

LEMMA KindLives ==
    /\ Lives["account"] = {<<"active", "deleted">>} /\ Lives["post"] = {<<"live", "withdrawn">>}
    /\ Lives["photo"] = {} /\ Lives["report"] = {} /\ Lives["payout"] = {<<"approved", "paid">>}
    /\ Lives["call"] = {<<"live call", "billed">>, <<"live call", "unbilled">>,
                        <<"unbilled", "reported">>}
BY DEF Lives

\* From where a last decision leads, only a reference or a suspension leads on.
EndsWell(r) == /\ r[2] \in Last => r[3] \in Ended
               /\ r[1] \in Ended => r[2] \in After /\ r[3] \in Ended

LEMMA EachEndsWell ==
    ASSUME NEW from, NEW action, NEW to, NEW r \in Each(from, action, to),
           action \in Last => to \in Ended,
           \A f \in from : f \in Ended => action \in After /\ to \in Ended
    PROVE  EndsWell(r)
BY DEF Each, EndsWell

LEMMA EraseEndsWell == \A r \in EraseRules : EndsWell(r)
<1>1. \A f \in Standing : f \notin Ended
  BY DEF Standing, Ended
<1>2. "deleted" \in Ended
  BY DEF Ended
<1> QED
  BY <1>1, <1>2, EachEndsWell DEF EraseRules

LEMMA PurgeEndsWell == \A r \in PurgeRules : EndsWell(r)
<1>1. \A f \in {"live", "hidden", "withdrawn"} : f \notin Ended
  BY DEF Ended
<1>2. "gone" \in Ended
  BY DEF Ended
<1> QED
  BY <1>1, <1>2, EachEndsWell DEF PurgeRules

LEMMA ReferenceEndsWell == \A r \in ReferenceRules : EndsWell(r)
<1>1. "reference" \in After /\ "referenced" \in Ended
  BY DEF After, Ended
<1> QED
  BY <1>1, EachEndsWell DEF ReferenceRules

LEMMA ReportEndsWell == \A r \in ReportRules : EndsWell(r)
<1> DEFINE someOpen == {"open", "reviewing"}
           anyReport == {"open", "reviewing", "actioned", "dismissed"}
<1>1. \A f \in someOpen : f \notin Ended
  BY DEF Ended
<1>2. "review" \notin Last /\ "actioned" \in Ended /\ "dismissed" \in Ended
  BY DEF Ended, Last
<1>3. "suspend reported" \in After
  BY DEF After
<1> HIDE DEF someOpen, anyReport
<1>4. ASSUME NEW r \in Each(someOpen, "review", "reviewing") PROVE EndsWell(r)
  BY <1>1, <1>2, EachEndsWell
<1>5. ASSUME NEW r \in Each(someOpen, "resolve", "actioned") PROVE EndsWell(r)
  BY <1>1, <1>2, EachEndsWell
<1>6. ASSUME NEW r \in Each(someOpen, "dismiss", "dismissed") PROVE EndsWell(r)
  BY <1>1, <1>2, EachEndsWell
<1>7. ASSUME NEW r \in Each(anyReport, "suspend reported", "actioned") PROVE EndsWell(r)
  BY <1>2, <1>3, EachEndsWell
<1>8. ReportRules = Each(someOpen, "review", "reviewing")
                    \cup Each(someOpen, "resolve", "actioned")
                    \cup Each(someOpen, "dismiss", "dismissed")
                    \cup Each(anyReport, "suspend reported", "actioned")
  BY DEF ReportRules, someOpen, anyReport
<1> QED
  BY <1>4, <1>5, <1>6, <1>7, <1>8

LEMMA SingleRulesEndWell ==
    \A r \in StatusRules \cup PostRules \cup PhotoRules \cup CallRules \cup PayoutRules :
        EndsWell(r)
<1> USE DEF EndsWell, Ended, After, Last
<1>1. EndsWell(<<"active", "suspend", "suspended">>)
  OBVIOUS
<1>2. EndsWell(<<"suspended", "restore", "active">>)
  OBVIOUS
<1>3. EndsWell(<<"live", "remove", "hidden">>)
  OBVIOUS
<1>4. EndsWell(<<"hidden", "restore", "live">>)
  OBVIOUS
<1>5. EndsWell(<<"stored", "purge", "gone">>)
  OBVIOUS
<1>6. EndsWell(<<"unbilled", "strike", "gone">>)
  OBVIOUS
<1>7. EndsWell(<<"requested", "pay", "approved">>)
  OBVIOUS
<1>8. EndsWell(<<"requested", "decline", "declined">>)
  OBVIOUS
<1> HIDE DEF EndsWell
<1> QED
  BY <1>1, <1>2, <1>3, <1>4, <1>5, <1>6, <1>7, <1>8
  DEF StatusRules, PostRules, PhotoRules, CallRules, PayoutRules

LEMMA OtherRulesDoNotEnd ==
    /\ \A r \in ReviewRules : r[2] \notin Last
    /\ \A r \in FieldRules : r[2] \notin Last
BY DEF ReviewRules, FieldRules, Each, Last

LEMMA LastRulesEnd ==
    ASSUME NEW k \in DOMAIN Rules, NEW r \in Rules[k]
    PROVE  /\ r[2] \in Last => k \in Endable /\ r[3] \in Ended
           /\ k \in Endable /\ r[1] \in Ended => r[2] \in After /\ r[3] \in Ended
<1>1. k \in Endable => EndsWell(r)
  BY KindRules, SingleRulesEndWell, EraseEndsWell, PurgeEndsWell, ReferenceEndsWell,
     ReportEndsWell DEF Endable
<1>2. k \notin Endable => r[2] \notin Last
  BY Kinds, KindRules, OtherRulesDoNotEnd DEF Endable
<1> QED
  BY <1>1, <1>2 DEF EndsWell

LEMMA LivesEnd ==
    ASSUME NEW k \in Endable, NEW l \in Lives[k], l[1] \in Ended
    PROVE  l[2] \in Ended
<1>1. l \in {<<"approved", "paid">>, <<"active", "deleted">>, <<"live", "withdrawn">>,
             <<"live call", "billed">>, <<"live call", "unbilled">>,
             <<"unbilled", "reported">>}
  BY KindLives DEF Endable
<1>2. \A f, t : <<f, t>>[1] = f /\ <<f, t>>[2] = t
  OBVIOUS
<1>3. l[1] \notin {"active", "live", "live call", "unbilled"}
  BY DEF Ended
<1>4. l = <<"approved", "paid">>
  BY <1>1, <1>2, <1>3, Zenon
<1> QED
  BY <1>4 DEF Ended

LEMMA DecidedOnce ==
    ASSUME EndedOnce, NEW act \in Decisions, Decided(act)
    PROVE  EndedOnce'
<1>1. PICK rule \in Rules[kind] : rule[1] = row /\ rule[2] = act /\ row' = rule[3]
  BY DEF Decided
<1>2. /\ act \in Last => kind \in Endable /\ row' \in Ended
      /\ kind \in Endable /\ row \in Ended => act \in After /\ row' \in Ended
  BY <1>1, LastRulesEnd DEF EndedOnce
<1>3. CASE entries' = entries
  <2>1. entries = <<>>
    BY <1>3 DEF Decided, EndedOnce
  <2> QED
    BY <1>3, <2>1 DEF Decided, EndedOnce
<1>4. CASE entries' = Append(entries, act)
  <2>1. entries' \in Seq(Decisions) /\ Len(entries') = Len(entries) + 1
    BY <1>4 DEF EndedOnce
  <2>2. kind \in Endable /\ row' \in Ended
    BY <1>2, <1>4 DEF Decided, EndedOnce
  <2>3. ASSUME NEW n \in DOMAIN entries', n > 1 PROVE entries'[n] \in After
    <3>1. CASE n \in DOMAIN entries
      BY <1>4, <2>3, <3>1 DEF EndedOnce
    <3>2. CASE n \notin DOMAIN entries
      <4>1. n = Len(entries) + 1 /\ entries # <<>>
        BY <1>4, <2>1, <2>3, <3>2 DEF EndedOnce
      <4>2. entries'[n] = act
        BY <1>4, <4>1 DEF EndedOnce
      <4> QED
        BY <1>2, <4>1, <4>2 DEF EndedOnce
    <3> QED
      BY <3>1, <3>2
  <2> QED
    BY <2>1, <2>2, <2>3 DEF EndedOnce, Decided
<1> QED
  BY <1>3, <1>4 DEF Decided

LEMMA EndedStep == EndedOnce /\ [ConsoleNext]_consoleVars => EndedOnce'
<1> SUFFICES ASSUME EndedOnce, [ConsoleNext]_consoleVars PROVE EndedOnce'
  OBVIOUS
<1>1. CASE UNCHANGED <<kind, row, entries>>
  BY <1>1 DEF EndedOnce
<1>2. CASE ItemLives
  BY <1>2, LivesEnd DEF ItemLives, EndedOnce
<1>3. ASSUME NEW act \in Decisions, AnotherDecides(act) PROVE EndedOnce'
  BY <1>3, DecidedOnce DEF AnotherDecides
<1>4. ASSUME NEW d \in Dialog, NEW f \in Form, Handled(d, f) PROVE EndedOnce'
  <2>1. Decided(dlg[d].act)
    BY <1>4 DEF Handled
  <2>2. PICK rule \in Rules[kind] : rule[2] = dlg[d].act
    BY <2>1 DEF Decided
  <2>3. dlg[d].act \in Decisions
    BY <2>2 DEF EndedOnce, Decisions
  <2> QED
    BY <2>1, <2>3, DecidedOnce
<1> QED
  BY <1>1, <1>2, <1>3, <1>4
  DEF ConsoleNext, DialogNext, consoleVars, server, screen, SignedIn, SignedOut, LoadShown,
      EscapePressed, Pressed, Looked, LookFails, FramesPass, Submitted, Cancelled, Unheard,
      TurnedAway, Confirmed

LEMMA EndedStart == ConsoleInit => EndedOnce
BY DEF ConsoleInit, EndedOnce

LEMMA EndedIsLast == EndedOnce => LastDecisionIsLast
<1> SUFFICES ASSUME EndedOnce, NEW m \in DOMAIN entries, NEW n \in DOMAIN entries, m < n
             PROVE  entries[n] \in After
  BY DEF LastDecisionIsLast, After
<1>1. m \in Nat /\ n \in Nat /\ m >= 1
  BY DEF EndedOnce
<1> QED
  BY <1>1 DEF EndedOnce

\* For any number of dialogs and administrators.  What is shown plays no part:
\* a route decides by the row, and no rule leads on from where a last decision
\* left it.
THEOREM DecisionsAreLast == ConsoleSpec => []LastDecisionIsLast
BY EndedStart, EndedIsLast, EndedStep, PTL DEF ConsoleSpec

-----------------------------------------------------------------------------
(* The types of the rest of the console *)

LEMMA RulesLeadOn ==
    ASSUME NEW k \in DOMAIN Rules, NEW r \in Rules[k]
    PROVE  r[1] \in Statuses /\ r[2] \in Decisions /\ r[3] \in Statuses
<1> DEFINE all == UNION {Rules[j] : j \in DOMAIN Rules}
           ends == UNION {{q[1], q[3]} : q \in all}
<1>1. r \in all
  OBVIOUS
<1> HIDE DEF all
<1>2. {r[1], r[3]} \in {{q[1], q[3]} : q \in all}
  BY <1>1
<1>3. r[1] \in ends /\ r[3] \in ends
  BY <1>2
<1>4. r[2] \in {q[2] : q \in Rules[k]}
  OBVIOUS
<1>5. r[2] \in Decisions
  BY <1>4 DEF Decisions
<1> QED
  BY <1>3, <1>5 DEF Statuses, all

LEMMA LivesLeadOn ==
    ASSUME NEW i \in DOMAIN Rules, NEW m \in Lives[i]
    PROVE  m[1] \in Statuses /\ m[2] \in Statuses
<1>1. m \in UNION {Lives[k] : k \in DOMAIN Rules}
  OBVIOUS
<1>2. {m[1], m[2]} \in {{l[1], l[2]} : l \in UNION {Lives[k] : k \in DOMAIN Rules}}
  BY <1>1, Zenon
<1>3. \A x \in {m[1], m[2]} : x \in UNION {{l[1], l[2]} : l \in UNION {Lives[k] : k \in DOMAIN Rules}}
  BY <1>2, Zenon
<1>4. \A x \in {m[1], m[2]} : x \in Statuses
  BY <1>3, Zenon DEF Statuses
<1> QED
  BY <1>4

LEMMA BeginningsAreStatuses == \A k \in DOMAIN Rules : Beginning[k] \in Statuses
<1>1. /\ <<"active", "suspend", "suspended">> \in Rules["account"]
      /\ <<"unsubmitted", "pending">> \in Lives["application"]
      /\ <<"live", "remove", "hidden">> \in Rules["post"]
  BY DEF Rules, Lives, StatusRules, PostRules
<1>2. /\ <<"stored", "purge", "gone">> \in Rules["photo"]
      /\ <<"requested", "pay", "approved">> \in Rules["payout"]
      /\ <<"open", "review", "reviewing">> \in Rules["report"]
  BY DEF Rules, PhotoRules, PayoutRules, ReportRules, Each
<1>3. /\ <<"live call", "billed">> \in Lives["call"]
      /\ <<"kept", "deleted">> \in Lives["fields"]
  BY DEF Lives
<1>4. DOMAIN Rules = {"account", "application", "post", "photo", "payout", "report", "call",
                      "fields"}
  BY DEF Rules
<1>5. {"active", "unsubmitted", "live", "stored", "requested", "open", "live call", "kept"}
          \subseteq Statuses
  <2>1. {"active", "live", "stored"} \subseteq Statuses
    <3>1. /\ <<"active", "suspend", "suspended">>[1] \in Statuses
          /\ <<"live", "remove", "hidden">>[1] \in Statuses
          /\ <<"stored", "purge", "gone">>[1] \in Statuses
      BY <1>1, <1>2, <1>4, RulesLeadOn, Zenon
    <3> QED BY <3>1
  <2>2. {"requested", "open"} \subseteq Statuses
    <3>1. /\ <<"requested", "pay", "approved">>[1] \in Statuses
          /\ <<"open", "review", "reviewing">>[1] \in Statuses
      BY <1>2, <1>4, RulesLeadOn, Zenon
    <3> QED BY <3>1
  <2>3. {"unsubmitted", "live call", "kept"} \subseteq Statuses
    <3>1. /\ <<"unsubmitted", "pending">>[1] \in Statuses
          /\ <<"live call", "billed">>[1] \in Statuses
          /\ <<"kept", "deleted">>[1] \in Statuses
      BY <1>1, <1>3, <1>4, LivesLeadOn, Zenon
    <3> QED BY <3>1
  <2> QED BY <2>1, <2>2, <2>3
<1>6. \A k \in DOMAIN Rules :
          Beginning[k] \in {"active", "unsubmitted", "live", "stored", "requested", "open",
                           "live call", "kept"}
  <2>1. /\ Beginning["account"] = "active" /\ Beginning["application"] = "unsubmitted"
        /\ Beginning["post"] = "live" /\ Beginning["photo"] = "stored"
        /\ Beginning["payout"] = "requested" /\ Beginning["report"] = "open"
        /\ Beginning["call"] = "live call" /\ Beginning["fields"] = "kept"
    BY DEF Beginning
  <2> QED BY <1>4, <2>1, Zenon
<1> QED
  BY <1>5, <1>6

\* What is neither a dialog nor an audit entry.
ItemTyped ==
    /\ kind \in DOMAIN Rules /\ {row, seen} \subseteq past /\ past \subseteq Statuses
    /\ session \in BOOLEAN /\ sent \in [Dialog -> [Form -> {"none", "sent", "done"}]]

LEMMA DecidedTyped ==
    ASSUME ItemTyped, NEW act, Decided(act)
    PROVE  /\ kind' \in DOMAIN Rules /\ {row', seen} \subseteq past' /\ past' \subseteq Statuses
<1>1. PICK rule \in Rules[kind] : row' = rule[3] /\ past' = past \cup {rule[3]}
  BY DEF Decided
<1>2. rule[3] \in Statuses
  BY RulesLeadOn DEF ItemTyped
<1> QED
  BY <1>1, <1>2 DEF ItemTyped, Decided

LEMMA SentTyped ==
    ASSUME ItemTyped, NEW d \in Dialog, NEW form \in Form, NEW where \in {"none", "sent", "done"},
           sent' = [sent EXCEPT ![d][form] = where]
    PROVE  sent' \in [Dialog -> [Form -> {"none", "sent", "done"}]]
<1>1. [sent[d] EXCEPT ![form] = where] \in [Form -> {"none", "sent", "done"}]
  BY DEF ItemTyped
<1> QED
  BY <1>1 DEF ItemTyped

LEMMA ItemStep == ItemTyped /\ [ConsoleNext]_consoleVars => ItemTyped'
<1> SUFFICES ASSUME ItemTyped, [ConsoleNext]_consoleVars PROVE ItemTyped'
  OBVIOUS
<1>1. CASE UNCHANGED <<kind, row, past, seen, session, sent>>
  BY <1>1 DEF ItemTyped
<1>2. CASE SignedIn \/ SignedOut \/ LoadShown
  BY <1>2 DEF SignedIn, SignedOut, LoadShown, server, ItemTyped
<1>3. CASE ItemLives
  <2>1. PICK l \in Lives[kind] : row' = l[2] /\ past' = past \cup {l[2]}
    BY <1>3 DEF ItemLives
  <2>2. l[2] \in Statuses
    BY LivesLeadOn DEF ItemTyped
  <2> QED
    BY <1>3, <2>1, <2>2 DEF ItemLives, ItemTyped
<1>4. ASSUME NEW act \in Decisions, AnotherDecides(act) PROVE ItemTyped'
  BY <1>4, DecidedTyped DEF AnotherDecides, ItemTyped
<1>5. ASSUME NEW d \in Dialog, NEW f \in Form, Handled(d, f) PROVE ItemTyped'
  <2>1. sent' \in [Dialog -> [Form -> {"none", "sent", "done"}]]
    BY <1>5, SentTyped DEF Handled
  <2>2. kind' \in DOMAIN Rules /\ {row', seen} \subseteq past' /\ past' \subseteq Statuses
    BY <1>5, DecidedTyped DEF Handled
  <2> QED
    BY <1>5, <2>1, <2>2 DEF Handled, ItemTyped
<1>6. ASSUME NEW d \in Dialog, NEW f \in Form,
             Unheard(d, f) \/ TurnedAway(d, f) \/ Confirmed(d, f) \/ Submitted(d, f)
      PROVE  ItemTyped'
  <2>1. sent' \in [Dialog -> [Form -> {"none", "sent", "done"}]]
    <3>1. CASE sent' = sent
      BY <3>1 DEF ItemTyped
    <3>2. CASE sent' # sent
      <4>1. \E where \in {"none", "sent"} : sent' = [sent EXCEPT ![d][f] = where]
        BY <1>6, <3>2 DEF Unheard, TurnedAway, Confirmed, Submitted
      <4> QED
        BY <4>1, SentTyped
    <3> QED
      BY <3>1, <3>2
  <2>2. UNCHANGED <<server, seen>> /\ session' \in BOOLEAN
    BY <1>6 DEF Unheard, TurnedAway, Confirmed, Submitted, ItemTyped
  <2> QED
    BY <2>1, <2>2 DEF server, ItemTyped
<1> QED
  BY <1>1, <1>2, <1>3, <1>4, <1>5, <1>6
  DEF ConsoleNext, DialogNext, consoleVars, server, EscapePressed, Pressed, Looked, LookFails,
      FramesPass, Cancelled

ConsoleIInv == ItemTyped /\ DialogType /\ NoBareOverlay /\ EndedOnce

LEMMA ConsoleStart == ConsoleInit => ConsoleIInv
<1> SUFFICES ASSUME ConsoleInit PROVE ConsoleIInv
  OBVIOUS
<1>1. Unsent \in [Form -> {"none", "sent", "done"}]
  BY DEF Unsent, Form
<1>2. ItemTyped
  BY <1>1, BeginningsAreStatuses DEF ConsoleInit, ItemTyped
<1> QED
  BY <1>2, ScreenStart, EndedStart DEF ConsoleIInv

LEMMA ConsoleStep == ConsoleIInv /\ [ConsoleNext]_consoleVars => ConsoleIInv'
BY ItemStep, ScreenStep, EndedStep DEF ConsoleIInv

LEMMA ConsoleTyped == ConsoleIInv => ConsoleTypeOK
BY DEF ConsoleIInv, ItemTyped, DialogType, EndedOnce, ConsoleTypeOK

\* What the tab shows is a status the item has had, and every audit entry is a
\* decision some route knows.
THEOREM ConsoleTypeCorrect == ConsoleSpec => []ConsoleTypeOK
BY ConsoleTyped, ConsoleStart, ConsoleStep, PTL DEF ConsoleSpec

-----------------------------------------------------------------------------
(* The Live settings editor *)

LEMMA DefaultsDocument == Defaults \in Document /\ Both(Defaults) = {}
BY DEF Defaults, Document, Both

LEMMA AsksType ==
    ASSUME LiveDeskTypeOK, NEW doc \in Document, Asks(doc)
    PROVE  previews' \subseteq [of : Document, newest : BOOLEAN]
<1>1. [of |-> doc, newest |-> TRUE] \in [of : Document, newest : BOOLEAN]
  OBVIOUS
<1>2. \A p \in previews : [p EXCEPT !.newest = FALSE] \in [of : Document, newest : BOOLEAN]
  BY DEF LiveDeskTypeOK
<1> QED
  BY <1>1, <1>2 DEF Asks

\* Every change of the draft is one of these.
LEMMA EditType ==
    ASSUME LiveDeskTypeOK, NEW doc \in Document, DraftBecomes(doc)
    PROVE  LiveDeskTypeOK'
<1>1. button' \in BOOLEAN
  BY DEF DraftBecomes
<1> QED
  BY <1>1 DEF DraftBecomes, pane, LiveDeskTypeOK

LEMMA ListEdits ==
    ASSUME LiveDeskTypeOK, NEW n \in Star
    PROVE  /\ [featured |-> draft.featured \cup {n}, hidden |-> draft.hidden \ {n}] \in Document
           /\ [featured |-> draft.featured \ {n}, hidden |-> draft.hidden \cup {n}] \in Document
           /\ [draft EXCEPT !.featured = @ \ {n}] \in Document
           /\ [draft EXCEPT !.hidden = @ \ {n}] \in Document
BY DEF LiveDeskTypeOK, Document

LEMMA LiveDeskTypeStep == LiveDeskTypeOK /\ [LiveDeskNext]_liveDeskVars => LiveDeskTypeOK'
<1> SUFFICES ASSUME LiveDeskTypeOK, [LiveDeskNext]_liveDeskVars PROVE LiveDeskTypeOK'
  OBVIOUS
<1>1. ASSUME NEW n \in Star, Features(n) \/ Hides(n) \/ TakesOff(n) PROVE LiveDeskTypeOK'
  BY <1>1, ListEdits, EditType DEF Features, Hides, TakesOff
<1>2. CASE Discards \/ ResetToDefaults
  <2>1. saved \in Document
    BY DEF LiveDeskTypeOK
  <2> QED
    BY <1>2, <2>1, EditType, DefaultsDocument DEF Discards, ResetToDefaults
<1>3. CASE TimerFires
  <2>1. draft \in Document
    BY DEF LiveDeskTypeOK
  <2> QED
    BY <1>3, <2>1, AsksType DEF TimerFires, Asks, LiveDeskTypeOK
<1>4. ASSUME NEW p \in previews, PreviewAnswered(p) PROVE LiveDeskTypeOK'
  <2>1. p.of \in Document
    BY DEF LiveDeskTypeOK
  <2>2. /\ frame' \in Document \cup {Nothing, Failure}
        /\ lastPreview' \in Document \cup {Nothing}
        /\ note' \in {"updating", "saved", "unsaved", "none"}
    BY <1>4, <2>1 DEF PreviewAnswered, Rendered, pane, LiveDeskTypeOK
  <2> QED
    BY <1>4, <2>2 DEF PreviewAnswered, LiveDeskTypeOK
<1>5. CASE SavePressed
  <2>1. [doc |-> draft, at |-> "sent"] \in [doc : Document, at : {"sent", "stored"}]
    BY DEF LiveDeskTypeOK
  <2> QED
    BY <1>5, <2>1 DEF SavePressed, pane, LiveDeskTypeOK
<1>6. ASSUME NEW put \in saving, SettingsStored(put) PROVE LiveDeskTypeOK'
  BY <1>6 DEF SettingsStored, pane, LiveDeskTypeOK
<1>7. ASSUME NEW put \in saving, SaveAnswered(put) PROVE LiveDeskTypeOK'
  <2>1. draft' \in Document /\ saved' \in Document
    BY <1>7, DefaultsDocument DEF SaveAnswered, ReadSettings, LiveDeskTypeOK
  <2>2. previews' \subseteq [of : Document, newest : BOOLEAN]
    BY <1>7, <2>1, AsksType DEF SaveAnswered
  <2> QED
    BY <1>7, <2>1, <2>2 DEF SaveAnswered, Asks, LiveDeskTypeOK
<1>8. ASSUME NEW put \in saving, SaveFails(put) PROVE LiveDeskTypeOK'
  BY <1>8 DEF SaveFails, pane, LiveDeskTypeOK
<1>9. CASE AnotherAdminSaves
  BY <1>9 DEF AnotherAdminSaves, editorVars, pane, Both, Document, LiveDeskTypeOK
<1>10. CASE UNCHANGED liveDeskVars
  BY <1>10 DEF liveDeskVars, editorVars, pane, LiveDeskTypeOK
<1>11. CASE DeviceChosen
  BY <1>11 DEF DeviceChosen, LiveDeskTypeOK
<1> QED
  BY <1>1, <1>2, <1>3, <1>4, <1>5, <1>6, <1>7, <1>8, <1>9, <1>10, <1>11 DEF LiveDeskNext

LEMMA LiveDeskTypeStart == LiveDeskInit => LiveDeskTypeOK
<1> SUFFICES ASSUME LiveDeskInit PROVE LiveDeskTypeOK
  OBVIOUS
<1>1. saved \in Document /\ draft \in Document /\ settings \in Document
  BY DefaultsDocument DEF LiveDeskInit, ReadSettings
<1>2. [of |-> draft, newest |-> TRUE] \in [of : Document, newest : BOOLEAN]
  BY <1>1
<1> QED
  BY <1>1, <1>2 DEF LiveDeskInit, LiveDeskTypeOK

LEMMA LiveDeskTypeCorrect == LiveDeskSpec => []LiveDeskTypeOK
<1> QED
  BY LiveDeskTypeStart, LiveDeskTypeStep, PTL DEF LiveDeskSpec

-----------------------------------------------------------------------------
(* What is on both lists was put there by another *)

LEMMA ListsStep ==
    LiveDeskTypeOK /\ FeaturedNotHidden /\ [LiveDeskNext]_liveDeskVars => FeaturedNotHidden'
<1> SUFFICES ASSUME LiveDeskTypeOK, FeaturedNotHidden, [LiveDeskNext]_liveDeskVars
             PROVE  FeaturedNotHidden'
  OBVIOUS
<1> USE DEF FeaturedNotHidden
<1>1. ASSUME NEW doc, Both(doc) \subseteq Both(draft) \cup Both(saved), DraftBecomes(doc) PROVE FeaturedNotHidden'
  BY <1>1 DEF DraftBecomes
<1>2. ASSUME NEW n \in Star, Features(n) \/ Hides(n) \/ TakesOff(n)
      PROVE  FeaturedNotHidden'
  <2>1. draft \in Document
    BY DEF LiveDeskTypeOK
  <2>2. PICK doc : /\ DraftBecomes(doc)
                   /\ \/ doc = [featured |-> draft.featured \cup {n},
                                hidden |-> draft.hidden \ {n}]
                      \/ doc = [featured |-> draft.featured \ {n},
                                hidden |-> draft.hidden \cup {n}]
                      \/ doc = [draft EXCEPT !.featured = @ \ {n}]
                      \/ doc = [draft EXCEPT !.hidden = @ \ {n}]
    BY <1>2 DEF Features, Hides, TakesOff
  <2>3. Both(doc) \subseteq Both(draft)
    BY <2>1, <2>2 DEF Both, Document
  <2> QED
    BY <1>1, <2>2, <2>3
<1>3. CASE Discards \/ ResetToDefaults
  BY <1>1, <1>3, DefaultsDocument DEF Discards, ResetToDefaults
<1>4. CASE UNCHANGED <<settings, saved, draft, saving, mixed>>
  BY <1>4
<1>5. CASE SavePressed
  BY <1>5 DEF SavePressed
<1>6. ASSUME NEW put \in saving,
             SettingsStored(put) \/ SaveAnswered(put) \/ SaveFails(put)
      PROVE  FeaturedNotHidden'
  <2>1. \A q \in saving' : Both(q.doc) \subseteq mixed
    <3>1. [put EXCEPT !.at = "stored"].doc = put.doc
      BY DEF LiveDeskTypeOK
    <3> QED
      BY <1>6, <3>1 DEF SettingsStored, SaveAnswered, SaveFails
  <2> QED
    BY <1>6, <2>1, DefaultsDocument DEF SettingsStored, SaveAnswered, SaveFails, ReadSettings
<1>7. CASE AnotherAdminSaves
  BY <1>7 DEF AnotherAdminSaves, editorVars
<1> QED
  BY <1>2, <1>3, <1>4, <1>5, <1>6, <1>7
  DEF LiveDeskNext, liveDeskVars, editorVars, TimerFires, PreviewAnswered, DeviceChosen

LEMMA ListsStart == LiveDeskInit => FeaturedNotHidden
BY DefaultsDocument DEF LiveDeskInit, FeaturedNotHidden, ReadSettings

\* For any number of saves under way and administrators saving over each
\* other: no two documents are ever mixed, so what none of them puts on both
\* lists is on both nowhere, stored, read or sent.
THEOREM ListsStayApart == LiveDeskSpec => []FeaturedNotHidden
<1> QED
  BY ListsStart, ListsStep, LiveDeskTypeCorrect, PTL DEF LiveDeskSpec

-----------------------------------------------------------------------------
(* The preview is of the draft *)

\* The newest request is for the present draft, unless a later one is due,
\* and what the heading names is what a device button would show again.
FollowsTheDraft ==
    /\ \A p \in previews : p.newest /\ ~timer => p.of = draft
    /\ note \in {"saved", "unsaved"} => frame = lastPreview
    /\ PreviewIsOfTheDraft

LEMMA AsksNewest ==
    ASSUME NEW doc, LiveDeskTypeOK, Asks(doc)
    PROVE  \A p \in previews' : p.newest => p.of = doc
<1>1. \A p \in previews : ~[p EXCEPT !.newest = FALSE].newest
  BY DEF LiveDeskTypeOK
<1>2. [of |-> doc, newest |-> TRUE].of = doc
  OBVIOUS
<1>3. \A p \in previews' : \/ ~p.newest
                           \/ p = [of |-> doc, newest |-> TRUE]
  BY <1>1 DEF Asks
<1> QED
  BY <1>2, <1>3

LEMMA PreviewStep ==
    LiveDeskTypeOK /\ FollowsTheDraft /\ [LiveDeskNext]_liveDeskVars => FollowsTheDraft'
<1> SUFFICES ASSUME LiveDeskTypeOK, FollowsTheDraft, [LiveDeskNext]_liveDeskVars
             PROVE  FollowsTheDraft'
  OBVIOUS
<1> USE DEF FollowsTheDraft, PreviewIsOfTheDraft
<1>1. CASE UNCHANGED <<saved, draft, timer, previews, pane>>
  BY <1>1 DEF pane
<1>2. ASSUME NEW doc, DraftBecomes(doc) PROVE FollowsTheDraft'
  BY <1>2 DEF DraftBecomes, pane
<1>3. ASSUME Asks(draft') PROVE FollowsTheDraft'
  <2>1. note' = "updating"
    BY <1>3 DEF Asks
  <2> QED
    BY <1>3, <2>1, AsksNewest
<1>4. ASSUME NEW p \in previews, PreviewAnswered(p) PROVE FollowsTheDraft'
  <2>1. UNCHANGED <<saved, draft, timer>> /\ previews' \subseteq previews
    BY <1>4 DEF PreviewAnswered
  <2>2. CASE UNCHANGED pane
    BY <2>1, <2>2 DEF pane
  <2>3. CASE p.newest /\ Rendered(p.of)
    BY <2>1, <2>3 DEF Rendered
  <2> QED
    BY <1>4, <2>2, <2>3 DEF PreviewAnswered
<1>5. CASE DeviceChosen
  BY <1>5 DEF DeviceChosen
<1>6. CASE TimerFires
  BY <1>3, <1>6 DEF TimerFires
<1>7. ASSUME NEW put \in saving, SaveAnswered(put) PROVE FollowsTheDraft'
  BY <1>3, <1>7 DEF SaveAnswered
<1> QED
  BY <1>1, <1>2, <1>4, <1>5, <1>6, <1>7
  DEF LiveDeskNext, liveDeskVars, editorVars, Features, Hides, TakesOff, Discards,
      ResetToDefaults, SavePressed, SettingsStored, SaveFails, AnotherAdminSaves

LEMMA PreviewStart == LiveDeskInit => FollowsTheDraft
BY DEF LiveDeskInit, FollowsTheDraft, PreviewIsOfTheDraft

\* In whatever order any number of previews answer and fail, and whenever a
\* device is chosen.  That the newest request is for the present draft unless
\* a later one is due, and that what a heading names is the last preview,
\* must be carried along.
THEOREM PreviewCatchesUp == LiveDeskSpec => []PreviewIsOfTheDraft
<1>1. FollowsTheDraft => PreviewIsOfTheDraft
  BY DEF FollowsTheDraft
<1> QED
  BY PreviewStart, <1>1, PreviewStep, LiveDeskTypeCorrect, PTL DEF LiveDeskSpec

-----------------------------------------------------------------------------
(* The background of the login screen.  As long as no two saves overlap, what
   a save has checked stays checked: only a save removes objects, and it
   removes what is too large, which no setting names, or what the setting it
   stored no longer uses. *)

LEMMA MediaAreObjects ==
    ASSUME NEW setting \in Setting PROVE MediaOf(setting) \subseteq Picture \cup Film
BY DEF Setting, MediaOf

LEMMA SaveBegins ==
    ASSUME BackgroundTypeOK, NEW t \in Tab, NEW next \in Setting, Begins(t, next)
    PROVE  BackgroundTypeOK'
<1>1. MediaOf(next) \in SUBSET (Picture \cup Film)
  BY MediaAreObjects
<1>2. overlapped' \in BOOLEAN
  BY DEF Begins, BackgroundTypeOK
<1> QED
  BY <1>1, <1>2 DEF Begins, BackgroundTypeOK

LEMMA BackgroundTypeStep == BackgroundTypeOK /\ [BackgroundNext]_backgroundVars => BackgroundTypeOK'
<1> SUFFICES ASSUME BackgroundTypeOK, [BackgroundNext]_backgroundVars PROVE BackgroundTypeOK'
  OBVIOUS
<1>1. CASE UNCHANGED backgroundVars
  BY <1>1 DEF BackgroundTypeOK, backgroundVars
<1>2. ASSUME NEW t \in Tab, TabLoads(t) PROVE BackgroundTypeOK'
  BY <1>2 DEF TabLoads, BackgroundTypeOK
<1>3. ASSUME NEW t \in Tab, TabUploads(t) PROVE BackgroundTypeOK'
  <2>1. ASSUME NEW p \in Picture PROVE [choice[t] EXCEPT !.image = p] \in Setting
    BY DEF BackgroundTypeOK, Setting
  <2>2. ASSUME NEW f \in Film PROVE [choice[t] EXCEPT !.video = f] \in Setting
    BY DEF BackgroundTypeOK, Setting
  <2>3. ASSUME NEW p \in Picture, choice' = [choice EXCEPT ![t].image = p]
        PROVE  choice' \in [Tab -> Setting]
    BY <2>1, <2>3 DEF BackgroundTypeOK
  <2>4. ASSUME NEW f \in Film, choice' = [choice EXCEPT ![t].video = f]
        PROVE  choice' \in [Tab -> Setting]
    BY <2>2, <2>4 DEF BackgroundTypeOK
  <2>5. choice' \in [Tab -> Setting]
    BY <1>3, <2>3, <2>4 DEF TabUploads
  <2>6. bucket' \subseteq uploaded' /\ uploaded' \subseteq Picture \cup Film
    BY <1>3 DEF TabUploads, BackgroundTypeOK
  <2> QED
    BY <1>3, <2>5, <2>6 DEF TabUploads, BackgroundTypeOK
<1>4. ASSUME NEW t \in Tab, BackgroundSaved(t) PROVE BackgroundTypeOK'
  <2>1. choice[t] \in Setting /\ [choice[t] EXCEPT !.video = NoMedia] \in Setting
    BY DEF BackgroundTypeOK, Setting
  <2>2. Plain \in Setting
    BY DEF Plain, Setting
  <2> QED
    BY <1>4, <2>1, <2>2, SaveBegins DEF BackgroundSaved
<1>5. ASSUME NEW t \in Tab, ObjectChecked(t) PROVE BackgroundTypeOK'
  <2>1. NoSave \in [at : {"none", "checking", "read", "dropping"}, next : Setting,
                    checks : SUBSET (Picture \cup Film), drops : SUBSET (Picture \cup Film)]
    BY DEF NoSave, Plain, Setting
  <2>2. save' \in [Tab -> [at : {"none", "checking", "read", "dropping"}, next : Setting,
                           checks : SUBSET (Picture \cup Film),
                           drops : SUBSET (Picture \cup Film)]]
    BY <1>5, <2>1 DEF ObjectChecked, BackgroundTypeOK
  <2> QED
    BY <1>5, <2>2 DEF ObjectChecked, BackgroundTypeOK
<1>6. ASSUME NEW t \in Tab, PreviousRead(t) PROVE BackgroundTypeOK'
  <2>1. MediaOf(background) \subseteq Picture \cup Film
    BY MediaAreObjects DEF BackgroundTypeOK
  <2> QED
    BY <1>6, <2>1 DEF PreviousRead, BackgroundTypeOK
<1>7. ASSUME NEW t \in Tab, BackgroundStored(t) PROVE BackgroundTypeOK'
  BY <1>7 DEF BackgroundStored, SaveGoes, BackgroundTypeOK
<1>8. ASSUME NEW t \in Tab, MediaDropped(t) PROVE BackgroundTypeOK'
  BY <1>8 DEF MediaDropped, BackgroundTypeOK
<1>9. ASSUME NEW t \in Tab, SaveOver(t) PROVE BackgroundTypeOK'
  <2>1. NoSave \in [at : {"none", "checking", "read", "dropping"}, next : Setting,
                    checks : SUBSET (Picture \cup Film), drops : SUBSET (Picture \cup Film)]
    BY DEF NoSave, Plain, Setting
  <2> QED
    BY <1>9, <2>1 DEF SaveOver, BackgroundTypeOK
<1> QED
  BY <1>1, <1>2, <1>3, <1>4, <1>5, <1>6, <1>7, <1>8, <1>9 DEF BackgroundNext

LEMMA BackgroundTypeInit == BackgroundInit => BackgroundTypeOK
<1>1. Plain \in Setting
  BY DEF Plain, Setting
<1>2. NoSave \in [at : {"none", "checking", "read", "dropping"}, next : Setting,
                  checks : SUBSET (Picture \cup Film), drops : SUBSET (Picture \cup Film)]
  BY <1>1 DEF NoSave
<1> QED
  BY <1>1, <1>2 DEF BackgroundInit, BackgroundTypeOK

Sound == bucket \ TooLarge

SavesInTurn ==
    \A t, u \in Tab : save[t].at # "none" /\ save[u].at # "none" => t = u
\* What the setting names is there and small enough ...
SettingIsSound == MediaOf(background) \subseteq Sound
\* ... what a save has checked stays so until it is stored ...
CheckedIsSound ==
    \A t \in Tab :
        /\ save[t].at = "checking" => MediaOf(save[t].next) \ save[t].checks \subseteq Sound
        /\ save[t].at = "read" => MediaOf(save[t].next) \subseteq Sound
\* ... and what it is about to remove, the new setting does not name.
DropsAreUnused ==
    \A t \in Tab :
        /\ save[t].at = "read" => save[t].drops \cap MediaOf(save[t].next) = {}
        /\ save[t].at = "dropping" => save[t].drops \cap MediaOf(background) = {}

BackgroundIInv ==
    /\ BackgroundTypeOK
    /\ ~overlapped => /\ SavesInTurn /\ SettingIsSound
                      /\ CheckedIsSound /\ DropsAreUnused

LEMMA OwnSaveStep ==
    ASSUME BackgroundIInv, ~overlapped, ~overlapped', NEW t \in Tab,
           \A u \in Tab \ {t} : save[u].at = "none" /\ save'[u] = save[u],
           SettingIsSound',
           /\ save'[t].at = "checking" =>
                 MediaOf(save'[t].next) \ save'[t].checks \subseteq Sound'
           /\ save'[t].at = "read" => /\ MediaOf(save'[t].next) \subseteq Sound'
                                      /\ save'[t].drops \cap MediaOf(save'[t].next) = {}
           /\ save'[t].at = "dropping" => save'[t].drops \cap MediaOf(background') = {}
    PROVE  (SavesInTurn /\ SettingIsSound /\ CheckedIsSound /\ DropsAreUnused)'
<1>1. \A u \in Tab : save'[u].at # "none" => u = t
  OBVIOUS
<1>2. CheckedIsSound'
  BY <1>1 DEF CheckedIsSound, MediaOf
<1>3. DropsAreUnused'
  BY <1>1 DEF DropsAreUnused, MediaOf
<1> QED
  BY <1>1, <1>2, <1>3 DEF SavesInTurn

LEMMA BackgroundStep ==
    BackgroundIInv /\ [BackgroundNext]_backgroundVars => BackgroundIInv'
<1> SUFFICES ASSUME BackgroundIInv, [BackgroundNext]_backgroundVars, ~overlapped'
             PROVE  (SavesInTurn /\ SettingIsSound /\ CheckedIsSound /\ DropsAreUnused)'
  BY BackgroundTypeStep DEF BackgroundIInv
<1> DEFINE Goal == (SavesInTurn /\ SettingIsSound /\ CheckedIsSound /\ DropsAreUnused)'
<1>0. /\ BackgroundTypeOK
      /\ ~overlapped
      /\ SavesInTurn /\ SettingIsSound /\ CheckedIsSound /\ DropsAreUnused
  <2>1. overlapped \in BOOLEAN /\ (overlapped => overlapped')
    BY DEF BackgroundIInv, BackgroundTypeOK, BackgroundNext, backgroundVars, TabLoads, TabUploads,
           BackgroundSaved, Begins, ObjectChecked, PreviousRead, BackgroundStored, MediaDropped,
           SaveOver
  <2> QED
    BY <2>1 DEF BackgroundIInv
<1>1. ASSUME UNCHANGED <<background, save>>, bucket \subseteq bucket' PROVE Goal
  <2>1. Sound \subseteq Sound'
    BY <1>1 DEF Sound
  <2> QED
    BY <1>0, <1>1, <2>1 DEF SavesInTurn, SettingIsSound, CheckedIsSound, DropsAreUnused, MediaOf
<1>2. CASE UNCHANGED backgroundVars
  BY <1>1, <1>2 DEF backgroundVars
<1>3. ASSUME NEW t \in Tab, TabLoads(t) \/ TabUploads(t) PROVE Goal
  BY <1>1, <1>3 DEF TabLoads, TabUploads
\* The save of t is the only one.
<1>4. ASSUME NEW t \in Tab, save[t].at # "none" PROVE \A u \in Tab \ {t} : save[u].at = "none"
  BY <1>0, <1>4 DEF SavesInTurn
<1>5. ASSUME NEW t \in Tab, NEW next \in Setting, Begins(t, next) PROVE Goal
  <2>1. \A u \in Tab : save[u].at = "none"
    BY <1>5 DEF Begins
  <2>2. /\ save'[t] = [at |-> "checking", next |-> next, checks |-> MediaOf(next), drops |-> {}]
        /\ \A u \in Tab \ {t} : save'[u] = save[u]
        /\ UNCHANGED <<background, bucket>>
    BY <1>0, <1>5 DEF Begins, BackgroundTypeOK
  <2>3. SettingIsSound'
    BY <1>0, <2>2 DEF SettingIsSound, Sound, MediaOf
  <2> QED
    BY <1>0, <2>1, <2>2, <2>3, OwnSaveStep
<1>6. ASSUME NEW t \in Tab, BackgroundSaved(t) PROVE Goal
  <2>1. choice[t] \in Setting /\ [choice[t] EXCEPT !.video = NoMedia] \in Setting
    BY <1>0 DEF BackgroundTypeOK, Setting
  <2>2. Plain \in Setting
    BY DEF Plain, Setting
  <2> QED
    BY <1>5, <1>6, <2>1, <2>2 DEF BackgroundSaved
<1>7. ASSUME NEW t \in Tab, ObjectChecked(t) PROVE Goal
  <2>1. save[t].at = "checking" /\ background' = background
    BY <1>7 DEF ObjectChecked
  <2>2. PICK o \in save[t].checks :
           IF o \in bucket \ TooLarge
           THEN save' = [save EXCEPT ![t].checks = @ \ {o}] /\ UNCHANGED bucket
           ELSE save' = [save EXCEPT ![t] = NoSave] /\ bucket' = bucket \ ({o} \cap TooLarge)
    BY <1>7 DEF ObjectChecked
  <2>3. Sound' = Sound
    BY <2>2 DEF Sound
  <2>4. SettingIsSound'
    BY <1>0, <2>1, <2>3 DEF SettingIsSound, MediaOf
  <2>5. MediaOf(save[t].next) \ save[t].checks \subseteq Sound
    BY <1>0, <2>1 DEF CheckedIsSound
  <2>6. \A u \in Tab \ {t} : save[u].at = "none" /\ save'[u] = save[u]
    BY <1>0, <1>4, <2>1, <2>2 DEF BackgroundTypeOK
  <2>7. CASE o \in bucket \ TooLarge
    <3>1. /\ save'[t].at = "checking" /\ save'[t].next = save[t].next
          /\ save'[t].checks = save[t].checks \ {o}
      BY <1>0, <2>1, <2>2, <2>7 DEF BackgroundTypeOK
    <3>2. MediaOf(save'[t].next) \ save'[t].checks \subseteq Sound'
      BY <2>3, <2>5, <2>7, <3>1 DEF Sound
    <3> QED
      BY <1>0, <2>4, <2>6, <3>1, <3>2, OwnSaveStep
  <2>8. CASE o \notin bucket \ TooLarge
    <3>1. save'[t].at = "none"
      BY <1>0, <2>2, <2>8 DEF BackgroundTypeOK, NoSave
    <3> QED
      BY <1>0, <2>4, <2>6, <3>1, OwnSaveStep
  <2> QED
    BY <2>7, <2>8
<1>8. ASSUME NEW t \in Tab, PreviousRead(t) PROVE Goal
  <2>1. /\ save[t].at = "checking" /\ save[t].checks = {}
        /\ UNCHANGED <<background, bucket>>
        /\ save'[t].at = "read" /\ save'[t].next = save[t].next
        /\ save'[t].drops = MediaOf(background) \ MediaOf(save[t].next)
        /\ \A u \in Tab \ {t} : save'[u] = save[u]
    BY <1>0, <1>8 DEF PreviousRead, BackgroundTypeOK
  <2>2. SettingIsSound' /\ Sound' = Sound
    BY <1>0, <2>1 DEF SettingIsSound, Sound, MediaOf
  <2>3. MediaOf(save[t].next) \subseteq Sound
    BY <1>0, <2>1 DEF CheckedIsSound
  <2> QED
    BY <1>0, <1>4, <2>1, <2>2, <2>3, OwnSaveStep
<1>9. ASSUME NEW t \in Tab, BackgroundStored(t) PROVE Goal
  <2>1. /\ save[t].at = "read" /\ background' = save[t].next /\ bucket' = bucket
        /\ save'[t].at = "dropping" /\ save'[t].drops = save[t].drops
        /\ \A u \in Tab \ {t} : save'[u] = save[u]
    BY <1>0, <1>9 DEF BackgroundStored, SaveGoes, BackgroundTypeOK
  <2>2. /\ MediaOf(save[t].next) \subseteq Sound /\ Sound' = Sound
        /\ save[t].drops \cap MediaOf(save[t].next) = {}
    BY <1>0, <2>1 DEF CheckedIsSound, DropsAreUnused, Sound
  <2>3. SettingIsSound'
    BY <2>1, <2>2 DEF SettingIsSound, MediaOf
  <2> QED
    BY <1>0, <1>4, <2>1, <2>2, <2>3, OwnSaveStep
<1>10. ASSUME NEW t \in Tab, MediaDropped(t) PROVE Goal
  <2>1. save[t].at = "dropping" /\ background' = background
    BY <1>10 DEF MediaDropped
  <2>2. PICK o \in save[t].drops : /\ bucket' = bucket \ {o}
                                   /\ save' = [save EXCEPT ![t].drops = @ \ {o}]
    BY <1>10 DEF MediaDropped
  <2>3. save[t].drops \cap MediaOf(background) = {}
    BY <1>0, <2>1 DEF DropsAreUnused
  <2>4. MediaOf(background) \subseteq Sound \ {o} /\ Sound' = Sound \ {o}
    BY <1>0, <2>2, <2>3 DEF SettingIsSound, Sound
  <2>5. SettingIsSound'
    BY <2>1, <2>4 DEF SettingIsSound, MediaOf
  <2>6. /\ save'[t].at = "dropping" /\ save'[t].drops = save[t].drops \ {o}
        /\ \A u \in Tab \ {t} : save'[u] = save[u]
    BY <1>0, <2>1, <2>2 DEF BackgroundTypeOK
  <2>7. save'[t].drops \cap MediaOf(background') = {}
    BY <2>1, <2>3, <2>6
  <2> QED
    BY <1>0, <1>4, <2>1, <2>5, <2>6, <2>7, OwnSaveStep
<1>11. ASSUME NEW t \in Tab, SaveOver(t) PROVE Goal
  <2>1. /\ save[t].at # "none" /\ save'[t].at = "none" /\ UNCHANGED <<background, bucket>>
        /\ \A u \in Tab \ {t} : save'[u] = save[u]
    BY <1>0, <1>11 DEF SaveOver, NoSave, BackgroundTypeOK
  <2>2. SettingIsSound'
    BY <1>0, <2>1 DEF SettingIsSound, Sound, MediaOf
  <2> QED
    BY <1>0, <1>4, <2>1, <2>2, OwnSaveStep
<1> QED
  BY <1>2, <1>3, <1>6, <1>7, <1>8, <1>9, <1>10, <1>11 DEF BackgroundNext

LEMMA BackgroundStart == BackgroundInit => BackgroundIInv
<1> SUFFICES ASSUME BackgroundInit
             PROVE  SavesInTurn /\ SettingIsSound /\ CheckedIsSound /\ DropsAreUnused
  BY BackgroundTypeInit DEF BackgroundIInv
<1>1. \A t \in Tab : save[t].at = "none"
  BY DEF BackgroundInit, NoSave
<1>2. SettingIsSound
  BY DEF BackgroundInit, SettingIsSound, MediaOf, Plain
<1> QED
  BY <1>1, <1>2 DEF SavesInTurn, CheckedIsSound, DropsAreUnused

LEMMA BackgroundFollows == BackgroundIInv => BackgroundHasMedia
BY DEF BackgroundIInv, SettingIsSound, BackgroundHasMedia, Sound

\* The login screen's media is in Storage as long as no two saves overlap:
\* login_background.js checks each object of the new setting before it stores
\* it, and removes only what the previous one had and the new one has not.
THEOREM LoginScreenHasMedia == BackgroundSpec => []BackgroundHasMedia
BY BackgroundStart, BackgroundStep, BackgroundFollows, PTL DEF BackgroundSpec
=============================================================================
