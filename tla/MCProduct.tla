----------------------------- MODULE MCProduct -----------------------------
(***************************************************************************)
(* The components around the paid call, for TLC.  They meet in the         *)
(* database at rows each of them models for itself, so a behaviour is      *)
(* about one of them and the others stand still.                           *)
(***************************************************************************)
EXTENDS SignIn, Accounts, Erasure, ListenerDesk, Social, Feed, Responses, Live,
        Console, LiveDesk, LoginBackground, AdminAccounts, Pushes, TLC

VARIABLE subject     \* which component the behaviour is about

productVars == <<subject, codeVars, acctVars, fileVars, deskVars, socialVars, feedVars,
                 liveVars, consoleVars, liveDeskVars, backgroundVars,
                 adminVars, responseVars, pushVars>>

ProductInit ==
    /\ subject \in {"codes", "accounts", "files", "desk", "social", "feed", "live", "console",
                   "settings", "background", "admins", "responses", "pushes"}
    /\ CodeInit /\ AcctInit /\ FileInit /\ DeskInit /\ SocialInit /\ FeedInit /\ LiveInit
    /\ ConsoleInit /\ LiveDeskInit /\ BackgroundInit /\ AdminInit /\ ResponseInit
    /\ PushInit
    /\ subject # "social" => creator = {}
    /\ subject # "console" => kind = "call"

\* The component a behaviour is about moves, the others stand still.
Still(name, vars) == IF subject = name THEN TRUE ELSE UNCHANGED vars

ProductNext ==
    /\ UNCHANGED subject
    /\ Still("codes", codeVars)
    /\ Still("accounts", acctVars)
    /\ Still("files", fileVars)
    /\ Still("desk", deskVars)
    /\ Still("social", socialVars)
    /\ Still("feed", feedVars)
    /\ Still("live", liveVars)
    /\ Still("console", consoleVars)
    /\ Still("settings", liveDeskVars)
    /\ Still("background", backgroundVars)
    /\ Still("admins", adminVars)
    /\ Still("responses", responseVars)
    /\ Still("pushes", pushVars)
    /\ \/ subject = "codes" /\ CodeNext
       \/ subject = "accounts" /\ AcctNext
       \/ subject = "files" /\ FileNext
       \/ subject = "desk" /\ DeskNext
       \/ subject = "social" /\ SocialNext
       \/ subject = "feed" /\ FeedNext
       \/ subject = "live" /\ LiveNext
       \/ subject = "console" /\ ConsoleNext
       \/ subject = "settings" /\ LiveDeskNext
       \/ subject = "background" /\ BackgroundNext
       \/ subject = "admins" /\ AdminNext
       \/ subject = "responses" /\ ResponseNext
       \/ subject = "pushes" /\ PushNext

ProductSpec == ProductInit /\ [][ProductNext]_productVars

\* The others are as they began.
ProductTypeOK ==
    CASE subject = "codes" -> CodeTypeOK      [] subject = "accounts" -> AcctTypeOK
      [] subject = "files" -> FileTypeOK      [] subject = "desk" -> DeskTypeOK
      [] subject = "social" -> SocialTypeOK   [] subject = "feed" -> FeedTypeOK
      [] subject = "live" -> LiveTypeOK       [] subject = "console" -> ConsoleTypeOK
      [] subject = "settings" -> LiveDeskTypeOK
      [] subject = "background" -> BackgroundTypeOK
      [] subject = "admins" -> AdminTypeOK
      [] subject = "responses" -> ResponseTypeOK
      [] subject = "pushes" -> PushTypeOK

-----------------------------------------------------------------------------
\* What a model may ban: nothing, everywhere, or a region.
SomeBans == {{}, Country, Country \X Region}

\* How many requests stand where: which of them is which makes no difference.
Bag(f) == LET at == {f[x] : x \in DOMAIN f} IN
          [v \in at |-> Cardinality({x \in DOMAIN f : f[x] = v})]

\* What tells two states apart: what the subject moves, the rest is as it
\* began, and requests of one kind by where they stand.
ProductView ==
    <<subject,
      CASE subject = "codes" ->
             <<otp, attempts, attemptsBorn, sends, cooldown, issued, sender, misses,
               Bag([v \in VerifyCall |-> <<checking[v], guess[v]>>])>>
        [] subject = "accounts" ->
             <<acctStatus, holds, canWithdraw, openPayout, erased,
               Bag([r \in Request |-> <<doing[r], about[r]>>])>>
        [] subject = "files" -> fileVars
        [] subject = "desk" ->
             <<kyc, photos, online, account, moderated, revived,
               Bag([d \in DeskRequest |-> <<deskStep[d], deskPhoto[d]>>])>>
        [] subject = "social" ->
             <<World, Bag([h \in Handler |-> <<socialStep[h], actor[h], replyTo[h]>>])>>
        [] subject = "feed" -> feedVars
        [] subject = "live" ->
             <<mirror, snapshot, usable, slot, calm, erasing, Bag(syncing)>>
        [] subject = "console" -> consoleVars
        [] subject = "settings" -> liveDeskVars
        [] subject = "background" -> backgroundVars
        [] subject = "admins" -> adminVars
        [] subject = "responses" -> <<Rows, Notices, Bag(tap)>>
        [] subject = "pushes" -> <<onFile, dead, access, Bag(claim), Bag(push)>>>>
===========================================================================
