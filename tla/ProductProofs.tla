---------------------------- MODULE ProductProofs ----------------------------
(***************************************************************************)
(* The components around the paid call as the runs put them together: a    *)
(* step moves one of them and leaves the others' variables alone, so what  *)
(* is inductive for each of them is so for the product.                    *)
(***************************************************************************)
EXTENDS MCProduct, AccountsProofs, ConsoleProofs, SocialProofs, MediaProofs

SubjectIsKnown ==
    subject \in {"codes", "accounts", "files", "desk", "social", "feed", "live", "console",
                "settings", "background", "admins", "responses", "pushes"}

\* The inductive invariants of the components.
ProductIInv ==
    /\ SubjectIsKnown
    /\ CodeIInv /\ AcctTypeOK /\ OneAccountPerIdentity /\ AcctInv
    /\ FileIInv /\ DeskIInv /\ LiveIInv
    /\ SocialIInv /\ FeedIInv /\ ResponseIInv /\ PushIInv
    /\ ConsoleIInv /\ LiveDeskTypeOK /\ FeaturedNotHidden /\ FollowsTheDraft
    /\ BackgroundIInv /\ AdminIInv

-----------------------------------------------------------------------------
(* A step of the product is a step or a stutter of every component *)

ProductMoves ==
    /\ [CodeNext]_codeVars
    /\ [AcctNext]_acctVars
    /\ [FileNext]_fileVars
    /\ [DeskNext]_deskVars
    /\ [SocialNext]_socialVars
    /\ [FeedNext]_feedVars
    /\ [LiveNext]_liveVars
    /\ [ConsoleNext]_consoleVars
    /\ [LiveDeskNext]_liveDeskVars
    /\ [BackgroundNext]_backgroundVars
    /\ [AdminNext]_adminVars
    /\ [ResponseNext]_responseVars
    /\ [PushNext]_pushVars

LEMMA StepsApart == [ProductNext]_productVars => ProductMoves
<1>1. CASE UNCHANGED productVars
  BY <1>1 DEF productVars, ProductMoves
<1>2. CASE ProductNext
  <2>1. [CodeNext]_codeVars
    BY <1>2 DEF ProductNext, Still
  <2>2. [AcctNext]_acctVars
    BY <1>2 DEF ProductNext, Still
  <2>3. [FileNext]_fileVars
    BY <1>2 DEF ProductNext, Still
  <2>4. [DeskNext]_deskVars
    BY <1>2 DEF ProductNext, Still
  <2>5. [SocialNext]_socialVars
    BY <1>2 DEF ProductNext, Still
  <2>6. [FeedNext]_feedVars
    BY <1>2 DEF ProductNext, Still
  <2>7. [LiveNext]_liveVars
    BY <1>2 DEF ProductNext, Still
  <2>8. [ConsoleNext]_consoleVars
    BY <1>2 DEF ProductNext, Still
  <2>9. [LiveDeskNext]_liveDeskVars
    BY <1>2 DEF ProductNext, Still
  <2>10. [BackgroundNext]_backgroundVars
    BY <1>2 DEF ProductNext, Still
  <2>11. [AdminNext]_adminVars
    BY <1>2 DEF ProductNext, Still
  <2>12. [ResponseNext]_responseVars
    BY <1>2 DEF ProductNext, Still
  <2>13. [PushNext]_pushVars
    BY <1>2 DEF ProductNext, Still
  <2> QED
    BY <2>1, <2>2, <2>3, <2>4, <2>5, <2>6, <2>7, <2>8, <2>9, <2>10, <2>11, <2>12, <2>13
       DEF ProductMoves
<1> QED
  BY <1>1, <1>2

-----------------------------------------------------------------------------
(* The product *)

LEMMA ProductStart == ProductInit => ProductIInv
BY CodeStart, AcctTypeStart, OneAccountStart, ErasureStart, FileStart, DeskStart, LiveStart,
   SocialInitial, FeedInitial, ResponseStart, PushInitial, ConsoleStart, LiveDeskTypeStart,
   ListsStart, PreviewStart, BackgroundStart, AdminStart
   DEF ProductInit, ProductIInv, SubjectIsKnown

LEMMA ProductStep == ProductIInv /\ [ProductNext]_productVars => ProductIInv'
<1> SUFFICES ASSUME ProductIInv, [ProductNext]_productVars PROVE ProductIInv'
  OBVIOUS
<1>1. ProductMoves
  BY StepsApart
<1>2. CodeIInv'
  BY <1>1, CodeStep DEF ProductIInv, ProductMoves
<1>3. AcctTypeOK' /\ OneAccountPerIdentity' /\ AcctInv'
  BY <1>1, AcctTypeStep, OneAccountStep, ErasureStep DEF ProductIInv, ProductMoves
<1>4. FileIInv' /\ DeskIInv' /\ LiveIInv'
  BY <1>1, FileStep, DeskStep, LiveStep DEF ProductIInv, ProductMoves
<1>5. SocialIInv' /\ FeedIInv' /\ ResponseIInv' /\ PushIInv'
  BY <1>1, SocialInductive, FeedInductive, ResponseStep, PushInductive
     DEF ProductIInv, ProductMoves
<1>6. ConsoleIInv' /\ LiveDeskTypeOK' /\ FeaturedNotHidden' /\ FollowsTheDraft'
  BY <1>1, ConsoleStep, LiveDeskTypeStep, ListsStep, PreviewStep DEF ProductIInv, ProductMoves
<1>7. BackgroundIInv' /\ AdminIInv'
  BY <1>1, BackgroundStep, AdminStep DEF ProductIInv, ProductMoves
<1>8. SubjectIsKnown'
  BY DEF ProductIInv, SubjectIsKnown, ProductNext, productVars
<1> QED
  BY <1>2, <1>3, <1>4, <1>5, <1>6, <1>7, <1>8 DEF ProductIInv

LEMMA ProductIsSound == ProductSpec => []ProductIInv
BY ProductStart, ProductStep, PTL DEF ProductSpec

LEMMA TypesFollow == ProductIInv => ProductTypeOK
<1> SUFFICES ASSUME ProductIInv PROVE ProductTypeOK
  OBVIOUS
<1>1. SubjectIsKnown /\ AcctTypeOK /\ LiveDeskTypeOK
  BY DEF ProductIInv
<1>2. CodeTypeOK /\ FileTypeOK /\ DeskTypeOK /\ LiveTypeOK
  BY DEF ProductIInv, CodeIInv, FileIInv, DeskIInv, LiveIInv
<1>3. SocialTypeOK /\ FeedTypeOK /\ ResponseTypeOK /\ PushTypeOK
  BY TypeIsBoth DEF ProductIInv, SocialIInv, Typed, FeedIInv, ResponseIInv, TapsFit, PushIInv
<1>4. ConsoleTypeOK /\ BackgroundTypeOK /\ AdminTypeOK
  BY ConsoleTyped DEF ProductIInv, BackgroundIInv, AdminIInv
<1> QED
  BY <1>1, <1>2, <1>3, <1>4 DEF SubjectIsKnown, ProductTypeOK

\* Every component keeps its type, whichever of them the behaviour is about.
THEOREM ProductTypeCorrect == ProductSpec => []ProductTypeOK
BY ProductIsSound, TypesFollow, PTL

\* Identities, codes and administrators' emails, for any number of requests.
THEOREM AccountsAreSound ==
    ProductSpec => [](/\ GuessesBounded /\ OneAccountPerIdentity /\ ErasedOwesNothing
                      /\ OneAdminPerEmail)
<1>1. ProductIInv => /\ GuessesBounded /\ OneAccountPerIdentity /\ ErasedOwesNothing
                     /\ OneAdminPerEmail
  BY DEF ProductIInv, CodeIInv, AdminIInv, AcctInv, ErasedIsOver, ErasedOwesNothing
<1> QED
  BY <1>1, ProductIsSound, PTL

\* What is stored and shown, and what may be: no erased media, no incomplete
\* approved creator but one a report revived, no banned place, no post or login screen without media.
THEOREM MediaAreSound ==
    ProductSpec => [](/\ ErasedMediaIsGone /\ ApprovedIsComplete /\ BannedPlacesSeeNothing
                      /\ VisiblePostHasMedia /\ BackgroundHasMedia)
<1>1. ProductIInv => /\ ErasedMediaIsGone /\ ApprovedIsComplete /\ VisiblePostHasMedia
  BY DEF ProductIInv, FileIInv, DeskIInv, FeedIInv, Whole, VisibleIsWhole, VisiblePostHasMedia
<1>2. ProductIInv => BannedPlacesSeeNothing /\ BackgroundHasMedia
  BY ListedWhereAllowed, BackgroundFollows DEF ProductIInv
<1> QED
  BY <1>1, <1>2, ProductIsSound, PTL

\* Chat has a reason and taps stay quiet; overlays, decisions, lists and
\* headed previews of the console are what the administrator was shown,
\* each with the exceptions its definition states.
THEOREM ScreensAreSound ==
    ProductSpec => [](/\ ChatWasAllowed /\ TapsStayQuiet /\ NoBareOverlay /\ LastDecisionIsLast
                      /\ FeaturedNotHidden /\ PreviewIsOfTheDraft)
<1>1. ProductIInv => ChatWasAllowed /\ TapsStayQuiet
  BY TapsFollow DEF ProductIInv, SocialIInv
<1>2. ProductIInv => /\ NoBareOverlay /\ LastDecisionIsLast /\ FeaturedNotHidden
                     /\ PreviewIsOfTheDraft
  BY EndedIsLast DEF ProductIInv, ConsoleIInv, FollowsTheDraft
<1> QED
  BY <1>1, <1>2, ProductIsSound, PTL

\* In the product as alone: a push takes off file only a token FCM refuses,
\* and the first answer to a friend request stands.
THEOREM AnswersAndTokensStand == ProductSpec => LiveTokenKept /\ AnswersStand
<1>1. ProductIInv /\ [ProductNext]_productVars
        => [push' # push =>
              \A u \in Owner : onFile[u] \in Token \ dead => onFile'[u] = onFile[u]]_pushVars
  BY StepsApart, ClearsTheDead DEF ProductIInv, ProductMoves
<1>2. ProductIInv /\ [ProductNext]_productVars
        => [\A i \in DOMAIN asked :
              asked[i].status # "pending" => asked'[i] = asked[i]]_socialVars
  BY StepsApart, AnswersStay DEF ProductIInv, ProductMoves, SocialIInv
<1> QED
  BY <1>1, <1>2, ProductIsSound, PTL DEF ProductSpec, LiveTokenKept, AnswersStand
=============================================================================
