SPECIFICATION ProductSpec
CONSTANTS
    VerifyCall = {v1, v2}
    MaxAttempts = 1
    MaxSends = 1
    MaxCodes = 2
    Account = {a1, a2}
    Identity = {i1, i2}
    Request = {r1, r2}
    Media = {m1, m2}
    Avatar = {av}
    Photo = {f1, f2, f3}
    MinPhotos = 1
    MaxPhotos = 2
    DeskRequest = {d1, d2}
    Person = {p, q}
    Handler = {h1, h2}
    MaxAsked = 2
    Post = {o1, o2}
    Tap = {t1, t2}
    Model = {x1}
    Sync = {s1, s2}
    Country = {c1}
    Region = {g1}
    BanSets <- SomeBans
    Offers = {"public"}
    Unknown = Unknown
    Absent = Absent
    Dialog = {w1, w2}
    NoDialog = NoDialog
    Star = {n1}
    MaxList = 1
    Previews = 2
    Saves = 1
    Tab = {b1, b2}
    Picture = {j1, j2}
    Film = {k1}
    TooLarge = {j2}
    NoMedia = NoMedia
    Admin = {ad1, ad2, ad3}
    Email = {em1, em2, em3}
    AdminRequest = {q1, q2}
    NoAdmin = NoAdmin
    MaxComments = 2
    MaxShares = 1
    Owner = {u1, u2}
    Token = {tk1, tk2}
    Enroll = {e1}
    Push = {y1, y2}
    MaxTries = 2
    Nil = Nil
INVARIANTS
    ProductTypeOK
    GuessesBounded
    OneAccountPerIdentity
    ErasedOwesNothing
    ErasedMediaIsGone
    ApprovedIsComplete
    ChatWasAllowed
    VisiblePostHasMedia
    TapsStayQuiet
    BannedPlacesSeeNothing
    NoBareOverlay
    LastDecisionIsLast
    FeaturedNotHidden
    PreviewIsOfTheDraft
    BackgroundHasMedia
    OneAdminPerEmail
PROPERTIES
    LiveTokenKept
    AnswersStand
VIEW ProductView
CHECK_DEADLOCK FALSE
