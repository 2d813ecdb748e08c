------------------------------ MODULE Responses ------------------------------
(***************************************************************************)
(* One viewer's likes, comments and shares of one post, and what its       *)
(* author is told of them.  A tap sees the post, writes, looks for an      *)
(* earlier notification and adds one: a query each, none of them locked.   *)
(***************************************************************************)
EXTENDS Integers, FiniteSets

CONSTANTS
    Tap,          \* requests of the viewer in flight
    MaxComments,  \* bound: the viewer's comments at a time
    MaxShares     \* bound: shares counted

ASSUME TapAssumption == IsFiniteSet(Tap) /\ MaxComments \in Nat /\ MaxShares \in Nat

VARIABLES
    post,        \* "shown" to the viewer, "hidden" or "gone" with its row
    liked,       \* the viewer's row of post_likes
    comments,    \* how many rows of post_comments are the viewer's
    shareKey,    \* Redis: a share was counted within the hour
    shares,      \* posts.share_count
    told,        \* post_like notifications of the viewer's likes
    remarked,    \* post_comment notifications, at most ten minutes old
    tap,         \* where a request stands
    ever,        \* history: post_like notifications ever written, up to two
    raced,       \* history: steps two taps were in at a time
    forgot       \* history: the author deleted a post_like notification

responseVars == <<post, liked, comments, shareKey, shares, told, remarked, tap,
                  ever, raced, forgot>>

Rows == <<post, liked, comments, shareKey, shares>>
Notices == <<told, remarked, ever, raced, forgot>>
Want == {"liking", "commenting", "sharing"}

ResponseTypeOK ==
    /\ post \in {"shown", "hidden", "gone"} /\ liked \in BOOLEAN
    /\ comments \in 0 .. MaxComments /\ shareKey \in BOOLEAN /\ shares \in 0 .. MaxShares
    /\ told \in Nat /\ remarked \in Nat
    /\ tap \in [Tap -> Want \cup {"idle", "liked", "commented", "counting",
                                  "telling", "remarking"}]
    /\ ever \in 0 .. 2 /\ raced \subseteq {"telling", "remarking"} /\ forgot \in BOOLEAN

ResponseInit ==
    /\ post = "shown" /\ liked = FALSE /\ comments = 0 /\ shareKey = FALSE /\ shares = 0
    /\ told = 0 /\ remarked = 0 /\ tap = [t \in Tap |-> "idle"]
    /\ ever = 0 /\ raced = {} /\ forgot = FALSE

Moves(t, from, to) == tap[t] = from /\ tap' = [tap EXCEPT ![t] = to]

-----------------------------------------------------------------------------
\* visiblePost.
PostSeen(t, want) ==
    /\ post = "shown" /\ Moves(t, "idle", want) /\ UNCHANGED Rows /\ UNCHANGED Notices

\* PUT /feed/:postId/like: INSERT ... ON CONFLICT DO NOTHING; only a new like
\* goes on to notify.
Liked(t) ==
    /\ post # "gone" /\ Moves(t, "liking", IF liked THEN "idle" ELSE "liked")
    /\ liked' = TRUE
    /\ UNCHANGED <<post, comments, shareKey, shares>> /\ UNCHANGED Notices

\* DELETE /feed/:postId/like.
Unliked ==
    /\ liked /\ liked' = FALSE
    /\ UNCHANGED <<post, comments, shareKey, shares, tap>> /\ UNCHANGED Notices

\* POST /feed/:postId/comments: INSERT.
Commented(t) ==
    /\ post # "gone" /\ comments < MaxComments /\ Moves(t, "commenting", "commented")
    /\ comments' = comments + 1
    /\ UNCHANGED <<post, liked, shareKey, shares>> /\ UNCHANGED Notices

\* DELETE /feed/:postId/comments/:commentId, by the viewer or the author.
CommentDeleted ==
    /\ comments > 0 /\ comments' = comments - 1
    /\ UNCHANGED <<post, liked, shareKey, shares, tap>> /\ UNCHANGED Notices

\* POST /feed/:postId/share: SET ... NX; a Redis that fails counts as "OK".
ShareKeyed(t, down) ==
    /\ Moves(t, "sharing", IF down \/ ~shareKey THEN "counting" ELSE "idle")
    /\ shareKey' = (shareKey \/ ~down)
    /\ UNCHANGED <<post, liked, comments, shares>> /\ UNCHANGED Notices
ShareCounted(t) ==
    /\ post # "gone" /\ shares < MaxShares /\ Moves(t, "counting", "idle")
    /\ shares' = shares + 1
    /\ UNCHANGED <<post, liked, comments, shareKey>> /\ UNCHANGED Notices
ShareKeyExpires ==
    /\ shareKey /\ shareKey' = FALSE
    /\ UNCHANGED <<post, liked, comments, shares, tap>> /\ UNCHANGED Notices

-----------------------------------------------------------------------------
(* What the author is told *)

\* No notification was found, and one will be added.
WillTell(t, from, to) ==
    /\ Moves(t, from, to)
    /\ raced' = IF \E o \in Tap : tap[o] = to THEN raced \cup {to} ELSE raced
    /\ UNCHANGED Rows /\ UNCHANGED <<told, remarked, ever, forgot>>
HasTold(t, from) == Moves(t, from, "idle") /\ UNCHANGED Rows /\ UNCHANGED Notices

\* A slip worth ruling out: the earlier notification is not looked for.
LikeToldAgain(t) == WillTell(t, "liked", "telling")
\* notifyLike: no notification of a like of the viewer's yet.
LikeLooked(t) == IF told = 0 THEN WillTell(t, "liked", "telling") ELSE HasTold(t, "liked")
\* notifications.create, which swallows its failure.
LikeTold(t) ==
    /\ Moves(t, "telling", "idle")
    /\ \/ told' = told + 1 /\ ever' = IF ever = 0 THEN 1 ELSE 2
       \/ UNCHANGED <<told, ever>>
    /\ UNCHANGED Rows /\ UNCHANGED <<remarked, raced, forgot>>

\* notifyComment: none within ten minutes.
RemarkLooked(t) ==
    IF remarked = 0 THEN WillTell(t, "commented", "remarking") ELSE HasTold(t, "commented")
RemarkTold(t) ==
    /\ Moves(t, "remarking", "idle") /\ remarked' \in {remarked, remarked + 1}
    /\ UNCHANGED Rows /\ UNCHANGED <<told, ever, raced, forgot>>
RemarkAges ==
    /\ remarked > 0 /\ remarked' = remarked - 1
    /\ UNCHANGED <<told, tap, ever, raced, forgot>> /\ UNCHANGED Rows

\* The author's DELETE /notifications/:id.
NoticeDeleted ==
    /\ \/ told > 0 /\ told' = told - 1 /\ forgot' = TRUE /\ UNCHANGED remarked
       \/ remarked > 0 /\ remarked' = remarked - 1 /\ UNCHANGED <<told, forgot>>
    /\ UNCHANGED <<tap, ever, raced>> /\ UNCHANGED Rows

-----------------------------------------------------------------------------
\* Removed or restored, or one of the two blocks the other (modules Feed, Social).
PostVisibilityChanges ==
    /\ post # "gone" /\ post' = (IF post = "shown" THEN "hidden" ELSE "shown")
    /\ UNCHANGED <<liked, comments, shareKey, shares, tap>> /\ UNCHANGED Notices
\* Permanently deleted: likes and comments CASCADE.
PostGone ==
    /\ post # "gone" /\ post' = "gone" /\ liked' = FALSE /\ comments' = 0
    /\ UNCHANGED <<shareKey, shares, tap>> /\ UNCHANGED Notices

\* A foreign key or a missing row fails the request, or it dies.
TapEnds(t) ==
    /\ tap[t] # "idle" /\ tap' = [tap EXCEPT ![t] = "idle"]
    /\ UNCHANGED Rows /\ UNCHANGED Notices

ResponseNext ==
    \/ \E t \in Tap :
         \/ \E want \in Want : PostSeen(t, want)
         \/ Liked(t) \/ Commented(t) \/ ShareCounted(t)
         \/ \E down \in BOOLEAN : ShareKeyed(t, down)
         \/ LikeLooked(t) \/ LikeTold(t) \/ RemarkLooked(t) \/ RemarkTold(t) \/ TapEnds(t)
    \/ Unliked \/ CommentDeleted \/ ShareKeyExpires \/ RemarkAges \/ NoticeDeleted
    \/ PostVisibilityChanges \/ PostGone

ResponseSpec == ResponseInit /\ [][ResponseNext]_responseVars

-----------------------------------------------------------------------------
(* Properties *)

\* notifyLike: "One like notification per (post, liker), ever": liking and
\* unliking over and over writes the author a second one only if two taps
\* looked before either had told, or the author deleted the first and the
\* viewer likes again.  Two of a kind stand beside each other (for comments:
\* within ten minutes) only where two taps raced, and never more of them than
\* taps race.
TapsStayQuiet ==
    /\ ever > 1 => "telling" \in raced \/ forgot
    /\ told > 1 => "telling" \in raced
    /\ remarked > 1 => "remarking" \in raced
    /\ told <= Cardinality(Tap) /\ remarked <= Cardinality(Tap)
=============================================================================
