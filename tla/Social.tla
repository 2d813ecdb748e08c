------------------------------- MODULE Social -------------------------------
(***************************************************************************)
(* Friend requests, blocks and chat of one pair of users.  No handler      *)
(* below holds a lock: every query is a step, and what a handler read may  *)
(* have changed when it writes.                                            *)
(***************************************************************************)
EXTENDS Integers, Sequences

CONSTANTS
    Person,      \* the two users
    Handler,     \* requests in flight
    MaxAsked     \* bound: friend requests explored

ASSUME PairAssumption == \E p, q \in Person : p # q /\ Person = {p, q}
ASSUME BoundAssumption == MaxAsked \in Nat

VARIABLES
    creator,     \* who is an eligible creator
    risen,       \* history: who ever was one
    lapsed,      \* history: who ever was not
    blocked,     \* blocks: one of them blocks the other
    asked,       \* friend_requests of the pair, by id
    cooling,     \* who was rejected within the cooldown
    texted,      \* who has a message in the conversation
    socialStep,  \* where a handler stands
    actor,       \* whose request it is
    replyTo      \* the friend request it answers

socialVars == <<creator, risen, lapsed, blocked, asked, cooling, texted,
                socialStep, actor, replyTo>>

Other(p) == CHOOSE q \in Person : q # p
NoOne == CHOOSE p \in Person : TRUE
FriendRequest == [by : Person, status : {"pending", "accepted", "rejected"}]

SocialTypeOK ==
    /\ creator \subseteq Person /\ risen \subseteq Person /\ lapsed \subseteq Person
    /\ blocked \in BOOLEAN /\ cooling \subseteq Person /\ texted \subseteq Person
    /\ asked \in Seq(FriendRequest) /\ Len(asked) <= MaxAsked
    /\ socialStep \in
         [Handler -> {"idle", "wanted", "unpaired", "clear", "accepting", "accepted",
                      "rejected", "unblocked", "asker", "outsider", "stranger",
                      "permitted"}]
    /\ actor \in [Handler -> Person] /\ replyTo \in [Handler -> 0 .. MaxAsked]

SocialInit ==
    /\ creator \in SUBSET Person /\ risen = creator /\ lapsed = Person \ creator
    /\ blocked = FALSE /\ asked = <<>> /\ cooling = {} /\ texted = {}
    /\ socialStep = [h \in Handler |-> "idle"]
    /\ actor = [h \in Handler |-> NoOne]
    /\ replyTo = [h \in Handler |-> 0]

Some(statuses) == \E i \in DOMAIN asked : asked[i].status \in statuses

World == <<creator, risen, lapsed, blocked, asked, cooling, texted>>

\* A handler starts, goes on after a query, and ends.
Starts(h, p, i, to) ==
    /\ socialStep[h] = "idle" /\ socialStep' = [socialStep EXCEPT ![h] = to]
    /\ actor' = [actor EXCEPT ![h] = p] /\ replyTo' = [replyTo EXCEPT ![h] = i]
Passes(h, from, to) ==
    /\ socialStep[h] = from /\ socialStep' = [socialStep EXCEPT ![h] = to]
    /\ UNCHANGED <<actor, replyTo>>
Ends(h, from) ==
    /\ socialStep[h] = from /\ socialStep' = [socialStep EXCEPT ![h] = "idle"]
    /\ actor' = [actor EXCEPT ![h] = NoOne] /\ replyTo' = [replyTo EXCEPT ![h] = 0]


-----------------------------------------------------------------------------
(* POST /friends/request/:userId *)

TargetFound(h, p) ==
    /\ Other(p) \in creator /\ ~blocked /\ Starts(h, p, 0, "wanted")
    /\ UNCHANGED World
NoneOpen(h) ==
    /\ ~Some({"pending", "accepted"}) /\ Passes(h, "wanted", "unpaired")
    /\ UNCHANGED World
NotCooling(h) ==
    /\ actor[h] \notin cooling /\ Passes(h, "unpaired", "clear") /\ UNCHANGED World

\* INSERT; the index admits one pending row of the pair.
Asked(h) ==
    /\ ~Some({"pending"}) /\ Len(asked) < MaxAsked
    /\ Ends(h, "clear")
    /\ asked' = Append(asked, [by |-> actor[h], status |-> "pending"])
    /\ UNCHANGED <<creator, risen, lapsed, blocked, cooling, texted>>

-----------------------------------------------------------------------------
(* POST /friends/respond/:requestId, by the target *)

ResponseRead(h, i, to) ==
    /\ i \in DOMAIN asked /\ asked[i].status = "pending"
    /\ Starts(h, Other(asked[i].by), i, to) /\ UNCHANGED World
\* Accepting: the requester is active and nobody is blocked.
AcceptChecked(h) ==
    /\ ~blocked /\ Passes(h, "accepting", "accepted") /\ UNCHANGED World

\* A slip worth ruling out: the answer does not ask whether the row is pending.
AnsweredAgain(h, verdict) ==
    LET i == replyTo[h] IN
    /\ Ends(h, verdict)
    /\ asked' = [asked EXCEPT ![i].status = verdict]
    /\ cooling' = IF verdict = "rejected" THEN cooling \cup {asked[i].by} ELSE cooling
    /\ UNCHANGED <<creator, risen, lapsed, blocked, texted>>
\* UPDATE ... WHERE status = 'pending'.
Answered(h, verdict) ==
    LET i == replyTo[h] IN
    /\ Ends(h, verdict)
    /\ asked[i].status = "pending"
    /\ asked' = [asked EXCEPT ![i].status = verdict]
    /\ cooling' = IF verdict = "rejected" THEN cooling \cup {asked[i].by} ELSE cooling
    /\ UNCHANGED <<creator, risen, lapsed, blocked, texted>>

-----------------------------------------------------------------------------
(* POST /chat/:userId/messages *)

NotBlocked(h, p) ==
    /\ ~blocked /\ Starts(h, p, 0, "unblocked") /\ UNCHANGED World
\* assertChatPermission: is the sender a creator, is the recipient one?
SenderLooked(h) ==
    /\ Passes(h, "unblocked", IF actor[h] \in creator THEN "permitted" ELSE "asker")
    /\ UNCHANGED World
RecipientLooked(h) ==
    /\ Passes(h, "asker", IF Other(actor[h]) \in creator THEN "outsider" ELSE "permitted")
    /\ UNCHANGED World
\* A slip worth ruling out: a request stands in for a friendship.
PendingWillDo(h) ==
    /\ Passes(h, "outsider",
              IF Some({"pending", "accepted"}) THEN "permitted" ELSE "stranger")
    /\ UNCHANGED World
\* A friendship.
FriendshipLooked(h) ==
    /\ Passes(h, "outsider", IF Some({"accepted"}) THEN "permitted" ELSE "stranger")
    /\ UNCHANGED World
\* A thread the recipient wrote in.
ThreadFound(h) ==
    /\ Other(actor[h]) \in texted /\ Passes(h, "stranger", "permitted")
    /\ UNCHANGED World

MessageSent(h) ==
    /\ Ends(h, "permitted")
    /\ texted' = texted \cup {actor[h]}
    /\ UNCHANGED <<creator, risen, lapsed, blocked, asked, cooling>>

-----------------------------------------------------------------------------
(* Around the handlers *)

\* POST and DELETE /safety/block.
BlockChanges ==
    /\ blocked' = ~blocked
    /\ UNCHANGED <<creator, risen, lapsed, asked, cooling, texted, socialStep, actor,
                   replyTo>>

\* KYC, photos and status (module ListenerDesk).
EligibilityChanges(p) ==
    /\ \/ /\ p \in creator /\ creator' = creator \ {p}
          /\ lapsed' = lapsed \cup {p} /\ UNCHANGED risen
       \/ /\ p \notin creator /\ creator' = creator \cup {p}
          /\ risen' = risen \cup {p} /\ UNCHANGED lapsed
    /\ UNCHANGED <<blocked, asked, cooling, texted, socialStep, actor, replyTo>>

CooldownOver(p) ==
    /\ p \in cooling /\ cooling' = cooling \ {p}
    /\ UNCHANGED <<creator, risen, lapsed, blocked, asked, texted, socialStep, actor,
                   replyTo>>

\* A check fails, a write finds the row answered or the pair taken, or the
\* request dies.
HandlerEnds(h) ==
    /\ socialStep[h] # "idle" /\ Ends(h, socialStep[h]) /\ UNCHANGED World

SocialNext ==
    \/ \E h \in Handler :
         \/ \E p \in Person : TargetFound(h, p) \/ NotBlocked(h, p)
         \/ NoneOpen(h) \/ NotCooling(h) \/ Asked(h)
         \/ \E i \in 1 .. MaxAsked, to \in {"accepting", "rejected"} : ResponseRead(h, i, to)
         \/ AcceptChecked(h)
         \/ \E verdict \in {"accepted", "rejected"} : Answered(h, verdict)
         \/ SenderLooked(h) \/ RecipientLooked(h) \/ FriendshipLooked(h) \/ ThreadFound(h)
         \/ MessageSent(h)
         \/ HandlerEnds(h)
    \/ BlockChanges
    \/ \E p \in Person : EligibilityChanges(p) \/ CooldownOver(p)

SocialSpec == SocialInit /\ [][SocialNext]_socialVars

-----------------------------------------------------------------------------
(* Properties *)

\* A user who never was a creator wrote to one who never stopped being one
\* only as a friend or in a thread the creator wrote in.
ChatWasAllowed ==
    \A p \in texted : p \in risen \/ Other(p) \in lapsed
                      \/ Some({"accepted"}) \/ Other(p) \in texted

\* The first answer to a friend request stands, whatever other answers were
\* under way.
AnswersStand ==
    [][\A i \in DOMAIN asked :
         asked[i].status # "pending" => asked'[i] = asked[i]]_socialVars
=============================================================================
