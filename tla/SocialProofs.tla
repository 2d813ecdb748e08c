---------------------------- MODULE SocialProofs ----------------------------
(***************************************************************************)
(* What users say to each other and to others, for any number of requests  *)
(* in flight, friend requests, uploads, accounts, tokens and messages. A   *)
(* chat has a reason: each query that lets a message through reads a fact  *)
(* of the past, and facts of the past stay. A visible post has its media,  *)
(* an author is told again of a viewer's taps only after a race or after   *)
(* deleting the notification, and a delivery takes off file only a token   *)
(* FCM has refused.                                                        *)
(***************************************************************************)
EXTENDS Social, Feed, Responses, Pushes, FiniteSetTheorems, TLAPS

(* Friend requests and chat of a pair of users *)

Stages == {"idle", "wanted", "unpaired", "clear", "accepting", "accepted", "rejected",
           "unblocked", "asker", "outsider", "stranger", "permitted"}

HandlersTyped ==
    /\ socialStep \in [Handler -> Stages]
    /\ actor \in [Handler -> Person] /\ replyTo \in [Handler -> 0 .. MaxAsked]
WorldTyped ==
    /\ creator \subseteq Person /\ risen \subseteq Person /\ lapsed \subseteq Person
    /\ blocked \in BOOLEAN /\ cooling \subseteq Person /\ texted \subseteq Person
    /\ asked \in Seq(FriendRequest) /\ Len(asked) <= MaxAsked

\* A response is to a request that was made.
Replying == {"accepting", "accepted", "rejected"}
RepliesAreToRequests ==
    \A h \in Handler : socialStep[h] \in Replying => replyTo[h] \in DOMAIN asked

\* Why p may write: a creator is on either side, or was; they are friends; or
\* the other one wrote first.
Allowed(p) == p \in risen \/ Other(p) \in lapsed \/ Some({"accepted"}) \/ Other(p) \in texted

HistoryIsKept == creator \subseteq risen /\ Person \ creator \subseteq lapsed
PermittedIsAllowed ==
    \A h \in Handler : socialStep[h] = "permitted" => Allowed(actor[h])

Typed == HandlersTyped /\ WorldTyped /\ RepliesAreToRequests
SocialIInv == Typed /\ HistoryIsKept /\ PermittedIsAllowed /\ ChatWasAllowed

-----------------------------------------------------------------------------
(* The pair *)

LEMMA OtherIsThere == \A p \in Person : Other(p) \in Person
BY PairAssumption DEF Other

LEMMA NoOneIsThere == NoOne \in Person
BY PairAssumption DEF NoOne

LEMMA TypeIsBoth == SocialTypeOK <=> HandlersTyped /\ WorldTyped
BY DEF SocialTypeOK, HandlersTyped, WorldTyped, Stages

-----------------------------------------------------------------------------
(* Types *)

LEMMA StartsTyped ==
    ASSUME HandlersTyped, NEW h \in Handler, NEW p \in Person, NEW i \in 0 .. MaxAsked,
           NEW to \in Stages, Starts(h, p, i, to)
    PROVE  HandlersTyped'
BY DEF Starts, HandlersTyped

LEMMA PassesTyped ==
    ASSUME HandlersTyped, NEW h \in Handler, NEW from, NEW to \in Stages,
           Passes(h, from, to)
    PROVE  HandlersTyped'
BY DEF Passes, HandlersTyped

LEMMA EndsTyped ==
    ASSUME HandlersTyped, NEW h \in Handler, NEW from, Ends(h, from)
    PROVE  HandlersTyped'
<1>1. 0 \in 0 .. MaxAsked
  BY BoundAssumption
<1> QED BY <1>1, NoOneIsThere DEF Ends, HandlersTyped, Stages

\* An answer keeps the shape of the requests, and every one answered before.
LEMMA AnswerKept ==
    ASSUME WorldTyped, NEW i, NEW verdict \in {"accepted", "rejected"},
           asked' = [asked EXCEPT ![i].status = verdict]
    PROVE  /\ asked' \in Seq(FriendRequest) /\ Len(asked') = Len(asked)
           /\ DOMAIN asked' = DOMAIN asked
           /\ \A j \in DOMAIN asked : j # i => asked'[j] = asked[j]
           /\ i \in DOMAIN asked => asked[i].by \in Person
<1>1. \A j \in DOMAIN asked : asked[j] \in FriendRequest
  BY DEF WorldTyped
<1>2. \A j \in DOMAIN asked : [asked[j] EXCEPT !.status = verdict] \in FriendRequest
  BY <1>1 DEF FriendRequest
<1>3. DOMAIN asked' = DOMAIN asked /\ \A j \in DOMAIN asked :
        asked'[j] = IF j = i THEN [asked[j] EXCEPT !.status = verdict] ELSE asked[j]
  BY DEF WorldTyped
<1>4. DOMAIN asked = 1 .. Len(asked)
  BY DEF WorldTyped
<1>5. asked' = [j \in 1 .. Len(asked) |-> asked'[j]]
  BY <1>4 DEF WorldTyped
<1>6. \A j \in 1 .. Len(asked) : asked'[j] \in FriendRequest
  BY <1>1, <1>2, <1>3, <1>4
<1>7. asked' \in [1 .. Len(asked) -> FriendRequest]
  BY <1>5, <1>6
<1>8. asked' \in Seq(FriendRequest) /\ Len(asked') = Len(asked)
  BY <1>7 DEF WorldTyped
<1>9. i \in DOMAIN asked => asked[i].by \in Person
  BY <1>1 DEF FriendRequest
<1> QED BY <1>3, <1>8, <1>9

LEMMA AnsweredTyped ==
    ASSUME Typed, NEW h \in Handler, NEW verdict \in {"accepted", "rejected"},
           Answered(h, verdict)
    PROVE  WorldTyped' /\ DOMAIN asked' = DOMAIN asked
<1> DEFINE i == replyTo[h]
<1>1. asked' = [asked EXCEPT ![i].status = verdict]
  BY DEF Answered
<1>2. asked' \in Seq(FriendRequest) /\ Len(asked') <= MaxAsked /\ DOMAIN asked' = DOMAIN asked
  BY <1>1, AnswerKept DEF Typed, WorldTyped
<1>3. i \in DOMAIN asked
  BY DEF Typed, RepliesAreToRequests, Replying, Answered, Ends
<1>4. asked[i].by \in Person
  BY <1>1, <1>3, AnswerKept DEF Typed
<1>5. cooling' \subseteq Person
  BY <1>4 DEF Answered, Typed, WorldTyped
<1> QED BY <1>2, <1>5 DEF Answered, Typed, WorldTyped

LEMMA AskedTyped ==
    ASSUME Typed, NEW h \in Handler, Asked(h)
    PROVE  /\ WorldTyped' /\ DOMAIN asked \subseteq DOMAIN asked'
           /\ \A j \in DOMAIN asked : asked'[j] = asked[j]
<1> DEFINE new == [by |-> actor[h], status |-> "pending"]
<1>1. new \in FriendRequest
  BY DEF Typed, HandlersTyped, FriendRequest
<1>2. asked \in Seq(FriendRequest) /\ Len(asked) < MaxAsked /\ asked' = Append(asked, new)
  BY DEF Asked, Typed, WorldTyped
<1> HIDE DEF new
<1>3. /\ asked' \in Seq(FriendRequest) /\ Len(asked') = Len(asked) + 1
      /\ DOMAIN asked \subseteq DOMAIN asked'
      /\ \A j \in DOMAIN asked : asked'[j] = asked[j]
  BY <1>1, <1>2
<1>4. Len(asked') <= MaxAsked
  BY <1>2, <1>3, BoundAssumption
<1> QED BY <1>3, <1>4 DEF Asked, Typed, WorldTyped

-----------------------------------------------------------------------------
(* A handler's steps *)

\* A step of a handler that only reads: the handler goes on, with the same
\* request, or starts, or ends.
Reads(h) ==
    \/ \E p \in Person : TargetFound(h, p) \/ NotBlocked(h, p)
    \/ NoneOpen(h) \/ NotCooling(h)
    \/ \E i \in 1 .. MaxAsked, to \in {"accepting", "rejected"} : ResponseRead(h, i, to)
    \/ AcceptChecked(h)
    \/ SenderLooked(h) \/ RecipientLooked(h) \/ FriendshipLooked(h) \/ ThreadFound(h)
    \/ HandlerEnds(h)

LEMMA ReadsTyped ==
    ASSUME Typed, NEW h \in Handler, Reads(h)
    PROVE  Typed' /\ UNCHANGED World
<1> USE DEF Typed
<1>1. ASSUME UNCHANGED World PROVE WorldTyped'
  BY <1>1 DEF World, WorldTyped
<1>2. ASSUME NEW p \in Person, NEW i \in 0 .. MaxAsked, NEW to \in Stages,
             Starts(h, p, i, to), UNCHANGED asked,
             to \in Replying => i \in DOMAIN asked
      PROVE  HandlersTyped' /\ RepliesAreToRequests'
  BY <1>2, StartsTyped DEF Starts, HandlersTyped, RepliesAreToRequests
<1>3. ASSUME NEW from, NEW to \in Stages, Passes(h, from, to), UNCHANGED asked,
             to \in Replying => from \in Replying
      PROVE  HandlersTyped' /\ RepliesAreToRequests'
  BY <1>3, PassesTyped DEF Passes, HandlersTyped, RepliesAreToRequests
<1>4. ASSUME NEW from, Ends(h, from), UNCHANGED asked
      PROVE  HandlersTyped' /\ RepliesAreToRequests'
  BY <1>4, EndsTyped DEF Ends, HandlersTyped, RepliesAreToRequests, Replying
<1>5. ASSUME NEW p \in Person, TargetFound(h, p) \/ NotBlocked(h, p)
      PROVE  Typed' /\ UNCHANGED World
  <2>1. 0 \in 0 .. MaxAsked
    BY BoundAssumption
  <2> QED BY <1>1, <1>2, <1>5, <2>1 DEF TargetFound, NotBlocked, Stages, Replying, World
<1>6. ASSUME NEW i \in 1 .. MaxAsked, NEW to \in {"accepting", "rejected"},
             ResponseRead(h, i, to)
      PROVE  Typed' /\ UNCHANGED World
  <2>1. i \in DOMAIN asked /\ asked[i] \in FriendRequest /\ i \in 0 .. MaxAsked
    BY <1>6 DEF ResponseRead, WorldTyped
  <2>2. Other(asked[i].by) \in Person
    BY <2>1, OtherIsThere DEF FriendRequest
  <2> QED BY <1>1, <1>2, <1>6, <2>1, <2>2 DEF ResponseRead, Stages, World
<1>7. CASE NoneOpen(h) \/ NotCooling(h) \/ AcceptChecked(h) \/ ThreadFound(h)
  BY <1>1, <1>3, <1>7 DEF NoneOpen, NotCooling, AcceptChecked, ThreadFound, Stages,
     Replying, World
<1>8. CASE SenderLooked(h) \/ RecipientLooked(h) \/ FriendshipLooked(h)
  BY <1>1, <1>3, <1>8 DEF SenderLooked, RecipientLooked, FriendshipLooked, Stages,
     Replying, World
<1>9. CASE HandlerEnds(h)
  BY <1>1, <1>4, <1>9 DEF HandlerEnds, World
<1> QED
  BY <1>5, <1>6, <1>7, <1>8, <1>9 DEF Reads

\* Every step is typed.
LEMMA TypedStep == Typed /\ [SocialNext]_socialVars => Typed'
<1> SUFFICES ASSUME Typed, [SocialNext]_socialVars PROVE Typed'
  OBVIOUS
<1>1. ASSUME NEW h \in Handler, Reads(h) PROVE Typed'
  BY <1>1, ReadsTyped
<1>2. ASSUME NEW h \in Handler, NEW from, Ends(h, from), DOMAIN asked \subseteq DOMAIN asked'
      PROVE  HandlersTyped' /\ RepliesAreToRequests'
  BY <1>2, EndsTyped DEF Ends, Typed, HandlersTyped, RepliesAreToRequests, Replying
<1>3. ASSUME NEW h \in Handler, Asked(h) PROVE Typed'
  BY <1>2, <1>3, AskedTyped DEF Asked, Typed
<1>4. ASSUME NEW h \in Handler, NEW verdict \in {"accepted", "rejected"}, Answered(h, verdict)
      PROVE  Typed'
  <2>1. Ends(h, verdict)
    BY <1>4 DEF Answered
  <2> QED BY <1>2, <1>4, <2>1, AnsweredTyped DEF Typed
<1>5. ASSUME NEW h \in Handler, MessageSent(h) PROVE Typed'
  <2>1. WorldTyped'
    BY <1>5 DEF MessageSent, Typed, WorldTyped, HandlersTyped
  <2> QED BY <1>2, <1>5, <2>1 DEF MessageSent, Typed
<1>6. CASE BlockChanges
  BY <1>6 DEF BlockChanges, Typed, WorldTyped, HandlersTyped, RepliesAreToRequests
<1>7. ASSUME NEW p \in Person, EligibilityChanges(p) \/ CooldownOver(p) PROVE Typed'
  BY <1>7 DEF EligibilityChanges, CooldownOver, Typed, WorldTyped, HandlersTyped,
     RepliesAreToRequests
<1>8. CASE UNCHANGED socialVars
  BY <1>8 DEF socialVars, Typed, WorldTyped, HandlersTyped, RepliesAreToRequests
<1> QED
  BY <1>1, <1>3, <1>4, <1>5, <1>6, <1>7, <1>8 DEF SocialNext, Reads

-----------------------------------------------------------------------------
(* Facts of the past stay *)

\* Requests are never taken back, and answered ones keep their answer.
LEMMA AnswersStay ==
    ASSUME Typed, [SocialNext]_socialVars
    PROVE  /\ DOMAIN asked \subseteq DOMAIN asked'
           /\ \A i \in DOMAIN asked : asked[i].status # "pending" => asked'[i] = asked[i]
<1>1. CASE UNCHANGED asked
  BY <1>1
<1>2. ASSUME NEW h \in Handler, Asked(h)
      PROVE  /\ DOMAIN asked \subseteq DOMAIN asked'
             /\ \A i \in DOMAIN asked : asked[i].status # "pending" => asked'[i] = asked[i]
  BY <1>2, AskedTyped
<1>3. ASSUME NEW h \in Handler, NEW verdict \in {"accepted", "rejected"}, Answered(h, verdict)
      PROVE  /\ DOMAIN asked \subseteq DOMAIN asked'
             /\ \A i \in DOMAIN asked : asked[i].status # "pending" => asked'[i] = asked[i]
  <2>1. asked' = [asked EXCEPT ![replyTo[h]].status = verdict]
    BY <1>3 DEF Answered
  <2>2. asked[replyTo[h]].status = "pending"
    BY <1>3 DEF Answered
  <2>3. \A i \in DOMAIN asked : i # replyTo[h] => asked'[i] = asked[i]
    BY <2>1, AnswerKept DEF Typed
  <2> QED BY <1>3, <2>2, <2>3, AnsweredTyped
<1>4. ASSUME NEW h \in Handler, Reads(h) \/ MessageSent(h) PROVE UNCHANGED asked
  BY <1>4, ReadsTyped DEF World, MessageSent
<1>5. BlockChanges \/ (\E p \in Person : EligibilityChanges(p) \/ CooldownOver(p))
        \/ UNCHANGED socialVars => UNCHANGED asked
  BY DEF BlockChanges, EligibilityChanges, CooldownOver, socialVars
<1> QED
  BY <1>1, <1>2, <1>3, <1>4, <1>5 DEF SocialNext, Reads

LEMMA PastStays ==
    ASSUME Typed, [SocialNext]_socialVars
    PROVE  risen \subseteq risen' /\ lapsed \subseteq lapsed' /\ texted \subseteq texted'
<1>1. ASSUME NEW h \in Handler, Reads(h)
      PROVE  risen' = risen /\ lapsed' = lapsed /\ texted' = texted
  BY <1>1, ReadsTyped DEF World
<1>2. ASSUME NEW h \in Handler,
             \/ Asked(h) \/ MessageSent(h)
             \/ \E verdict \in {"accepted", "rejected"} : Answered(h, verdict)
      PROVE  risen' = risen /\ lapsed' = lapsed /\ texted \subseteq texted'
  BY <1>2 DEF Asked, MessageSent, Answered
<1>3. BlockChanges \/ (\E p \in Person : EligibilityChanges(p) \/ CooldownOver(p))
        \/ UNCHANGED socialVars
        => risen \subseteq risen' /\ lapsed \subseteq lapsed' /\ texted \subseteq texted'
  BY DEF BlockChanges, EligibilityChanges, CooldownOver, socialVars
<1> QED
  BY <1>1, <1>2, <1>3 DEF SocialNext, Reads

LEMMA AllowedStays ==
    ASSUME Typed, [SocialNext]_socialVars, NEW p \in Person, Allowed(p)
    PROVE  Allowed(p)'
<1>1. risen \subseteq risen' /\ lapsed \subseteq lapsed' /\ texted \subseteq texted'
  BY PastStays
<1>2. ASSUME Some({"accepted"}) PROVE Some({"accepted"})'
  <2>1. PICK i \in DOMAIN asked : asked[i].status = "accepted"
    BY <1>2 DEF Some
  <2>2. i \in DOMAIN asked' /\ asked'[i] = asked[i]
    BY <2>1, AnswersStay
  <2> QED BY <2>1, <2>2 DEF Some
<1>3. Allowed(p)' <=> \/ p \in risen' \/ Other(p) \in lapsed' \/ Some({"accepted"})'
                      \/ Other(p) \in texted'
  BY DEF Allowed
<1> QED BY <1>1, <1>2, <1>3 DEF Allowed

LEMMA HistoryStep == Typed /\ HistoryIsKept /\ [SocialNext]_socialVars => HistoryIsKept'
<1> SUFFICES ASSUME Typed, HistoryIsKept, [SocialNext]_socialVars PROVE HistoryIsKept'
  OBVIOUS
<1>1. CASE \E p \in Person : EligibilityChanges(p)
  BY <1>1 DEF EligibilityChanges, HistoryIsKept
<1>2. CASE creator' = creator
  BY <1>2, PastStays DEF HistoryIsKept
<1>3. ASSUME NEW h \in Handler, Reads(h) PROVE creator' = creator
  BY <1>3, ReadsTyped DEF World
<1>4. ASSUME NEW h \in Handler,
             \/ Asked(h) \/ MessageSent(h)
             \/ \E verdict \in {"accepted", "rejected"} : Answered(h, verdict)
      PROVE  creator' = creator
  BY <1>4 DEF Asked, MessageSent, Answered
<1>5. BlockChanges \/ (\E p \in Person : CooldownOver(p)) \/ UNCHANGED socialVars
        => creator' = creator
  BY DEF BlockChanges, CooldownOver, socialVars
<1> QED
  BY <1>1, <1>2, <1>3, <1>4, <1>5 DEF SocialNext, Reads

-----------------------------------------------------------------------------
(* What a permission rests on *)

\* Each query that permits a message finds a reason.
LEMMA PermissionHasReason ==
    ASSUME Typed, HistoryIsKept, NEW h \in Handler, Reads(h), socialStep[h] # "permitted",
           socialStep'[h] = "permitted"
    PROVE  actor'[h] = actor[h] /\ actor[h] \in Person /\ Allowed(actor[h])
<1>1. actor[h] \in Person /\ Other(actor[h]) \in Person
  BY OtherIsThere DEF Typed, HandlersTyped
<1>2. \A to : socialStep' = [socialStep EXCEPT ![h] = to] => to = "permitted"
  BY DEF Typed, HandlersTyped
<1>3. ASSUME NEW from, NEW to, Passes(h, from, to) PROVE actor' = actor /\ to = "permitted"
  BY <1>2, <1>3 DEF Passes
<1>4. ASSUME NEW p, NEW i, NEW to, Starts(h, p, i, to) PROVE to = "permitted"
  BY <1>2, <1>4 DEF Starts
<1>5. ASSUME NEW from PROVE ~Ends(h, from)
  BY <1>2 DEF Ends
<1>6. CASE SenderLooked(h)
  BY <1>1, <1>3, <1>6 DEF SenderLooked, HistoryIsKept, Allowed
<1>7. CASE RecipientLooked(h)
  BY <1>1, <1>3, <1>7 DEF RecipientLooked, HistoryIsKept, Allowed
<1>8. CASE FriendshipLooked(h)
  BY <1>1, <1>3, <1>8 DEF FriendshipLooked, Allowed
<1>9. CASE ThreadFound(h)
  BY <1>1, <1>3, <1>9 DEF ThreadFound, Allowed
<1>10. ~(\E p \in Person : TargetFound(h, p) \/ NotBlocked(h, p))
  BY <1>4 DEF TargetFound, NotBlocked
<1>11. ~(NoneOpen(h) \/ NotCooling(h) \/ AcceptChecked(h))
  BY <1>3 DEF NoneOpen, NotCooling, AcceptChecked
<1>12. ~(\E i \in 1 .. MaxAsked, to \in {"accepting", "rejected"} : ResponseRead(h, i, to))
  BY <1>4 DEF ResponseRead
<1>13. ~HandlerEnds(h)
  BY <1>5 DEF HandlerEnds
<1> QED
  BY <1>6, <1>7, <1>8, <1>9, <1>10, <1>11, <1>12, <1>13 DEF Reads

\* A handler's step is about that handler, and uses its permission up.
Aside(h) ==
    /\ \A g \in Handler \ {h} : socialStep'[g] = socialStep[g] /\ actor'[g] = actor[g]
    /\ socialStep[h] = "permitted" => socialStep'[h] = "idle"
Writes(h) ==
    \/ Asked(h) \/ MessageSent(h)
    \/ \E verdict \in {"accepted", "rejected"} : Answered(h, verdict)

LEMMA WritesEnd ==
    ASSUME Typed, NEW h \in Handler, Writes(h)
    PROVE  Aside(h) /\ socialStep'[h] = "idle"
<1>1. PICK from : Ends(h, from)
  BY DEF Writes, Asked, MessageSent, Answered
<1> QED BY <1>1 DEF Ends, Typed, HandlersTyped, Aside

LEMMA ReadsAside ==
    ASSUME Typed, NEW h \in Handler, Reads(h) PROVE Aside(h)
<1>1. ASSUME NEW p, NEW i, NEW to, Starts(h, p, i, to) PROVE Aside(h)
  BY <1>1 DEF Starts, Typed, HandlersTyped, Aside
<1>2. ASSUME NEW from, NEW to, from # "permitted", Passes(h, from, to) PROVE Aside(h)
  BY <1>2 DEF Passes, Typed, HandlersTyped, Aside
<1>3. ASSUME NEW from, Ends(h, from) PROVE Aside(h)
  BY <1>3 DEF Ends, Typed, HandlersTyped, Aside
<1>4. CASE \E p \in Person : TargetFound(h, p) \/ NotBlocked(h, p)
  BY <1>1, <1>4 DEF TargetFound, NotBlocked
<1>5. CASE \E i \in 1 .. MaxAsked, to \in {"accepting", "rejected"} : ResponseRead(h, i, to)
  BY <1>1, <1>5 DEF ResponseRead
<1>6. CASE NoneOpen(h) \/ NotCooling(h) \/ AcceptChecked(h) \/ ThreadFound(h)
  BY <1>2, <1>6 DEF NoneOpen, NotCooling, AcceptChecked, ThreadFound
<1>7. CASE SenderLooked(h) \/ RecipientLooked(h) \/ FriendshipLooked(h)
  BY <1>2, <1>7 DEF SenderLooked, RecipientLooked, FriendshipLooked
<1>8. CASE HandlerEnds(h)
  BY <1>3, <1>8 DEF HandlerEnds
<1> QED BY <1>4, <1>5, <1>6, <1>7, <1>8 DEF Reads

LEMMA StepSplits ==
    ASSUME [SocialNext]_socialVars
    PROVE  \/ \E h \in Handler : Reads(h) \/ Writes(h)
           \/ BlockChanges \/ \E p \in Person : EligibilityChanges(p) \/ CooldownOver(p)
           \/ UNCHANGED socialVars
BY DEF SocialNext, Reads, Writes

LEMMA PermittedStep ==
    Typed /\ HistoryIsKept /\ PermittedIsAllowed /\ [SocialNext]_socialVars
        => PermittedIsAllowed'
<1> SUFFICES ASSUME Typed, HistoryIsKept, PermittedIsAllowed, [SocialNext]_socialVars
             PROVE  PermittedIsAllowed'
  OBVIOUS
<1>1. ASSUME NEW g \in Handler, socialStep'[g] = "permitted"
      PROVE  actor'[g] = actor[g] /\ Allowed(actor[g])
  <2>1. CASE socialStep'[g] = socialStep[g] /\ actor'[g] = actor[g]
    BY <1>1, <2>1 DEF PermittedIsAllowed
  <2>2. ASSUME NEW h \in Handler, Reads(h) \/ Writes(h)
        PROVE  actor'[g] = actor[g] /\ Allowed(actor[g])
    <3>1. CASE h # g
      BY <2>1, <2>2, <3>1, WritesEnd, ReadsAside DEF Aside
    <3>2. CASE h = g
      <4>1. Reads(g)
        BY <1>1, <2>2, <3>2, WritesEnd
      <4>2. socialStep[g] # "permitted"
        BY <1>1, <4>1, ReadsAside DEF Aside
      <4> QED BY <1>1, <4>1, <4>2, PermissionHasReason
    <3> QED BY <3>1, <3>2
  <2>3. CASE \E h \in Handler : Reads(h) \/ Writes(h)
    BY <2>2, <2>3
  <2>4. CASE BlockChanges
    BY <2>1, <2>4 DEF BlockChanges
  <2>5. CASE \E p \in Person : EligibilityChanges(p) \/ CooldownOver(p)
    BY <2>1, <2>5 DEF EligibilityChanges, CooldownOver
  <2>6. CASE UNCHANGED socialVars
    BY <2>1, <2>6 DEF socialVars
  <2> QED BY <2>3, <2>4, <2>5, <2>6, StepSplits
<1>2. \A p \in Person : Allowed(p) => Allowed(p)'
  BY AllowedStays
<1>3. ASSUME NEW g \in Handler, socialStep'[g] = "permitted" PROVE (Allowed(actor[g]))'
  <2>1. PICK p \in Person : p = actor[g]
    BY DEF Typed, HandlersTyped
  <2>2. actor'[g] = p /\ Allowed(p)'
    BY <1>1, <1>2, <1>3, <2>1
  <2> QED BY <2>2 DEF Allowed
<1> QED BY <1>3 DEF PermittedIsAllowed

LEMMA ChatStep == SocialIInv /\ [SocialNext]_socialVars => ChatWasAllowed'
<1> SUFFICES ASSUME SocialIInv, [SocialNext]_socialVars, NEW p \in texted' PROVE Allowed(p)'
  BY DEF ChatWasAllowed, Allowed
<1>1. Typed
  BY DEF SocialIInv
<1>2. CASE p \in texted
  <2>1. p \in Person /\ Allowed(p)
    BY <1>2 DEF SocialIInv, ChatWasAllowed, Allowed, Typed, WorldTyped
  <2> QED BY <1>1, <2>1, AllowedStays
<1>3. ASSUME NEW h \in Handler, MessageSent(h), p \notin texted PROVE Allowed(p)'
  <2>1. p = actor[h] /\ socialStep[h] = "permitted"
    BY <1>3 DEF MessageSent, Ends
  <2>2. p \in Person /\ Allowed(p)
    BY <2>1 DEF SocialIInv, PermittedIsAllowed, Typed, HandlersTyped
  <2> QED BY <1>1, <2>2, AllowedStays
<1>4. ASSUME NEW h \in Handler,
             \/ Reads(h) \/ Asked(h)
             \/ \E verdict \in {"accepted", "rejected"} : Answered(h, verdict)
      PROVE  texted' = texted
  BY <1>1, <1>4, ReadsTyped DEF World, Asked, Answered
<1>5. BlockChanges \/ (\E q \in Person : EligibilityChanges(q) \/ CooldownOver(q))
        \/ UNCHANGED socialVars => texted' = texted
  BY DEF BlockChanges, EligibilityChanges, CooldownOver, socialVars
<1> QED
  BY <1>2, <1>3, <1>4, <1>5 DEF SocialNext, Reads

-----------------------------------------------------------------------------
(* Theorems *)

LEMMA SocialInitial == SocialInit => SocialIInv
<1> SUFFICES ASSUME SocialInit PROVE SocialIInv
  OBVIOUS
<1>1. 0 \in 0 .. MaxAsked /\ 0 <= MaxAsked
  BY BoundAssumption
<1>2. HandlersTyped
  BY <1>1, NoOneIsThere DEF SocialInit, HandlersTyped, Stages
<1>3. WorldTyped
  <2>1. asked \in Seq(FriendRequest) /\ Len(asked) = 0
    BY DEF SocialInit
  <2> QED BY <1>1, <2>1 DEF SocialInit, WorldTyped
<1>4. \A h \in Handler : socialStep[h] = "idle"
  BY DEF SocialInit
<1>5. RepliesAreToRequests /\ PermittedIsAllowed
  BY <1>4 DEF RepliesAreToRequests, PermittedIsAllowed, Replying
<1>6. HistoryIsKept /\ ChatWasAllowed
  BY DEF SocialInit, HistoryIsKept, ChatWasAllowed
<1> QED BY <1>2, <1>3, <1>5, <1>6 DEF SocialIInv, Typed

LEMMA SocialInductive == SocialIInv /\ [SocialNext]_socialVars => SocialIInv'
BY TypedStep, HistoryStep, PermittedStep, ChatStep DEF SocialIInv

\* A handler's request and the friend request it answers are what they are
\* taken for.
THEOREM SocialTypeCorrect == SocialSpec => []SocialTypeOK
<1>1. SocialIInv => SocialTypeOK
  BY TypeIsBoth DEF SocialIInv, Typed
<1> QED BY SocialInitial, SocialInductive, <1>1, PTL DEF SocialSpec

\* Nobody wrote without a reason that held when it was looked for.
THEOREM ChatHasReason == SocialSpec => []ChatWasAllowed
<1>1. SocialIInv => ChatWasAllowed
  BY DEF SocialIInv
<1> QED BY SocialInitial, SocialInductive, <1>1, PTL DEF SocialSpec

\* A friend request keeps its first answer.
THEOREM FirstAnswerStands == SocialSpec => AnswersStand
<1>1. SocialIInv /\ [SocialNext]_socialVars
        => [\A i \in DOMAIN asked :
              asked[i].status # "pending" => asked'[i] = asked[i]]_socialVars
  BY AnswersStay DEF SocialIInv
<1> QED BY SocialInitial, SocialInductive, <1>1, PTL DEF SocialSpec, AnswersStand

-----------------------------------------------------------------------------
(* The feed: posts and their media.  A post in the feed has an object nobody
   is about to unlink; so has one a moderator removed, who alone may bring it
   back; and an author's removal is final. *)

\* An upload that is not a post yet ...
FreshIsWhole(p) ==
    postStatus[p] = "none" =>
        /\ p \notin unlinked /\ ~removedBy[p]
        /\ p \in publishing => p \in media
\* ... one in the feed ...
VisibleIsWhole(p) ==
    postStatus[p] = "active" => p \in media /\ p \notin unlinked /\ ~removedBy[p]
\* ... and one a moderator removed.
RemovedIsWhole(p) ==
    removedBy[p] => p \in media /\ p \notin unlinked /\ postStatus[p] = "removed"

Whole(p) == FreshIsWhole(p) /\ VisibleIsWhole(p) /\ RemovedIsWhole(p)

FeedIInv ==
    /\ FeedTypeOK
    /\ purging \subseteq purged
    /\ \A p \in Post \ purged : Whole(p)

-----------------------------------------------------------------------------

LEMMA FeedInitial == FeedInit => FeedIInv
BY DEF FeedInit, FeedIInv, FeedTypeOK, Whole, FreshIsWhole, VisibleIsWhole, RemovedIsWhole

\* What a step about one post leaves of another.
SameBut(p) ==
    \A q \in Post \ {p} :
        /\ postStatus'[q] = postStatus[q] /\ removedBy'[q] = removedBy[q]
        /\ q \in media' <=> q \in media
        /\ q \in unlinked' <=> q \in unlinked
        /\ q \in publishing' <=> q \in publishing

LEMMA OthersStayWhole ==
    ASSUME NEW p \in Post, SameBut(p), purged \subseteq purged',
           p \notin purged' => Whole(p)',
           \A q \in Post \ purged : Whole(q)
    PROVE  \A q \in Post \ purged' : Whole(q)'
BY DEF SameBut, Whole, FreshIsWhole, VisibleIsWhole, RemovedIsWhole

FeedStep(p) ==
    \/ PublishStatted(p) \/ PublishedTwice(p) \/ Published(p) \/ AuthorDeletes(p)
    \/ \E ok \in BOOLEAN : ObjectUnlinked(p, ok)
    \/ Removed(p) \/ PostRestored(p)
    \/ PurgeBegins(p) \/ PurgeRemoves(p) \/ PurgeCommits(p) \/ PurgeFails(p)

LEMMA FeedTypeStep ==
    ASSUME FeedTypeOK, NEW p \in Post, FeedStep(p) PROVE FeedTypeOK' /\ SameBut(p)
<1>1. CASE PublishStatted(p)
  BY <1>1 DEF PublishStatted, FeedTypeOK, SameBut
<1>2. CASE PublishedTwice(p)
  BY <1>2 DEF PublishedTwice, FeedTypeOK, SameBut
<1>3. CASE Published(p)
  BY <1>3 DEF Published, FeedTypeOK, SameBut
<1>4. CASE AuthorDeletes(p)
  BY <1>4 DEF AuthorDeletes, FeedTypeOK, SameBut
<1>5. ASSUME NEW ok \in BOOLEAN, ObjectUnlinked(p, ok) PROVE FeedTypeOK' /\ SameBut(p)
  BY <1>5 DEF ObjectUnlinked, FeedTypeOK, SameBut
<1>6. CASE Removed(p)
  BY <1>6 DEF Removed, FeedTypeOK, SameBut
<1>7. CASE PostRestored(p)
  BY <1>7 DEF PostRestored, FeedTypeOK, SameBut
<1>8. CASE PurgeBegins(p) \/ PurgeFails(p)
  BY <1>8 DEF PurgeBegins, PurgeFails, FeedTypeOK, SameBut
<1>9. CASE PurgeRemoves(p)
  BY <1>9 DEF PurgeRemoves, FeedTypeOK, SameBut
<1>10. CASE PurgeCommits(p)
  BY <1>10 DEF PurgeCommits, FeedTypeOK, SameBut
<1> QED
  BY <1>1, <1>2, <1>3, <1>4, <1>5, <1>6, <1>7, <1>8, <1>9, <1>10 DEF FeedStep

\* A post no permanent deletion was begun for stays whole: a purge under way
\* is of a post that was.
LEMMA StaysWhole ==
    ASSUME FeedIInv, NEW p \in Post, FeedStep(p), p \notin purged'
    PROVE  Whole(p)'
<1> USE DEF Whole, FreshIsWhole, VisibleIsWhole, RemovedIsWhole
<1>1. FeedTypeOK /\ (p \notin purged => Whole(p) /\ p \notin purging)
  BY DEF FeedIInv
<1>2. CASE PublishStatted(p) \/ PublishedTwice(p)
  BY <1>1, <1>2 DEF PublishStatted, PublishedTwice
<1>3. CASE Published(p)
  BY <1>1, <1>3 DEF Published, FeedTypeOK
<1>4. CASE AuthorDeletes(p)
  BY <1>1, <1>4 DEF AuthorDeletes, FeedTypeOK
<1>5. ASSUME NEW ok \in BOOLEAN, ObjectUnlinked(p, ok) PROVE Whole(p)'
  BY <1>1, <1>5 DEF ObjectUnlinked, FeedTypeOK
<1>6. CASE Removed(p)
  BY <1>1, <1>6 DEF Removed, FeedTypeOK
<1>7. CASE PostRestored(p)
  BY <1>1, <1>7 DEF PostRestored, FeedTypeOK
<1>8. CASE PurgeBegins(p)
  BY <1>8 DEF PurgeBegins
<1>9. CASE PurgeRemoves(p) \/ PurgeCommits(p) \/ PurgeFails(p)
  BY <1>1, <1>9 DEF PurgeRemoves, PurgeCommits, PurgeFails
<1> QED
  BY <1>2, <1>3, <1>4, <1>5, <1>6, <1>7, <1>8, <1>9 DEF FeedStep

LEMMA PurgedGrows ==
    ASSUME FeedIInv, NEW p \in Post, FeedStep(p)
    PROVE  purged \subseteq purged' /\ purging' \subseteq purged'
BY DEF FeedIInv, FeedStep, PublishStatted, PublishedTwice, Published, AuthorDeletes,
   ObjectUnlinked, Removed, PostRestored, PurgeBegins, PurgeRemoves, PurgeCommits, PurgeFails

LEMMA FeedInductive == FeedIInv /\ [FeedNext]_feedVars => FeedIInv'
<1> SUFFICES ASSUME FeedIInv, [FeedNext]_feedVars PROVE FeedIInv'
  OBVIOUS
<1>1. ASSUME NEW p \in Post, FeedStep(p) PROVE FeedIInv'
  <2>1. FeedTypeOK' /\ SameBut(p)
    BY <1>1, FeedTypeStep DEF FeedIInv
  <2>2. purged \subseteq purged' /\ purging' \subseteq purged'
    BY <1>1, PurgedGrows
  <2>3. p \notin purged' => Whole(p)'
    BY <1>1, StaysWhole
  <2> QED BY <2>1, <2>2, <2>3, OthersStayWhole DEF FeedIInv
<1>2. CASE UNCHANGED feedVars
  BY <1>2 DEF feedVars, FeedIInv, FeedTypeOK, Whole, FreshIsWhole, VisibleIsWhole,
     RemovedIsWhole
<1> QED BY <1>1, <1>2 DEF FeedNext, FeedStep

-----------------------------------------------------------------------------
(* Theorem *)

\* A post in the feed has its media, unless its permanent deletion was begun.
THEOREM MediaOutlivesItsPost == FeedSpec => []VisiblePostHasMedia
<1>1. FeedIInv => VisiblePostHasMedia
  BY DEF FeedIInv, Whole, VisibleIsWhole, VisiblePostHasMedia
<1> QED BY FeedInitial, FeedInductive, <1>1, PTL DEF FeedSpec

-----------------------------------------------------------------------------
(* What an author is told of one viewer's taps.  A tap that is about to tell
   found nothing told, so those that are and what they told fit the taps; and
   without a race there is one at most, with nothing told before it. *)

TapsAt(where) == {t \in Tap : tap[t] = where}
ToldFits == told + Cardinality(TapsAt("telling")) <= Cardinality(Tap)
RemarkedFits == remarked + Cardinality(TapsAt("remarking")) <= Cardinality(Tap)

TapsFit == ResponseTypeOK /\ ToldFits /\ RemarkedFits

\* Taps that never raced went to tell one after another, and only the first
\* found nothing told.
InTurn(where, count) ==
    where \notin raced =>
        /\ count <= 1
        /\ \A t, o \in Tap : tap[t] = where /\ tap[o] = where => t = o /\ count = 0
FirstIsKept == "telling" \notin raced /\ ~forgot => ever = told
Quiet == InTurn("telling", told) /\ InTurn("remarking", remarked) /\ FirstIsKept

ResponseIInv == TapsFit /\ Quiet

LEMMA TapsAreFinite ==
    ASSUME NEW S \in SUBSET Tap
    PROVE  /\ IsFiniteSet(S) /\ Cardinality(S) \in Nat /\ Cardinality(Tap) \in Nat
           /\ Cardinality(S) <= Cardinality(Tap)
BY TapAssumption, FS_Subset, FS_CardinalityType

\* What a move does to the taps that stand somewhere.
LEMMA TapMoves ==
    ASSUME ResponseTypeOK, NEW t \in Tap, NEW from, NEW to, Moves(t, from, to), NEW where
    PROVE  TapsAt(where)' = IF to = where THEN TapsAt(where) \cup {t} ELSE TapsAt(where) \ {t}
BY DEF ResponseTypeOK, Moves, TapsAt

LEMMA TapLeaves ==
    ASSUME ResponseTypeOK, NEW t \in Tap, NEW from, NEW to, Moves(t, from, to),
           NEW where, to # where
    PROVE  /\ Cardinality(TapsAt(where)') \in Nat
           /\ Cardinality(TapsAt(where)') <= Cardinality(TapsAt(where))
           /\ from = where => Cardinality(TapsAt(where)') = Cardinality(TapsAt(where)) - 1
<1>1. TapsAt(where)' = TapsAt(where) \ {t} /\ TapsAt(where) \in SUBSET Tap
  BY TapMoves DEF TapsAt
<1>2. IsFiniteSet(TapsAt(where)) /\ IsFiniteSet(TapsAt(where)')
  BY <1>1, TapsAreFinite
<1>3. /\ Cardinality(TapsAt(where)') \in Nat
      /\ Cardinality(TapsAt(where)') <= Cardinality(TapsAt(where))
  BY <1>1, <1>2, FS_Subset, FS_CardinalityType
<1>4. ASSUME from = where
      PROVE  Cardinality(TapsAt(where)') = Cardinality(TapsAt(where)) - 1
  <2>1. t \in TapsAt(where)
    BY <1>4 DEF Moves, TapsAt
  <2> QED
    BY <1>1, <1>2, <2>1, FS_RemoveElement
<1> QED
  BY <1>3, <1>4

LEMMA ResponseTypeStep == ResponseTypeOK /\ [ResponseNext]_responseVars => ResponseTypeOK'
<1> SUFFICES ASSUME ResponseTypeOK, [ResponseNext]_responseVars PROVE ResponseTypeOK'
  OBVIOUS
<1> USE TapAssumption
<1> DEFINE Places == Want \cup {"idle", "liked", "commented", "counting", "telling", "remarking"}
<1>0. ASSUME NEW t \in Tap, NEW from, NEW to \in Places, Moves(t, from, to)
      PROVE  tap' \in [Tap -> Places]
  BY <1>0 DEF Moves, ResponseTypeOK
<1>1. CASE UNCHANGED responseVars
  BY <1>1 DEF responseVars, ResponseTypeOK
<1>2. ASSUME NEW t \in Tap, NEW want \in Want, PostSeen(t, want) PROVE ResponseTypeOK'
  BY <1>0, <1>2 DEF PostSeen, Rows, Notices, ResponseTypeOK
<1>3. ASSUME NEW t \in Tap, Liked(t) PROVE ResponseTypeOK'
  BY <1>0, <1>3 DEF Liked, Notices, ResponseTypeOK
<1>4. ASSUME NEW t \in Tap, Commented(t) PROVE ResponseTypeOK'
  BY <1>0, <1>4 DEF Commented, Notices, ResponseTypeOK
<1>5. ASSUME NEW t \in Tap, ShareCounted(t) PROVE ResponseTypeOK'
  BY <1>0, <1>5 DEF ShareCounted, Notices, ResponseTypeOK
<1>6. ASSUME NEW t \in Tap, NEW down \in BOOLEAN, ShareKeyed(t, down) PROVE ResponseTypeOK'
  BY <1>0, <1>6 DEF ShareKeyed, Notices, ResponseTypeOK
<1>7. ASSUME NEW t \in Tap, LikeLooked(t) PROVE ResponseTypeOK'
  BY <1>0, <1>7 DEF LikeLooked, WillTell, HasTold, Rows, Notices, ResponseTypeOK
<1>8. ASSUME NEW t \in Tap, LikeTold(t) PROVE ResponseTypeOK'
  BY <1>0, <1>8 DEF LikeTold, Rows, ResponseTypeOK
<1>9. ASSUME NEW t \in Tap, RemarkLooked(t) PROVE ResponseTypeOK'
  BY <1>0, <1>9 DEF RemarkLooked, WillTell, HasTold, Rows, Notices, ResponseTypeOK
<1>10. ASSUME NEW t \in Tap, RemarkTold(t) PROVE ResponseTypeOK'
  BY <1>0, <1>10 DEF RemarkTold, Rows, ResponseTypeOK
<1>11. ASSUME NEW t \in Tap, TapEnds(t) PROVE ResponseTypeOK'
  BY <1>11 DEF TapEnds, Rows, Notices, ResponseTypeOK
<1>12. CASE Unliked
  BY <1>12 DEF Unliked, Notices, ResponseTypeOK
<1>13. CASE CommentDeleted
  BY <1>13 DEF CommentDeleted, Notices, ResponseTypeOK
<1>14. CASE ShareKeyExpires
  BY <1>14 DEF ShareKeyExpires, Notices, ResponseTypeOK
<1>15. CASE RemarkAges
  BY <1>15 DEF RemarkAges, Rows, ResponseTypeOK
<1>16. CASE NoticeDeleted
  <2>1. told' \in Nat /\ remarked' \in Nat
    BY <1>16 DEF NoticeDeleted, ResponseTypeOK
  <2>2. forgot' \in BOOLEAN
    BY <1>16 DEF NoticeDeleted, ResponseTypeOK
  <2> QED
    BY <1>16, <2>1, <2>2 DEF NoticeDeleted, Rows, ResponseTypeOK
<1>17. CASE PostVisibilityChanges
  BY <1>17 DEF PostVisibilityChanges, Notices, ResponseTypeOK
<1>18. CASE PostGone
  <2>1. 0 \in 0 .. MaxComments
    OBVIOUS
  <2>2. comments' \in 0 .. MaxComments /\ post' \in {"shown", "hidden", "gone"} /\ liked' \in BOOLEAN
    BY <1>18, <2>1 DEF PostGone
  <2> QED
    BY <1>18, <2>2 DEF PostGone, Notices, ResponseTypeOK
<1> QED
  BY <1>1, <1>2, <1>3, <1>4, <1>5, <1>6, <1>7, <1>8, <1>9, <1>10, <1>11, <1>12, <1>13, <1>14,
     <1>15, <1>16, <1>17, <1>18 DEF ResponseNext

LEMMA CountsAreNaturals ==
    ASSUME ResponseTypeOK
    PROVE  /\ told \in Nat /\ remarked \in Nat /\ Cardinality(Tap) \in Nat
           /\ Cardinality(TapsAt("telling")) \in Nat /\ Cardinality(TapsAt("remarking")) \in Nat
BY TapsAreFinite DEF ResponseTypeOK, TapsAt

LEMMA FitStep == TapsFit /\ [ResponseNext]_responseVars => TapsFit'
<1> SUFFICES ASSUME TapsFit, [ResponseNext]_responseVars, ResponseTypeOK'
             PROVE  (ToldFits /\ RemarkedFits)'
  BY ResponseTypeStep DEF TapsFit
<1> DEFINE Goal == (ToldFits /\ RemarkedFits)'
<1>0. ResponseTypeOK /\ ToldFits /\ RemarkedFits
  BY DEF TapsFit
<1>n. /\ told \in Nat /\ remarked \in Nat /\ Cardinality(Tap) \in Nat
      /\ Cardinality(TapsAt("telling")) \in Nat /\ Cardinality(TapsAt("remarking")) \in Nat
  BY <1>0, CountsAreNaturals
\* Notifications only go, and no tap begins to tell.
<1>1. ASSUME UNCHANGED tap, told' \in Nat, told' <= told, remarked' \in Nat, remarked' <= remarked
      PROVE  Goal
  <2>1. TapsAt("telling")' = TapsAt("telling") /\ TapsAt("remarking")' = TapsAt("remarking")
    BY <1>1 DEF TapsAt
  <2> QED
    BY <1>0, <1>n, <1>1, <2>1 DEF ToldFits, RemarkedFits
<1>2. ASSUME NEW t \in Tap, NEW from, NEW to, Moves(t, from, to),
             to # "telling", to # "remarking", UNCHANGED Notices
      PROVE  Goal
  <2>1. /\ Cardinality(TapsAt("telling")') <= Cardinality(TapsAt("telling"))
        /\ Cardinality(TapsAt("telling")') \in Nat
        /\ Cardinality(TapsAt("remarking")') <= Cardinality(TapsAt("remarking"))
        /\ Cardinality(TapsAt("remarking")') \in Nat
    BY <1>0, <1>2, TapLeaves
  <2> QED
    BY <1>0, <1>n, <1>2, <2>1 DEF ToldFits, RemarkedFits, Notices
<1>3. CASE UNCHANGED responseVars
  BY <1>n, <1>1, <1>3 DEF responseVars
<1>4. ASSUME NEW t \in Tap, NEW want \in Want, PostSeen(t, want) PROVE Goal
  BY <1>2, <1>4 DEF PostSeen, Want
<1>5. ASSUME NEW t \in Tap,
             \/ Liked(t) \/ Commented(t) \/ ShareCounted(t)
             \/ \E down \in BOOLEAN : ShareKeyed(t, down)
      PROVE Goal
  BY <1>2, <1>5 DEF Liked, Commented, ShareCounted, ShareKeyed
<1>6. ASSUME NEW t \in Tap, LikeLooked(t) PROVE Goal
  <2>1. CASE told # 0
    BY <1>2, <1>6, <2>1 DEF LikeLooked, HasTold
  <2>2. CASE told = 0
    <3>1. Moves(t, "liked", "telling") /\ UNCHANGED <<told, remarked>>
      BY <1>6, <2>2 DEF LikeLooked, WillTell
    <3>2. /\ Cardinality(TapsAt("remarking")') <= Cardinality(TapsAt("remarking"))
          /\ Cardinality(TapsAt("remarking")') \in Nat
      BY <1>0, <3>1, TapLeaves
    <3>3. TapsAt("telling")' \in SUBSET Tap
      BY DEF TapsAt
    <3>4. /\ Cardinality(TapsAt("telling")') \in Nat
          /\ Cardinality(TapsAt("telling")') <= Cardinality(Tap)
      BY <3>3, TapsAreFinite
    <3> QED
      BY <1>0, <1>n, <2>2, <3>1, <3>2, <3>4 DEF ToldFits, RemarkedFits
  <2> QED
    BY <2>1, <2>2
<1>7. ASSUME NEW t \in Tap, LikeTold(t) PROVE Goal
  <2>1. Moves(t, "telling", "idle") /\ told' \in {told, told + 1} /\ UNCHANGED remarked
    BY <1>7 DEF LikeTold
  <2>2. /\ Cardinality(TapsAt("remarking")') <= Cardinality(TapsAt("remarking"))
        /\ Cardinality(TapsAt("remarking")') \in Nat
        /\ Cardinality(TapsAt("telling")') = Cardinality(TapsAt("telling")) - 1
    BY <1>0, <2>1, TapLeaves
  <2> QED
    BY <1>0, <1>n, <2>1, <2>2 DEF ToldFits, RemarkedFits
<1>8. ASSUME NEW t \in Tap, RemarkLooked(t) PROVE Goal
  <2>1. CASE remarked # 0
    BY <1>2, <1>8, <2>1 DEF RemarkLooked, HasTold
  <2>2. CASE remarked = 0
    <3>1. Moves(t, "commented", "remarking") /\ UNCHANGED <<told, remarked>>
      BY <1>8, <2>2 DEF RemarkLooked, WillTell
    <3>2. /\ Cardinality(TapsAt("telling")') <= Cardinality(TapsAt("telling"))
          /\ Cardinality(TapsAt("telling")') \in Nat
      BY <1>0, <3>1, TapLeaves
    <3>3. TapsAt("remarking")' \in SUBSET Tap
      BY DEF TapsAt
    <3>4. /\ Cardinality(TapsAt("remarking")') \in Nat
          /\ Cardinality(TapsAt("remarking")') <= Cardinality(Tap)
      BY <3>3, TapsAreFinite
    <3> QED
      BY <1>0, <1>n, <2>2, <3>1, <3>2, <3>4 DEF ToldFits, RemarkedFits
  <2> QED
    BY <2>1, <2>2
<1>9. ASSUME NEW t \in Tap, RemarkTold(t) PROVE Goal
  <2>1. Moves(t, "remarking", "idle") /\ remarked' \in {remarked, remarked + 1} /\ UNCHANGED told
    BY <1>9 DEF RemarkTold
  <2>2. /\ Cardinality(TapsAt("telling")') <= Cardinality(TapsAt("telling"))
        /\ Cardinality(TapsAt("telling")') \in Nat
        /\ Cardinality(TapsAt("remarking")') = Cardinality(TapsAt("remarking")) - 1
    BY <1>0, <2>1, TapLeaves
  <2> QED
    BY <1>0, <1>n, <2>1, <2>2 DEF ToldFits, RemarkedFits
<1>10. ASSUME NEW t \in Tap, TapEnds(t) PROVE Goal
  <2>1. Moves(t, tap[t], "idle") /\ UNCHANGED Notices
    BY <1>10 DEF TapEnds, Moves
  <2> QED
    BY <1>2, <2>1
<1>11. CASE Unliked \/ CommentDeleted \/ ShareKeyExpires \/ PostVisibilityChanges \/ PostGone
  BY <1>n, <1>1, <1>11 DEF Unliked, CommentDeleted, ShareKeyExpires, PostVisibilityChanges,
                           PostGone, Notices
<1>12. CASE RemarkAges \/ NoticeDeleted
  BY <1>n, <1>1, <1>12 DEF RemarkAges, NoticeDeleted
<1> QED
  BY <1>3, <1>4, <1>5, <1>6, <1>7, <1>8, <1>9, <1>10, <1>11, <1>12 DEF ResponseNext

LEMMA QuietStep ==
    ResponseTypeOK /\ Quiet /\ [ResponseNext]_responseVars => Quiet'
<1> SUFFICES ASSUME ResponseTypeOK, Quiet, [ResponseNext]_responseVars PROVE Quiet'
  OBVIOUS
<1>n. /\ told \in Nat /\ remarked \in Nat /\ tap \in [Tap -> Want \cup
             {"idle", "liked", "commented", "counting", "telling", "remarking"}]
  BY DEF ResponseTypeOK
\* Notifications only go, and no tap begins to tell.
<1>1. ASSUME told' \in Nat, told' <= told, remarked' \in Nat, remarked' <= remarked,
             raced' = raced, UNCHANGED <<told, ever, forgot>> \/ forgot',
             \A t \in Tap : tap'[t] \in {"telling", "remarking"} => tap'[t] = tap[t]
      PROVE  Quiet'
  <2>1. InTurn("telling", told)'
    BY <1>n, <1>1 DEF Quiet, InTurn
  <2>2. InTurn("remarking", remarked)'
    BY <1>n, <1>1 DEF Quiet, InTurn
  <2> QED
    BY <1>1, <2>1, <2>2 DEF Quiet, FirstIsKept
<1>2. ASSUME NEW t \in Tap, NEW from, NEW to, Moves(t, from, to),
             to # "telling", to # "remarking", UNCHANGED Notices
      PROVE  Quiet'
  <2>1. \A o \in Tap : tap'[o] \in {"telling", "remarking"} => tap'[o] = tap[o]
    BY <1>n, <1>2 DEF Moves
  <2> QED
    BY <1>n, <1>1, <1>2, <2>1 DEF Notices
<1>3. ASSUME UNCHANGED <<tap, ever, raced>>, told' \in Nat, told' <= told,
             remarked' \in Nat, remarked' <= remarked,
             UNCHANGED <<told, forgot>> \/ forgot'
      PROVE  Quiet'
  BY <1>1, <1>3
<1>4. CASE UNCHANGED responseVars
  BY <1>n, <1>3, <1>4 DEF responseVars
<1>5. ASSUME NEW t \in Tap,
             \/ \E want \in Want : PostSeen(t, want)
             \/ Liked(t) \/ Commented(t) \/ ShareCounted(t)
             \/ \E down \in BOOLEAN : ShareKeyed(t, down)
      PROVE  Quiet'
  BY <1>2, <1>5 DEF PostSeen, Want, Liked, Commented, ShareCounted, ShareKeyed
\* Whoever goes to tell finds nothing told, and no other there, or races.
<1>6. ASSUME NEW t \in Tap, LikeLooked(t) PROVE Quiet'
  <2>1. CASE told # 0
    BY <1>2, <1>6, <2>1 DEF LikeLooked, HasTold
  <2>2. CASE told = 0
    <3>1. /\ tap' = [tap EXCEPT ![t] = "telling"]
          /\ raced' = IF \E o \in Tap : tap[o] = "telling" THEN raced \cup {"telling"} ELSE raced
          /\ UNCHANGED <<told, remarked, ever, forgot>>
      BY <1>6, <2>2 DEF LikeLooked, WillTell, Moves
    <3>2. InTurn("telling", told)'
      BY <1>n, <2>2, <3>1 DEF Quiet, InTurn
    <3>3. InTurn("remarking", remarked)'
      BY <1>n, <3>1 DEF Quiet, InTurn
    <3> QED
      BY <3>1, <3>2, <3>3 DEF Quiet, FirstIsKept
  <2> QED
    BY <2>1, <2>2
<1>7. ASSUME NEW t \in Tap, LikeTold(t) PROVE Quiet'
  <2>1. /\ tap[t] = "telling" /\ tap' = [tap EXCEPT ![t] = "idle"]
        /\ UNCHANGED <<remarked, raced, forgot>>
        /\ \/ told' = told + 1 /\ ever' = IF ever = 0 THEN 1 ELSE 2
           \/ UNCHANGED <<told, ever>>
    BY <1>7 DEF LikeTold, Moves
  <2>2. "telling" \notin raced => told = 0 /\ \A o \in Tap : tap[o] = "telling" => o = t
    BY <2>1 DEF Quiet, InTurn
  <2>3. InTurn("telling", told)'
    BY <1>n, <2>1, <2>2 DEF InTurn
  <2>4. InTurn("remarking", remarked)'
    BY <1>n, <2>1 DEF Quiet, InTurn
  <2>5. FirstIsKept'
    BY <2>1, <2>2 DEF Quiet, FirstIsKept
  <2> QED
    BY <2>3, <2>4, <2>5 DEF Quiet
<1>8. ASSUME NEW t \in Tap, RemarkLooked(t) PROVE Quiet'
  <2>1. CASE remarked # 0
    BY <1>2, <1>8, <2>1 DEF RemarkLooked, HasTold
  <2>2. CASE remarked = 0
    <3>1. /\ tap' = [tap EXCEPT ![t] = "remarking"]
          /\ raced' = IF \E o \in Tap : tap[o] = "remarking"
                      THEN raced \cup {"remarking"} ELSE raced
          /\ UNCHANGED <<told, remarked, ever, forgot>>
      BY <1>8, <2>2 DEF RemarkLooked, WillTell, Moves
    <3>2. InTurn("remarking", remarked)'
      BY <1>n, <2>2, <3>1 DEF Quiet, InTurn
    <3>3. InTurn("telling", told)'
      BY <1>n, <3>1 DEF Quiet, InTurn
    <3> QED
      BY <3>1, <3>2, <3>3 DEF Quiet, FirstIsKept
  <2> QED
    BY <2>1, <2>2
<1>9. ASSUME NEW t \in Tap, RemarkTold(t) PROVE Quiet'
  <2>1. /\ tap[t] = "remarking" /\ tap' = [tap EXCEPT ![t] = "idle"]
        /\ UNCHANGED <<told, ever, raced, forgot>> /\ remarked' \in {remarked, remarked + 1}
    BY <1>9 DEF RemarkTold, Moves
  <2>2. "remarking" \notin raced =>
           remarked = 0 /\ \A o \in Tap : tap[o] = "remarking" => o = t
    BY <2>1 DEF Quiet, InTurn
  <2>3. InTurn("remarking", remarked)'
    BY <1>n, <2>1, <2>2 DEF InTurn
  <2>4. InTurn("telling", told)'
    BY <1>n, <2>1 DEF Quiet, InTurn
  <2> QED
    BY <2>1, <2>3, <2>4 DEF Quiet, FirstIsKept
<1>10. ASSUME NEW t \in Tap, TapEnds(t) PROVE Quiet'
  <2>1. Moves(t, tap[t], "idle") /\ UNCHANGED Notices
    BY <1>10 DEF TapEnds, Moves
  <2> QED
    BY <1>2, <2>1
<1>11. CASE Unliked \/ CommentDeleted \/ ShareKeyExpires \/ PostVisibilityChanges \/ PostGone
  BY <1>n, <1>3, <1>11 DEF Unliked, CommentDeleted, ShareKeyExpires, PostVisibilityChanges,
                           PostGone, Notices
<1>12. CASE RemarkAges \/ NoticeDeleted
  BY <1>n, <1>3, <1>12 DEF RemarkAges, NoticeDeleted
<1> QED
  BY <1>4, <1>5, <1>6, <1>7, <1>8, <1>9, <1>10, <1>11, <1>12 DEF ResponseNext

LEMMA FitStart == ResponseInit => TapsFit
<1> SUFFICES ASSUME ResponseInit PROVE TapsFit
  OBVIOUS
<1>1. ResponseTypeOK
  <2>1. 0 \in 0 .. MaxComments /\ 0 \in 0 .. MaxShares
    BY TapAssumption
  <2>2. tap \in [Tap -> Want \cup {"idle", "liked", "commented", "counting",
                                 "telling", "remarking"}]
    BY DEF ResponseInit
  <2>3. ever \in 0 .. 2
    BY DEF ResponseInit
  <2>4. raced \subseteq {"telling", "remarking"} /\ forgot \in BOOLEAN
    BY Zenon DEF ResponseInit
  <2> QED
    BY <2>1, <2>2, <2>3, <2>4 DEF ResponseInit, ResponseTypeOK
<1>2. TapsAt("telling") = {} /\ TapsAt("remarking") = {}
  BY DEF ResponseInit, TapsAt
<1>3. told = 0 /\ remarked = 0
  BY DEF ResponseInit
<1> QED
  <2>1. Cardinality(TapsAt("telling")) = 0 /\ Cardinality(TapsAt("remarking")) = 0
    BY <1>2, FS_EmptySet
  <2>2. Cardinality(Tap) \in Nat
    BY <1>1, CountsAreNaturals
  <2> QED
    BY <1>1, <1>3, <2>1, <2>2 DEF TapsFit, ToldFits, RemarkedFits

LEMMA QuietStart == ResponseInit => Quiet
BY DEF ResponseInit, Quiet, InTurn, FirstIsKept

LEMMA ResponseStart == ResponseInit => ResponseIInv
BY FitStart, QuietStart DEF ResponseIInv

LEMMA ResponseStep == ResponseIInv /\ [ResponseNext]_responseVars => ResponseIInv'
BY FitStep, QuietStep DEF ResponseIInv, TapsFit

LEMMA TapsFollow == ResponseIInv => TapsStayQuiet
<1> SUFFICES ASSUME TapsFit, Quiet PROVE TapsStayQuiet
  BY DEF ResponseIInv
<1>1. told <= Cardinality(Tap) /\ remarked <= Cardinality(Tap)
  BY CountsAreNaturals DEF TapsFit, ToldFits, RemarkedFits
<1>2. /\ told > 1 => "telling" \in raced
      /\ remarked > 1 => "remarking" \in raced
      /\ ever > 1 => "telling" \in raced \/ forgot
  BY DEF Quiet, InTurn, FirstIsKept, TapsFit, ResponseTypeOK
<1> QED
  BY <1>1, <1>2 DEF TapsStayQuiet

\* For any number of taps: a second like notification is written only where
\* two taps raced or the author deleted the first, and two stand only where
\* they raced; notifyLike and notifyComment of feed.routes.js look before
\* they tell.
THEOREM TapsAreQuiet == ResponseSpec => []TapsStayQuiet
BY ResponseStart, ResponseStep, TapsFollow, PTL DEF ResponseSpec

-----------------------------------------------------------------------------
(* Notifications: what a delivery clears is the token FCM refused, which FCM
   goes on refusing. *)

RefusedIsDead ==
    \A m \in Push : Stands(m, "refused") => push[m].token \in dead

PushIInv == PushTypeOK /\ RefusedIsDead

-----------------------------------------------------------------------------
(* Types *)

\* The initial state is typed, and no message is under way.
LEMMA PushInitial == PushInit => PushIInv
<1> SUFFICES ASSUME PushInit PROVE PushIInv
  OBVIOUS
<1>1. PushTypeOK
  BY DEF PushInit, PushTypeOK
<1>2. \A m \in Push : push[m] = Nil
  BY DEF PushInit
<1> QED BY <1>1, <1>2 DEF PushIInv, RefusedIsDead, Stands

\* A message delivered again, or acknowledged, is typed and not refused.
LEMMA OverIsTyped ==
    ASSUME PushTypeOK, NEW m \in Push, push[m] # Nil, Over(m)
    PROVE  /\ push' \in [Push -> Message \cup {Nil}]
           /\ push'[m] = Nil \/ push'[m].at = "queued"
           /\ \A n \in Push \ {m} : push'[n] = push[n]
<1>1. push[m] \in Message /\ push \in [Push -> Message \cup {Nil}]
  BY DEF PushTypeOK
<1>2. CASE Acknowledged(m)
  BY <1>1, <1>2 DEF Acknowledged
<1>3. CASE Redelivered(m)
  <2> DEFINE r == Queued(push[m].to, push[m].try + 1)
  <2>1. push[m].try \in 1 .. MaxTries /\ push[m].try < MaxTries /\ push[m].to \in Owner
    BY <1>1, <1>3 DEF Redelivered, Message
  <2>2. push[m].try + 1 \in 1 .. MaxTries
    BY <2>1, TriesAssumption
  <2>3. r \in Message /\ r.at = "queued"
    BY <2>1, <2>2 DEF Message, Queued
  <2>4. push' = [push EXCEPT ![m] = r]
    BY <1>3 DEF Redelivered
  <2> HIDE DEF r
  <2> QED BY <1>1, <2>3, <2>4
<1> QED BY <1>2, <1>3 DEF Over

\* Reading a token keeps the message's shape ...
LEMMA ReadIsTyped ==
    ASSUME PushTypeOK, NEW m \in Push, PushRead(m)
    PROVE  /\ push' \in [Push -> Message \cup {Nil}]
           /\ push'[m] = Nil \/ push'[m].at = "read"
<1> DEFINE t == onFile[push[m].to]
<1>1. push[m] \in Message
  BY DEF PushTypeOK, PushRead, Stands
<1>2. push[m].to \in Owner
  BY <1>1 DEF Message
<1>3. t \in Token \cup {Nil}
  BY <1>2 DEF PushTypeOK
<1>4. push' = IF t = Nil THEN [push EXCEPT ![m] = Nil]
              ELSE [push EXCEPT ![m].at = "read", ![m].token = t]
  BY DEF PushRead, Acknowledged
<1> HIDE DEF t
<1> QED BY <1>1, <1>3, <1>4 DEF PushTypeOK, Message

\* ... and so does FCM's refusal, with the token it refused.
LEMMA RefusedIsTyped ==
    ASSUME PushTypeOK, NEW m \in Push, TokenRefused(m)
    PROVE  push' \in [Push -> Message \cup {Nil}] /\ push'[m].token = push[m].token
<1>1. push[m] \in Message
  BY DEF PushTypeOK, TokenRefused, Stands
<1> QED BY <1>1 DEF PushTypeOK, Message, TokenRefused

\* Every step is typed.
LEMMA PushTypeStep == PushTypeOK /\ [PushNext]_pushVars => PushTypeOK'
<1> SUFFICES ASSUME PushTypeOK, [PushNext]_pushVars PROVE PushTypeOK'
  OBVIOUS
<1>1. ASSUME NEW e \in Enroll, NEW u \in Owner, NEW t \in Token, TokenTaken(e, u, t)
      PROVE PushTypeOK'
  BY <1>1 DEF TokenTaken, PushTypeOK, Claim
<1>2. ASSUME NEW e \in Enroll, TokenStored(e) PROVE PushTypeOK'
  <2>1. claim[e] \in Claim
    BY <1>2 DEF TokenStored, PushTypeOK
  <2>2. claim[e].by \in Owner /\ claim[e].token \in Token
    BY <2>1 DEF Claim
  <2> QED BY <1>2, <2>2 DEF TokenStored, PushTypeOK
<1>3. ASSUME NEW e \in Enroll, EnrollEnds(e) PROVE PushTypeOK'
  BY <1>3 DEF EnrollEnds, PushTypeOK
<1>4. ASSUME NEW u \in Owner, NEW t \in Token, TokenForgotten(u, t) PROVE PushTypeOK'
  BY <1>4 DEF TokenForgotten, PushTypeOK
<1>5. ASSUME NEW u \in Owner, OwnerLeaves(u) PROVE PushTypeOK'
  BY <1>5 DEF OwnerLeaves, PushTypeOK
<1>6. ASSUME NEW t \in Token, TokenDies(t) PROVE PushTypeOK'
  BY <1>6 DEF TokenDies, PushTypeOK
<1>7. ASSUME NEW m \in Push, NEW u \in Owner, PushQueued(m, u) PROVE PushTypeOK'
  <2>1. Queued(u, 1) \in Message
    BY TriesAssumption DEF Queued, Message
  <2> QED BY <1>7, <2>1 DEF PushQueued, PushTypeOK
<1>8. ASSUME NEW m \in Push, PushRead(m) PROVE PushTypeOK'
  BY <1>8, ReadIsTyped DEF PushRead, PushTypeOK
<1>9. ASSUME NEW m \in Push, AccessGranted(m) PROVE PushTypeOK'
  BY <1>9 DEF AccessGranted, PushTypeOK
<1>10. ASSUME NEW m \in Push, PushSent(m) PROVE PushTypeOK'
  BY <1>10, OverIsTyped DEF PushSent, Stands, PushTypeOK
<1>11. ASSUME NEW m \in Push, Unauthorized(m) PROVE PushTypeOK'
  BY <1>11, OverIsTyped DEF Unauthorized, Stands, PushTypeOK
<1>12. ASSUME NEW m \in Push, PushFails(m) PROVE PushTypeOK'
  BY <1>12, OverIsTyped DEF PushFails, Over, PushTypeOK
<1>13. ASSUME NEW m \in Push, TokenRefused(m) PROVE PushTypeOK'
  BY <1>13, RefusedIsTyped DEF TokenRefused, PushTypeOK
<1>14. ASSUME NEW m \in Push, StaleTokenCleared(m) PROVE PushTypeOK'
  <2>1. onFile' \in [Owner -> Token \cup {Nil}]
    BY <1>14 DEF StaleTokenCleared, PushTypeOK
  <2> QED BY <1>14, <2>1, OverIsTyped DEF StaleTokenCleared, Stands, PushTypeOK
<1>15. ASSUME AccessEnds PROVE PushTypeOK'
  BY <1>15 DEF AccessEnds, PushTypeOK
<1>16. CASE UNCHANGED pushVars
  BY <1>16 DEF pushVars, PushTypeOK
<1> QED
  BY <1>1, <1>2, <1>3, <1>4, <1>5, <1>6, <1>7, <1>8, <1>9, <1>10, <1>11, <1>12, <1>13,
     <1>14, <1>15, <1>16 DEF PushNext, TestPushed

-----------------------------------------------------------------------------
(* What FCM refused is dead *)

\* A step that leaves the messages alone leaves the refused ones refused.
LEMMA RefusedStays ==
    ASSUME RefusedIsDead, NEW n \in Push, push'[n] = push[n], dead \subseteq dead'
    PROVE  Stands(n, "refused")' => push'[n].token \in dead'
BY DEF RefusedIsDead, Stands

\* The messages over with are not refused, and the others stay.
LEMMA OverIsNotRefused ==
    ASSUME PushTypeOK, RefusedIsDead, NEW m \in Push, push[m] # Nil, Over(m), dead' = dead
    PROVE  RefusedIsDead'
<1>1. push'[m] = Nil \/ push'[m].at = "queued"
  BY OverIsTyped
<1>2. \A n \in Push \ {m} : push'[n] = push[n]
  BY OverIsTyped
<1> QED BY <1>1, <1>2, RefusedStays DEF RefusedIsDead, Stands

LEMMA RefusedStep == PushIInv /\ [PushNext]_pushVars => RefusedIsDead'
<1> SUFFICES ASSUME PushTypeOK, RefusedIsDead, [PushNext]_pushVars PROVE RefusedIsDead'
  BY DEF PushIInv
<1>1. ASSUME push' = push, dead \subseteq dead' PROVE RefusedIsDead'
  BY <1>1 DEF RefusedIsDead, Stands
<1>2. ASSUME NEW m \in Push, NEW u \in Owner, PushQueued(m, u) PROVE RefusedIsDead'
  <2>1. push'[m].at = "queued" /\ \A n \in Push \ {m} : push'[n] = push[n]
    BY <1>2 DEF PushQueued, Queued, PushTypeOK
  <2> QED BY <1>2, <2>1 DEF RefusedIsDead, Stands, PushQueued
<1>3. ASSUME NEW m \in Push, PushRead(m) PROVE RefusedIsDead'
  <2>1. push'[m] = Nil \/ push'[m].at = "read"
    BY <1>3, ReadIsTyped
  <2>2. \A n \in Push \ {m} : push'[n] = push[n]
    BY <1>3 DEF PushRead, Acknowledged, PushTypeOK
  <2> QED BY <1>3, <2>1, <2>2 DEF RefusedIsDead, Stands, PushRead
<1>4. ASSUME NEW m \in Push, TokenRefused(m) PROVE RefusedIsDead'
  <2>1. push'[m].token = push[m].token
    BY <1>4, RefusedIsTyped
  <2>2. \A n \in Push \ {m} : push'[n] = push[n]
    BY <1>4 DEF TokenRefused, PushTypeOK
  <2> QED BY <1>4, <2>1, <2>2 DEF RefusedIsDead, Stands, TokenRefused
<1>5. ASSUME NEW m \in Push,
             PushSent(m) \/ Unauthorized(m) \/ PushFails(m) \/ StaleTokenCleared(m)
      PROVE RefusedIsDead'
  BY <1>5, OverIsNotRefused DEF PushSent, Unauthorized, PushFails, StaleTokenCleared,
     Stands, Over
<1>6. ASSUME NEW e \in Enroll,
             \/ \E u \in Owner, t \in Token : TokenTaken(e, u, t)
             \/ TokenStored(e) \/ EnrollEnds(e)
      PROVE RefusedIsDead'
  BY <1>6, <1>1 DEF TokenTaken, TokenStored, EnrollEnds
<1>7. CASE \/ \E u \in Owner, t \in Token : TokenForgotten(u, t)
           \/ \E u \in Owner : OwnerLeaves(u)
           \/ \E t \in Token : TokenDies(t)
           \/ \E m \in Push : AccessGranted(m)
           \/ AccessEnds \/ UNCHANGED pushVars
  BY <1>7, <1>1 DEF TokenForgotten, OwnerLeaves, TokenDies, AccessGranted, AccessEnds,
     pushVars
<1> QED
  BY <1>2, <1>3, <1>4, <1>5, <1>6, <1>7 DEF PushNext, TestPushed

-----------------------------------------------------------------------------
(* Theorems *)

LEMMA PushInductive == PushIInv /\ [PushNext]_pushVars => PushIInv'
BY PushTypeStep, RefusedStep DEF PushIInv

\* The messages and registrations keep their shape.
THEOREM PushesTypeCorrect == PushSpec => []PushTypeOK
<1>1. PushIInv => PushTypeOK
  BY DEF PushIInv
<1> QED BY PushInitial, PushInductive, <1>1, PTL DEF PushSpec

\* One step of a delivery takes off file only a token FCM refuses.
LEMMA ClearsTheDead ==
    ASSUME PushIInv, [PushNext]_pushVars, push' # push, NEW v \in Owner,
           onFile[v] \in Token \ dead
    PROVE  onFile'[v] = onFile[v]
<1>1. ASSUME NEW m \in Push, StaleTokenCleared(m) PROVE onFile'[v] = onFile[v]
  <2>1. push[m].token \in dead
    BY <1>1 DEF StaleTokenCleared, PushIInv, RefusedIsDead
  <2>2. onFile' = [onFile EXCEPT ![push[m].to] =
                     IF @ = push[m].token THEN Nil ELSE @]
    BY <1>1 DEF StaleTokenCleared
  <2>3. onFile[v] # push[m].token
    BY <2>1
  <2> QED BY <2>2, <2>3 DEF PushIInv, PushTypeOK
<1>2. ~(\E e \in Enroll : \/ \E u \in Owner, t \in Token : TokenTaken(e, u, t)
                          \/ TokenStored(e) \/ EnrollEnds(e))
  BY DEF TokenTaken, TokenStored, EnrollEnds
<1>3. ~(\/ \E u \in Owner, t \in Token : TokenForgotten(u, t)
        \/ \E u \in Owner : OwnerLeaves(u))
  BY DEF TokenForgotten, OwnerLeaves
<1>4. CASE UNCHANGED onFile
  BY <1>4
<1>5. ASSUME NEW m \in Push,
             \/ \E u \in Owner : PushQueued(m, u)
             \/ PushRead(m) \/ AccessGranted(m) \/ PushSent(m) \/ Unauthorized(m)
             \/ PushFails(m) \/ TokenRefused(m)
      PROVE UNCHANGED onFile
  BY <1>5 DEF PushQueued, PushRead, AccessGranted, PushSent, Unauthorized, PushFails,
     TokenRefused
<1>6. (\E t \in Token : TokenDies(t)) \/ AccessEnds \/ UNCHANGED pushVars
        => UNCHANGED onFile
  BY DEF TokenDies, AccessEnds, pushVars
<1> QED
  BY <1>1, <1>2, <1>3, <1>4, <1>5, <1>6 DEF PushNext, TestPushed

\* A token registered while FCM was refusing the earlier one stays on file.
THEOREM RegisteredTokensStay == PushSpec => LiveTokenKept
<1>1. PushIInv /\ [PushNext]_pushVars
        => [push' # push =>
              \A u \in Owner : onFile[u] \in Token \ dead => onFile'[u] = onFile[u]]_pushVars
  BY ClearsTheDead
<1> QED BY PushInitial, PushInductive, <1>1, PTL DEF PushSpec, LiveTokenKept
=============================================================================
