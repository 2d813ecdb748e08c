------------------------------- MODULE Pushes -------------------------------
(***************************************************************************)
(* Push notifications: which device token each account has on file, and    *)
(* the deliveries of the notification topic, which read a token, ask FCM   *)
(* and may find it dead.  What a push says is left out; so are the pushes  *)
(* sent while a request waits, which change nothing.                       *)
(***************************************************************************)
EXTENDS Integers

CONSTANTS
    Owner,       \* accounts
    Token,       \* what FCM gave installs of the app; a rotation is a new one
    Enroll,      \* POST /me/fcm-token under way
    Push,        \* messages of the notification topic under way
    MaxTries,    \* deliveries of a message; 4 in the code
    Nil          \* no token, no request, no message

ASSUME TriesAssumption == MaxTries \in Nat \ {0}

VARIABLES
    onFile,      \* users.fcm_token
    dead,        \* tokens FCM answers with 404, UNREGISTERED or INVALID_ARGUMENT
    claim,       \* registrations between their two statements
    push,        \* where a message's delivery stands
    access       \* the cached OAuth2 token of FCM

pushVars == <<onFile, dead, claim, push, access>>

Claim == [by : Owner, token : Token]
Message == [to : Owner, at : {"queued", "read", "refused"}, token : Token \cup {Nil},
            try : 1 .. MaxTries]

PushTypeOK ==
    /\ onFile \in [Owner -> Token \cup {Nil}]
    /\ dead \subseteq Token
    /\ claim \in [Enroll -> Claim \cup {Nil}]
    /\ push \in [Push -> Message \cup {Nil}]
    /\ access \in {"none", "good", "revoked"}

PushInit ==
    /\ onFile = [u \in Owner |-> Nil] /\ dead = {}
    /\ claim = [e \in Enroll |-> Nil] /\ push = [m \in Push |-> Nil] /\ access = "none"

-----------------------------------------------------------------------------
(* Devices *)

\* POST /users/me/fcm-token: the token leaves every other account ...
TokenTaken(e, u, t) ==
    /\ claim[e] = Nil
    /\ onFile' = [v \in Owner |-> IF v # u /\ onFile[v] = t THEN Nil ELSE onFile[v]]
    /\ claim' = [claim EXCEPT ![e] = [by |-> u, token |-> t]]
    /\ UNCHANGED <<dead, push, access>>
\* ... and goes on file.
TokenStored(e) ==
    /\ claim[e] # Nil
    /\ onFile' = [onFile EXCEPT ![claim[e].by] = claim[e].token]
    /\ claim' = [claim EXCEPT ![e] = Nil] /\ UNCHANGED <<dead, push, access>>
EnrollEnds(e) ==
    /\ claim[e] # Nil /\ claim' = [claim EXCEPT ![e] = Nil]
    /\ UNCHANGED <<onFile, dead, push, access>>

\* DELETE /users/me/fcm-token, of the token the app was signed in with.
TokenForgotten(u, t) ==
    /\ onFile[u] = t /\ onFile' = [onFile EXCEPT ![u] = Nil]
    /\ UNCHANGED <<dead, claim, push, access>>
\* DELETE /users/me.
OwnerLeaves(u) ==
    /\ onFile' = [onFile EXCEPT ![u] = Nil] /\ UNCHANGED <<dead, claim, push, access>>

\* The app is removed, FCM gives it another token, or takes the token or a
\* message to it for invalid, of which fcm.js tells no difference.
TokenDies(t) ==
    /\ t \notin dead /\ dead' = dead \cup {t} /\ UNCHANGED <<onFile, claim, push, access>>

-----------------------------------------------------------------------------
(* handleNotification *)

Queued(u, n) == [to |-> u, at |-> "queued", token |-> Nil, try |-> n]
PushQueued(m, u) ==
    /\ push[m] = Nil
    /\ push' = [push EXCEPT ![m] = Queued(u, 1)]
    /\ UNCHANGED <<onFile, dead, claim, access>>
\* POST /admin/users/:id/test-push, where a device is registered.
TestPushed(m, u) == onFile[u] # Nil /\ PushQueued(m, u)

\* A message is delivered again after a failure, and may be after a success.
Redelivered(m) ==
    /\ push[m].try < MaxTries
    /\ push' = [push EXCEPT ![m] = Queued(push[m].to, push[m].try + 1)]
Acknowledged(m) == push' = [push EXCEPT ![m] = Nil]
Over(m) == Acknowledged(m) \/ Redelivered(m)
Stands(m, at) == push[m] # Nil /\ push[m].at = at

PushRead(m) ==
    LET t == onFile[push[m].to] IN
    /\ Stands(m, "queued")
    /\ IF t = Nil THEN Acknowledged(m)
                  ELSE push' = [push EXCEPT ![m].at = "read", ![m].token = t]
    /\ UNCHANGED <<onFile, dead, claim, access>>

\* The token exchange; a failure of it fails the delivery.
AccessGranted(m) ==
    /\ Stands(m, "read") /\ access = "none" /\ access' = "good"
    /\ UNCHANGED <<onFile, dead, claim, push>>
AccessEnds ==
    /\ access # "none" /\ access' \in {"none", "revoked"}
    /\ UNCHANGED <<onFile, dead, claim, push>>

\* FCM takes it; of a dead token it may not know yet.
PushSent(m) ==
    /\ Stands(m, "read") /\ access = "good"
    /\ Over(m) /\ UNCHANGED <<onFile, dead, claim, access>>
\* 401: the access token is dropped, and the push with it.
Unauthorized(m) ==
    /\ Stands(m, "read") /\ access = "revoked" /\ access' = "none"
    /\ Over(m) /\ UNCHANGED <<onFile, dead, claim>>
\* 429, 5xx, no answer; the last delivery gives up.
PushFails(m) ==
    /\ push[m] # Nil
    /\ IF push[m].try < MaxTries THEN Redelivered(m) ELSE Acknowledged(m)
    /\ UNCHANGED <<onFile, dead, claim, access>>
\* 404, UNREGISTERED, INVALID_ARGUMENT.
TokenRefused(m) ==
    /\ Stands(m, "read") /\ access = "good" /\ push[m].token \in dead
    /\ push' = [push EXCEPT ![m].at = "refused"] /\ UNCHANGED <<onFile, dead, claim, access>>

\* A slip worth ruling out: whatever is on file by now is cleared.
AnyTokenCleared(m) ==
    /\ Stands(m, "refused")
    /\ onFile' = [onFile EXCEPT ![push[m].to] = Nil]
    /\ Over(m) /\ UNCHANGED <<dead, claim, access>>
\* UPDATE ... WHERE fcm_token = $2.
StaleTokenCleared(m) ==
    LET u == push[m].to IN
    /\ Stands(m, "refused")
    /\ onFile' = [onFile EXCEPT ![u] = IF @ = push[m].token THEN Nil ELSE @]
    /\ Over(m) /\ UNCHANGED <<dead, claim, access>>

PushNext ==
    \/ \E e \in Enroll :
         \/ \E u \in Owner, t \in Token : TokenTaken(e, u, t)
         \/ TokenStored(e) \/ EnrollEnds(e)
    \/ \E u \in Owner, t \in Token : TokenForgotten(u, t)
    \/ \E u \in Owner : OwnerLeaves(u)
    \/ \E t \in Token : TokenDies(t)
    \/ \E m \in Push :
         \/ \E u \in Owner : PushQueued(m, u) \/ TestPushed(m, u)
         \/ PushRead(m) \/ AccessGranted(m) \/ PushSent(m) \/ Unauthorized(m)
         \/ PushFails(m) \/ TokenRefused(m) \/ StaleTokenCleared(m)
    \/ AccessEnds

PushSpec == PushInit /\ [][PushNext]_pushVars

-----------------------------------------------------------------------------
(* Properties *)

\* A delivery takes off file only a token FCM has refused: one registered
\* while it was refusing the earlier one survives.
LiveTokenKept ==
    [][push' # push =>
         \A u \in Owner : onFile[u] \in Token \ dead => onFile'[u] = onFile[u]]_pushVars
=============================================================================
