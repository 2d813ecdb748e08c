------------------------------- MODULE SignIn -------------------------------
(***************************************************************************)
(* One-time codes of one identity (an email address or a phone number).    *)
(* The code, its attempt counter, the hourly send counter and the cooldown *)
(* are separate Redis keys: every command below is a step, and requests    *)
(* run between them.  Codes are numbered in the order they are stored.     *)
(***************************************************************************)
EXTENDS Integers, FiniteSets

CONSTANTS
    VerifyCall,     \* requests to POST /auth/otp/verify in flight
    MaxAttempts,    \* env.otp.maxAttempts
    MaxSends,       \* env.otp.maxSendsPerHour
    MaxCodes        \* bound: codes explored

ASSUME CodeLimitsAssumption == /\ MaxAttempts \in Nat \ {0} /\ MaxSends \in Nat \ {0}
                               /\ MaxCodes \in Nat
ASSUME VerifyCallAssumption == IsFiniteSet(VerifyCall)

Code == 1 .. MaxCodes
NoCode == 0

\* A slip worth ruling out: counting on past the limit.
Unsaturated(count, limit) == count + 1
\* INCR of a counter that is only asked whether it is over its limit.
Saturated(count, limit) == IF count > limit THEN count ELSE count + 1

VARIABLES
    otp,          \* otp:<identity>, the code whose hash is stored
    attempts,     \* otp_attempts:<identity>; 0 when there is no key
    attemptsBorn, \* codes stored when the attempts key got its TTL
    sends,        \* otp_sends:<identity>
    cooldown,     \* otp_cooldown:<identity> exists
    issued,       \* codes stored so far
    sender,       \* where the request to POST /auth/otp/send stands
    checking,     \* where a verify request stands
    guess,        \* the code a verify request carries; NoCode is a wrong one
    misses        \* history: comparisons with a code that failed

codeVars == <<otp, attempts, attemptsBorn, sends, cooldown, issued, sender,
              checking, guess, misses>>

CodeTypeOK ==
    /\ otp \in Code \cup {NoCode}
    /\ attempts \in 0 .. MaxAttempts + 1 /\ attemptsBorn \in 0 .. MaxCodes
    /\ sends \in 0 .. MaxSends + 1 /\ cooldown \in BOOLEAN
    /\ issued \in 0 .. MaxCodes
    /\ sender \in {"idle", "cooled", "counted", "stored", "sending"}
    /\ checking \in [VerifyCall -> {"idle", "over", "counted", "matched"}]
    /\ guess \in [VerifyCall -> Code \cup {NoCode}]
    /\ misses \in [Code -> Nat]

CodeInit ==
    /\ otp = NoCode /\ attempts = 0 /\ attemptsBorn = 0
    /\ sends = 0 /\ cooldown = FALSE /\ issued = 0 /\ sender = "idle"
    /\ checking = [v \in VerifyCall |-> "idle"]
    /\ guess = [v \in VerifyCall |-> NoCode]
    /\ misses = [n \in Code |-> 0]

-----------------------------------------------------------------------------
(* sendCode.  The cooldown outlives a request, so one is in flight. *)

\* SET cooldown NX.
SendBegins ==
    /\ sender = "idle" /\ ~cooldown
    /\ cooldown' = TRUE /\ sender' = "cooled"
    /\ UNCHANGED <<otp, attempts, attemptsBorn, sends, issued, checking, guess, misses>>

\* INCR sends; over the limit the request is refused and the cooldown stays.
SendCounted ==
    /\ sender = "cooled"
    /\ sends' = Saturated(sends, MaxSends)
    /\ sender' = IF sends < MaxSends THEN "counted" ELSE "idle"
    /\ UNCHANGED <<otp, attempts, attemptsBorn, cooldown, issued, checking, guess, misses>>

\* SETEX otp: a code replaces the one before it.
CodeStored ==
    /\ sender = "counted" /\ issued < MaxCodes
    /\ issued' = issued + 1 /\ otp' = issued + 1
    /\ sender' = "stored"
    /\ UNCHANGED <<attempts, attemptsBorn, sends, cooldown, checking, guess, misses>>

\* DEL attempts.
AttemptsReset ==
    /\ sender = "stored"
    /\ attempts' = 0 /\ sender' = "sending"
    /\ UNCHANGED <<otp, attemptsBorn, sends, cooldown, issued, checking, guess, misses>>

Delivered ==
    /\ sender = "sending" /\ sender' = "idle"
    /\ UNCHANGED <<otp, attempts, attemptsBorn, sends, cooldown, issued, checking,
                   guess, misses>>

\* DEL otp, cooldown.
DeliveryFailed ==
    /\ sender = "sending" /\ sender' = "idle"
    /\ otp' = NoCode /\ cooldown' = FALSE
    /\ UNCHANGED <<attempts, attemptsBorn, sends, issued, checking, guess, misses>>

SenderDies ==
    /\ sender # "idle" /\ sender' = "idle"
    /\ UNCHANGED <<otp, attempts, attemptsBorn, sends, cooldown, issued, checking,
                   guess, misses>>

-----------------------------------------------------------------------------
(* verifyCode *)

\* A slip worth ruling out: an attempt is counted and not refused.
AttemptUnlimited(v, g) ==
    /\ checking[v] = "idle"
    /\ attempts' = Saturated(attempts, MaxAttempts)
    /\ attemptsBorn' = IF attempts = 0 THEN issued ELSE attemptsBorn
    /\ guess' = [guess EXCEPT ![v] = g]
    /\ checking' = [checking EXCEPT ![v] = "counted"]
    /\ UNCHANGED <<otp, sends, cooldown, issued, sender, misses>>
\* INCR attempts, before anything is compared.
AttemptCounted(v, g) ==
    /\ checking[v] = "idle"
    /\ attempts' = Saturated(attempts, MaxAttempts)
    /\ attemptsBorn' = IF attempts = 0 THEN issued ELSE attemptsBorn
    /\ guess' = [guess EXCEPT ![v] = g]
    /\ checking' = [checking EXCEPT
                      ![v] = IF attempts < MaxAttempts THEN "counted" ELSE "over"]
    /\ UNCHANGED <<otp, sends, cooldown, issued, sender, misses>>

\* DEL otp of a request over the limit, whatever code is stored by then.
CodeDropped(v) ==
    /\ checking[v] = "over"
    /\ otp' = NoCode
    /\ checking' = [checking EXCEPT ![v] = "idle"]
    /\ UNCHANGED <<attempts, attemptsBorn, sends, cooldown, issued, sender, guess, misses>>

\* GET otp and the comparison.
CodeMatches(v) ==
    /\ checking[v] = "counted" /\ otp # NoCode /\ guess[v] = otp
    /\ checking' = [checking EXCEPT ![v] = "matched"]
    /\ UNCHANGED <<otp, attempts, attemptsBorn, sends, cooldown, issued, sender,
                   guess, misses>>

CodeMissed(v) ==
    /\ checking[v] = "counted" /\ otp # NoCode /\ guess[v] # otp
    /\ misses' = [misses EXCEPT ![otp] = @ + 1]
    /\ checking' = [checking EXCEPT ![v] = "idle"]
    /\ UNCHANGED <<otp, attempts, attemptsBorn, sends, cooldown, issued, sender, guess>>

\* GET found nothing.
CodeExpired(v) ==
    /\ checking[v] = "counted" /\ otp = NoCode
    /\ checking' = [checking EXCEPT ![v] = "idle"]
    /\ UNCHANGED <<otp, attempts, attemptsBorn, sends, cooldown, issued, sender,
                   guess, misses>>

\* DEL otp, attempts; then findOrCreateUser (module Accounts).
CodeUsed(v) ==
    /\ checking[v] = "matched"
    /\ otp' = NoCode /\ attempts' = 0
    /\ checking' = [checking EXCEPT ![v] = "idle"]
    /\ UNCHANGED <<attemptsBorn, sends, cooldown, issued, sender, guess, misses>>

VerifierDies(v) ==
    /\ checking[v] # "idle"
    /\ checking' = [checking EXCEPT ![v] = "idle"]
    /\ UNCHANGED <<otp, attempts, attemptsBorn, sends, cooldown, issued, sender,
                   guess, misses>>

-----------------------------------------------------------------------------
(* Expiry *)

OtpExpires ==
    /\ otp # NoCode /\ otp' = NoCode
    /\ UNCHANGED <<attempts, attemptsBorn, sends, cooldown, issued, sender, checking,
                   guess, misses>>

\* Both keys live for ttlSeconds: the counter's key goes after the code that
\* was stored when it was made.
AttemptsExpire ==
    /\ attempts > 0 /\ (otp = NoCode \/ otp > attemptsBorn)
    /\ attempts' = 0
    /\ UNCHANGED <<otp, attemptsBorn, sends, cooldown, issued, sender, checking,
                   guess, misses>>

CooldownExpires ==
    /\ cooldown /\ sender = "idle"
    /\ cooldown' = FALSE
    /\ UNCHANGED <<otp, attempts, attemptsBorn, sends, issued, sender, checking,
                   guess, misses>>

SendsExpire ==
    /\ sends > 0 /\ sends' = 0
    /\ UNCHANGED <<otp, attempts, attemptsBorn, cooldown, issued, sender, checking,
                   guess, misses>>

CodeNext ==
    \/ SendBegins \/ SendCounted \/ CodeStored \/ AttemptsReset
    \/ Delivered \/ DeliveryFailed \/ SenderDies
    \/ \E v \in VerifyCall :
         \/ \E g \in (1 .. issued) \cup {NoCode} : AttemptCounted(v, g)
         \/ CodeDropped(v) \/ CodeMatches(v) \/ CodeMissed(v) \/ CodeExpired(v)
         \/ CodeUsed(v) \/ VerifierDies(v)
    \/ OtpExpires \/ AttemptsExpire \/ CooldownExpires \/ SendsExpire

CodeSpec == CodeInit /\ [][CodeNext]_codeVars

-----------------------------------------------------------------------------
(* Properties *)

\* A code survives few wrong guesses, however requests interleave: what is left
\* of the window open when it was stored, the window that opens if that one's
\* key expires before the counter is reset, the one after the reset, and one
\* guess more from each request that was counted in an earlier window.
GuessesBounded ==
    \A n \in Code : misses[n] <= 3 * MaxAttempts - 1 + Cardinality(VerifyCall)
=============================================================================
