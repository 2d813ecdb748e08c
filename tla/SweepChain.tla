----------------------------- MODULE SweepChain -----------------------------
(***************************************************************************)
(* The chain of stale-call sweeps: messages keyed by minute, published by  *)
(* calls that start or tick, by the sweep itself while any call lives, and *)
(* once a day by cron.  The queue keeps a key long after its message was   *)
(* consumed, delivers at least once, and gives up after some deliveries.   *)
(***************************************************************************)
EXTENDS Integers, FiniteSets

CONSTANTS
    SweptCall,        \* calls
    SweepSlot,        \* messages of moco-sweep that may be outstanding at once
    SweepDeliveries   \* deliveries before the consumer acknowledges a failure (5)

ASSUME SweepAssumption == SweepDeliveries \in Nat \ {0}

VARIABLES
    standing,    \* "over", "started" (committed), "armed" (its ensureSweep returned)
    silent,      \* its tick chain died, or it rings unanswered: stale for the sweep
    aiming,      \* the bucket of an ensureSweep under way, from the current minute
    used,        \* idempotency keys published: of this minute and of the next
    sweeps,      \* the messages
    gaveUp       \* history: a message was acknowledged after its last failure

sweepVars == <<standing, silent, aiming, used, sweeps, gaveUp>>

NoBucket == -1
NoSweep == [at |-> "none"]
Minute == {0, 1}                  \* this one, the next

SweepMessage ==
    [at : {"waiting"}, wait : Minute, left : 1 .. SweepDeliveries]
    \cup [at : {"running", "swept", "live", "done"}, left : 1 .. SweepDeliveries]
    \cup [at : {"aiming"}, bucket : Minute, left : 1 .. SweepDeliveries]

SweepTypeOK ==
    /\ standing \in [SweptCall -> {"over", "started", "armed"}]
    /\ silent \in [SweptCall -> BOOLEAN] /\ aiming \in [SweptCall -> {NoBucket} \cup Minute]
    /\ used \in [Minute -> BOOLEAN] /\ gaveUp \in BOOLEAN
    /\ sweeps \in [SweepSlot -> SweepMessage \cup {NoSweep}]

SweepInit ==
    /\ standing = [c \in SweptCall |-> "over"] /\ silent = [c \in SweptCall |-> FALSE]
    /\ aiming = [c \in SweptCall |-> NoBucket] /\ used = [k \in Minute |-> FALSE]
    /\ sweeps = [s \in SweepSlot |-> NoSweep] /\ gaveUp = FALSE

Living == {c \in SweptCall : standing[c] # "over"}
Outstanding == {s \in SweepSlot : sweeps[s].at # "none"}
CallsStand == UNCHANGED <<standing, silent, aiming>>

-----------------------------------------------------------------------------
(* jobs.ensureSweep(delay) *)

\* A slip worth ruling out: the bucket always one minute ahead, as for the
\* callers that give no delay.
BucketAhead(delay) == 1

\* floor((now + delay) / 60): delay is 0 or one minute.
Bucket(delay) == delay

\* enqueue(): a key already published makes no message.
SendOnce(bucket, delay, msgs) ==
    IF used[bucket] THEN sweeps' = msgs /\ UNCHANGED used
    ELSE /\ used' = [used EXCEPT ![bucket] = TRUE]
         /\ \E s \in SweepSlot : msgs[s].at = "none"
         /\ sweeps' = [msgs EXCEPT ![CHOOSE s \in SweepSlot : msgs[s].at = "none"] =
                [at |-> "waiting", wait |-> delay, left |-> SweepDeliveries]]

-----------------------------------------------------------------------------
(* Calls *)

CallCommitted(c) ==
    /\ standing[c] = "over" /\ aiming[c] = NoBucket      \* an id that is not in use
    /\ standing' = [standing EXCEPT ![c] = "started"]
    /\ silent' = [silent EXCEPT ![c] = FALSE] /\ UNCHANGED <<aiming, used, sweeps, gaveUp>>

\* initiate after the commit, and every settled tick: Date.now() + 60 s.
SweepAimed(c) ==
    /\ standing[c] # "over" /\ ~silent[c] /\ aiming[c] = NoBucket
    /\ aiming' = [aiming EXCEPT ![c] = Bucket(1)]
    /\ UNCHANGED <<standing, silent, used, sweeps, gaveUp>>

SweepEnsured(c) ==
    /\ aiming[c] # NoBucket /\ aiming' = [aiming EXCEPT ![c] = NoBucket]
    /\ SendOnce(aiming[c], 1, sweeps)
    /\ standing' = IF standing[c] = "started" THEN [standing EXCEPT ![c] = "armed"]
                   ELSE standing
    /\ UNCHANGED <<silent, gaveUp>>

\* The instance stops before the message is sent, or the send throws.
SweepNotSent(c) ==
    /\ aiming[c] # NoBucket /\ aiming' = [aiming EXCEPT ![c] = NoBucket]
    /\ UNCHANGED <<standing, silent, used, sweeps, gaveUp>>

CallFallsSilent(c) == /\ standing[c] # "over" /\ silent' = [silent EXCEPT ![c] = TRUE]
                      /\ UNCHANGED <<standing, aiming, used, sweeps, gaveUp>>

\* endCall by a party, a tick or a block.
CallOver(c) == /\ standing[c] # "over" /\ standing' = [standing EXCEPT ![c] = "over"]
               /\ UNCHANGED <<silent, aiming, used, sweeps, gaveUp>>

-----------------------------------------------------------------------------
(* handleSweep *)

SweepDelivered(s) ==
    /\ sweeps[s].at = "waiting" /\ sweeps[s].wait = 0
    /\ sweeps' = [sweeps EXCEPT ![s] = [at |-> "running", left |-> @.left]]
    /\ UNCHANGED <<used, gaveUp>> /\ CallsStand

\* A slip worth ruling out: a call without Redis state taken for a fresh one.
SweptKeepsSilent(s) ==
    /\ sweeps[s].at = "running" /\ sweeps' = [sweeps EXCEPT ![s].at = "swept"]
    /\ UNCHANGED <<used, gaveUp>> /\ CallsStand

\* sweepStaleCalls: every stale call is ended.
Swept(s) ==
    /\ sweeps[s].at = "running" /\ sweeps' = [sweeps EXCEPT ![s].at = "swept"]
    /\ standing' = [c \in SweptCall |-> IF silent[c] THEN "over" ELSE standing[c]]
    /\ UNCHANGED <<silent, aiming, used, gaveUp>>

\* SELECT EXISTS ...: the chain goes on only while a call is live.
LiveLooked(s) ==
    /\ sweeps[s].at = "swept"
    /\ sweeps' = [sweeps EXCEPT ![s].at = IF Living # {} THEN "live" ELSE "done"]
    /\ UNCHANGED <<used, gaveUp>> /\ CallsStand

NextAimed(s) ==
    /\ sweeps[s].at = "live"
    /\ sweeps' = [sweeps EXCEPT ![s] =
           [at |-> "aiming", bucket |-> Bucket(1), left |-> @.left]]
    /\ UNCHANGED <<used, gaveUp>> /\ CallsStand

NextPublished(s) ==
    /\ sweeps[s].at = "aiming"
    /\ SendOnce(sweeps[s].bucket, 1,
                  [sweeps EXCEPT ![s] = [at |-> "done", left |-> @.left]])
    /\ UNCHANGED gaveUp /\ CallsStand

SweepAcked(s) == /\ sweeps[s].at = "done" /\ sweeps' = [sweeps EXCEPT ![s] = NoSweep]
                 /\ UNCHANGED <<used, gaveUp>> /\ CallsStand

\* It throws, the instance stops, or the acknowledgement is lost: again in 10
\* seconds, unless this was the last delivery.
SweepFails(s) ==
    /\ sweeps[s].at \notin {"none", "waiting"} /\ UNCHANGED used /\ CallsStand
    /\ IF sweeps[s].left = 1
       THEN sweeps' = [sweeps EXCEPT ![s] = NoSweep] /\ gaveUp' = TRUE
       ELSE /\ sweeps' = [sweeps EXCEPT ![s] =
                   [at |-> "waiting", wait |-> 0, left |-> @.left - 1]]
            /\ UNCHANGED gaveUp

-----------------------------------------------------------------------------
(* The clock, and the daily cron *)

CronEnsures == /\ SendOnce(Bucket(0), 0, sweeps) /\ UNCHANGED gaveUp /\ CallsStand

\* A minute is over.  Bounds: no message is published more than one minute
\* after its bucket was computed, and the queue lags only so far behind that
\* every key of the new minute still finds a slot.
MinutePasses ==
    /\ Cardinality(Outstanding) + (IF used[1] THEN 1 ELSE 2) <= Cardinality(SweepSlot)
    /\ \A c \in SweptCall : aiming[c] # 0
    /\ \A s \in SweepSlot : sweeps[s].at = "aiming" => sweeps[s].bucket # 0
    /\ used' = [k \in Minute |-> k = 0 /\ used[1]]
    /\ aiming' = [c \in SweptCall |-> IF aiming[c] = 1 THEN 0 ELSE aiming[c]]
    /\ sweeps' = [s \in SweepSlot |->
           IF sweeps[s].at = "waiting" THEN [sweeps[s] EXCEPT !.wait = 0]
           ELSE IF sweeps[s].at = "aiming" THEN [sweeps[s] EXCEPT !.bucket = 0]
           ELSE sweeps[s]]
    /\ UNCHANGED <<standing, silent, gaveUp>>

SweepNext ==
    \/ \E c \in SweptCall : \/ CallCommitted(c) \/ SweepAimed(c) \/ SweepEnsured(c)
                            \/ SweepNotSent(c) \/ CallFallsSilent(c) \/ CallOver(c)
    \/ \E s \in SweepSlot : \/ SweepDelivered(s) \/ Swept(s) \/ LiveLooked(s)
                            \/ NextAimed(s) \/ NextPublished(s) \/ SweepAcked(s)
                            \/ SweepFails(s)
    \/ CronEnsures \/ MinutePasses

\* What the queue, the cron and the clock go on doing; a run may fail any number
\* of times, but not for ever.
SweepSteps(s) == \/ SweepDelivered(s) \/ LiveLooked(s) \/ NextAimed(s)
                 \/ NextPublished(s) \/ SweepAcked(s)
SweepFairness ==
    /\ WF_sweepVars(MinutePasses) /\ WF_sweepVars(CronEnsures)
    /\ \A c \in SweptCall : WF_sweepVars(SweepEnsured(c))
    /\ \A s \in SweepSlot : WF_sweepVars(SweepSteps(s)) /\ SF_sweepVars(Swept(s))

SweepSpec == SweepInit /\ [][SweepNext]_sweepVars /\ SweepFairness

-----------------------------------------------------------------------------
(* Properties *)

\* jobs/index.js: a call whose ensureSweep returned has a sweep before it, one
\* not yet delivered or one that has still to look, as long as no message was
\* given up: a key that swallows a publication belongs to a message that will
\* see the call.
SweepIsArmed ==
    ~gaveUp => \A c \in SweptCall : standing[c] = "armed" =>
                   \E s \in SweepSlot : sweeps[s].at \notin {"none", "done"}

\* billing.engine.js: a call whose chain died is ended in the end, also when its
\* start died before it armed a sweep, or the chain of sweeps was given up.
StaleCallIsSwept ==
    \A c \in SweptCall :
        (standing[c] # "over" /\ silent[c]) ~> standing[c] = "over"
=============================================================================
