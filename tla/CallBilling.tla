---------------------------- MODULE CallBilling ----------------------------
(***************************************************************************)
(* Paid calls end to end: the API requests that start, accept, end and     *)
(* block, the tick consumer that bills one minute per queue message, the   *)
(* stale-call sweep, and the Redis keys they share, over the transactions  *)
(* of CallStore.                                                           *)
(*                                                                         *)
(* Every process is cut where the code awaits something another process    *)
(* can see: between two transactions, between a transaction and a Redis    *)
(* command, between the handler's work and the acknowledgement of its      *)
(* message.  The queue is at-least-once: a message stays deliverable, also *)
(* to a second consumer at the same time, until it is acknowledged.        *)
(***************************************************************************)
EXTENDS CallStore, Functions

CONSTANTS
    Worker,         \* concurrent invocations of the tick consumer
    NoWorker,       \* "no key": nobody holds a call's tick lock
    NoJob,          \* what an idle consumer works on
    MaxDeliveries,  \* deliveries of one message before it is given up (8)
    MaxRequests,    \* bound: end requests of clients and webhook in flight
    ClientReasons,  \* bound: the reasons of theirs that are explored
    BlockPairs,     \* bound: the <<blocker, blocked>> pairs explored
    Adjustments,    \* bound: the <<user, coins>> credited or debited at once
    MaxFunded       \* bound: coins a user's top-ups may add up to

Job == [call : Call, minute : Minute]
Request == [call : Call, reason : Reason]

ASSUME WorkersAssumption ==
    /\ NoWorker \notin Worker
    /\ NoJob \notin Job
    /\ MaxDeliveries \in Nat \ {0}

ASSUME EnvironmentAssumption ==
    /\ MaxRequests \in Nat
    /\ ClientReasons \subseteq Reason
    /\ BlockPairs \subseteq User \X User
    /\ Adjustments \subseteq User \X (Nat \ {0})
    /\ MaxFunded \in Nat

VARIABLES
    attempt,   \* initiate: checks passed, claim transaction still to come
    accepting, \* accept: the step an accept request has reached
    ending,    \* end requests that chose their reason, endCall still to come
    clearing,  \* endCall committed, DEL of the call's Redis state to come
    sweep,     \* rows a running sweep has read and not yet looked at
    old,       \* live calls started, or created if unanswered, over 180 s ago
    fresh,     \* calls whose Redis state has a last_tick_ts within 180 s
    lock,      \* Redis call:<id>:lock: the consumer whose token it holds
    sent,      \* tick messages ever published, by idempotency key
    acked,     \* tick messages acknowledged
    left,      \* deliveries a published message has left
    at,        \* the step a consumer has reached
    job,       \* the message a consumer works on
    outcome    \* what settleTick is about to return to a consumer

apiVars    == <<attempt, accepting, ending, clearing>>
sweepVars  == <<sweep, old>>
redisVars  == <<fresh, lock>>
queueVars  == <<sent, acked, left>>
workerVars == <<at, job, outcome>>
vars == <<storeVars, apiVars, sweepVars, redisVars, queueVars, workerVars>>

AcceptStep == {"none", "init", "burn", "schedule"}
WorkerStep == {"idle", "load", "settle", "record", "release", "reload",
               "chain", "force", "clear", "ack"}
Outcome == {"none", "billed", "insufficient", "duplicate", "not_active"}

ApiTypeOK ==
    /\ attempt \in [User -> Party \cup {NoParty}]
    /\ accepting \in [Call -> AcceptStep]
    /\ ending \subseteq Request
    /\ clearing \subseteq Call

SweepTypeOK == sweep \subseteq Request /\ old \subseteq Call

RedisTypeOK == fresh \subseteq Call /\ lock \in [Call -> Worker \cup {NoWorker}]

QueueTypeOK ==
    /\ sent \in [Call -> SUBSET Minute]
    /\ acked \in [Call -> SUBSET Minute]
    /\ left \in [Call -> [Minute -> 0 .. MaxDeliveries]]

WorkerTypeOK ==
    /\ at \in [Worker -> WorkerStep]
    /\ job \in [Worker -> Job \cup {NoJob}]
    /\ \A w \in Worker : at[w] # "idle" => job[w] \in Job
    /\ outcome \in [Worker -> Outcome]

TypeOK ==
    /\ StoreTypeOK
    /\ ApiTypeOK
    /\ SweepTypeOK
    /\ RedisTypeOK
    /\ QueueTypeOK
    /\ WorkerTypeOK

Init ==
    /\ StoreInit
    /\ attempt = [u \in User |-> NoParty]
    /\ accepting = [c \in Call |-> "none"]
    /\ ending = {}
    /\ clearing = {}
    /\ sweep = {}
    /\ old = {}
    /\ fresh = {}
    /\ lock = [c \in Call |-> NoWorker]
    /\ sent = [c \in Call |-> {}]
    /\ acked = [c \in Call |-> {}]
    /\ left = [c \in Call |-> [m \in Minute |-> 0]]
    /\ at = [w \in Worker |-> "idle"]
    /\ job = [w \in Worker |-> NoJob]
    /\ outcome = [w \in Worker |-> "none"]

-----------------------------------------------------------------------------
(* Starting a call (calls.service.js: initiate) *)

\* The block check and the pre-flight read the store and leave no mark on it.
InitiateCheck(u, l, t) ==
    /\ attempt[u] = NoParty
    /\ u # l
    /\ ~Blocked(u, l)
    /\ PreflightOk(u, t)
    /\ attempt' = [attempt EXCEPT ![u] =
                     [caller |-> u, listener |-> l, type |-> t,
                      free |-> ~trialUsed[u]]]
    /\ UNCHANGED <<storeVars, accepting, ending, clearing, sweepVars,
                   redisVars, queueVars, workerVars>>

\* The claim transaction, on what the checks answered earlier.
InitiateClaim(u, c) ==
    /\ attempt[u] # NoParty
    /\ ClaimTx(c, attempt[u])
    /\ attempt' = [attempt EXCEPT ![u] = NoParty]
    /\ UNCHANGED <<accepting, ending, clearing, sweepVars, redisVars,
                   queueVars, workerVars>>

\* The listener is busy, offline or not eligible, or the request died.
InitiateRefused(u) ==
    /\ attempt[u] # NoParty
    /\ attempt' = [attempt EXCEPT ![u] = NoParty]
    /\ UNCHANGED <<storeVars, accepting, ending, clearing, sweepVars,
                   redisVars, queueVars, workerVars>>

-----------------------------------------------------------------------------
(* The tick topic (jobs/index.js) *)

\* scheduleTick: the idempotency key collapses a second publish of a minute.
\* Minutes beyond MaxMinute are not explored.
ScheduleTick(c, m) ==
    LET new == m \in Minute \ sent[c] IN
    /\ sent' = IF new THEN [sent EXCEPT ![c] = @ \cup {m}] ELSE sent
    /\ left' = IF new THEN [left EXCEPT ![c][m] = MaxDeliveries] ELSE left
    /\ UNCHANGED acked

-----------------------------------------------------------------------------
(* Accepting a call (calls.service.js: accept) *)

Accept(c) ==
    /\ AcceptTx(c)
    /\ accepting' = [accepting EXCEPT ![c] = "init"]
    /\ old' = old \ {c}
    /\ UNCHANGED <<attempt, ending, clearing, sweep, redisVars, queueVars,
                   workerVars>>

\* initCallState: HSET with last_tick_ts = now, then EXPIRE.
AcceptInitState(c) ==
    /\ accepting[c] = "init"
    /\ fresh' = fresh \cup {c}
    /\ accepting' = [accepting EXCEPT
                       ![c] = IF party[c].free THEN "burn" ELSE "schedule"]
    /\ UNCHANGED <<storeVars, attempt, ending, clearing, sweepVars, lock,
                   queueVars, workerVars>>

AcceptBurnTrial(c) ==
    /\ accepting[c] = "burn"
    /\ BurnTrialTx(c)
    /\ accepting' = [accepting EXCEPT ![c] = "schedule"]
    /\ UNCHANGED <<attempt, ending, clearing, sweepVars, redisVars,
                   queueVars, workerVars>>

\* The bug: the first minute is taken to be paid by answering.
AcceptScheduleSecond(c) ==
    /\ accepting[c] = "schedule"
    /\ ScheduleTick(c, 2)
    /\ accepting' = [accepting EXCEPT ![c] = "none"]
    /\ UNCHANGED <<storeVars, attempt, ending, clearing, sweepVars,
                   redisVars, workerVars>>
AcceptSchedule(c) ==
    /\ accepting[c] = "schedule"
    /\ ScheduleTick(c, 1)
    /\ accepting' = [accepting EXCEPT ![c] = "none"]
    /\ UNCHANGED <<storeVars, attempt, ending, clearing, sweepVars,
                   redisVars, workerVars>>

\* The request fails or its instance dies between two of these steps.
AcceptDies(c) ==
    /\ accepting[c] # "none"
    /\ accepting' = [accepting EXCEPT ![c] = "none"]
    /\ UNCHANGED <<storeVars, attempt, ending, clearing, sweepVars,
                   redisVars, queueVars, workerVars>>

-----------------------------------------------------------------------------
(* Ending a call (calls.service.js: end, the Agora webhook, endCall) *)

\* The reason end() derives from the status it reads, for a request without
\* one; a client may also name "rejected" or "disconnect" itself.
EndReasons(c) ==
    IF status[c] = "ringing"
    THEN {"rejected", "disconnect"}
    ELSE {"hangup", "rejected", "disconnect"}

\* end() has read the row and chosen a reason; so has the webhook, which
\* always says "disconnect".  A call that is already over is left alone later.
EndRequested(c, reason) ==
    /\ Live(c)
    /\ reason \in EndReasons(c)
    /\ Cardinality(ending) < MaxRequests
    /\ ending' = ending \cup {[call |-> c, reason |-> reason]}
    /\ UNCHANGED <<storeVars, attempt, accepting, clearing, sweepVars,
                   redisVars, queueVars, workerVars>>

\* endCall's transaction.  The first to get here ends the call and goes on to
\* clear its Redis state; whoever comes later finds it already over.
EndCall(r) ==
    /\ r \in ending
    /\ ending' = ending \ {r}
    /\ \/ /\ EndTx(r.call, r.reason)
          /\ clearing' = clearing \cup {r.call}
          /\ old' = old \ {r.call}
       \/ /\ Over(r.call)
          /\ UNCHANGED <<storeVars, clearing, old>>
    /\ UNCHANGED <<attempt, accepting, sweep, redisVars, queueVars,
                   workerVars>>

\* The request dies, or its transaction fails and rolls back.
EndRequestDies(r) ==
    /\ r \in ending
    /\ ending' = ending \ {r}
    /\ UNCHANGED <<storeVars, attempt, accepting, clearing, sweepVars,
                   redisVars, queueVars, workerVars>>

\* clearCallState after the commit, or a death in between that skips it.
ClearCallState(c) ==
    /\ c \in clearing
    /\ clearing' = clearing \ {c}
    /\ \/ fresh' = fresh \ {c}
       \/ UNCHANGED fresh
    /\ UNCHANGED <<storeVars, attempt, accepting, ending, sweepVars, lock,
                   queueVars, workerVars>>

-----------------------------------------------------------------------------
(* Safety and wallet requests that touch calls *)

Block(u, v) ==
    /\ u # v
    /\ BlockTx(u, v)
    /\ old' = {c \in old : ~Between(c, u, v)}
    /\ UNCHANGED <<apiVars, sweep, redisVars, queueVars, workerVars>>

Unblock(u, v) ==
    /\ <<u, v>> \in blocks
    /\ UnblockTx(u, v)
    /\ UNCHANGED <<apiVars, sweepVars, redisVars, queueVars, workerVars>>

Credit(u, n) ==
    /\ funded[u] + n <= MaxFunded
    /\ CreditTx(u, n)
    /\ UNCHANGED <<apiVars, sweepVars, redisVars, queueVars, workerVars>>

AdjustDown(u, n) ==
    /\ DebitTx(u, n)
    /\ UNCHANGED <<apiVars, sweepVars, redisVars, queueVars, workerVars>>

-----------------------------------------------------------------------------
(* The tick consumer (tick.worker.js around billing.settleTick) *)

Works(w, step) == at[w] = step
Goes(w, step) == at' = [at EXCEPT ![w] = step]

\* The queue counts deliveries and gives a message up; the bug: it does not.
TakeAnyDelivery(c, m) == UNCHANGED left
TakeDelivery(c, m) == left' = [left EXCEPT ![c][m] = @ - 1]

\* A delivery, up to the SET NX PX of the call's lock.  Finding it held
\* answers "locked", and the handler goes straight to chaining.
Deliver(w, c, m) ==
    LET free == lock[c] = NoWorker IN
    /\ Works(w, "idle")
    /\ m \in sent[c] \ acked[c]
    /\ left[c][m] > 0
    /\ TakeDelivery(c, m)
    /\ job' = [job EXCEPT ![w] = [call |-> c, minute |-> m]]
    /\ lock' = IF free THEN [lock EXCEPT ![c] = w] ELSE lock
    /\ Goes(w, IF free THEN "load" ELSE "chain")
    /\ UNCHANGED <<storeVars, apiVars, sweepVars, fresh, sent, acked,
                   outcome>>

\* loadLiveCall, before the transaction.
LoadLiveCall(w) ==
    LET active == status[job[w].call] = "active" IN
    /\ Works(w, "load")
    /\ Goes(w, IF active THEN "settle" ELSE "release")
    /\ outcome' = [outcome EXCEPT ![w] = IF active THEN @ ELSE "not_active"]
    /\ UNCHANGED <<storeVars, apiVars, sweepVars, redisVars, queueVars, job>>

\* The transaction.  Every refusal rolls back, so only "billed" writes.
Settle(w) ==
    LET c == job[w].call
        m == job[w].minute
        answer == SettleOutcome(c, m) IN
    /\ Works(w, "settle")
    /\ outcome' = [outcome EXCEPT ![w] = answer]
    /\ \/ /\ answer = "billed"
          /\ BillTx(c, m)
          /\ Goes(w, "record")
       \/ /\ answer # "billed"
          /\ Rollback(c)
          /\ Goes(w, "release")
    /\ UNCHANGED <<apiVars, sweepVars, redisVars, queueVars, job>>

\* HSET after the commit.  It refreshes last_tick_ts, and creates the key anew
\* where the call's end has just deleted it.
RecordTick(w) ==
    /\ Works(w, "record")
    /\ fresh' = fresh \cup {job[w].call}
    /\ Goes(w, "release")
    /\ UNCHANGED <<storeVars, apiVars, sweepVars, lock, queueVars,
                   job, outcome>>

\* What handleTick does with settleTick's answer; the bug: a minute someone
\* else billed is dropped without keeping the chain alive.
HandlingDropsDuplicate(answer) ==
    CASE answer = "billed" -> "reload"
      [] answer = "insufficient" -> "force"
      [] OTHER -> "ack"
Handling(answer) ==
    CASE answer = "billed" -> "reload"
      [] answer = "insufficient" -> "force"
      [] answer = "duplicate" -> "chain"
      [] OTHER -> "ack"

\* finally: compare-and-delete.  An error of that command is swallowed, which
\* leaves the lock to expire.
ReleaseLock(w) ==
    LET c == job[w].call IN
    /\ Works(w, "release")
    /\ \/ lock' = [lock EXCEPT ![c] = IF @ = w THEN NoWorker ELSE @]
       \/ UNCHANGED lock
    /\ Goes(w, Handling(outcome[w]))
    /\ outcome' = [outcome EXCEPT ![w] = "none"]
    /\ UNCHANGED <<storeVars, apiVars, sweepVars, fresh,
                   queueVars, job>>

\* After a billed minute: no events and no next tick for a call that is over.
ReloadCall(w) ==
    /\ Works(w, "reload")
    /\ Goes(w, IF status[job[w].call] = "active" THEN "chain" ELSE "ack")
    /\ UNCHANGED <<storeVars, apiVars, sweepVars, redisVars, queueVars, job,
                   outcome>>

ChainNextTick(w) ==
    /\ Works(w, "chain")
    /\ ScheduleTick(job[w].call, job[w].minute + 1)
    /\ Goes(w, "ack")
    /\ UNCHANGED <<storeVars, apiVars, sweepVars, redisVars, job, outcome>>

\* Out of coins: endCall from the worker, which then clears the Redis state
\* itself if it was the one that ended the call.
ForceEnd(w) ==
    LET c == job[w].call IN
    /\ Works(w, "force")
    /\ \/ /\ EndTx(c, "insufficient_balance")
          /\ old' = old \ {c}
          /\ Goes(w, "clear")
       \/ /\ Over(c)
          /\ UNCHANGED <<storeVars, old>>
          /\ Goes(w, "ack")
    /\ UNCHANGED <<apiVars, sweep, redisVars, queueVars, job, outcome>>

ForceClear(w) ==
    /\ Works(w, "clear")
    /\ fresh' = fresh \ {job[w].call}
    /\ Goes(w, "ack")
    /\ UNCHANGED <<storeVars, apiVars, sweepVars, lock, queueVars, job,
                   outcome>>

BecomesIdle(w) ==
    /\ Goes(w, "idle")
    /\ job' = [job EXCEPT ![w] = NoJob]
    /\ outcome' = [outcome EXCEPT ![w] = "none"]

\* The handler returned, so the queue drops the message.
Acknowledge(w) ==
    /\ Works(w, "ack")
    /\ acked' = [acked EXCEPT ![job[w].call] = @ \cup {job[w].minute}]
    /\ BecomesIdle(w)
    /\ UNCHANGED <<storeVars, apiVars, sweepVars, redisVars, sent, left>>

\* The handler throws, and releases the lock on the way out, or its instance
\* dies with the lock held.  Either way the message is not acknowledged; it is
\* delivered again while deliveries are left.
TickFails(w) ==
    /\ ~Works(w, "idle")
    /\ \/ lock' = [lock EXCEPT ![job[w].call] = IF @ = w THEN NoWorker ELSE @]
       \/ UNCHANGED lock
    /\ BecomesIdle(w)
    /\ UNCHANGED <<storeVars, apiVars, sweepVars, fresh,
                   queueVars>>

-----------------------------------------------------------------------------
(* The stale-call sweep (billing.sweepStaleCalls) *)

\* The rows of the query; the bugs: only active calls, or only ringing ones.
StaleActiveRows == {c \in Call : status[c] = "active" /\ c \in old}
StaleRingingRows == {c \in Call : status[c] = "ringing" /\ c \in old}
StaleRows == {c \in Call : Live(c) /\ c \in old}

\* The query, with the reason each row will be ended for.
SweepQuery ==
    /\ sweep = {}
    /\ StaleRows # {}
    /\ sweep' = {[call |-> c,
                  reason |-> IF status[c] = "ringing" THEN "timeout"
                                                      ELSE "disconnect"]
                   : c \in StaleRows}
    /\ UNCHANGED <<storeVars, apiVars, old, redisVars, queueVars, workerVars>>

\* getCallState of one row: leave a freshly ticked call alone, end any other.
SweepRow(r) ==
    /\ r \in sweep
    /\ sweep' = sweep \ {r}
    /\ ending' = IF r.call \in fresh THEN ending ELSE ending \cup {r}
    /\ UNCHANGED <<storeVars, attempt, accepting, clearing, old, redisVars,
                   queueVars, workerVars>>

SweepDies ==
    /\ sweep # {}
    /\ sweep' = {}
    /\ UNCHANGED <<storeVars, apiVars, old, redisVars, queueVars, workerVars>>

-----------------------------------------------------------------------------
(* Time, and the keys Redis expires *)

\* 180 s since started_at, or since created_at of a call nobody answered.
CallGrowsOld(c) ==
    /\ Live(c) /\ c \notin old
    /\ old' = old \cup {c}
    /\ UNCHANGED <<storeVars, apiVars, sweep, redisVars, queueVars, workerVars>>

\* 180 s since last_tick_ts, or the key expired or was lost with Redis.
StateGrowsStale(c) ==
    /\ c \in fresh
    /\ fresh' = fresh \ {c}
    /\ UNCHANGED <<storeVars, apiVars, sweepVars, lock, queueVars, workerVars>>

\* 10 s since the lock was taken, whether or not its holder still runs.
LockExpires(c) ==
    /\ lock[c] # NoWorker
    /\ lock' = [lock EXCEPT ![c] = NoWorker]
    /\ UNCHANGED <<storeVars, apiVars, sweepVars, fresh,
                   queueVars, workerVars>>

-----------------------------------------------------------------------------
Api ==
    \/ \E u \in User, l \in Listener, t \in Type : InitiateCheck(u, l, t)
    \/ \E u \in User, c \in Call : InitiateClaim(u, c)
    \/ \E u \in User : InitiateRefused(u)
    \/ \E c \in Call : \/ Accept(c)
                       \/ AcceptInitState(c)
                       \/ AcceptBurnTrial(c)
                       \/ AcceptSchedule(c)
                       \/ AcceptDies(c)
    \/ \E c \in Call, reason \in ClientReasons : EndRequested(c, reason)
    \/ \E r \in ending : EndCall(r) \/ EndRequestDies(r)
    \/ \E c \in Call : ClearCallState(c)
    \/ \E b \in BlockPairs : Block(b[1], b[2]) \/ Unblock(b[1], b[2])
    \/ \E a \in Adjustments : Credit(a[1], a[2]) \/ AdjustDown(a[1], a[2])

TickStep(w) ==
    \/ LoadLiveCall(w) \/ Settle(w) \/ RecordTick(w) \/ ReleaseLock(w)
    \/ ReloadCall(w) \/ ChainNextTick(w) \/ ForceEnd(w) \/ ForceClear(w)
    \/ Acknowledge(w)

Tick ==
    \/ \E w \in Worker, c \in Call, m \in Minute : Deliver(w, c, m)
    \/ \E w \in Worker : TickStep(w) \/ TickFails(w)

Sweep == SweepQuery \/ (\E r \in sweep : SweepRow(r)) \/ SweepDies

Environment ==
    \E c \in Call : \/ CallGrowsOld(c)
                    \/ StateGrowsStale(c)
                    \/ LockExpires(c)

Next == Api \/ Tick \/ Sweep \/ Environment

Spec == Init /\ [][Next]_vars

\* The platform keeps invoking: time passes, a due message is delivered while
\* deliveries are left, and an invocation that is not killed runs on.  Clients
\* owe nothing.  The sweep is asked of SF: a run may die at any row, or before
\* its endCall commits, but not every run does; it is re-queued each minute
\* while a call is live, retried by its topic, and started again by the daily
\* cron.
Fairness ==
    /\ \A w \in Worker : WF_vars(TickStep(w))
    /\ \A c \in Call, m \in Minute :
         WF_vars(\E w \in Worker : Deliver(w, c, m))
    /\ \A c \in Call : /\ WF_vars(CallGrowsOld(c))
                       /\ WF_vars(StateGrowsStale(c))
                       /\ WF_vars(LockExpires(c))
                       /\ SF_vars(\E r \in ending : r.call = c /\ EndCall(r))
                       /\ SF_vars(\E r \in sweep : r.call = c /\ SweepRow(r))
    /\ WF_vars(SweepQuery)

FairSpec == Spec /\ Fairness

-----------------------------------------------------------------------------
(* What must hold *)

\* A listener is never in two live calls: initiate's conditional UPDATE lets
\* only one of several racing callers claim them, and no end of another call
\* gives the claim away early (calls.service.js:31-34).
OneCallPerListener ==
    \A c, d \in Call :
        Live(c) /\ Live(d) /\ party[c].listener = party[d].listener => c = d

\* A ringing or active call holds its listener's claim, whichever request,
\* tick, sweep or block is in flight.
LiveCallHoldsListener == \A c \in Call : Live(c) => busy[party[c].listener]

\* A listener marked busy is in a live call, or was in one that a block cut:
\* endCall frees the listener in the transaction that ends the call, so no
\* crash leaves them busy (billing.engine.js:276-277).
BusyListenerExplained ==
    \A l \in Listener : busy[l] =>
        \E c \in Call : /\ status[c] # "none"
                        /\ party[c].listener = l
                        /\ Live(c) \/ endReason[c] = "admin"

\* The running totals on the call row are those of its call_ticks rows: each
\* minute is charged once, at the rate of the call's type, however often its
\* tick is delivered (billing.engine.js:28-35).
TotalsMatchTicks ==
    \A c \in Call : status[c] # "none" =>
        LET n == Cardinality(ticks[c]) IN
        totals[c] = [minutes |-> n,
                     spent   |-> n * Rate[party[c].type],
                     earned  |-> n * Share[party[c].type]]

CallsOf(u) == {c \in Call : status[c] # "none" /\ party[c].caller = u}
CallsAt(l) == {c \in Call : status[c] # "none" /\ party[c].listener = l}
SpentBy(u) == SumFunction([c \in CallsOf(u) |-> totals[c].spent])
EarnedBy(l) == SumFunction([c \in CallsAt(l) |-> totals[c].earned])

\* Coins are conserved.  What a user's calls spent plus what is left in the
\* wallet is what was ever credited less what was adjusted away, and a
\* listener's earnings are the shares of their calls: no crash, retry or
\* refused tick leaves half a charge behind (billing.engine.js:38-40).
CoinsConserved ==
    /\ \A u \in User : balance[u] + SpentBy(u) = funded[u]
    /\ \A l \in Listener : earnings[l] = EarnedBy(l)

\* Once over, a call stays as it ended: no later tick bills it, no second end
\* replaces the status, reason or totals (billing.engine.js:151-152, 244-246).
OverCallIsFrozen ==
    [][\A c \in Call : Over(c) =>
          /\ status'[c] = status[c]
          /\ endReason'[c] = endReason[c]
          /\ ticks'[c] = ticks[c]
          /\ totals'[c] = totals[c]]_vars

\* The tick chain cannot break silently: a tick acknowledged while its call is
\* still active has published the next minute, so a consumer that dies between
\* billing and chaining is made good by the redelivery (tick.worker.js:94-98).
AckedTickHasSuccessor ==
    \A c \in Call : status[c] = "active" =>
        \A m \in acked[c] : m + 1 \in sent[c] \/ m = MaxMinute

\* A charge is for a minute whose message was published, and minute m + 1 is
\* published only by the handling of minute m, so no call is billed ahead.
BilledMinutesWerePublished ==
    \A c \in Call :
        /\ ticks[c] \subseteq sent[c]
        /\ \A m \in sent[c] : 1 .. m \subseteq sent[c]

\* A call nobody answers does not ring forever (sweep.worker.js:13-14).
RingingIsResolved ==
    \A c \in Call : status[c] = "ringing" ~> status[c] # "ringing"

\* An active call ends by itself: the chain bills it until the coins run out,
\* or the chain is dead and the sweep ends it (billing.engine.js:312-315).
ActiveCallEnds == \A c \in Call : status[c] = "active" ~> Over(c)

\* A tick in the queue is dealt with: acknowledged, or out of deliveries.
TicksDrain ==
    \A c \in Call, m \in Minute :
        m \in sent[c] ~> m \in acked[c] \/ left[c][m] = 0

\* Whatever the queue redelivers, Redis forgets or a crash interrupts, the
\* rows that commit are those of the abstract ledger: each step of the system
\* is one of its steps or leaves its state alone.
Ledger == INSTANCE CallLedger WITH
    phase <- status, charged <- ticks, wallet <- balance, earned <- earnings

ImplementsLedger == Ledger!Spec
=============================================================================
