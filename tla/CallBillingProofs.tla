------------------------- MODULE CallBillingProofs -------------------------
(***************************************************************************)
(* Theorems about CallBilling, for every set of users, listeners, calls    *)
(* and consumers, every price list and every bound.                        *)
(***************************************************************************)
EXTENDS CallBilling, SumProofs, FiniteSetTheorems, TLAPS

USE DEF Live, Over

-----------------------------------------------------------------------------
(* The transactions keep the rows well typed *)

LEMMA ClaimTxType ==
    ASSUME StoreTypeOK, NEW c \in Call, NEW p \in Party, ClaimTx(c, p)
    PROVE  StoreTypeOK'
BY DEF StoreTypeOK, ClaimTx, Claimable, Party, Status, moneyVars

LEMMA AcceptTxType ==
    ASSUME StoreTypeOK, NEW c \in Call, AcceptTx(c)
    PROVE  StoreTypeOK'
BY DEF StoreTypeOK, AcceptTx, Status, moneyVars, peopleVars

LEMMA BurnTrialTxType ==
    ASSUME StoreTypeOK, NEW c \in Call, BurnTrialTx(c)
    PROVE  StoreTypeOK'
BY DEF StoreTypeOK, BurnTrialTx, callRowVars, moneyVars

LEMMA BillTxType ==
    ASSUME StoreTypeOK, NEW c \in Call, NEW m \in Minute, BillTx(c, m),
           SettleOutcome(c, m) = "billed"
    PROVE  StoreTypeOK'
<1> DEFINE p == party[c]
<1>1. status[c] = "active" /\ ~(balance[p.caller] < Rate[p.type])
  BY DEF SettleOutcome
<1>2. p \in Party
  BY <1>1 DEF StoreTypeOK
<1>3. Rate[p.type] \in Nat /\ Share[p.type] \in Nat
  BY <1>2, RatesAssumption DEF Party
<1>4. balance[p.caller] >= Rate[p.type]
  BY <1>1, <1>2, <1>3 DEF StoreTypeOK, Party
<1>5. balance' \in [User -> Nat]
  BY <1>2, <1>3, <1>4 DEF StoreTypeOK, BillTx, Party
<1>6. earnings' \in [Listener -> Nat]
  BY <1>2, <1>3 DEF StoreTypeOK, BillTx, Party
<1>7. totals' \in [Call -> Totals]
  BY <1>3 DEF StoreTypeOK, BillTx, Totals
<1>8. ticks' \in [Call -> SUBSET Minute]
  BY DEF StoreTypeOK, BillTx
<1> QED
  BY <1>5, <1>6, <1>7, <1>8 DEF StoreTypeOK, BillTx, callRowVars, peopleVars

LEMMA EndTxType ==
    ASSUME StoreTypeOK, NEW c \in Call, NEW reason \in Reason, EndTx(c, reason)
    PROVE  StoreTypeOK'
<1>1. status' \in [Call -> Status]
  BY DEF StoreTypeOK, EndTx, Status
<1>2. \A d \in Call : status'[d] # "none" => status[d] # "none"
  BY DEF StoreTypeOK, EndTx, Endable
<1>3. totalCalls' \in [Listener -> Nat]
  <2>1. party[c].listener \in Listener
    BY DEF StoreTypeOK, EndTx, Endable, Party
  <2>2. CASE status[c] = "active"
    BY <2>1, <2>2 DEF StoreTypeOK, EndTx
  <2>3. CASE status[c] # "active"
    BY <2>1, <2>3 DEF StoreTypeOK, EndTx
  <2> QED
    BY <2>2, <2>3
<1>4. busy' \in [Listener -> BOOLEAN]
  BY DEF StoreTypeOK, EndTx, FreeListener
<1> QED
  BY <1>1, <1>2, <1>3, <1>4 DEF StoreTypeOK, EndTx, moneyVars

LEMMA BlockTxType ==
    ASSUME StoreTypeOK, NEW u \in User, NEW v \in User, BlockTx(u, v)
    PROVE  StoreTypeOK'
BY DEF StoreTypeOK, BlockTx, CutBy, Status, Reason, moneyVars

LEMMA UnblockTxType ==
    ASSUME StoreTypeOK, NEW u \in User, NEW v \in User, UnblockTx(u, v)
    PROVE  StoreTypeOK'
BY DEF StoreTypeOK, UnblockTx, callRowVars, moneyVars

LEMMA CreditTxType ==
    ASSUME StoreTypeOK, NEW u \in User, NEW n \in Nat, CreditTx(u, n)
    PROVE  StoreTypeOK'
BY DEF StoreTypeOK, CreditTx, callRowVars, peopleVars

LEMMA DebitTxType ==
    ASSUME StoreTypeOK, NEW u \in User, NEW n \in Nat, DebitTx(u, n)
    PROVE  StoreTypeOK'
BY DEF StoreTypeOK, DebitTx, callRowVars, peopleVars

LEMMA StoreUnchangedType ==
    ASSUME StoreTypeOK, UNCHANGED storeVars
    PROVE  StoreTypeOK'
BY DEF StoreTypeOK, storeVars, callRowVars, moneyVars, peopleVars

-----------------------------------------------------------------------------
(* Type correctness *)

LEMMA InitType == Init => TypeOK
<1> SUFFICES ASSUME Init PROVE TypeOK
  OBVIOUS
<1>1. StoreTypeOK
  <2>1. funded \in [User -> Int]
    BY BoundsAssumption DEF Init, StoreInit
  <2> QED
    BY <2>1, BoundsAssumption DEF Init, StoreInit, StoreTypeOK, Status, Totals
<1>2. ApiTypeOK
  BY DEF Init, ApiTypeOK, AcceptStep
<1>3. SweepTypeOK /\ RedisTypeOK
  BY DEF Init, SweepTypeOK, RedisTypeOK
<1>4. QueueTypeOK
  BY WorkersAssumption DEF Init, QueueTypeOK
<1>5. WorkerTypeOK
  BY DEF Init, WorkerTypeOK, WorkerStep, Outcome
<1> QED
  BY <1>1, <1>2, <1>3, <1>4, <1>5 DEF TypeOK

\* What an action leaves alone keeps its type.
LEMMA UnchangedTypes ==
    /\ ApiTypeOK /\ UNCHANGED apiVars => ApiTypeOK'
    /\ SweepTypeOK /\ UNCHANGED sweepVars => SweepTypeOK'
    /\ RedisTypeOK /\ UNCHANGED redisVars => RedisTypeOK'
    /\ QueueTypeOK /\ UNCHANGED queueVars => QueueTypeOK'
    /\ WorkerTypeOK /\ UNCHANGED workerVars => WorkerTypeOK'
BY DEF ApiTypeOK, SweepTypeOK, RedisTypeOK, QueueTypeOK, WorkerTypeOK,
       apiVars, sweepVars, redisVars, queueVars, workerVars

LEMMA ScheduleTickType ==
    ASSUME QueueTypeOK, NEW c \in Call, NEW m, ScheduleTick(c, m)
    PROVE  QueueTypeOK'
BY WorkersAssumption DEF QueueTypeOK, ScheduleTick

LEMMA ApiType == TypeOK /\ Api => TypeOK'
<1> SUFFICES ASSUME TypeOK, Api PROVE TypeOK'
  OBVIOUS
<1> USE UnchangedTypes, StoreUnchangedType DEF TypeOK, apiVars, sweepVars
<1>1. ASSUME NEW u \in User, NEW l \in Listener, NEW t \in Type,
             InitiateCheck(u, l, t)
      PROVE  TypeOK'
  <2>1. [caller |-> u, listener |-> l, type |-> t, free |-> ~trialUsed[u]] \in Party
    BY DEF Party
  <2>2. ApiTypeOK'
    BY <1>1, <2>1 DEF InitiateCheck, ApiTypeOK
  <2> QED
    BY <1>1, <2>2 DEF InitiateCheck
<1>2. ASSUME NEW u \in User, NEW c \in Call, InitiateClaim(u, c)
      PROVE  TypeOK'
  <2>1. attempt[u] \in Party
    BY <1>2 DEF InitiateClaim, ApiTypeOK
  <2>2. StoreTypeOK'
    BY <1>2, <2>1, ClaimTxType DEF InitiateClaim
  <2>3. ApiTypeOK'
    BY <1>2 DEF InitiateClaim, ApiTypeOK
  <2> QED
    BY <1>2, <2>2, <2>3 DEF InitiateClaim
<1>3. ASSUME NEW u \in User, InitiateRefused(u)
      PROVE  TypeOK'
  BY <1>3 DEF InitiateRefused, ApiTypeOK
<1>4. ASSUME NEW c \in Call, Accept(c)
      PROVE  TypeOK'
  BY <1>4, AcceptTxType DEF Accept, ApiTypeOK, SweepTypeOK, AcceptStep
<1>5. ASSUME NEW c \in Call, AcceptInitState(c)
      PROVE  TypeOK'
  BY <1>5 DEF AcceptInitState, ApiTypeOK, RedisTypeOK, AcceptStep
<1>6. ASSUME NEW c \in Call, AcceptBurnTrial(c)
      PROVE  TypeOK'
  BY <1>6, BurnTrialTxType DEF AcceptBurnTrial, ApiTypeOK, AcceptStep
<1>7. ASSUME NEW c \in Call, AcceptSchedule(c)
      PROVE  TypeOK'
  BY <1>7, ScheduleTickType DEF AcceptSchedule, ApiTypeOK, AcceptStep
<1>8. ASSUME NEW c \in Call, AcceptDies(c)
      PROVE  TypeOK'
  BY <1>8 DEF AcceptDies, ApiTypeOK, AcceptStep
<1>9. ASSUME NEW c \in Call, NEW reason \in ClientReasons, EndRequested(c, reason)
      PROVE  TypeOK'
  <2>1. [call |-> c, reason |-> reason] \in Request
    BY EnvironmentAssumption DEF Request
  <2> QED
    BY <1>9, <2>1 DEF EndRequested, ApiTypeOK
<1>10. ASSUME NEW r \in ending, EndCall(r)
       PROVE  TypeOK'
  <2>1. r.call \in Call /\ r.reason \in Reason
    BY DEF ApiTypeOK, Request
  <2>2. StoreTypeOK'
    BY <1>10, <2>1, EndTxType DEF EndCall
  <2>3. ApiTypeOK'
    BY <1>10, <2>1 DEF EndCall, ApiTypeOK
  <2>4. SweepTypeOK'
    BY <1>10 DEF EndCall, SweepTypeOK
  <2> QED
    BY <1>10, <2>2, <2>3, <2>4 DEF EndCall
<1>11. ASSUME NEW r \in ending, EndRequestDies(r)
       PROVE  TypeOK'
  BY <1>11 DEF EndRequestDies, ApiTypeOK
<1>12. ASSUME NEW c \in Call, ClearCallState(c)
       PROVE  TypeOK'
  BY <1>12 DEF ClearCallState, ApiTypeOK, RedisTypeOK
<1>13. ASSUME NEW b \in BlockPairs, Block(b[1], b[2]) \/ Unblock(b[1], b[2])
       PROVE  TypeOK'
  <2>1. b[1] \in User /\ b[2] \in User
    BY EnvironmentAssumption
  <2>2. StoreTypeOK'
    BY <1>13, <2>1, BlockTxType, UnblockTxType DEF Block, Unblock
  <2>3. SweepTypeOK'
    BY <1>13 DEF Block, Unblock, SweepTypeOK
  <2> QED
    BY <1>13, <2>2, <2>3 DEF Block, Unblock
<1>14. ASSUME NEW a \in Adjustments, Credit(a[1], a[2]) \/ AdjustDown(a[1], a[2])
       PROVE  TypeOK'
  <2>1. a[1] \in User /\ a[2] \in Nat
    BY EnvironmentAssumption
  <2>2. StoreTypeOK'
    BY <1>14, <2>1, CreditTxType, DebitTxType DEF Credit, AdjustDown
  <2> QED
    BY <1>14, <2>2 DEF Credit, AdjustDown
<1> QED
  BY <1>1, <1>2, <1>3, <1>4, <1>5, <1>6, <1>7, <1>8, <1>9, <1>10, <1>11,
     <1>12, <1>13, <1>14 DEF Api

LEMMA TickType == TypeOK /\ Tick => TypeOK'
<1> SUFFICES ASSUME TypeOK, Tick PROVE TypeOK'
  OBVIOUS
<1> USE UnchangedTypes, StoreUnchangedType
    DEF TypeOK, redisVars, queueVars, Works, Goes
<1>1. ASSUME NEW w \in Worker, NEW c \in Call, NEW m \in Minute, Deliver(w, c, m)
      PROVE  TypeOK'
  <2>1. [call |-> c, minute |-> m] \in Job
    BY DEF Job
  <2>2. WorkerTypeOK'
    BY <1>1, <2>1 DEF Deliver, WorkerTypeOK, WorkerStep
  <2>3. RedisTypeOK'
    BY <1>1 DEF Deliver, RedisTypeOK
  <2>4. QueueTypeOK'
    <3>1. left[c][m] \in 0 .. MaxDeliveries /\ left[c][m] > 0
      BY <1>1 DEF Deliver, QueueTypeOK
    <3>2. left[c][m] - 1 \in 0 .. MaxDeliveries
      BY <3>1, WorkersAssumption
    <3> QED
      BY <1>1, <3>2 DEF Deliver, TakeDelivery, QueueTypeOK
  <2> QED
    BY <1>1, <2>2, <2>3, <2>4 DEF Deliver
<1>2. ASSUME NEW w \in Worker, LoadLiveCall(w)
      PROVE  TypeOK'
  BY <1>2 DEF LoadLiveCall, WorkerTypeOK, WorkerStep, Outcome
<1>3. ASSUME NEW w \in Worker, Settle(w)
      PROVE  TypeOK'
  <2> DEFINE c == job[w].call
             m == job[w].minute
  <2>1. c \in Call /\ m \in Minute
    BY <1>3 DEF Settle, WorkerTypeOK, Job
  <2>2. SettleOutcome(c, m) \in Outcome
    BY DEF SettleOutcome, Outcome
  <2>3. WorkerTypeOK'
    BY <1>3, <2>2 DEF Settle, WorkerTypeOK, WorkerStep
  <2>4. StoreTypeOK'
    BY <1>3, <2>1, BillTxType DEF Settle, Rollback
  <2> QED
    BY <1>3, <2>3, <2>4 DEF Settle
<1>4. ASSUME NEW w \in Worker, RecordTick(w)
      PROVE  TypeOK'
  BY <1>4 DEF RecordTick, WorkerTypeOK, WorkerStep, RedisTypeOK, Job
<1>5. ASSUME NEW w \in Worker, ReleaseLock(w)
      PROVE  TypeOK'
  <2>1. Handling(outcome[w]) \in WorkerStep
    BY DEF Handling, WorkerStep
  <2> QED
    BY <1>5, <2>1 DEF ReleaseLock, WorkerTypeOK, RedisTypeOK, Outcome
<1>6. ASSUME NEW w \in Worker, ReloadCall(w)
      PROVE  TypeOK'
  BY <1>6 DEF ReloadCall, WorkerTypeOK, WorkerStep
<1>7. ASSUME NEW w \in Worker, ChainNextTick(w)
      PROVE  TypeOK'
  BY <1>7, ScheduleTickType DEF ChainNextTick, WorkerTypeOK, WorkerStep, Job
<1>8. ASSUME NEW w \in Worker, ForceEnd(w)
      PROVE  TypeOK'
  <2>1. job[w].call \in Call
    BY <1>8 DEF ForceEnd, WorkerTypeOK, Job
  <2>2. StoreTypeOK'
    BY <1>8, <2>1, EndTxType DEF ForceEnd, Reason
  <2> QED
    BY <1>8, <2>2 DEF ForceEnd, WorkerTypeOK, WorkerStep, SweepTypeOK
<1>9. ASSUME NEW w \in Worker, ForceClear(w)
      PROVE  TypeOK'
  BY <1>9 DEF ForceClear, WorkerTypeOK, WorkerStep, RedisTypeOK
<1>10. ASSUME NEW w \in Worker, Acknowledge(w)
       PROVE  TypeOK'
  <2>1. job[w].call \in Call /\ job[w].minute \in Minute
    BY <1>10 DEF Acknowledge, WorkerTypeOK, Job
  <2>2. WorkerTypeOK'
    BY <1>10 DEF Acknowledge, BecomesIdle, WorkerTypeOK, WorkerStep, Outcome
  <2>3. QueueTypeOK'
    BY <1>10, <2>1 DEF Acknowledge, QueueTypeOK
  <2> QED
    BY <1>10, <2>2, <2>3 DEF Acknowledge
<1>11. ASSUME NEW w \in Worker, TickFails(w)
       PROVE  TypeOK'
  BY <1>11 DEF TickFails, BecomesIdle, WorkerTypeOK, WorkerStep, Outcome,
               RedisTypeOK
<1> QED
  BY <1>1, <1>2, <1>3, <1>4, <1>5, <1>6, <1>7, <1>8, <1>9, <1>10, <1>11
     DEF Tick, TickStep

LEMMA SweepType == TypeOK /\ Sweep => TypeOK'
<1> SUFFICES ASSUME TypeOK, Sweep PROVE TypeOK'
  OBVIOUS
<1> USE UnchangedTypes, StoreUnchangedType DEF TypeOK, apiVars
<1>1. CASE SweepQuery
  <2>1. SweepTypeOK'
    BY <1>1 DEF SweepQuery, SweepTypeOK, StaleRows, Request, Reason
  <2> QED
    BY <1>1, <2>1 DEF SweepQuery
<1>2. ASSUME NEW r \in sweep, SweepRow(r)
      PROVE  TypeOK'
  BY <1>2 DEF SweepRow, SweepTypeOK, ApiTypeOK
<1>3. CASE SweepDies
  BY <1>3 DEF SweepDies, SweepTypeOK
<1> QED
  BY <1>1, <1>2, <1>3 DEF Sweep

LEMMA EnvironmentType == TypeOK /\ Environment => TypeOK'
<1> SUFFICES ASSUME TypeOK,
                    NEW c \in Call,
                    CallGrowsOld(c) \/ StateGrowsStale(c) \/ LockExpires(c)
             PROVE  TypeOK'
  BY DEF Environment
<1> USE UnchangedTypes, StoreUnchangedType DEF TypeOK
<1>1. CASE CallGrowsOld(c)
  BY <1>1 DEF CallGrowsOld, SweepTypeOK
<1>2. CASE StateGrowsStale(c)
  BY <1>2 DEF StateGrowsStale, RedisTypeOK
<1>3. CASE LockExpires(c)
  BY <1>3 DEF LockExpires, RedisTypeOK
<1> QED
  BY <1>1, <1>2, <1>3

\* Every variable keeps its type: wallets stay whole and never below zero
\* whatever the consumers, requests and sweeps do (wallet.service.js:20-25),
\* and a consumer that is not idle has a message to work on.
THEOREM TypeCorrect == Spec => []TypeOK
<1>1. Init => TypeOK
  BY InitType
<1>2. TypeOK /\ [Next]_vars => TypeOK'
  <2> SUFFICES ASSUME TypeOK, [Next]_vars PROVE TypeOK'
    OBVIOUS
  <2>1. CASE Next
    BY <2>1, ApiType, TickType, SweepType, EnvironmentType DEF Next
  <2>2. CASE UNCHANGED vars
    BY <2>2, UnchangedTypes, StoreUnchangedType DEF vars, TypeOK
  <2> QED
    BY <2>1, <2>2
<1> QED
  BY <1>1, <1>2, PTL DEF Spec

-----------------------------------------------------------------------------
(* What a step of the system does to the rows is one transaction or nothing, *)
(* so that facts about the rows are proved once per transaction.             *)

StoreStep ==
    \/ \E c \in Call, p \in Party : ClaimTx(c, p)
    \/ \E c \in Call : AcceptTx(c)
    \/ \E c \in Call : BurnTrialTx(c)
    \/ \E c \in Call, m \in Minute :
         SettleOutcome(c, m) = "billed" /\ BillTx(c, m)
    \/ \E c \in Call, reason \in Reason : EndTx(c, reason)
    \/ \E u \in User, v \in User : BlockTx(u, v) \/ UnblockTx(u, v)
    \/ \E u \in User, n \in Nat : CreditTx(u, n) \/ DebitTx(u, n)
    \/ UNCHANGED storeVars

LEMMA ApiStoreStep == TypeOK /\ Api => StoreStep
<1> SUFFICES ASSUME TypeOK, Api PROVE StoreStep
  OBVIOUS
<1>1. ASSUME NEW u \in User, NEW l \in Listener, NEW t \in Type,
             InitiateCheck(u, l, t)
      PROVE  StoreStep
  BY <1>1 DEF InitiateCheck, StoreStep
<1>2. ASSUME NEW u \in User, NEW c \in Call, InitiateClaim(u, c)
      PROVE  StoreStep
  <2>1. attempt[u] \in Party /\ ClaimTx(c, attempt[u])
    BY <1>2 DEF InitiateClaim, TypeOK, ApiTypeOK
  <2> QED
    BY <2>1 DEF StoreStep
<1>3. ASSUME NEW u \in User, InitiateRefused(u)
      PROVE  StoreStep
  BY <1>3 DEF InitiateRefused, StoreStep
<1>4. ASSUME NEW c \in Call,
             Accept(c) \/ AcceptInitState(c) \/ AcceptBurnTrial(c)
               \/ AcceptSchedule(c) \/ AcceptDies(c)
      PROVE  StoreStep
  BY <1>4 DEF Accept, AcceptInitState, AcceptBurnTrial, AcceptSchedule,
              AcceptDies, StoreStep
<1>5. ASSUME NEW c \in Call, NEW reason \in ClientReasons, EndRequested(c, reason)
      PROVE  StoreStep
  BY <1>5 DEF EndRequested, StoreStep
<1>6. ASSUME NEW r \in ending, EndCall(r) \/ EndRequestDies(r)
      PROVE  StoreStep
  <2>1. r.call \in Call /\ r.reason \in Reason
    BY DEF TypeOK, ApiTypeOK, Request
  <2>2. EndTx(r.call, r.reason) \/ UNCHANGED storeVars
    BY <1>6 DEF EndCall, EndRequestDies
  <2> QED
    BY <2>1, <2>2 DEF StoreStep
<1>7. ASSUME NEW c \in Call, ClearCallState(c)
      PROVE  StoreStep
  BY <1>7 DEF ClearCallState, StoreStep
<1>8. ASSUME NEW b \in BlockPairs, Block(b[1], b[2]) \/ Unblock(b[1], b[2])
      PROVE  StoreStep
  <2>1. b[1] \in User /\ b[2] \in User
    BY EnvironmentAssumption
  <2>2. BlockTx(b[1], b[2]) \/ UnblockTx(b[1], b[2])
    BY <1>8 DEF Block, Unblock
  <2> QED
    BY <2>1, <2>2 DEF StoreStep
<1>9. ASSUME NEW a \in Adjustments, Credit(a[1], a[2]) \/ AdjustDown(a[1], a[2])
      PROVE  StoreStep
  <2>1. a[1] \in User /\ a[2] \in Nat
    BY EnvironmentAssumption
  <2>2. CreditTx(a[1], a[2]) \/ DebitTx(a[1], a[2])
    BY <1>9 DEF Credit, AdjustDown
  <2> QED
    BY <2>1, <2>2 DEF StoreStep
<1> QED
  BY <1>1, <1>2, <1>3, <1>4, <1>5, <1>6, <1>7, <1>8, <1>9 DEF Api

LEMMA TickStoreStep == TypeOK /\ Tick => StoreStep
<1> SUFFICES ASSUME TypeOK, Tick PROVE StoreStep
  OBVIOUS
<1>1. ASSUME NEW w \in Worker, NEW c \in Call, NEW m \in Minute, Deliver(w, c, m)
      PROVE  StoreStep
  BY <1>1 DEF Deliver, StoreStep
<1>2. ASSUME NEW w \in Worker, Settle(w)
      PROVE  StoreStep
  <2> DEFINE c == job[w].call
             m == job[w].minute
  <2>1. c \in Call /\ m \in Minute
    BY <1>2 DEF Settle, Works, TypeOK, WorkerTypeOK, Job
  <2>2. (SettleOutcome(c, m) = "billed" /\ BillTx(c, m)) \/ UNCHANGED storeVars
    BY <1>2 DEF Settle, Rollback
  <2> QED
    BY <2>1, <2>2 DEF StoreStep
<1>3. ASSUME NEW w \in Worker, ForceEnd(w)
      PROVE  StoreStep
  <2>1. job[w].call \in Call
    BY <1>3 DEF ForceEnd, Works, TypeOK, WorkerTypeOK, Job
  <2>2. EndTx(job[w].call, "insufficient_balance") \/ UNCHANGED storeVars
    BY <1>3 DEF ForceEnd
  <2>3. "insufficient_balance" \in Reason
    BY DEF Reason
  <2> QED
    BY <2>1, <2>2, <2>3 DEF StoreStep
<1>4. ASSUME NEW w \in Worker,
             LoadLiveCall(w) \/ RecordTick(w) \/ ReleaseLock(w) \/ ReloadCall(w)
               \/ ChainNextTick(w) \/ ForceClear(w) \/ Acknowledge(w)
               \/ TickFails(w)
      PROVE  StoreStep
  BY <1>4 DEF LoadLiveCall, RecordTick, ReleaseLock, ReloadCall, ChainNextTick,
              ForceClear, Acknowledge, TickFails, StoreStep
<1> QED
  BY <1>1, <1>2, <1>3, <1>4 DEF Tick, TickStep

LEMMA NextStoreStep == TypeOK /\ [Next]_vars => StoreStep
<1> SUFFICES ASSUME TypeOK, [Next]_vars PROVE StoreStep
  OBVIOUS
<1>1. CASE Sweep
  BY <1>1 DEF Sweep, SweepQuery, SweepRow, SweepDies, StoreStep
<1>2. CASE Environment
  BY <1>2 DEF Environment, CallGrowsOld, StateGrowsStale, LockExpires, StoreStep
<1>3. CASE UNCHANGED vars
  BY <1>3 DEF vars, StoreStep
<1> QED
  BY <1>1, <1>2, <1>3, ApiStoreStep, TickStoreStep DEF Next

-----------------------------------------------------------------------------
(* The claim on a listener *)

\* Neither part is inductive alone: a claim is exclusive because live calls
\* hold theirs, and ending a call frees no other's listener because live calls
\* have different ones.
ClaimInv == OneCallPerListener /\ LiveCallHoldsListener

LEMMA ClaimInvStep == TypeOK /\ ClaimInv /\ StoreStep => ClaimInv'
<1> SUFFICES ASSUME TypeOK, ClaimInv, StoreStep PROVE ClaimInv'
  OBVIOUS
<1> USE DEF TypeOK, StoreTypeOK, ClaimInv, OneCallPerListener,
            LiveCallHoldsListener
<1>1. ASSUME NEW c \in Call, NEW p \in Party, ClaimTx(c, p)
      PROVE  ClaimInv'
  <2>1. p.listener \in Listener /\ ~busy[p.listener]
    BY <1>1 DEF ClaimTx, Claimable, Party
  <2>2. \A d \in Call : Live(d) => party[d].listener # p.listener
    BY <2>1
  <2> QED
    BY <1>1, <2>1, <2>2 DEF ClaimTx
<1>2. ASSUME NEW c \in Call, AcceptTx(c)
      PROVE  ClaimInv'
  BY <1>2 DEF AcceptTx, peopleVars
<1>3. ASSUME NEW c \in Call, NEW reason \in Reason, EndTx(c, reason)
      PROVE  ClaimInv'
  <2>1. \A d \in Call : status'[d] \in {"ringing", "active"} => d # c /\ Live(d)
    BY <1>3 DEF EndTx
  <2>2. \A d \in Call : d # c /\ Live(d) => party[d].listener # party[c].listener
    BY <1>3 DEF EndTx, Endable
  <2> QED
    BY <1>3, <2>1, <2>2 DEF EndTx, FreeListener, Party
<1>4. ASSUME NEW u \in User, NEW v \in User, BlockTx(u, v)
      PROVE  ClaimInv'
  <2>1. \A d \in Call : status'[d] \in {"ringing", "active"} => Live(d)
    BY <1>4 DEF BlockTx
  <2> QED
    BY <1>4, <2>1 DEF BlockTx
<1>5. ASSUME UNCHANGED <<status, party, busy>>
      PROVE  ClaimInv'
  BY <1>5
<1> QED
  BY <1>1, <1>2, <1>3, <1>4, <1>5
     DEF StoreStep, BurnTrialTx, BillTx, UnblockTx, CreditTx, DebitTx,
         storeVars, callRowVars, peopleVars

LEMMA ClaimIsKept == Spec => []ClaimInv
<1>1. Init => ClaimInv
  BY DEF Init, StoreInit, ClaimInv, OneCallPerListener, LiveCallHoldsListener
<1>2. TypeOK /\ ClaimInv /\ [Next]_vars => ClaimInv'
  BY NextStoreStep, ClaimInvStep
<1> QED
  BY <1>1, <1>2, TypeCorrect, PTL DEF Spec

\* Racing callers, whatever checks they passed, never get the same listener
\* (calls.service.js:31-34).
THEOREM ListenerIsClaimedOnce == Spec => []OneCallPerListener
<1>1. ClaimInv => OneCallPerListener
  BY DEF ClaimInv
<1> QED
  BY <1>1, ClaimIsKept, PTL

\* No end, force-end, sweep or block frees a listener who is in another live
\* call: the flag an initiate reads is hers until that call is over.
THEOREM LiveCallIsHeld == Spec => []LiveCallHoldsListener
<1>1. ClaimInv => LiveCallHoldsListener
  BY DEF ClaimInv
<1> QED
  BY <1>1, ClaimIsKept, PTL

Explains(c, l) == /\ status[c] # "none"
                  /\ party[c].listener = l
                  /\ Live(c) \/ endReason[c] = "admin"

\* A block is all that leaves a listener busy without a call: EndTx frees them
\* in the transaction that ends the call.
LEMMA BusyStep ==
    TypeOK /\ ClaimInv /\ BusyListenerExplained /\ StoreStep
        => BusyListenerExplained'
<1> SUFFICES ASSUME TypeOK, ClaimInv, BusyListenerExplained, StoreStep
             PROVE  BusyListenerExplained'
  OBVIOUS
<1> SUFFICES ASSUME NEW l \in Listener,
                    busy'[l]
             PROVE  \E c \in Call : Explains(c, l)'
  BY DEF BusyListenerExplained, Explains
<1> USE DEF TypeOK, StoreTypeOK, Explains
<1>1. ASSUME NEW c \in Call, NEW p \in Party, ClaimTx(c, p)
      PROVE  \E d \in Call : Explains(d, l)'
  <2>1. CASE p.listener = l
    <3>1. Explains(c, l)'
      BY <1>1, <2>1 DEF ClaimTx
    <3> QED
      BY <3>1
  <2>2. CASE p.listener # l
    <3>1. busy[l]
      BY <1>1, <2>2 DEF ClaimTx
    <3>2. PICK d \in Call : Explains(d, l)
      BY <3>1 DEF BusyListenerExplained
    <3>3. Explains(d, l)'
      BY <1>1, <3>2 DEF ClaimTx
    <3> QED
      BY <3>3
  <2> QED
    BY <2>1, <2>2
<1>2. ASSUME NEW c \in Call, NEW reason \in Reason, EndTx(c, reason)
      PROVE  \E d \in Call : Explains(d, l)'
  <2>1. busy[l] /\ party[c].listener # l
    BY <1>2 DEF EndTx, Endable, FreeListener, Party
  <2>2. PICK d \in Call : Explains(d, l)
    BY <2>1 DEF BusyListenerExplained
  <2>3. Explains(d, l)'
    BY <1>2, <2>1, <2>2 DEF EndTx
  <2> QED
    BY <2>3
<1>3. ASSUME busy' = busy,
             \A d \in Call : Explains(d, l) => Explains(d, l)'
      PROVE  \E d \in Call : Explains(d, l)'
  BY <1>3 DEF BusyListenerExplained
<1>4. ASSUME NEW u \in User, NEW v \in User, BlockTx(u, v)
      PROVE  \E d \in Call : Explains(d, l)'
  <2>1. \A d \in Call : Explains(d, l) => Explains(d, l)'
    BY <1>4 DEF BlockTx
  <2> QED
    BY <1>3, <1>4, <2>1 DEF BlockTx
<1>5. ASSUME NEW c \in Call, AcceptTx(c)
      PROVE  \E d \in Call : Explains(d, l)'
  <2>1. \A d \in Call : Explains(d, l) => Explains(d, l)'
    BY <1>5 DEF AcceptTx
  <2> QED
    BY <1>3, <1>5, <2>1 DEF AcceptTx, peopleVars
<1>6. ASSUME UNCHANGED <<status, party, endReason, busy>>
      PROVE  \E d \in Call : Explains(d, l)'
  BY <1>3, <1>6
<1> QED
  BY <1>1, <1>2, <1>4, <1>5, <1>6
     DEF StoreStep, BurnTrialTx, BillTx, UnblockTx, CreditTx, DebitTx,
         storeVars, callRowVars, peopleVars

\* Only a block can leave a listener busy without a call: any other end, also
\* one cut short by a crash, frees them with the call
\* (billing.engine.js:276-277).
THEOREM BusyIsExplained == Spec => []BusyListenerExplained
<1>1. Init => BusyListenerExplained
  BY DEF Init, StoreInit, BusyListenerExplained
<1>2. TypeOK /\ OneCallPerListener /\ LiveCallHoldsListener
          /\ BusyListenerExplained /\ [Next]_vars => BusyListenerExplained'
  <2>1. OneCallPerListener /\ LiveCallHoldsListener => ClaimInv
    BY DEF ClaimInv
  <2> QED
    BY <2>1, NextStoreStep, BusyStep
<1> QED
  BY <1>1, <1>2, TypeCorrect, ListenerIsClaimedOnce, LiveCallIsHeld, PTL DEF Spec

-----------------------------------------------------------------------------
(* Each minute is charged once *)

LEMMA MinutesFinite ==
    ASSUME NEW S \in SUBSET Minute
    PROVE  IsFiniteSet(S) /\ Cardinality(S) \in Nat
<1>1. IsFiniteSet(Minute)
  BY BoundsAssumption, FS_Interval DEF Minute
<1> QED
  BY <1>1, FS_Subset, FS_CardinalityType

LEMMA OneMore == ASSUME NEW n \in Nat, NEW k \in Nat PROVE n * k + k = (n + 1) * k
OBVIOUS

\* A call whose row is not inserted yet has no tick and empty totals.
UnusedIsBlank ==
    \A c \in Call : status[c] = "none" =>
        /\ ticks[c] = {}
        /\ totals[c] = [minutes |-> 0, spent |-> 0, earned |-> 0]

TotalsInv == UnusedIsBlank /\ TotalsMatchTicks

LEMMA BillTxTotals ==
    ASSUME TypeOK, TotalsInv, NEW c \in Call, NEW m \in Minute,
           SettleOutcome(c, m) = "billed", BillTx(c, m)
    PROVE  TotalsInv'
<1> DEFINE p == party[c]
           n == Cardinality(ticks[c])
<1>1. status[c] = "active" /\ m \notin ticks[c]
  BY DEF SettleOutcome
<1>2. p \in Party
  BY <1>1 DEF TypeOK, StoreTypeOK
<1>3. Rate[p.type] \in Nat /\ Share[p.type] \in Nat
  BY <1>2, RatesAssumption DEF Party
<1>4. ticks[c] \in SUBSET Minute
  BY DEF TypeOK, StoreTypeOK
<1>5. n \in Nat /\ Cardinality(ticks[c] \cup {m}) = n + 1
  BY <1>1, <1>4, MinutesFinite, FS_AddElement
<1>6. totals[c] = [minutes |-> n, spent |-> n * Rate[p.type],
                   earned |-> n * Share[p.type]]
  BY <1>1 DEF TotalsInv, TotalsMatchTicks
<1>7. /\ n * Rate[p.type] + Rate[p.type] = (n + 1) * Rate[p.type]
      /\ n * Share[p.type] + Share[p.type] = (n + 1) * Share[p.type]
  BY <1>3, <1>5, OneMore
<1>8. totals'[c] = [minutes |-> n + 1, spent |-> (n + 1) * Rate[p.type],
                    earned |-> (n + 1) * Share[p.type]]
  BY <1>6, <1>7 DEF BillTx, TypeOK, StoreTypeOK
<1>9. Cardinality(ticks'[c]) = n + 1
  BY <1>5 DEF BillTx, TypeOK, StoreTypeOK
<1>10. \A d \in Call : d # c => ticks'[d] = ticks[d] /\ totals'[d] = totals[d]
  BY DEF BillTx, TypeOK, StoreTypeOK
<1>11. status' = status /\ party' = party
  BY DEF BillTx, callRowVars
<1>12. UnusedIsBlank'
  BY <1>1, <1>10, <1>11 DEF TotalsInv, UnusedIsBlank
<1>13. TotalsMatchTicks'
  BY <1>8, <1>9, <1>10, <1>11 DEF TotalsInv, TotalsMatchTicks
<1> QED
  BY <1>12, <1>13 DEF TotalsInv

LEMMA TotalsStep == TypeOK /\ TotalsInv /\ StoreStep => TotalsInv'
<1> SUFFICES ASSUME TypeOK, TotalsInv, StoreStep PROVE TotalsInv'
  OBVIOUS
<1> USE DEF TypeOK, StoreTypeOK, TotalsInv, UnusedIsBlank, TotalsMatchTicks
<1>1. ASSUME NEW c \in Call, NEW p \in Party, ClaimTx(c, p)
      PROVE  TotalsInv'
  <2>1. status[c] = "none" /\ UNCHANGED <<ticks, totals>>
    BY <1>1 DEF ClaimTx, moneyVars
  <2>2. /\ ticks[c] = {}
        /\ totals[c] = [minutes |-> 0, spent |-> 0, earned |-> 0]
    BY <2>1
  <2>3. p.type \in Type /\ Rate[p.type] \in Nat /\ Share[p.type] \in Nat
    BY RatesAssumption DEF Party
  <2>4. /\ Cardinality({}) = 0
        /\ 0 * Rate[p.type] = 0
        /\ 0 * Share[p.type] = 0
    BY <2>3, FS_EmptySet
  <2>5. party'[c] = p
    BY <1>1 DEF ClaimTx
  <2>6. \A d \in Call : d # c => status'[d] = status[d] /\ party'[d] = party[d]
    BY <1>1 DEF ClaimTx
  <2>7. status'[c] = "ringing"
    BY <1>1 DEF ClaimTx
  <2> QED
    BY <2>1, <2>2, <2>4, <2>5, <2>6, <2>7
<1>2. ASSUME UNCHANGED <<party, ticks, totals>>,
             \A d \in Call : status'[d] = "none" <=> status[d] = "none"
      PROVE  TotalsInv'
  BY <1>2
<1>3. ASSUME NEW c \in Call, AcceptTx(c)
      PROVE  TotalsInv'
  BY <1>2, <1>3 DEF AcceptTx, moneyVars
<1>4. ASSUME NEW c \in Call, NEW reason \in Reason, EndTx(c, reason)
      PROVE  TotalsInv'
  <2>1. \A d \in Call : status'[d] = "none" <=> status[d] = "none"
    BY <1>4 DEF EndTx, Endable
  <2> QED
    BY <1>2, <1>4, <2>1 DEF EndTx, moneyVars
<1>5. ASSUME NEW u \in User, NEW v \in User, BlockTx(u, v)
      PROVE  TotalsInv'
  <2>1. \A d \in Call : status'[d] = "none" <=> status[d] = "none"
    BY <1>5 DEF BlockTx, CutBy
  <2> QED
    BY <1>2, <1>5, <2>1 DEF BlockTx, moneyVars
<1>6. ASSUME UNCHANGED <<status, party, ticks, totals>>
      PROVE  TotalsInv'
  BY <1>6
<1> QED
  BY <1>1, <1>3, <1>4, <1>5, <1>6, BillTxTotals
     DEF StoreStep, BurnTrialTx, UnblockTx, CreditTx, DebitTx,
         storeVars, callRowVars, moneyVars

\* The totals on a call's row are those of its tick rows, however often a tick
\* is delivered and wherever a consumer dies: no minute is charged twice or in
\* part (billing.engine.js:28-40).
THEOREM EachMinuteChargedOnce == Spec => []TotalsMatchTicks
<1>1. Init => TotalsInv
  BY DEF Init, StoreInit, TotalsInv, UnusedIsBlank, TotalsMatchTicks
<1>2. TypeOK /\ TotalsInv /\ [Next]_vars => TotalsInv'
  BY NextStoreStep, TotalsStep
<1>3. TotalsInv => TotalsMatchTicks
  BY DEF TotalsInv
<1> QED
  BY <1>1, <1>2, <1>3, TypeCorrect, PTL DEF Spec

-----------------------------------------------------------------------------
(* Coins are conserved *)

\* The two columns of totals, as functions of the call.
Spending == [c \in Call |-> totals[c].spent]
Earning == [c \in Call |-> totals[c].earned]

\* Only finitely many calls have been made, so the sums over them are sums.
CallsMade == {c \in Call : status[c] # "none"}
CoinsInv == IsFiniteSet(CallsMade) /\ CoinsConserved

SumsRange ==
    /\ \A c \in Call : Spending[c] \in Int /\ Earning[c] \in Int
    /\ \A u \in User :
         /\ IsFiniteSet(CallsOf(u))
         /\ SpentBy(u) = SumFunctionOnSet(Spending, CallsOf(u))
         /\ SpentBy(u) \in Int
    /\ \A l \in Listener :
         /\ IsFiniteSet(CallsAt(l))
         /\ EarnedBy(l) = SumFunctionOnSet(Earning, CallsAt(l))
         /\ EarnedBy(l) \in Int

LEMMA SumsOverColumns == TypeOK /\ IsFiniteSet(CallsMade) => SumsRange
<1> SUFFICES ASSUME TypeOK, IsFiniteSet(CallsMade) PROVE SumsRange
  OBVIOUS
<1>1. \A c \in Call : Spending[c] \in Int /\ Earning[c] \in Int
  BY DEF TypeOK, StoreTypeOK, Totals, Spending, Earning
<1>2. ASSUME NEW u \in User
      PROVE  /\ IsFiniteSet(CallsOf(u))
             /\ SpentBy(u) = SumFunctionOnSet(Spending, CallsOf(u))
             /\ SpentBy(u) \in Int
  <2> DEFINE f == [c \in CallsOf(u) |-> totals[c].spent]
  <2>1. IsFiniteSet(CallsOf(u))
    BY FS_Subset DEF CallsOf, CallsMade
  <2>2. \A c \in CallsOf(u) : f[c] = Spending[c]
    BY DEF CallsOf, Spending
  <2>3. SumFunctionOnSet(f, CallsOf(u)) = SumFunctionOnSet(Spending, CallsOf(u))
    <3> HIDE DEF f
    <3> QED BY <2>1, <2>2, SumAgrees
  <2>4. DOMAIN f = CallsOf(u)
    OBVIOUS
  <2>5. SpentBy(u) = SumFunction(f)
    BY DEF SpentBy
  <2>6. SumFunctionOnSet(Spending, CallsOf(u)) \in Int
    <3>1. CallsOf(u) \subseteq Call
      BY DEF CallsOf
    <3> QED BY <1>1, <2>1, <3>1, SumType
  <2> HIDE DEF f
  <2> QED
    BY <2>1, <2>3, <2>4, <2>5, <2>6 DEF SumFunction
<1>3. ASSUME NEW l \in Listener
      PROVE  /\ IsFiniteSet(CallsAt(l))
             /\ EarnedBy(l) = SumFunctionOnSet(Earning, CallsAt(l))
             /\ EarnedBy(l) \in Int
  <2> DEFINE f == [c \in CallsAt(l) |-> totals[c].earned]
  <2>1. IsFiniteSet(CallsAt(l))
    BY FS_Subset DEF CallsAt, CallsMade
  <2>2. \A c \in CallsAt(l) : f[c] = Earning[c]
    BY DEF CallsAt, Earning
  <2>3. SumFunctionOnSet(f, CallsAt(l)) = SumFunctionOnSet(Earning, CallsAt(l))
    <3> HIDE DEF f
    <3> QED BY <2>1, <2>2, SumAgrees
  <2>4. DOMAIN f = CallsAt(l)
    OBVIOUS
  <2>5. EarnedBy(l) = SumFunction(f)
    BY DEF EarnedBy
  <2>6. SumFunctionOnSet(Earning, CallsAt(l)) \in Int
    <3>1. CallsAt(l) \subseteq Call
      BY DEF CallsAt
    <3> QED BY <1>1, <2>1, <3>1, SumType
  <2> HIDE DEF f
  <2> QED
    BY <2>1, <2>3, <2>4, <2>5, <2>6 DEF SumFunction
<1> QED BY <1>1, <1>2, <1>3 DEF SumsRange

\* The same of the next state.
LEMMA SumsNext == (TypeOK /\ IsFiniteSet(CallsMade) => SumsRange)'
BY SumsOverColumns, PTL

\* The claim adds a call whose totals are empty.
LEMMA ClaimKeepsCoins ==
    ASSUME TypeOK, TypeOK', TotalsInv, CoinsInv, NEW c \in Call, NEW p \in Party,
           ClaimTx(c, p)
    PROVE  CoinsInv'
<1> USE DEF CoinsInv
<1>1. /\ status[c] = "none" /\ status'[c] = "ringing" /\ party'[c] = p
      /\ \A d \in Call : d # c => status'[d] = status[d] /\ party'[d] = party[d]
      /\ UNCHANGED <<totals, balance, funded, earnings>>
  BY DEF ClaimTx, TypeOK, StoreTypeOK, moneyVars
<1>2. IsFiniteSet(CallsMade)'
  <2>1. CallsMade' = CallsMade \cup {c}
    BY <1>1 DEF CallsMade
  <2> QED BY <2>1, FS_AddElement
<1>3. Spending' = Spending /\ Earning' = Earning
  BY <1>1 DEF Spending, Earning
<1>4. Spending[c] = 0 /\ Earning[c] = 0
  BY <1>1 DEF TotalsInv, UnusedIsBlank, Spending, Earning
<1>5. ASSUME NEW u \in User
      PROVE  (SpentBy(u))' = SpentBy(u)
  <2>1. /\ IsFiniteSet(CallsOf(u))
        /\ SpentBy(u) = SumFunctionOnSet(Spending, CallsOf(u))
        /\ \A d \in Call : Spending[d] \in Int
    BY SumsOverColumns DEF SumsRange
  <2>2. (SpentBy(u))' = SumFunctionOnSet(Spending, (CallsOf(u))')
    BY <1>2, <1>3, SumsNext DEF SumsRange
  <2>3. c \notin CallsOf(u)
    BY <1>1 DEF CallsOf
  <2>4. \A d \in CallsOf(u) \cup {c} : Spending[d] \in Int
    BY <2>1 DEF CallsOf
  <2>5. CASE p.caller = u
    <3>1. (CallsOf(u))' = CallsOf(u) \cup {c}
      BY <1>1, <2>5 DEF CallsOf
    <3>2. SumFunctionOnSet(Spending, CallsOf(u) \cup {c})
            = Spending[c] + SumFunctionOnSet(Spending, CallsOf(u))
      BY <2>1, <2>3, <2>4, SumAdds
    <3>3. SumFunctionOnSet(Spending, CallsOf(u)) \in Int
      BY <2>1, <2>4, SumType
    <3> QED BY <1>4, <2>1, <2>2, <3>1, <3>2, <3>3
  <2>6. CASE p.caller # u
    <3>1. (CallsOf(u))' = CallsOf(u)
      BY <1>1, <2>6 DEF CallsOf
    <3> QED BY <2>1, <2>2, <3>1
  <2> QED BY <2>5, <2>6
<1>6. ASSUME NEW l \in Listener
      PROVE  (EarnedBy(l))' = EarnedBy(l)
  <2>1. /\ IsFiniteSet(CallsAt(l))
        /\ EarnedBy(l) = SumFunctionOnSet(Earning, CallsAt(l))
        /\ \A d \in Call : Earning[d] \in Int
    BY SumsOverColumns DEF SumsRange
  <2>2. (EarnedBy(l))' = SumFunctionOnSet(Earning, (CallsAt(l))')
    BY <1>2, <1>3, SumsNext DEF SumsRange
  <2>3. c \notin CallsAt(l)
    BY <1>1 DEF CallsAt
  <2>4. \A d \in CallsAt(l) \cup {c} : Earning[d] \in Int
    BY <2>1 DEF CallsAt
  <2>5. CASE p.listener = l
    <3>1. (CallsAt(l))' = CallsAt(l) \cup {c}
      BY <1>1, <2>5 DEF CallsAt
    <3>2. SumFunctionOnSet(Earning, CallsAt(l) \cup {c})
            = Earning[c] + SumFunctionOnSet(Earning, CallsAt(l))
      BY <2>1, <2>3, <2>4, SumAdds
    <3>3. SumFunctionOnSet(Earning, CallsAt(l)) \in Int
      BY <2>1, <2>4, SumType
    <3> QED BY <1>4, <2>1, <2>2, <3>1, <3>2, <3>3
  <2>6. CASE p.listener # l
    <3>1. (CallsAt(l))' = CallsAt(l)
      BY <1>1, <2>6 DEF CallsAt
    <3> QED BY <2>1, <2>2, <3>1
  <2> QED BY <2>5, <2>6
<1> QED BY <1>1, <1>2, <1>5, <1>6 DEF CoinsConserved

\* A committed tick moves one charge from the caller's wallet into the call's
\* total, and the listener's share into their earnings.
LEMMA BillKeepsCoins ==
    ASSUME TypeOK, TypeOK', CoinsInv, NEW c \in Call, NEW m \in Minute,
           SettleOutcome(c, m) = "billed", BillTx(c, m)
    PROVE  CoinsInv'
<1> USE DEF CoinsInv
<1> DEFINE p == party[c]
           price == Rate[p.type]
           share == Share[p.type]
<1>1. status[c] = "active" /\ status' = status /\ party' = party /\ funded' = funded
  BY DEF SettleOutcome, BillTx, callRowVars
<1>2. p \in Party /\ price \in Int /\ share \in Int
  BY <1>1, RatesAssumption DEF TypeOK, StoreTypeOK, Party
<1>3. /\ balance'[p.caller] = balance[p.caller] - price
      /\ \A u \in User : u # p.caller => balance'[u] = balance[u]
      /\ earnings'[p.listener] = earnings[p.listener] + share
      /\ \A l \in Listener : l # p.listener => earnings'[l] = earnings[l]
  BY <1>2 DEF BillTx, TypeOK, StoreTypeOK, Party
<1>4. /\ Spending'[c] = Spending[c] + price
      /\ Earning'[c] = Earning[c] + share
      /\ \A d \in Call : d # c => /\ Spending'[d] = Spending[d]
                                  /\ Earning'[d] = Earning[d]
  BY DEF BillTx, TypeOK, StoreTypeOK, Spending, Earning
<1>5. CallsMade' = CallsMade
  BY <1>1 DEF CallsMade
<1>6. /\ \A u \in User : (CallsOf(u))' = CallsOf(u)
      /\ \A l \in Listener : (CallsAt(l))' = CallsAt(l)
  BY <1>1 DEF CallsOf, CallsAt
<1> HIDE DEF p, price, share
<1>7. ASSUME NEW u \in User
      PROVE  (SpentBy(u))' = SpentBy(u) + balance[u] - balance'[u]
  <2>1. /\ IsFiniteSet(CallsOf(u))
        /\ SpentBy(u) = SumFunctionOnSet(Spending, CallsOf(u))
        /\ \A d \in Call : Spending[d] \in Int
    BY SumsOverColumns DEF SumsRange
  <2>2. /\ (SpentBy(u))' = SumFunctionOnSet(Spending', CallsOf(u))
        /\ \A d \in Call : Spending'[d] \in Int
    BY <1>5, <1>6, SumsNext DEF SumsRange
  <2>3. CallsOf(u) \subseteq Call
    BY DEF CallsOf
  <2>4. balance[u] \in Int /\ balance'[u] \in Int
    BY DEF TypeOK, StoreTypeOK
  <2>5. SpentBy(u) \in Int
    BY <2>1, <2>3, SumType
  <2>6. CASE p.caller = u
    <3>1. c \in CallsOf(u)
      BY <1>1, <2>6 DEF CallsOf, p
    <3>2. SumFunctionOnSet(Spending', CallsOf(u))
            = SumFunctionOnSet(Spending, CallsOf(u)) + Spending'[c] - Spending[c]
      BY <1>4, <2>1, <2>2, <2>3, <3>1, SumChanges
    <3>3. Spending[c] \in Int
      BY <2>1
    <3> QED BY <1>2, <1>3, <1>4, <2>1, <2>2, <2>4, <2>5, <2>6, <3>2, <3>3
  <2>7. CASE p.caller # u
    <3>1. c \notin CallsOf(u)
      BY <2>7 DEF CallsOf, p
    <3>2. SumFunctionOnSet(Spending', CallsOf(u))
            = SumFunctionOnSet(Spending, CallsOf(u))
      BY <1>4, <2>1, <2>3, <3>1, SumAgrees
    <3> QED BY <1>3, <2>1, <2>2, <2>4, <2>5, <2>7, <3>2
  <2> QED BY <2>6, <2>7
<1>8. ASSUME NEW l \in Listener
      PROVE  (EarnedBy(l))' = EarnedBy(l) + earnings'[l] - earnings[l]
  <2>1. /\ IsFiniteSet(CallsAt(l))
        /\ EarnedBy(l) = SumFunctionOnSet(Earning, CallsAt(l))
        /\ \A d \in Call : Earning[d] \in Int
    BY SumsOverColumns DEF SumsRange
  <2>2. /\ (EarnedBy(l))' = SumFunctionOnSet(Earning', CallsAt(l))
        /\ \A d \in Call : Earning'[d] \in Int
    BY <1>5, <1>6, SumsNext DEF SumsRange
  <2>3. CallsAt(l) \subseteq Call
    BY DEF CallsAt
  <2>4. earnings[l] \in Int /\ earnings'[l] \in Int
    BY DEF TypeOK, StoreTypeOK
  <2>5. EarnedBy(l) \in Int
    BY <2>1, <2>3, SumType
  <2>6. CASE p.listener = l
    <3>1. c \in CallsAt(l)
      BY <1>1, <2>6 DEF CallsAt, p
    <3>2. SumFunctionOnSet(Earning', CallsAt(l))
            = SumFunctionOnSet(Earning, CallsAt(l)) + Earning'[c] - Earning[c]
      BY <1>4, <2>1, <2>2, <2>3, <3>1, SumChanges
    <3>3. Earning[c] \in Int
      BY <2>1
    <3> QED BY <1>2, <1>3, <1>4, <2>1, <2>2, <2>4, <2>5, <2>6, <3>2, <3>3
  <2>7. CASE p.listener # l
    <3>1. c \notin CallsAt(l)
      BY <2>7 DEF CallsAt, p
    <3>2. SumFunctionOnSet(Earning', CallsAt(l))
            = SumFunctionOnSet(Earning, CallsAt(l))
      BY <1>4, <2>1, <2>3, <3>1, SumAgrees
    <3> QED BY <1>3, <2>1, <2>2, <2>4, <2>5, <2>7, <3>2
  <2> QED BY <2>6, <2>7
<1>9. ASSUME NEW u \in User
      PROVE  balance'[u] + (SpentBy(u))' = funded[u]
  <2>1. balance[u] + SpentBy(u) = funded[u]
    BY DEF CoinsConserved
  <2>2. balance[u] \in Int /\ balance'[u] \in Int /\ funded[u] \in Int
    BY DEF TypeOK, StoreTypeOK
  <2>3. SpentBy(u) \in Int
    BY SumsOverColumns DEF SumsRange
  <2> QED BY <1>7, <2>1, <2>2, <2>3
<1>10. ASSUME NEW l \in Listener
       PROVE  earnings'[l] = (EarnedBy(l))'
  <2>1. earnings[l] = EarnedBy(l)
    BY DEF CoinsConserved
  <2>2. earnings[l] \in Int /\ earnings'[l] \in Int
    BY DEF TypeOK, StoreTypeOK
  <2> QED BY <1>8, <2>1, <2>2
<1> QED BY <1>1, <1>5, <1>9, <1>10 DEF CoinsConserved

\* No end and no block makes or unmakes a call.
LEMMA EndsKeepCallsMade ==
    ASSUME TypeOK,
           \/ \E c \in Call, reason \in Reason : EndTx(c, reason)
           \/ \E u \in User, v \in User : BlockTx(u, v)
    PROVE  \A d \in Call : status'[d] = "none" <=> status[d] = "none"
<1> USE DEF TypeOK, StoreTypeOK
<1>1. ASSUME NEW c \in Call, NEW reason \in Reason, EndTx(c, reason), NEW d \in Call
      PROVE  status'[d] = "none" <=> status[d] = "none"
  BY <1>1 DEF EndTx, Endable
<1>2. ASSUME NEW u \in User, NEW v \in User, BlockTx(u, v), NEW d \in Call
      PROVE  status'[d] = "none" <=> status[d] = "none"
  BY <1>2 DEF BlockTx, CutBy
<1> QED BY <1>1, <1>2

LEMMA CoinsStep ==
    ASSUME TypeOK, TypeOK', TotalsInv, CoinsInv, StoreStep
    PROVE  CoinsInv'
<1> USE DEF CoinsInv
\* Steps that bill nothing and make no call leave the sums alone.
<1>1. ASSUME UNCHANGED <<party, totals, earnings>>,
             \A d \in Call : status'[d] = "none" <=> status[d] = "none"
      PROVE  /\ IsFiniteSet(CallsMade)'
             /\ \A u \in User : (SpentBy(u))' = SpentBy(u)
             /\ \A l \in Listener : (EarnedBy(l))' = EarnedBy(l)
  <2>1. CallsMade' = CallsMade
    BY <1>1 DEF CallsMade
  <2>2. /\ \A u \in User : (CallsOf(u))' = CallsOf(u)
        /\ \A l \in Listener : (CallsAt(l))' = CallsAt(l)
    BY <1>1 DEF CallsOf, CallsAt
  <2> QED BY <1>1, <2>1, <2>2 DEF SpentBy, EarnedBy
<1>2. ASSUME UNCHANGED <<party, totals, balance, funded, earnings>>,
             \A d \in Call : status'[d] = "none" <=> status[d] = "none"
      PROVE  CoinsInv'
  BY <1>1, <1>2 DEF CoinsConserved
<1>3. ASSUME NEW c \in Call, AcceptTx(c)
      PROVE  CoinsInv'
  BY <1>2, <1>3 DEF AcceptTx, moneyVars, TypeOK, StoreTypeOK
<1>4. ASSUME NEW c \in Call, NEW reason \in Reason, EndTx(c, reason)
      PROVE  CoinsInv'
  <2>1. \A d \in Call : status'[d] = "none" <=> status[d] = "none"
    BY <1>4, EndsKeepCallsMade
  <2> QED
    BY <1>2, <1>4, <2>1 DEF EndTx, moneyVars
<1>5. ASSUME NEW u \in User, NEW v \in User, BlockTx(u, v)
      PROVE  CoinsInv'
  <2>1. \A d \in Call : status'[d] = "none" <=> status[d] = "none"
    BY <1>5, EndsKeepCallsMade
  <2> QED
    BY <1>2, <1>5, <2>1 DEF BlockTx, moneyVars
<1>6. ASSUME NEW u \in User, NEW n \in Nat, CreditTx(u, n) \/ DebitTx(u, n)
      PROVE  CoinsInv'
  <2>1. \A v \in User : /\ balance'[v] - balance[v] = funded'[v] - funded[v]
                        /\ balance[v] \in Int /\ balance'[v] \in Int
                        /\ funded[v] \in Int /\ funded'[v] \in Int
    BY <1>6 DEF CreditTx, DebitTx, TypeOK, StoreTypeOK
  <2>2. UNCHANGED <<party, status, totals, earnings>>
    BY <1>6 DEF CreditTx, DebitTx, callRowVars
  <2>3. ASSUME NEW v \in User
        PROVE  balance'[v] + (SpentBy(v))' = funded'[v]
    <3>1. balance[v] + SpentBy(v) = funded[v] /\ (SpentBy(v))' = SpentBy(v)
      BY <1>1, <2>2 DEF CoinsConserved
    <3>2. SpentBy(v) \in Int
      BY SumsOverColumns DEF SumsRange
    <3>3. /\ balance'[v] - balance[v] = funded'[v] - funded[v]
          /\ balance[v] \in Int /\ balance'[v] \in Int
          /\ funded[v] \in Int /\ funded'[v] \in Int
      BY <2>1
    <3> QED BY <3>1, <3>2, <3>3
  <2> QED BY <1>1, <2>2, <2>3 DEF CoinsConserved
<1>7. ASSUME UNCHANGED <<status, party, totals, balance, funded, earnings>>
      PROVE  CoinsInv'
  BY <1>2, <1>7
<1> QED
  BY <1>3, <1>4, <1>5, <1>6, <1>7, ClaimKeepsCoins, BillKeepsCoins
     DEF StoreStep, BurnTrialTx, UnblockTx, storeVars, callRowVars, moneyVars

\* No coin appears or is lost, whichever of the racing ends, redelivered ticks,
\* refused charges and crashes happen: every wallet is what was credited to it
\* less what its calls were charged, and all a listener earned is on the rows of
\* their calls (billing.engine.js:38-40, 161-224).
THEOREM CoinsAreConserved == Spec => []CoinsConserved
<1>1. Init => CoinsInv
  <2> SUFFICES ASSUME Init PROVE CoinsInv
    OBVIOUS
  <2>1. CallsMade = {}
    BY DEF Init, StoreInit, CallsMade
  <2>2. /\ \A u \in User : CallsOf(u) = {}
        /\ \A l \in Listener : CallsAt(l) = {}
    BY DEF Init, StoreInit, CallsOf, CallsAt
  <2>3. IsFiniteSet(CallsMade)
    BY <2>1, FS_EmptySet
  <2>4. TypeOK
    BY InitType
  <2>5. /\ \A u \in User : SpentBy(u) = 0
        /\ \A l \in Listener : EarnedBy(l) = 0
    BY <2>2, <2>3, <2>4, SumsOverColumns, SumEmpty DEF SumsRange
  <2> QED BY <2>3, <2>5, BoundsAssumption DEF Init, StoreInit, CoinsInv, CoinsConserved
<1>2. TypeOK /\ TypeOK' /\ TotalsInv /\ CoinsInv /\ [Next]_vars => CoinsInv'
  BY NextStoreStep, CoinsStep
<1>3. Init => TotalsInv
  BY DEF Init, StoreInit, TotalsInv, UnusedIsBlank, TotalsMatchTicks
<1>4. TypeOK /\ TotalsInv /\ [Next]_vars => TotalsInv'
  BY NextStoreStep, TotalsStep
<1>5. CoinsInv => CoinsConserved
  BY DEF CoinsInv
<1> QED
  BY <1>1, <1>2, <1>3, <1>4, <1>5, TypeCorrect, PTL DEF Spec

-----------------------------------------------------------------------------
(* A call that is over stays as it ended *)

LEMMA FrozenStep ==
    ASSUME TypeOK, StoreStep, NEW c \in Call, Over(c)
    PROVE  /\ status'[c] = status[c]
           /\ endReason'[c] = endReason[c]
           /\ ticks'[c] = ticks[c]
           /\ totals'[c] = totals[c]
<1> USE DEF TypeOK, StoreTypeOK, moneyVars, callRowVars
<1>1. ASSUME NEW d \in Call, NEW p \in Party, ClaimTx(d, p)
      PROVE  UNCHANGED <<status[c], endReason[c], ticks[c], totals[c]>>
  BY <1>1 DEF ClaimTx
<1>2. ASSUME NEW d \in Call, AcceptTx(d)
      PROVE  UNCHANGED <<status[c], endReason[c], ticks[c], totals[c]>>
  BY <1>2 DEF AcceptTx
<1>3. ASSUME NEW d \in Call, NEW m \in Minute,
             SettleOutcome(d, m) = "billed", BillTx(d, m)
      PROVE  UNCHANGED <<status[c], endReason[c], ticks[c], totals[c]>>
  <2>1. d # c
    BY <1>3 DEF SettleOutcome
  <2> QED
    BY <1>3, <2>1 DEF BillTx
<1>4. ASSUME NEW d \in Call, NEW reason \in Reason, EndTx(d, reason)
      PROVE  UNCHANGED <<status[c], endReason[c], ticks[c], totals[c]>>
  <2>1. d # c
    BY <1>4 DEF EndTx, Endable
  <2> QED
    BY <1>4, <2>1 DEF EndTx
<1>5. ASSUME NEW u \in User, NEW v \in User, BlockTx(u, v)
      PROVE  UNCHANGED <<status[c], endReason[c], ticks[c], totals[c]>>
  <2>1. c \notin CutBy(u, v)
    BY DEF CutBy
  <2> QED
    BY <1>5, <2>1 DEF BlockTx
<1> QED
  BY <1>1, <1>2, <1>3, <1>4, <1>5
     DEF StoreStep, BurnTrialTx, UnblockTx, CreditTx, DebitTx, storeVars

\* No late tick, second end, sweep or block changes the status, the reason, the
\* ticks or the totals of a call that is over (billing.engine.js:151-152,
\* 244-246).
THEOREM OverIsFrozen == Spec => OverCallIsFrozen
<1> DEFINE Frozen == \A c \in Call : Over(c) =>
                        /\ status'[c] = status[c]
                        /\ endReason'[c] = endReason[c]
                        /\ ticks'[c] = ticks[c]
                        /\ totals'[c] = totals[c]
<1>1. TypeOK /\ [Next]_vars => [Frozen]_vars
  BY NextStoreStep, FrozenStep
<1> QED
  BY <1>1, TypeCorrect, PTL DEF Spec, OverCallIsFrozen

-----------------------------------------------------------------------------
(* CallBilling implements CallLedger *)

LEMMA LedgerInit == Init => Ledger!Init
BY DEF Init, StoreInit, Ledger!Init

LEMMA LedgerStep ==
    TypeOK /\ ClaimInv /\ StoreStep => [Ledger!Next]_(Ledger!ledgerVars)
<1> SUFFICES ASSUME TypeOK, ClaimInv, StoreStep
             PROVE  Ledger!Next \/ UNCHANGED Ledger!ledgerVars
  OBVIOUS
<1> USE DEF TypeOK, StoreTypeOK
<1>1. ASSUME NEW c \in Call, NEW p \in Party, ClaimTx(c, p)
      PROVE  Ledger!Next
  <2>1. p \in Ledger!Party
    BY DEF Party, Ledger!Party
  <2>2. ~Ledger!InCall(p.listener)
    BY <1>1 DEF ClaimTx, Claimable, ClaimInv, LiveCallHoldsListener,
                Ledger!InCall, Ledger!LivePhase
  <2>3. Ledger!Ring(c, p)
    BY <1>1, <2>1, <2>2 DEF ClaimTx, moneyVars, Ledger!Ring
  <2> QED
    BY <2>1, <2>3 DEF Ledger!Next
<1>2. ASSUME NEW c \in Call, AcceptTx(c)
      PROVE  Ledger!Next
  <2>1. Ledger!Answer(c)
    BY <1>2 DEF AcceptTx, moneyVars, Ledger!Answer
  <2> QED
    BY <2>1 DEF Ledger!Next
<1>3. ASSUME NEW c \in Call, NEW m \in Minute,
             SettleOutcome(c, m) = "billed", BillTx(c, m)
      PROVE  Ledger!Next
  <2>1. /\ status[c] = "active"
        /\ ~(balance[party[c].caller] < Rate[party[c].type])
        /\ m \notin ticks[c]
    BY <1>3 DEF SettleOutcome
  <2>2. Rate[party[c].type] \in Nat /\ balance[party[c].caller] \in Nat
    BY <2>1, RatesAssumption DEF Party
  <2>3. balance[party[c].caller] >= Rate[party[c].type]
    BY <2>1, <2>2
  <2>4. Ledger!Charge(c, m)
    BY <1>3, <2>1, <2>3 DEF BillTx, callRowVars, Ledger!Charge
  <2> QED
    BY <2>4 DEF Ledger!Next
<1>4. ASSUME NEW S \in SUBSET Call, S # {},
             \A c \in S : Live(c) /\ Over(c)',
             status' \in [Call -> Status],
             \A c \in Call \ S : status'[c] = status[c],
             UNCHANGED <<party, ticks, balance, funded, earnings>>
      PROVE  Ledger!Next
  <2> DEFINE over == [c \in S |-> status'[c]]
  <2>1. over \in [S -> Ledger!OverPhase]
    BY <1>4 DEF Ledger!OverPhase
  <2>2. status' = [c \in Call |-> IF c \in S THEN over[c] ELSE status[c]]
    BY <1>4
  <2>3. \A c \in S : status[c] \in Ledger!LivePhase
    BY <1>4 DEF Ledger!LivePhase
  <2>4. Ledger!Finish
    BY <1>4, <2>1, <2>2, <2>3 DEF Ledger!Finish
  <2> QED
    BY <2>4 DEF Ledger!Next
<1>5. ASSUME NEW c \in Call, NEW reason \in Reason, EndTx(c, reason)
      PROVE  Ledger!Next
  <2>1. Live(c) /\ Over(c)'
    BY <1>5 DEF EndTx, Endable
  <2>2. \A d \in Call \ {c} : status'[d] = status[d]
    BY <1>5 DEF EndTx
  <2>3. status' \in [Call -> Status]
    BY <1>5, EndTxType DEF Status
  <2>4. UNCHANGED <<party, ticks, balance, funded, earnings>>
    BY <1>5 DEF EndTx, moneyVars
  <2> DEFINE S == {c}
  <2>5. S \in SUBSET Call /\ S # {} /\ \A d \in S : Live(d) /\ Over(d)'
    BY <2>1
  <2>6. \A d \in Call \ S : status'[d] = status[d]
    BY <2>2
  <2> HIDE DEF S
  <2> QED
    BY <1>4, <2>3, <2>4, <2>5, <2>6
<1>6. ASSUME NEW u \in User, NEW v \in User, BlockTx(u, v)
      PROVE  Ledger!Next \/ UNCHANGED Ledger!ledgerVars
  <2> DEFINE S == CutBy(u, v)
  <2>1. \A c \in S : Live(c) /\ Over(c)'
    BY <1>6 DEF BlockTx, CutBy
  <2>2. \A c \in Call \ S : status'[c] = status[c]
    BY <1>6 DEF BlockTx
  <2>3. status' \in [Call -> Status]
    BY <1>6, BlockTxType
  <2>4. UNCHANGED <<party, ticks, balance, funded, earnings>>
    BY <1>6 DEF BlockTx, moneyVars
  <2>5. CASE S = {}
    BY <2>2, <2>3, <2>4, <2>5 DEF Ledger!ledgerVars
  <2>6. CASE S # {}
    BY <1>4, <2>1, <2>2, <2>3, <2>4, <2>6 DEF CutBy
  <2> QED
    BY <2>5, <2>6
<1>7. ASSUME NEW u \in User, NEW d \in Int,
             balance[u] + d >= 0,
             balance' = [balance EXCEPT ![u] = @ + d],
             funded' = [funded EXCEPT ![u] = @ + d],
             UNCHANGED <<status, party, ticks, earnings>>
      PROVE  Ledger!Next
  <2>1. funded'[u] - funded[u] = d
    BY <1>7
  <2>2. Ledger!Adjust(u)
    BY <1>7, <2>1 DEF Ledger!Adjust
  <2> QED
    BY <2>2 DEF Ledger!Next
<1>8. ASSUME NEW u \in User, NEW n \in Nat, CreditTx(u, n)
      PROVE  Ledger!Next
  <2>1. n \in Int /\ balance[u] + n >= 0
    OBVIOUS
  <2>2. /\ balance' = [balance EXCEPT ![u] = @ + n]
        /\ funded' = [funded EXCEPT ![u] = @ + n]
        /\ UNCHANGED <<status, party, ticks, earnings>>
    BY <1>8 DEF CreditTx, callRowVars
  <2> QED
    BY <1>7, <2>1, <2>2
<1>9. ASSUME NEW u \in User, NEW n \in Nat, DebitTx(u, n)
      PROVE  Ledger!Next
  <2> DEFINE d == 0 - n
  <2>1. d \in Int /\ balance[u] + d >= 0
    BY <1>9 DEF DebitTx
  <2>2. balance[u] - n = balance[u] + d /\ funded[u] - n = funded[u] + d
    OBVIOUS
  <2>3. /\ balance' = [balance EXCEPT ![u] = balance[u] + d]
        /\ funded' = [funded EXCEPT ![u] = funded[u] + d]
    <3> HIDE DEF d
    <3> QED
      BY <1>9, <2>2 DEF DebitTx
  <2>4. UNCHANGED <<status, party, ticks, earnings>>
    BY <1>9 DEF DebitTx, callRowVars
  <2> HIDE DEF d
  <2> QED
    BY <1>7, <2>1, <2>2, <2>3, <2>4
<1>10. ASSUME UNCHANGED <<callRowVars, moneyVars>>
       PROVE  UNCHANGED Ledger!ledgerVars
  BY <1>10 DEF callRowVars, moneyVars, Ledger!ledgerVars
<1> QED
  BY <1>1, <1>2, <1>3, <1>5, <1>6, <1>8, <1>9, <1>10
     DEF StoreStep, BurnTrialTx, UnblockTx, storeVars

\* Under any interleaving, redelivery, lost lock, lost key or crash, what is
\* committed is a behaviour of the abstract ledger: one call per listener, one
\* charge per minute, in full and only while the call is active and affordable.
THEOREM ImplementsCallLedger == Spec => ImplementsLedger
<1>1. Init => Ledger!Init
  BY LedgerInit
<1>2. TypeOK /\ OneCallPerListener /\ LiveCallHoldsListener /\ [Next]_vars
          => [Ledger!Next]_(Ledger!ledgerVars)
  BY NextStoreStep, LedgerStep DEF ClaimInv
<1> QED
  BY <1>1, <1>2, TypeCorrect, ListenerIsClaimedOnce, LiveCallIsHeld, PTL
     DEF Spec, ImplementsLedger, Ledger!Spec

-----------------------------------------------------------------------------
(* The chain of ticks *)

Answered(c) == status[c] \in {"active", "ended", "failed"}

\* What a consumer knows of its message at the step it has reached.
Knows(w) ==
    LET c == job[w].call
        m == job[w].minute IN
    /\ at[w] # "idle" => m \in sent[c]
    /\ at[w] = "record" => outcome[w] = "billed"
    /\ at[w] = "release" =>
         /\ outcome[w] # "none"
         /\ outcome[w] = "not_active" => Over(c)
    /\ at[w] = "clear" => Over(c)
    /\ at[w] = "ack" => Over(c) \/ m + 1 \in sent[c] \/ m = MaxMinute

\* Ticks exist for answered calls only, and in an unbroken row from minute 1.
Published ==
    \A c \in Call :
        /\ accepting[c] # "none" => Answered(c)
        /\ sent[c] # {} => Answered(c)
        /\ ticks[c] \subseteq sent[c]
        /\ \A m \in sent[c] : 1 .. m \subseteq sent[c]

Succeeded ==
    \A c \in Call : \A m \in acked[c] :
        Over(c) \/ m + 1 \in sent[c] \/ m = MaxMinute

ChainInv == Published /\ Succeeded /\ \A w \in Worker : Knows(w)

\* A call that was answered stays so, and one that is over stays over.
LEMMA StatusMoves ==
    ASSUME TypeOK, StoreStep, NEW c \in Call
    PROVE  /\ Answered(c) => Answered(c)'
           /\ Over(c) => Over(c)'
<1>1. Over(c) => Over(c)'
  BY FrozenStep
<1>2. status[c] = "active" => Answered(c)'
  BY DEF StoreStep, TypeOK, StoreTypeOK, Answered, ClaimTx, AcceptTx, BurnTrialTx,
         BillTx, EndTx, BlockTx, UnblockTx, CreditTx, DebitTx,
         storeVars, callRowVars
<1> QED
  BY <1>1, <1>2 DEF Answered

LEMMA KnowsFrame ==
    ASSUME TypeOK, StoreStep, NEW w \in Worker, Knows(w),
           at'[w] = at[w], job'[w] = job[w], outcome'[w] = outcome[w],
           \A c \in Call : sent[c] \subseteq sent'[c]
    PROVE  Knows(w)'
<1>1. CASE at[w] = "idle"
  BY <1>1 DEF Knows
<1>2. CASE at[w] # "idle"
  <2>1. job[w].call \in Call
    BY <1>2 DEF TypeOK, WorkerTypeOK, Job
  <2>2. Over(job[w].call) => Over(job[w].call)'
    BY <2>1, StatusMoves
  <2> QED
    BY <2>1, <2>2 DEF Knows
<1> QED
  BY <1>1, <1>2

LEMMA PublishedFrame ==
    ASSUME TypeOK, StoreStep, Published,
           UNCHANGED <<sent, ticks>>,
           \A c \in Call : accepting'[c] # "none" =>
                             accepting[c] # "none" \/ Answered(c)'
    PROVE  Published'
BY StatusMoves DEF Published

LEMMA SucceededFrame ==
    ASSUME TypeOK, StoreStep, Succeeded, UNCHANGED acked,
           \A c \in Call : sent[c] \subseteq sent'[c]
    PROVE  Succeeded'
BY StatusMoves DEF Succeeded

\* A step that publishes, bills and acknowledges nothing, and moves no consumer.
LEMMA ChainFrame ==
    ASSUME TypeOK, StoreStep, ChainInv,
           UNCHANGED <<queueVars, workerVars, ticks>>,
           \A c \in Call : accepting'[c] # "none" =>
                             accepting[c] # "none" \/ Answered(c)'
    PROVE  ChainInv'
<1>1. UNCHANGED <<sent, acked, ticks, at, job, outcome>>
  BY DEF queueVars, workerVars
<1>2. Published' /\ Succeeded'
  BY <1>1, PublishedFrame, SucceededFrame DEF ChainInv
<1>3. ASSUME NEW w \in Worker PROVE Knows(w)'
  BY <1>1, KnowsFrame DEF ChainInv
<1> QED
  BY <1>2, <1>3 DEF ChainInv

\* Publishing minute 1, or the successor of a published minute, keeps the row
\* unbroken and loses nothing.
LEMMA ScheduleKeepsRow ==
    ASSUME QueueTypeOK, Published, NEW c \in Call, NEW m \in Nat \ {0},
           m = 1 \/ m - 1 \in sent[c],
           ScheduleTick(c, m)
    PROVE  /\ \A d \in Call : sent[d] \subseteq sent'[d]
           /\ \A d \in Call : d # c => sent'[d] = sent[d]
           /\ \A d \in Call : \A k \in sent'[d] : 1 .. k \subseteq sent'[d]
           /\ m \in sent'[c] \/ m > MaxMinute
<1>1. CASE m \in Minute \ sent[c]
  <2>1. sent' = [sent EXCEPT ![c] = @ \cup {m}]
    BY <1>1 DEF ScheduleTick
  <2>2. sent'[c] = sent[c] \cup {m} /\ \A d \in Call : d # c => sent'[d] = sent[d]
    BY <2>1 DEF QueueTypeOK
  <2>3. 1 .. (m - 1) \subseteq sent[c]
    BY DEF Published
  <2>4. 1 .. m \subseteq sent'[c]
    BY <2>2, <2>3
  <2>5. \A k \in sent[c] : 1 .. k \subseteq sent'[c]
    BY <2>2 DEF Published
  <2> QED
    BY <2>2, <2>4, <2>5 DEF Published
<1>2. CASE m \notin Minute \ sent[c]
  <2>1. sent' = sent
    BY <1>2 DEF ScheduleTick
  <2>2. m \in sent[c] \/ m > MaxMinute
    BY <1>2, BoundsAssumption DEF Minute
  <2> QED
    BY <2>1, <2>2 DEF Published
<1> QED
  BY <1>1, <1>2

LEMMA ApiChain == TypeOK /\ ChainInv /\ Api => ChainInv'
<1> SUFFICES ASSUME TypeOK, ChainInv, Api PROVE ChainInv'
  OBVIOUS
<1>0. StoreStep
  BY ApiStoreStep
<1>1. ASSUME NEW c \in Call, AcceptSchedule(c)
      PROVE  ChainInv'
  <2>1. ScheduleTick(c, 1) /\ accepting[c] # "none"
    BY <1>1 DEF AcceptSchedule
  <2>2. UNCHANGED <<ticks, acked, status, at, job, outcome>>
    BY <1>1 DEF AcceptSchedule, ScheduleTick, storeVars, callRowVars, moneyVars,
                workerVars
  <2>3. /\ \A d \in Call : sent[d] \subseteq sent'[d]
        /\ \A d \in Call : d # c => sent'[d] = sent[d]
        /\ \A d \in Call : \A k \in sent'[d] : 1 .. k \subseteq sent'[d]
    BY <2>1, ScheduleKeepsRow DEF TypeOK, ChainInv
  <2>4. \A d \in Call : accepting'[d] # "none" => accepting[d] # "none"
    BY <1>1 DEF AcceptSchedule, TypeOK, ApiTypeOK
  <2>5. Published'
    BY <2>1, <2>2, <2>3, <2>4 DEF ChainInv, Published, Answered
  <2>6. Succeeded'
    BY <1>0, <2>2, <2>3, SucceededFrame DEF ChainInv
  <2>7. ASSUME NEW w \in Worker PROVE Knows(w)'
    BY <1>0, <2>2, <2>3, KnowsFrame DEF ChainInv
  <2> QED
    BY <2>5, <2>6, <2>7 DEF ChainInv
<1>2. ASSUME NEW c \in Call, Accept(c)
      PROVE  ChainInv'
  <2>1. Answered(c)'
    BY <1>2 DEF Accept, AcceptTx, Answered, TypeOK, StoreTypeOK
  <2>2. \A d \in Call : accepting'[d] # "none" => accepting[d] # "none" \/ Answered(d)'
    BY <1>2, <2>1 DEF Accept, TypeOK, ApiTypeOK
  <2>3. UNCHANGED <<queueVars, workerVars, ticks>>
    BY <1>2 DEF Accept, AcceptTx, moneyVars
  <2> QED
    BY <1>0, <2>2, <2>3, ChainFrame
<1>3. ASSUME NEW c \in Call,
             AcceptInitState(c) \/ AcceptBurnTrial(c) \/ AcceptDies(c)
      PROVE  ChainInv'
  <2>1. \A d \in Call : accepting'[d] # "none" => accepting[d] # "none"
    BY <1>3 DEF AcceptInitState, AcceptBurnTrial, AcceptDies, TypeOK, ApiTypeOK
  <2>2. UNCHANGED <<queueVars, workerVars, ticks>>
    BY <1>3 DEF AcceptInitState, AcceptBurnTrial, AcceptDies, BurnTrialTx,
                storeVars, moneyVars
  <2> QED
    BY <1>0, <2>1, <2>2, ChainFrame
<1>4. ASSUME UNCHANGED <<queueVars, workerVars, ticks, accepting>>
      PROVE  ChainInv'
  BY <1>0, <1>4, ChainFrame
<1>6. ASSUME NEW r \in ending, EndCall(r) \/ EndRequestDies(r)
      PROVE  UNCHANGED <<queueVars, workerVars, ticks, accepting>>
  BY <1>6 DEF EndCall, EndRequestDies, EndTx, storeVars, moneyVars
<1>7. ASSUME NEW c \in Call, NEW reason \in ClientReasons, EndRequested(c, reason)
      PROVE  UNCHANGED <<queueVars, workerVars, ticks, accepting>>
  BY <1>7 DEF EndRequested, storeVars, moneyVars
<1>8. ASSUME NEW b \in BlockPairs, Block(b[1], b[2]) \/ Unblock(b[1], b[2])
      PROVE  UNCHANGED <<queueVars, workerVars, ticks, accepting>>
  BY <1>8 DEF Block, Unblock, BlockTx, UnblockTx, moneyVars, apiVars
<1>9. ASSUME NEW a \in Adjustments, Credit(a[1], a[2]) \/ AdjustDown(a[1], a[2])
      PROVE  UNCHANGED <<queueVars, workerVars, ticks, accepting>>
  BY <1>9 DEF Credit, AdjustDown, CreditTx, DebitTx, apiVars
<1>5. ASSUME NEW u \in User, NEW l \in Listener, NEW t \in Type,
              InitiateCheck(u, l, t)
       PROVE  UNCHANGED <<queueVars, workerVars, ticks, accepting>>
  BY <1>5 DEF InitiateCheck, storeVars, moneyVars
<1>10. ASSUME NEW u \in User, InitiateRefused(u)
       PROVE  UNCHANGED <<queueVars, workerVars, ticks, accepting>>
  BY <1>10 DEF InitiateRefused, storeVars, moneyVars
<1>11. ASSUME NEW u \in User, NEW c \in Call, InitiateClaim(u, c)
       PROVE  UNCHANGED <<queueVars, workerVars, ticks, accepting>>
  BY <1>11 DEF InitiateClaim, ClaimTx, moneyVars
<1>12. ASSUME NEW c \in Call, ClearCallState(c)
       PROVE  UNCHANGED <<queueVars, workerVars, ticks, accepting>>
  BY <1>12 DEF ClearCallState, storeVars, moneyVars
<1> QED
  BY <1>1, <1>2, <1>3, <1>4, <1>6, <1>7, <1>8, <1>9, <1>5, <1>10, <1>11, <1>12
     DEF Api

\* A step of one consumer: the others know what they knew.
LEMMA ConsumerFrame ==
    ASSUME TypeOK, StoreStep, ChainInv, NEW w \in Worker,
           \A v \in Worker \ {w} : /\ at'[v] = at[v]
                                   /\ job'[v] = job[v]
                                   /\ outcome'[v] = outcome[v],
           \A c \in Call : sent[c] \subseteq sent'[c],
           Published', Succeeded', Knows(w)'
    PROVE  ChainInv'
<1>1. ASSUME NEW v \in Worker, v # w PROVE Knows(v)'
  BY <1>1, KnowsFrame DEF ChainInv
<1> QED
  BY <1>1 DEF ChainInv

\* One that publishes, bills and acknowledges nothing.
LEMMA QuietConsumerFrame ==
    ASSUME TypeOK, StoreStep, ChainInv, NEW w \in Worker,
           \A v \in Worker \ {w} : /\ at'[v] = at[v]
                                   /\ job'[v] = job[v]
                                   /\ outcome'[v] = outcome[v],
           UNCHANGED <<sent, acked, ticks, accepting>>,
           Knows(w)'
    PROVE  ChainInv'
BY ConsumerFrame, PublishedFrame, SucceededFrame DEF ChainInv

\* A consumer that has just chained, forced or found the end may acknowledge;
\* what each step of a consumer leaves it knowing.
LEMMA TickChain == TypeOK /\ ChainInv /\ Tick => ChainInv'
<1> SUFFICES ASSUME TypeOK, ChainInv, Tick PROVE ChainInv'
  OBVIOUS
<1>0. StoreStep
  BY TickStoreStep
<1>a. ASSUME NEW w \in Worker, at[w] # "idle"
      PROVE  /\ job[w].call \in Call /\ job[w].minute \in Minute
             /\ job[w].minute \in sent[job[w].call]
             /\ Answered(job[w].call)
             /\ status[job[w].call] # "active" => Over(job[w].call)
  <2>1. job[w].call \in Call /\ job[w].minute \in Minute
    BY <1>a DEF TypeOK, WorkerTypeOK, Job
  <2>2. job[w].minute \in sent[job[w].call]
    BY <1>a DEF ChainInv, Knows
  <2> QED
    BY <2>1, <2>2 DEF ChainInv, Published, Answered, Over
<1>1. ASSUME NEW w \in Worker, NEW c \in Call, NEW m \in Minute, Deliver(w, c, m)
      PROVE  ChainInv'
  <2>1. at'[w] \in {"load", "chain"} /\ job'[w] = [call |-> c, minute |-> m]
    BY <1>1 DEF Deliver, Goes, TypeOK, WorkerTypeOK
  <2>2. m \in sent'[c]
    BY <1>1 DEF Deliver
  <2>3. Knows(w)'
    BY <2>1, <2>2 DEF Knows
  <2>4. UNCHANGED <<sent, acked, ticks, accepting>>
    BY <1>1 DEF Deliver, storeVars, moneyVars, apiVars
  <2>5. \A v \in Worker \ {w} : /\ at'[v] = at[v]
                                /\ job'[v] = job[v]
                                /\ outcome'[v] = outcome[v]
    BY <1>1 DEF Deliver, Goes, TypeOK, WorkerTypeOK
  <2> QED
    BY <1>0, <2>3, <2>4, <2>5, QuietConsumerFrame
<1>2. ASSUME NEW w \in Worker, LoadLiveCall(w)
      PROVE  ChainInv'
  <2> DEFINE c == job[w].call
  <2>1. at[w] # "idle"
    BY <1>2 DEF LoadLiveCall, Works
  <2>2. UNCHANGED <<sent, acked, ticks, accepting, status, job>>
    BY <1>2 DEF LoadLiveCall, storeVars, callRowVars, moneyVars, apiVars, queueVars
  <2>3. \/ at'[w] = "settle"
        \/ at'[w] = "release" /\ outcome'[w] = "not_active" /\ Over(c)
    BY <1>2, <1>a, <2>1 DEF LoadLiveCall, Goes, TypeOK, WorkerTypeOK
  <2>4. Knows(w)'
    BY <1>a, <2>1, <2>2, <2>3 DEF Knows, Over
  <2>5. \A v \in Worker \ {w} : /\ at'[v] = at[v]
                                /\ job'[v] = job[v]
                                /\ outcome'[v] = outcome[v]
    BY <1>2 DEF LoadLiveCall, Goes, TypeOK, WorkerTypeOK
  <2> QED
    BY <1>0, <2>2, <2>4, <2>5, QuietConsumerFrame
<1>3. ASSUME NEW w \in Worker, Settle(w)
      PROVE  ChainInv'
  <2> DEFINE c == job[w].call
             m == job[w].minute
  <2>1. at[w] # "idle"
    BY <1>3 DEF Settle, Works
  <2>2. UNCHANGED <<sent, acked, accepting, job>>
    BY <1>3 DEF Settle, apiVars, queueVars
  <2>3. /\ outcome'[w] = SettleOutcome(c, m)
        /\ \A v \in Worker \ {w} : /\ at'[v] = at[v]
                                   /\ job'[v] = job[v]
                                   /\ outcome'[v] = outcome[v]
    BY <1>3 DEF Settle, Goes, TypeOK, WorkerTypeOK
  <2>4. /\ SettleOutcome(c, m) \in {"not_active", "insufficient", "duplicate", "billed"}
        /\ SettleOutcome(c, m) = "not_active" => Over(c)
    BY <1>a, <2>1 DEF SettleOutcome
  <2>5. CASE SettleOutcome(c, m) = "billed"
    <3>1. BillTx(c, m) /\ at'[w] = "record"
      BY <1>3, <2>5 DEF Settle, Goes, TypeOK, WorkerTypeOK
    <3>2. UNCHANGED status
      BY <3>1 DEF BillTx, callRowVars
    <3>3. ticks' = [ticks EXCEPT ![c] = @ \cup {m}]
      BY <3>1 DEF BillTx
    <3>4. \A d \in Call : ticks'[d] \subseteq sent[d]
      BY <1>a, <2>1, <3>3 DEF ChainInv, Published, TypeOK, StoreTypeOK
    <3>5. Published'
      BY <2>2, <3>2, <3>4 DEF ChainInv, Published, Answered
    <3>6. Succeeded'
      BY <1>0, <2>2, SucceededFrame DEF ChainInv
    <3>7. Knows(w)'
      BY <1>a, <2>1, <2>2, <2>3, <2>5, <3>1 DEF Knows
    <3> QED
      BY <1>0, <2>2, <2>3, <3>5, <3>6, <3>7, ConsumerFrame
  <2>6. CASE SettleOutcome(c, m) # "billed"
    <3>1. at'[w] = "release"
      BY <1>3, <2>6 DEF Settle, Goes, TypeOK, WorkerTypeOK
    <3>2. UNCHANGED <<ticks, status>>
      BY <1>3, <2>6 DEF Settle, Rollback, storeVars, callRowVars, moneyVars
    <3>3. Knows(w)'
      BY <1>a, <2>1, <2>2, <2>3, <2>4, <3>1, <3>2 DEF Knows, Over
    <3> QED
      BY <1>0, <2>2, <2>3, <3>2, <3>3, QuietConsumerFrame
  <2> QED
    BY <2>5, <2>6
<1>4. ASSUME NEW w \in Worker,
             RecordTick(w) \/ ReleaseLock(w) \/ ReloadCall(w) \/ ForceClear(w)
      PROVE  ChainInv'
  <2> DEFINE c == job[w].call
             m == job[w].minute
  <2>1. at[w] # "idle"
    BY <1>4 DEF RecordTick, ReleaseLock, ReloadCall, ForceClear, Works
  <2>2. UNCHANGED <<sent, acked, ticks, accepting, status, job>>
    BY <1>4 DEF RecordTick, ReleaseLock, ReloadCall, ForceClear, storeVars,
                callRowVars, moneyVars, apiVars, queueVars
  <2>3. \A v \in Worker \ {w} : /\ at'[v] = at[v]
                                /\ job'[v] = job[v]
                                /\ outcome'[v] = outcome[v]
    BY <1>4 DEF RecordTick, ReleaseLock, ReloadCall, ForceClear, Goes, TypeOK,
                WorkerTypeOK
  <2>4. \/ at'[w] = "release" /\ outcome'[w] = "billed"
        \/ at'[w] \in {"reload", "force", "chain"}
        \/ at'[w] = "ack" /\ Over(c)
    <3>1. CASE RecordTick(w)
      BY <3>1 DEF RecordTick, Works, Goes, ChainInv, Knows, TypeOK, WorkerTypeOK
    <3>2. CASE ReleaseLock(w)
      <4>1. at'[w] = Handling(outcome[w])
        BY <3>2 DEF ReleaseLock, Goes, TypeOK, WorkerTypeOK
      <4>2. /\ outcome[w] \in Outcome \ {"none"}
            /\ outcome[w] = "not_active" => Over(c)
        BY <3>2 DEF ReleaseLock, Works, ChainInv, Knows, TypeOK, WorkerTypeOK
      <4> QED
        BY <4>1, <4>2 DEF Handling, Outcome
    <3>3. CASE ReloadCall(w)
      BY <1>a, <2>1, <3>3 DEF ReloadCall, Goes, TypeOK, WorkerTypeOK
    <3>4. CASE ForceClear(w)
      BY <3>4 DEF ForceClear, Works, Goes, ChainInv, Knows, TypeOK, WorkerTypeOK
    <3> QED
      BY <1>4, <3>1, <3>2, <3>3, <3>4
  <2>5. Knows(w)'
    BY <1>a, <2>1, <2>2, <2>4 DEF Knows, Over
  <2> QED
    BY <1>0, <2>2, <2>3, <2>5, QuietConsumerFrame
<1>5. ASSUME NEW w \in Worker, ChainNextTick(w)
      PROVE  ChainInv'
  <2> DEFINE c == job[w].call
             m == job[w].minute
  <2>1. /\ at[w] # "idle"
        /\ ScheduleTick(c, m + 1)
        /\ at'[w] = "ack"
        /\ UNCHANGED <<acked, ticks, accepting, status, job, outcome>>
    BY <1>5 DEF ChainNextTick, ScheduleTick, Works, Goes, TypeOK, WorkerTypeOK,
                storeVars, callRowVars, moneyVars, apiVars
  <2>2. c \in Call /\ m \in Minute /\ m \in sent[c] /\ Answered(c)
    BY <1>a, <2>1
  <2>3. m \in Nat /\ m >= 1 /\ m <= MaxMinute /\ MaxMinute \in Nat
    BY <2>2, BoundsAssumption DEF Minute
  <2>4. m + 1 \in Nat \ {0} /\ (m + 1) - 1 = m
    BY <2>3
  <2>5. /\ \A d \in Call : sent[d] \subseteq sent'[d]
        /\ \A d \in Call : d # c => sent'[d] = sent[d]
        /\ \A d \in Call : \A k \in sent'[d] : 1 .. k \subseteq sent'[d]
        /\ m + 1 \in sent'[c] \/ m + 1 > MaxMinute
    BY <2>1, <2>2, <2>4, ScheduleKeepsRow DEF TypeOK, ChainInv
  <2>6. m + 1 \in sent'[c] \/ m = MaxMinute
    BY <2>3, <2>5
  <2>7. Knows(w)'
    BY <2>1, <2>2, <2>5, <2>6 DEF Knows
  <2>8. Published'
    BY <2>1, <2>2, <2>5 DEF ChainInv, Published, Answered
  <2>9. Succeeded'
    BY <1>0, <2>1, <2>5, SucceededFrame DEF ChainInv
  <2>10. \A v \in Worker \ {w} : /\ at'[v] = at[v]
                                 /\ job'[v] = job[v]
                                 /\ outcome'[v] = outcome[v]
    BY <1>5 DEF ChainNextTick, Goes, TypeOK, WorkerTypeOK
  <2> QED
    BY <1>0, <2>5, <2>7, <2>8, <2>9, <2>10, ConsumerFrame
<1>6. ASSUME NEW w \in Worker, ForceEnd(w)
      PROVE  ChainInv'
  <2> DEFINE c == job[w].call
  <2>1. at[w] # "idle"
    BY <1>6 DEF ForceEnd, Works
  <2>2. UNCHANGED <<sent, acked, ticks, accepting, job, outcome>>
    BY <1>6 DEF ForceEnd, EndTx, storeVars, moneyVars, apiVars, queueVars
  <2>3. Over(c)'
    BY <1>6, <1>a, <2>1 DEF ForceEnd, EndTx, Over, TypeOK, StoreTypeOK, storeVars,
                            callRowVars
  <2>4. at'[w] \in {"clear", "ack"}
    BY <1>6 DEF ForceEnd, Goes, TypeOK, WorkerTypeOK
  <2>5. Knows(w)'
    BY <1>a, <2>1, <2>2, <2>3, <2>4 DEF Knows, Over
  <2>6. \A v \in Worker \ {w} : /\ at'[v] = at[v]
                                /\ job'[v] = job[v]
                                /\ outcome'[v] = outcome[v]
    BY <1>6 DEF ForceEnd, Goes, TypeOK, WorkerTypeOK
  <2> QED
    BY <1>0, <2>2, <2>5, <2>6, QuietConsumerFrame
<1>7. ASSUME NEW w \in Worker, Acknowledge(w)
      PROVE  ChainInv'
  <2> DEFINE c == job[w].call
             m == job[w].minute
  <2>1. at[w] # "idle"
    BY <1>7 DEF Acknowledge, Works
  <2>2. Over(c) \/ m + 1 \in sent[c] \/ m = MaxMinute
    BY <1>7 DEF Acknowledge, Works, ChainInv, Knows
  <2>3. UNCHANGED <<sent, ticks, accepting, status>>
    BY <1>7 DEF Acknowledge, storeVars, callRowVars, moneyVars, apiVars
  <2>4. \A d \in Call : \A k \in acked'[d] : k \in acked[d] \/ (d = c /\ k = m)
    BY <1>7, <1>a, <2>1 DEF Acknowledge, TypeOK, QueueTypeOK
  <2>5. Succeeded'
    BY <2>2, <2>3, <2>4 DEF ChainInv, Succeeded, Over
  <2>6. Published'
    BY <2>3 DEF ChainInv, Published, Answered
  <2>7. at'[w] = "idle"
    BY <1>7 DEF Acknowledge, BecomesIdle, Goes, TypeOK, WorkerTypeOK
  <2>8. Knows(w)'
    BY <2>7 DEF Knows
  <2>9. \A v \in Worker \ {w} : /\ at'[v] = at[v]
                                /\ job'[v] = job[v]
                                /\ outcome'[v] = outcome[v]
    BY <1>7 DEF Acknowledge, BecomesIdle, Goes, TypeOK, WorkerTypeOK
  <2> QED
    BY <1>0, <2>3, <2>5, <2>6, <2>8, <2>9, ConsumerFrame
<1>8. ASSUME NEW w \in Worker, TickFails(w)
      PROVE  ChainInv'
  <2>1. UNCHANGED <<sent, acked, ticks, accepting>>
    BY <1>8 DEF TickFails, storeVars, moneyVars, apiVars, queueVars
  <2>2. at'[w] = "idle"
    BY <1>8 DEF TickFails, BecomesIdle, Goes, TypeOK, WorkerTypeOK
  <2>3. Knows(w)'
    BY <2>2 DEF Knows
  <2>4. \A v \in Worker \ {w} : /\ at'[v] = at[v]
                                /\ job'[v] = job[v]
                                /\ outcome'[v] = outcome[v]
    BY <1>8 DEF TickFails, BecomesIdle, Goes, TypeOK, WorkerTypeOK
  <2> QED
    BY <1>0, <2>1, <2>3, <2>4, QuietConsumerFrame
<1> QED
  BY <1>1, <1>2, <1>3, <1>4, <1>5, <1>6, <1>7, <1>8 DEF Tick, TickStep

LEMMA ChainStep == TypeOK /\ ChainInv /\ [Next]_vars => ChainInv'
<1> SUFFICES ASSUME TypeOK, ChainInv, [Next]_vars PROVE ChainInv'
  OBVIOUS
<1>0. StoreStep
  BY NextStoreStep
<1>1. CASE UNCHANGED <<queueVars, workerVars, ticks, accepting>>
  BY <1>0, <1>1, ChainFrame
<1>2. CASE Sweep
  <2>1. UNCHANGED <<queueVars, workerVars, ticks, accepting>>
    BY <1>2 DEF Sweep, SweepQuery, SweepRow, SweepDies, storeVars, moneyVars, apiVars
  <2> QED
    BY <1>1, <2>1
<1>3. CASE Environment
  <2>1. UNCHANGED <<queueVars, workerVars, ticks, accepting>>
    BY <1>3 DEF Environment, CallGrowsOld, StateGrowsStale, LockExpires,
                storeVars, moneyVars, apiVars
  <2> QED
    BY <1>1, <2>1
<1>4. CASE UNCHANGED vars
  <2>1. UNCHANGED <<queueVars, workerVars, ticks, accepting>>
    BY <1>4 DEF vars, storeVars, moneyVars, apiVars
  <2> QED
    BY <1>1, <2>1
<1> QED
  BY <1>2, <1>3, <1>4, ApiChain, TickChain DEF Next

LEMMA ChainIsKept == Spec => []ChainInv
<1>1. Init => ChainInv
  <2> SUFFICES ASSUME Init PROVE ChainInv
    OBVIOUS
  <2>1. Published /\ Succeeded
    BY DEF Init, StoreInit, Published, Succeeded
  <2>2. \A w \in Worker : Knows(w)
    BY DEF Init, Knows
  <2> QED
    BY <2>1, <2>2 DEF ChainInv
<1> QED
  BY <1>1, ChainStep, TypeCorrect, PTL DEF Spec

\* For any number of consumers, deliveries and minutes: a tick acknowledged
\* while its call is active has published the next.  A consumer must be known
\* to carry the answer of its transaction to the acknowledgement, whatever
\* happens to the call meanwhile; that is what ChainInv adds.
THEOREM ChainIsUnbroken == Spec => []AckedTickHasSuccessor
<1>1. ChainInv => AckedTickHasSuccessor
  BY DEF ChainInv, Succeeded, Over, AckedTickHasSuccessor
<1> QED
  BY <1>1, ChainIsKept, PTL

\* No minute is billed ahead of its publication, nor published ahead of the
\* ones before it, however late a consumer answers.
THEOREM BilledMinutesFollow == Spec => []BilledMinutesWerePublished
<1>1. ChainInv => BilledMinutesWerePublished
  BY DEF ChainInv, Published, BilledMinutesWerePublished
<1> QED
  BY <1>1, ChainIsKept, PTL
=============================================================================
