----------------------------- MODULE CallStore -----------------------------
(***************************************************************************)
(* The PostgreSQL side of paid calls: the rows of calls, call_ticks,       *)
(* wallets, listener_profiles, users.free_trial_used and blocks that the   *)
(* call path reads and writes, and one operator per transaction.           *)
(*                                                                         *)
(* Every transaction takes the row locks it needs (SELECT ... FOR UPDATE   *)
(* or a conditional UPDATE), so each is one atomic step here; what happens *)
(* BETWEEN transactions is the business of CallBilling, which extends this *)
(* module.  The operators below constrain the store's variables only.      *)
(***************************************************************************)
EXTENDS Integers, FiniteSets

CONSTANTS
    User,       \* accounts
    Listener,   \* the accounts that have a listener profile
    Call,       \* ids the calls table may hand out (bounds the calls made)
    Type,       \* call types: audio and video in the code
    Rate,       \* Rate[t]: coins a started minute costs the caller
    Share,      \* Share[t]: coins of it that the listener earns
    MaxMinute,  \* bound: minutes of one call that are explored
    StartCoins, \* StartCoins[u]: the wallet u starts with
    TrialSpent, \* the accounts that used their free trial before
    NoParty     \* "no row": what a call id not handed out yet holds

Minute == 1 .. MaxMinute
Party == [caller : User, listener : Listener, type : Type, free : BOOLEAN]

ASSUME PartiesAssumption == Listener \subseteq User /\ NoParty \notin Party

\* RATES (constants.js): audio 6/2, video 12/4.  The platform keeps the rest.
ASSUME RatesAssumption ==
    /\ Rate \in [Type -> Nat \ {0}]
    /\ Share \in [Type -> Nat \ {0}]
    /\ \A t \in Type : Share[t] < Rate[t]

ASSUME BoundsAssumption ==
    /\ MaxMinute \in Nat \ {0}
    /\ StartCoins \in [User -> Nat]
    /\ TrialSpent \subseteq User

VARIABLES
    status,     \* calls.status; "none" before the INSERT
    party,      \* the columns of calls the INSERT sets and nobody changes
    endReason,  \* calls.end_reason
    ticks,      \* call_ticks: the minute_index values of each call's rows
    totals,     \* calls.billed_minutes, coins_spent, listener_earned
    balance,    \* wallets.coin_balance
    funded,     \* sum of each user's coin_ledger rows other than call_debit
    earnings,   \* listener_profiles.earnings_balance
    busy,       \* listener_profiles.is_busy
    totalCalls, \* listener_profiles.total_calls
    trialUsed,  \* users.free_trial_used
    blocks      \* rows of blocks: <<blocker, blocked>>

callRowVars == <<status, party, endReason>>
moneyVars   == <<ticks, totals, balance, funded, earnings>>
peopleVars  == <<busy, totalCalls, trialUsed, blocks>>
storeVars   == <<callRowVars, moneyVars, peopleVars>>

Status == {"none", "ringing", "active", "ended", "failed"}
\* "hangup" stands for caller_hangup and listener_hangup.
Reason == {"hangup", "insufficient_balance", "disconnect", "rejected",
           "timeout", "admin"}
Totals == [minutes : Nat, spent : Nat, earned : Nat]

Live(c) == status[c] \in {"ringing", "active"}
Over(c) == status[c] \in {"ended", "failed"}
Between(c, u, v) == {party[c].caller, party[c].listener} = {u, v}

StoreTypeOK ==
    /\ status \in [Call -> Status]
    /\ party \in [Call -> Party \cup {NoParty}]
    /\ \A c \in Call : status[c] # "none" => party[c] \in Party
    /\ endReason \in [Call -> Reason \cup {"none"}]
    /\ ticks \in [Call -> SUBSET Minute]
    /\ totals \in [Call -> Totals]
    /\ balance \in [User -> Nat]
    /\ funded \in [User -> Int]
    /\ earnings \in [Listener -> Nat]
    /\ busy \in [Listener -> BOOLEAN]
    /\ totalCalls \in [Listener -> Nat]
    /\ trialUsed \in [User -> BOOLEAN]
    /\ blocks \subseteq User \X User

\* No call yet.
StoreInit ==
    /\ status = [c \in Call |-> "none"]
    /\ party = [c \in Call |-> NoParty]
    /\ endReason = [c \in Call |-> "none"]
    /\ ticks = [c \in Call |-> {}]
    /\ totals = [c \in Call |-> [minutes |-> 0, spent |-> 0, earned |-> 0]]
    /\ balance = StartCoins
    /\ funded = StartCoins
    /\ earnings = [l \in Listener |-> 0]
    /\ busy = [l \in Listener |-> FALSE]
    /\ totalCalls = [l \in Listener |-> 0]
    /\ trialUsed = [u \in User |-> u \in TrialSpent]
    /\ blocks = {}

-----------------------------------------------------------------------------
(* Reads *)

\* The block check of initiate, in both directions.
Blocked(u, v) == <<u, v>> \in blocks \/ <<v, u>> \in blocks

\* billing.preflight: a caller with the trial left passes with free seconds,
\* anyone else must be able to fund one full minute.
PreflightOk(u, t) == ~trialUsed[u] \/ balance[u] >= Rate[t]

\* Bugs the properties must catch, here and before other operators: settling
\* without the status re-check, the balance condition, the unique minute.
SettleOutcomeUnchecked(c, m) ==
    CASE balance[party[c].caller] < Rate[party[c].type] -> "insufficient"
      [] m \in ticks[c] -> "duplicate"
      [] OTHER -> "billed"
SettleOutcomeRepeating(c, m) ==
    CASE status[c] # "active" -> "not_active"
      [] balance[party[c].caller] < Rate[party[c].type] -> "insufficient"
      [] OTHER -> "billed"

\* What the settle transaction answers, in the order of its statements: the
\* status re-check, the conditional debit, and only then the INSERT into
\* call_ticks that the UNIQUE constraint may refuse.
SettleOutcome(c, m) ==
    CASE status[c] # "active" -> "not_active"
      [] balance[party[c].caller] < Rate[party[c].type] -> "insufficient"
      [] m \in ticks[c] -> "duplicate"
      [] OTHER -> "billed"

-----------------------------------------------------------------------------
(* Transactions *)

\* The WHERE clause of the claim; the bug: an unconditional UPDATE.
AnyClaimable(l) == TRUE
Claimable(l) == ~busy[l]

\* initiate: claim the listener with a conditional UPDATE and insert the call.
ClaimTx(c, p) ==
    /\ status[c] = "none"
    /\ Claimable(p.listener)
    /\ busy' = [busy EXCEPT ![p.listener] = TRUE]
    /\ status' = [status EXCEPT ![c] = "ringing"]
    /\ party' = [party EXCEPT ![c] = p]
    /\ UNCHANGED <<endReason, moneyVars, totalCalls, trialUsed, blocks>>

\* accept: ringing -> active, by a conditional UPDATE.
AcceptTx(c) ==
    /\ status[c] = "ringing"
    /\ status' = [status EXCEPT ![c] = "active"]
    /\ UNCHANGED <<party, endReason, moneyVars, peopleVars>>

\* accept, in a statement of its own: burn the caller's free trial.
BurnTrialTx(c) ==
    /\ trialUsed' = [trialUsed EXCEPT ![party[c].caller] = TRUE]
    /\ UNCHANGED <<callRowVars, moneyVars, busy, totalCalls, blocks>>

\* settleTick, refused: nothing survives; the bug: the debit does.
RollbackAllButDebit(c) ==
    /\ balance' = [balance EXCEPT ![party[c].caller] = @ - Rate[party[c].type]]
    /\ UNCHANGED <<callRowVars, ticks, totals, funded, earnings, peopleVars>>
Rollback(c) == UNCHANGED storeVars

\* settleTick, committed: debit, tick row, listener credit, running totals.
BillTx(c, m) ==
    LET p == party[c] IN
    /\ balance' = [balance EXCEPT ![p.caller] = @ - Rate[p.type]]
    /\ ticks' = [ticks EXCEPT ![c] = @ \cup {m}]
    /\ earnings' = [earnings EXCEPT ![p.listener] = @ + Share[p.type]]
    /\ totals' = [totals EXCEPT ![c] = [minutes |-> @.minutes + 1,
                                        spent   |-> @.spent + Rate[p.type],
                                        earned  |-> @.earned + Share[p.type]]]
    /\ UNCHANGED <<callRowVars, funded, peopleVars>>

\* What endCall may end; the bug: a second end is processed like the first.
AnyEndable(c) == status[c] # "none"
Endable(c) == Live(c)

\* The UPDATE that frees the listener; the bug: left to a later request.
FreeNoListener(l) == UNCHANGED busy
FreeListener(l) == busy' = [busy EXCEPT ![l] = FALSE]

\* endCall on a call that is not over: status, reason, listener freed and
\* counted, all in one transaction.
EndTx(c, reason) ==
    LET l == party[c].listener
        answered == status[c] = "active" IN
    /\ Endable(c)
    /\ status' = [status EXCEPT ![c] = IF answered THEN "ended" ELSE "failed"]
    /\ endReason' = [endReason EXCEPT ![c] = reason]
    /\ FreeListener(l)
    /\ totalCalls' = [totalCalls EXCEPT ![l] = IF answered THEN @ + 1 ELSE @]
    /\ UNCHANGED <<party, moneyVars, trialUsed, blocks>>

\* The calls a block ends; the bug: it reaches the pair's past calls.
CutAllBy(u, v) == {c \in Call : status[c] # "none" /\ Between(c, u, v)}
CutBy(u, v) == {c \in Call : Live(c) /\ Between(c, u, v)}

\* POST /safety/block: the block row, and an UPDATE of calls that ends every
\* live call of the pair.  It does not go through endCall.
BlockTx(u, v) ==
    LET cut == CutBy(u, v) IN
    /\ blocks' = blocks \cup {<<u, v>>}
    /\ status' = [c \in Call |-> IF c \in cut THEN "ended" ELSE status[c]]
    /\ endReason' = [c \in Call |-> IF c \in cut THEN "admin" ELSE endReason[c]]
    /\ UNCHANGED <<party, moneyVars, busy, totalCalls, trialUsed>>

\* DELETE /safety/block/:userId
UnblockTx(u, v) ==
    /\ blocks' = blocks \ {<<u, v>>}
    /\ UNCHANGED <<callRowVars, moneyVars, busy, totalCalls, trialUsed>>

\* walletService.credit: a top-up, a purchase or an admin's adjustment up.
CreditTx(u, n) ==
    /\ balance' = [balance EXCEPT ![u] = @ + n]
    /\ funded' = [funded EXCEPT ![u] = @ + n]
    /\ UNCHANGED <<callRowVars, ticks, totals, earnings, peopleVars>>

\* walletService.debit outside a call: an admin's adjustment down.
DebitTx(u, n) ==
    /\ balance[u] >= n
    /\ balance' = [balance EXCEPT ![u] = @ - n]
    /\ funded' = [funded EXCEPT ![u] = @ - n]
    /\ UNCHANGED <<callRowVars, ticks, totals, earnings, peopleVars>>
=============================================================================
