----------------------------- MODULE CallLedger -----------------------------
(***************************************************************************)
(* What paid calling promises, without locks, queues, caches or crashes:   *)
(* a listener takes one call at a time, a minute of an active call is      *)
(* charged at most once and in one step, moving its price from the         *)
(* caller's wallet and its share to the listener's earnings, and a call    *)
(* that is over is never charged again.  CallBilling implements this.      *)
(***************************************************************************)
EXTENDS Integers

CONSTANTS User, Listener, Call, Type, Rate, Share, Minute, NoParty, StartCoins

VARIABLES phase, party, charged, wallet, funded, earned

ledgerVars == <<phase, party, charged, wallet, funded, earned>>

Party == [caller : User, listener : Listener, type : Type, free : BOOLEAN]
LivePhase == {"ringing", "active"}
OverPhase == {"ended", "failed"}

Init ==
    /\ phase = [c \in Call |-> "none"]
    /\ party = [c \in Call |-> NoParty]
    /\ charged = [c \in Call |-> {}]
    /\ wallet = StartCoins
    /\ funded = StartCoins
    /\ earned = [l \in Listener |-> 0]

InCall(l) == \E d \in Call : phase[d] \in LivePhase /\ party[d].listener = l

\* A call starts ringing only at a listener who is in no other call.
Ring(c, p) ==
    /\ phase[c] = "none"
    /\ p \in Party
    /\ ~InCall(p.listener)
    /\ phase' = [phase EXCEPT ![c] = "ringing"]
    /\ party' = [party EXCEPT ![c] = p]
    /\ UNCHANGED <<charged, wallet, funded, earned>>

Answer(c) ==
    /\ phase[c] = "ringing"
    /\ phase' = [phase EXCEPT ![c] = "active"]
    /\ UNCHANGED <<party, charged, wallet, funded, earned>>

\* One minute, once, in full, only while the call is active and affordable.
Charge(c, m) ==
    LET p == party[c] IN
    /\ phase[c] = "active"
    /\ m \notin charged[c]
    /\ wallet[p.caller] >= Rate[p.type]
    /\ charged' = [charged EXCEPT ![c] = @ \cup {m}]
    /\ wallet' = [wallet EXCEPT ![p.caller] = @ - Rate[p.type]]
    /\ earned' = [earned EXCEPT ![p.listener] = @ + Share[p.type]]
    /\ UNCHANGED <<phase, party, funded>>

\* Live calls end, several at once when a block cuts both calls of a pair.
Finish ==
    /\ \E S \in SUBSET Call :
         /\ S # {}
         /\ \A c \in S : phase[c] \in LivePhase
         /\ \E over \in [S -> OverPhase] :
              phase' = [c \in Call |-> IF c \in S THEN over[c] ELSE phase[c]]
    /\ UNCHANGED <<party, charged, wallet, funded, earned>>

\* Coins come and go outside calls, on the record and never below zero.
Adjust(u) ==
    LET d == funded'[u] - funded[u] IN
    /\ funded' = [funded EXCEPT ![u] = @ + d]
    /\ wallet' = [wallet EXCEPT ![u] = @ + d]
    /\ wallet[u] + d >= 0
    /\ UNCHANGED <<phase, party, charged, earned>>

Next ==
    \/ \E c \in Call, p \in Party : Ring(c, p)
    \/ \E c \in Call : Answer(c)
    \/ \E c \in Call, m \in Minute : Charge(c, m)
    \/ Finish
    \/ \E u \in User : Adjust(u)

Spec == Init /\ [][Next]_ledgerVars
=============================================================================
