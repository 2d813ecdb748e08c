--------------------------- MODULE MCBackground ---------------------------
(***************************************************************************)
(* The work behind the requests, for TLC: withdrawals, purchases and the   *)
(* chains of sweeps and of Live syncs.  They share no state (earned rupees *)
(* are not spendable coins, and a chain moves neither), so a behaviour is  *)
(* about one of them.                                                      *)
(***************************************************************************)
EXTENDS Payouts, Purchases, SweepChain, LiveChain

VARIABLE work       \* which of them the behaviour is about

workVars == <<work, payoutVars, purchaseVars, sweepVars, chainVars>>

WorkInit == /\ work \in {"payouts", "purchases", "sweeps", "syncs"}
            /\ PayoutInit /\ PurchaseInit /\ SweepInit /\ ChainInit
            /\ work # "purchases" => \A t \in PlayToken : playState[t] = "pending"
            /\ work # "payouts" => \A l \in Earner : mayWithdraw[l]
Only(which, A, others) == work = which /\ A /\ UNCHANGED <<work, others>>
WorkNext == \/ Only("payouts", PayoutNext, <<purchaseVars, sweepVars, chainVars>>)
            \/ Only("purchases", PurchaseNext, <<payoutVars, sweepVars, chainVars>>)
            \/ Only("sweeps", SweepNext, <<payoutVars, purchaseVars, chainVars>>)
            \/ Only("syncs", ChainNext, <<payoutVars, purchaseVars, sweepVars>>)

PublishedWork(p) == Only("payouts", HandlePayout(p), <<purchaseVars, sweepVars, chainVars>>)
SweepWork(A) == Only("sweeps", A, <<payoutVars, purchaseVars, chainVars>>)

\* PayoutFairness and SweepFairness, of the behaviours they are about.
WorkSpec ==
    /\ WorkInit /\ [][WorkNext]_workVars
    /\ \A p \in Payout : WF_workVars(PublishedWork(p))
    /\ WF_workVars(SweepWork(MinutePasses)) /\ WF_workVars(SweepWork(CronEnsures))
    /\ \A c \in SweptCall : WF_workVars(SweepWork(SweepEnsured(c)))
    /\ \A s \in SweepSlot : /\ WF_workVars(SweepWork(SweepSteps(s)))
                            /\ SF_workVars(SweepWork(Swept(s)))

-----------------------------------------------------------------------------
WorkTypeOK == PayoutTypeOK /\ PurchaseTypeOK /\ SweepTypeOK /\ ChainTypeOK

\* Neither chain of messages that re-queue themselves runs dry while it is
\* needed: a publication that a key swallowed relies on a message that has
\* still to look at the calls, or at the demand.
ChainsStayArmed == SweepIsArmed /\ DemandIsChained
=============================================================================
