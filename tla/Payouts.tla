------------------------------ MODULE Payouts ------------------------------
(***************************************************************************)
(* Withdrawals of listener earnings: the request route, the admin review,  *)
(* the message published after the review, and the payout worker.          *)
(*                                                                         *)
(* Every transaction locks the rows it decides on (FOR UPDATE, or a        *)
(* conditional UPDATE), so each is one step.  The review's handler goes on *)
(* after its commit, and the instance may die there.  The worker publishes *)
(* the push inside its transaction, which may still roll back.             *)
(***************************************************************************)
EXTENDS Integers, Functions

CONSTANTS
    Earner,           \* accounts with a listener profile
    Payout,           \* ids the payouts table may hand out (bound)
    AskedAmounts,     \* amounts a request may ask for
    CallCredits,      \* amounts a call may credit
    MinPayout,        \* MIN_PAYOUT_INR
    MaxEarned,        \* bound: lifetime earnings explored
    PayoutDeliveries, \* deliveries of one message before the queue drops it
    NoPayout          \* "no row"

ASSUME PayoutAmountsAssumption ==
    /\ AskedAmounts \subseteq Nat /\ CallCredits \subseteq Nat \ {0}
    /\ MinPayout \in Nat \ {0} /\ MaxEarned \in Nat
ASSUME PayoutQueueAssumption == PayoutDeliveries \in Nat \ {0}
ASSUME NoPayoutAssumption == NoPayout \notin [listener : Earner, amount : Nat]

VARIABLES
    payoutRow,    \* payouts.listener_id and amount
    payoutStatus, \* payouts.status; "none" before the INSERT
    upiRef,       \* payouts.upi_ref is set
    payoutDebits, \* listener_earnings rows with reason 'payout', per payout
    earnedNow,    \* listener_profiles.earnings_balance
    earnedEver,   \* listener_profiles.lifetime_earnings
    mayWithdraw,  \* kyc_status = 'approved' and upi_id is set
    reviewing,    \* payouts whose review has committed and still has to publish
    payoutJob,    \* "unsent", "queued", "acked" or "dropped"
    payoutLeft,   \* deliveries left of the payout's message
    paidPush      \* the 'Withdrawal sent' push of the payout was published

payoutVars == <<payoutRow, payoutStatus, upiRef, payoutDebits, earnedNow,
                earnedEver, mayWithdraw, reviewing, payoutJob, payoutLeft,
                paidPush>>

PayoutTypeOK ==
    /\ payoutRow \in [Payout -> [listener : Earner, amount : Nat] \cup {NoPayout}]
    /\ payoutStatus \in
         [Payout -> {"none", "requested", "approved", "paid", "rejected"}]
    /\ \A p \in Payout : payoutStatus[p] # "none" => payoutRow[p] # NoPayout
    /\ upiRef \in [Payout -> BOOLEAN]
    /\ payoutDebits \in [Payout -> Nat]
    /\ earnedNow \in [Earner -> Nat]
    /\ earnedEver \in [Earner -> Nat]
    /\ mayWithdraw \in [Earner -> BOOLEAN]
    /\ reviewing \subseteq Payout
    /\ payoutJob \in [Payout -> {"unsent", "queued", "acked", "dropped"}]
    /\ payoutLeft \in [Payout -> 0 .. PayoutDeliveries]
    /\ paidPush \in [Payout -> BOOLEAN]

PayoutInit ==
    /\ payoutRow = [p \in Payout |-> NoPayout]
    /\ payoutStatus = [p \in Payout |-> "none"]
    /\ upiRef = [p \in Payout |-> FALSE]
    /\ payoutDebits = [p \in Payout |-> 0]
    /\ earnedNow = [l \in Earner |-> 0]
    /\ earnedEver = [l \in Earner |-> 0]
    /\ mayWithdraw \in [Earner -> BOOLEAN]
    /\ reviewing = {}
    /\ payoutJob = [p \in Payout |-> "unsent"]
    /\ payoutLeft = [p \in Payout |-> PayoutDeliveries]
    /\ paidPush = [p \in Payout |-> FALSE]

-----------------------------------------------------------------------------
(* The earnings ledger *)

\* walletService.creditListener, from a call's tick.
CreditListener(l, a) ==
    /\ earnedEver[l] + a <= MaxEarned
    /\ earnedNow' = [earnedNow EXCEPT ![l] = @ + a]
    /\ earnedEver' = [earnedEver EXCEPT ![l] = @ + a]
    /\ UNCHANGED <<payoutRow, payoutStatus, upiRef, payoutDebits, mayWithdraw,
                   reviewing, payoutJob, payoutLeft, paidPush>>

\* walletService.debitListener: the ledger row refers to the payout.
DebitListener(p) ==
    LET l == payoutRow[p].listener
        a == payoutRow[p].amount IN
    /\ earnedNow' = [earnedNow EXCEPT ![l] = @ - a]
    /\ payoutDebits' = [payoutDebits EXCEPT ![p] = @ + 1]

\* KYC is reviewed, or the UPI id changed, elsewhere.
EligibilityChanges(l) ==
    /\ mayWithdraw' = [mayWithdraw EXCEPT ![l] = ~@]
    /\ UNCHANGED <<payoutRow, payoutStatus, upiRef, payoutDebits, earnedNow,
                   earnedEver, reviewing, payoutJob, payoutLeft, paidPush>>

-----------------------------------------------------------------------------
(* Requests and reviews *)

OpenOf(l) == {p \in Payout : /\ payoutStatus[p] \in {"requested", "approved"}
                             /\ payoutRow[p].listener = l}
AmountsOf(P) == SumFunction([p \in P |-> payoutRow[p].amount])

PendingUnreviewed(l) ==
    AmountsOf({p \in OpenOf(l) : payoutStatus[p] = "requested"})
Pending(l) == AmountsOf(OpenOf(l))

\* POST /payouts, under the lock of the listener's profile.
RequestPayout(l, a, p) ==
    /\ payoutStatus[p] = "none"
    /\ a >= MinPayout
    /\ mayWithdraw[l]
    /\ a <= earnedNow[l] - Pending(l)
    /\ payoutRow' = [payoutRow EXCEPT ![p] = [listener |-> l, amount |-> a]]
    /\ payoutStatus' = [payoutStatus EXCEPT ![p] = "requested"]
    /\ UNCHANGED <<upiRef, payoutDebits, earnedNow, earnedEver, mayWithdraw,
                   reviewing, payoutJob, payoutLeft, paidPush>>

ReviewAnyUnpaid(p, approve) ==
    /\ payoutStatus[p] \in {"requested", "approved", "rejected", "paid"}
    /\ payoutStatus' =
         [payoutStatus EXCEPT ![p] = IF approve THEN "approved" ELSE "rejected"]
    /\ reviewing' = IF approve THEN reviewing \cup {p} ELSE reviewing
    /\ UNCHANGED <<payoutRow, upiRef, payoutDebits, earnedNow, earnedEver,
                   mayWithdraw, payoutJob, payoutLeft, paidPush>>
\* POST /admin/payouts/:id: a conditional UPDATE and the audit row.
ReviewPayout(p, approve) ==
    /\ payoutStatus[p] = "requested"
    /\ payoutStatus' =
         [payoutStatus EXCEPT ![p] = IF approve THEN "approved" ELSE "rejected"]
    /\ reviewing' = IF approve THEN reviewing \cup {p} ELSE reviewing
    /\ UNCHANGED <<payoutRow, upiRef, payoutDebits, earnedNow, earnedEver,
                   mayWithdraw, payoutJob, payoutLeft, paidPush>>

\* jobs.processPayout, after the commit; the key payout-<id> publishes once.
PublishPayout(p) ==
    /\ p \in reviewing
    /\ reviewing' = reviewing \ {p}
    /\ payoutJob' =
         [payoutJob EXCEPT ![p] = IF @ = "unsent" THEN "queued" ELSE @]
    /\ UNCHANGED <<payoutRow, payoutStatus, upiRef, payoutDebits, earnedNow,
                   earnedEver, mayWithdraw, payoutLeft, paidPush>>

\* The instance dies, or the publish throws, after the commit.
ReviewDies(p) ==
    /\ p \in reviewing
    /\ reviewing' = reviewing \ {p}
    /\ UNCHANGED <<payoutRow, payoutStatus, upiRef, payoutDebits, earnedNow,
                   earnedEver, mayWithdraw, payoutJob, payoutLeft, paidPush>>

\* POST /admin/payouts/:id/reference.
RecordReference(p) ==
    /\ payoutStatus[p] = "paid"
    /\ upiRef' = [upiRef EXCEPT ![p] = TRUE]
    /\ UNCHANGED <<payoutRow, payoutStatus, payoutDebits, earnedNow, earnedEver,
                   mayWithdraw, reviewing, payoutJob, payoutLeft, paidPush>>

-----------------------------------------------------------------------------
(* The payout worker *)

\* A delivery that returns acknowledges the message, unless the instance dies
\* first; one that throws or dies is retried while deliveries are left.
Acknowledged(p) == payoutJob' = [payoutJob EXCEPT ![p] = "acked"]
            /\ UNCHANGED payoutLeft
RetriedPastZero(p) ==
    payoutLeft' = [payoutLeft EXCEPT ![p] = @ - 1] /\ UNCHANGED payoutJob
RetriedNever(p) == Acknowledged(p)
Retried(p) ==
    /\ payoutLeft' = [payoutLeft EXCEPT ![p] = @ - 1]
    /\ payoutJob' =
         [payoutJob EXCEPT ![p] = IF payoutLeft[p] > 1 THEN "queued" ELSE "dropped"]

PayoutPaidUnchecked(p) ==
    /\ payoutJob[p] = "queued"
    /\ payoutStatus[p] \in {"approved", "paid"}
    /\ earnedNow[payoutRow[p].listener] >= payoutRow[p].amount
    /\ DebitListener(p)
    /\ payoutStatus' = [payoutStatus EXCEPT ![p] = "paid"]
    /\ paidPush' = [paidPush EXCEPT ![p] = TRUE]
    /\ Acknowledged(p) \/ Retried(p)
    /\ UNCHANGED <<payoutRow, upiRef, earnedEver, mayWithdraw, reviewing>>
\* handlePayout commits: the debit and the status change together.
PayoutPaid(p) ==
    /\ payoutJob[p] = "queued"
    /\ payoutStatus[p] = "approved"
    /\ earnedNow[payoutRow[p].listener] >= payoutRow[p].amount
    /\ DebitListener(p)
    /\ payoutStatus' = [payoutStatus EXCEPT ![p] = "paid"]
    /\ paidPush' = [paidPush EXCEPT ![p] = TRUE]
    /\ Acknowledged(p) \/ Retried(p)
    /\ UNCHANGED <<payoutRow, upiRef, earnedEver, mayWithdraw, reviewing>>

\* handlePayout rolls back: before the push was published or after it.
PayoutAborts(p) ==
    /\ payoutJob[p] = "queued"
    /\ payoutStatus[p] = "approved"
    /\ Retried(p)
    /\ \/ UNCHANGED paidPush
       \/ /\ earnedNow[payoutRow[p].listener] >= payoutRow[p].amount
          /\ paidPush' = [paidPush EXCEPT ![p] = TRUE]
    /\ UNCHANGED <<payoutRow, payoutStatus, upiRef, payoutDebits, earnedNow,
                   earnedEver, mayWithdraw, reviewing>>

\* Redelivered: the status is not 'approved' any more.
PayoutSkipped(p) ==
    /\ payoutJob[p] = "queued"
    /\ payoutStatus[p] # "approved"
    /\ Acknowledged(p) \/ Retried(p)
    /\ UNCHANGED <<payoutRow, payoutStatus, upiRef, payoutDebits, earnedNow,
                   earnedEver, mayWithdraw, reviewing, paidPush>>

HandlePayout(p) == PayoutPaid(p) \/ PayoutAborts(p) \/ PayoutSkipped(p)

PayoutNext ==
    \/ \E l \in Earner : \E a \in CallCredits : CreditListener(l, a)
    \/ \E l \in Earner : EligibilityChanges(l)
    \/ \E l \in Earner : \E a \in AskedAmounts : \E p \in Payout :
         RequestPayout(l, a, p)
    \/ \E p \in Payout : \E approve \in BOOLEAN : ReviewPayout(p, approve)
    \/ \E p \in Payout : PublishPayout(p) \/ ReviewDies(p) \/ RecordReference(p)
    \/ \E p \in Payout : HandlePayout(p)

PayoutSpec == PayoutInit /\ [][PayoutNext]_payoutVars

\* The queue delivers a message until it is acknowledged or dropped.
PayoutFairness == \A p \in Payout : WF_payoutVars(HandlePayout(p))
PayoutFairSpec == PayoutSpec /\ PayoutFairness

-----------------------------------------------------------------------------
(* Properties *)

\* A payout is debited exactly when it is paid, and once, however often its
\* message is delivered (payout.worker.js:13-16).
PaidOnce ==
    \A p \in Payout :
        payoutDebits[p] = IF payoutStatus[p] = "paid" THEN 1 ELSE 0

\* Requests cannot be stacked beyond what was earned (payouts.routes.js:79-82):
\* the open payouts of a listener are covered by their earnings, so the worker
\* never finds too little to debit for what an admin approved.
OpenPayoutsCovered == \A l \in Earner : Pending(l) <= earnedNow[l]

\* A payout that was decided stays decided: paid comes after an approval, and
\* neither a second review nor a redelivery revives a rejected or paid one.
DecisionStands ==
    [][\A p \in Payout :
         /\ payoutStatus[p] \in {"paid", "rejected"} =>
              payoutStatus'[p] = payoutStatus[p]
         /\ payoutStatus'[p] = "paid" =>
              payoutStatus[p] \in {"approved", "paid"}]_payoutVars

\* A published payout is paid, unless every delivery of it failed.
PublishedPayoutIsPaid ==
    \A p \in Payout : payoutJob[p] = "queued" ~>
        payoutStatus[p] = "paid" \/ payoutJob[p] = "dropped"

\* What the documents say and a crash after the commit refutes: approving
\* enqueues the payment (docs/API.md:554), so an approved payout that the
\* queue does not give up on is paid.
ApprovedPayoutIsPaid ==
    \A p \in Payout : payoutStatus[p] = "approved" ~>
        payoutStatus[p] = "paid" \/ payoutJob[p] = "dropped"
=============================================================================
