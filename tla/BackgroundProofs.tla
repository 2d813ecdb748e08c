--------------------------- MODULE BackgroundProofs ---------------------------
(***************************************************************************)
(* The work behind the requests, for any number of listeners, payouts,     *)
(* buyers, purchase tokens, calls, messages and requests in flight: a      *)
(* payout is debited once however often its message is delivered, a        *)
(* payment is credited once however often it is verified or announced,     *)
(* and neither chain of messages that re-queue themselves runs dry while   *)
(* something relies on it.                                                 *)
(***************************************************************************)
EXTENDS MCBackground, SumProofs, FiniteSetTheorems, TLAPS

\* A message not yet published, or in the queue, has a delivery left.
QueuedHasLeft ==
    \A p \in Payout : payoutJob[p] \in {"unsent", "queued"} => payoutLeft[p] >= 1

PayoutIInv == PayoutTypeOK /\ QueuedHasLeft /\ PaidOnce

-----------------------------------------------------------------------------
(* Payouts *)

LEMMA PayoutInitial == PayoutInit => PayoutIInv
<1> SUFFICES ASSUME PayoutInit PROVE PayoutIInv
  OBVIOUS
<1>1. PayoutDeliveries \in 0 .. PayoutDeliveries /\ PayoutDeliveries >= 1
  BY PayoutQueueAssumption
<1>2. PayoutTypeOK
  BY <1>1 DEF PayoutInit, PayoutTypeOK
<1>3. QueuedHasLeft /\ PaidOnce
  BY <1>1 DEF PayoutInit, QueuedHasLeft, PaidOnce
<1> QED BY <1>2, <1>3 DEF PayoutIInv

\* A delivery ends: it is acknowledged, or counted off and queued again.
LEMMA DeliveryTyped ==
    ASSUME PayoutTypeOK, QueuedHasLeft, NEW p \in Payout, payoutJob[p] = "queued",
           Acknowledged(p) \/ Retried(p)
    PROVE  /\ payoutJob' \in [Payout -> {"unsent", "queued", "acked", "dropped"}]
           /\ payoutLeft' \in [Payout -> 0 .. PayoutDeliveries]
           /\ QueuedHasLeft'
<1>1. CASE Acknowledged(p)
  BY <1>1 DEF Acknowledged, PayoutTypeOK, QueuedHasLeft
<1>2. CASE Retried(p)
  <2>1. payoutLeft[p] \in 1 .. PayoutDeliveries
    BY DEF PayoutTypeOK, QueuedHasLeft
  <2>2. payoutLeft[p] - 1 \in 0 .. PayoutDeliveries /\ (payoutLeft[p] > 1 => payoutLeft[p] - 1 >= 1)
    BY <2>1, PayoutQueueAssumption
  <2> QED BY <1>2, <2>2 DEF Retried, PayoutTypeOK, QueuedHasLeft
<1> QED BY <1>1, <1>2

\* Every step keeps the rows typed: no balance is ever negative.
LEMMA PayoutTypeStep ==
    PayoutTypeOK /\ QueuedHasLeft /\ [PayoutNext]_payoutVars => PayoutTypeOK' /\ QueuedHasLeft'
<1> SUFFICES ASSUME PayoutTypeOK, QueuedHasLeft, [PayoutNext]_payoutVars
             PROVE  PayoutTypeOK' /\ QueuedHasLeft'
  OBVIOUS
<1>1. ASSUME NEW l \in Earner, NEW a \in CallCredits, CreditListener(l, a)
      PROVE  PayoutTypeOK' /\ QueuedHasLeft'
  <2>1. earnedNow[l] + a \in Nat /\ earnedEver[l] + a \in Nat
    BY PayoutAmountsAssumption DEF PayoutTypeOK
  <2> QED BY <1>1, <2>1 DEF CreditListener, PayoutTypeOK, QueuedHasLeft
<1>2. ASSUME NEW l \in Earner, EligibilityChanges(l) PROVE PayoutTypeOK' /\ QueuedHasLeft'
  BY <1>2 DEF EligibilityChanges, PayoutTypeOK, QueuedHasLeft
<1>3. ASSUME NEW l \in Earner, NEW a \in AskedAmounts, NEW p \in Payout, RequestPayout(l, a, p)
      PROVE  PayoutTypeOK' /\ QueuedHasLeft'
  <2> DEFINE row == [listener |-> l, amount |-> a]
  <2>1. row \in [listener : Earner, amount : Nat] /\ row # NoPayout
    BY PayoutAmountsAssumption, NoPayoutAssumption
  <2>2. payoutRow' = [payoutRow EXCEPT ![p] = row]
    BY <1>3 DEF RequestPayout
  <2> HIDE DEF row
  <2> QED BY <1>3, <2>1, <2>2 DEF RequestPayout, PayoutTypeOK, QueuedHasLeft
<1>4. ASSUME NEW p \in Payout, NEW approve \in BOOLEAN, ReviewPayout(p, approve)
      PROVE  PayoutTypeOK' /\ QueuedHasLeft'
  BY <1>4 DEF ReviewPayout, PayoutTypeOK, QueuedHasLeft
<1>5. ASSUME NEW p \in Payout, ReviewDies(p) \/ RecordReference(p)
      PROVE  PayoutTypeOK' /\ QueuedHasLeft'
  BY <1>5 DEF ReviewDies, RecordReference, PayoutTypeOK, QueuedHasLeft
<1>6. ASSUME NEW p \in Payout, PayoutPaid(p) PROVE PayoutTypeOK' /\ QueuedHasLeft'
  <2> DEFINE l == payoutRow[p].listener
             a == payoutRow[p].amount
  <2>1. payoutRow[p] \in [listener : Earner, amount : Nat]
    BY <1>6 DEF PayoutPaid, PayoutTypeOK
  <2>2. l \in Earner /\ a \in Nat
    BY <2>1
  <2>3. earnedNow[l] - a \in Nat /\ payoutDebits[p] + 1 \in Nat
    BY <1>6, <2>2 DEF PayoutPaid, PayoutTypeOK
  <2>4. /\ earnedNow' = [earnedNow EXCEPT ![l] = earnedNow[l] - a]
        /\ payoutDebits' = [payoutDebits EXCEPT ![p] = payoutDebits[p] + 1]
    BY <1>6 DEF PayoutPaid, DebitListener
  <2> HIDE DEF l, a
  <2>5. earnedNow' \in [Earner -> Nat] /\ payoutDebits' \in [Payout -> Nat]
    BY <2>2, <2>3, <2>4 DEF PayoutTypeOK
  <2>6. /\ payoutJob' \in [Payout -> {"unsent", "queued", "acked", "dropped"}]
        /\ payoutLeft' \in [Payout -> 0 .. PayoutDeliveries]
        /\ QueuedHasLeft'
    BY <1>6, DeliveryTyped DEF PayoutPaid
  <2> QED BY <1>6, <2>5, <2>6 DEF PayoutPaid, PayoutTypeOK
<1>7. ASSUME NEW p \in Payout, PayoutAborts(p) \/ PayoutSkipped(p)
      PROVE  PayoutTypeOK' /\ QueuedHasLeft'
  <2>1. /\ payoutJob' \in [Payout -> {"unsent", "queued", "acked", "dropped"}]
        /\ payoutLeft' \in [Payout -> 0 .. PayoutDeliveries]
        /\ QueuedHasLeft'
    BY <1>7, DeliveryTyped DEF PayoutAborts, PayoutSkipped
  <2> QED BY <1>7, <2>1 DEF PayoutAborts, PayoutSkipped, PayoutTypeOK
<1>8. ASSUME NEW p \in Payout, PublishPayout(p) PROVE PayoutTypeOK' /\ QueuedHasLeft'
  BY <1>8 DEF PublishPayout, PayoutTypeOK, QueuedHasLeft
<1>9. CASE UNCHANGED payoutVars
  BY <1>9 DEF payoutVars, PayoutTypeOK, QueuedHasLeft
<1> QED
  BY <1>1, <1>2, <1>3, <1>4, <1>5, <1>6, <1>7, <1>8, <1>9 DEF PayoutNext, HandlePayout

\* What the worker debits is approved, and paid from then on.
LEMMA PaidOnceStep == PayoutIInv /\ [PayoutNext]_payoutVars => PaidOnce'
<1> SUFFICES ASSUME PayoutIInv, [PayoutNext]_payoutVars PROVE PaidOnce'
  OBVIOUS
<1>1. PayoutTypeOK /\ PaidOnce
  BY DEF PayoutIInv
<1>2. ASSUME UNCHANGED <<payoutStatus, payoutDebits>> PROVE PaidOnce'
  BY <1>1, <1>2 DEF PaidOnce
<1>3. ASSUME NEW p \in Payout, PayoutPaid(p) PROVE PaidOnce'
  <2>1. payoutDebits[p] = 0
    BY <1>1, <1>3 DEF PaidOnce, PayoutPaid
  <2>2. /\ payoutDebits' = [payoutDebits EXCEPT ![p] = payoutDebits[p] + 1]
        /\ payoutStatus' = [payoutStatus EXCEPT ![p] = "paid"]
    BY <1>3 DEF PayoutPaid, DebitListener
  <2> QED BY <1>1, <2>1, <2>2 DEF PaidOnce, PayoutTypeOK
<1>4. ASSUME NEW p \in Payout, NEW approve \in BOOLEAN, ReviewPayout(p, approve)
      PROVE  PaidOnce'
  <2>1. payoutStatus'[p] \in {"approved", "rejected"} /\ payoutStatus[p] = "requested"
    BY <1>1, <1>4 DEF ReviewPayout, PayoutTypeOK
  <2> QED BY <1>1, <1>4, <2>1 DEF ReviewPayout, PaidOnce, PayoutTypeOK
<1>5. ASSUME NEW l \in Earner, NEW a \in AskedAmounts, NEW p \in Payout, RequestPayout(l, a, p)
      PROVE  PaidOnce'
  BY <1>1, <1>5 DEF RequestPayout, PaidOnce, PayoutTypeOK
<1>6. ASSUME NEW l \in Earner, (\E a \in CallCredits : CreditListener(l, a)) \/ EligibilityChanges(l)
      PROVE  PaidOnce'
  BY <1>2, <1>6 DEF CreditListener, EligibilityChanges
<1>7. ASSUME NEW p \in Payout,
             \/ PublishPayout(p) \/ ReviewDies(p) \/ RecordReference(p)
             \/ PayoutAborts(p) \/ PayoutSkipped(p)
      PROVE  PaidOnce'
  BY <1>2, <1>7 DEF PublishPayout, ReviewDies, RecordReference, PayoutAborts, PayoutSkipped
<1>8. CASE UNCHANGED payoutVars
  BY <1>2, <1>8 DEF payoutVars
<1> QED
  BY <1>3, <1>4, <1>5, <1>6, <1>7, <1>8 DEF PayoutNext, HandlePayout

LEMMA PayoutInductive == PayoutIInv /\ [PayoutNext]_payoutVars => PayoutIInv'
BY PayoutTypeStep, PaidOnceStep DEF PayoutIInv

\* A payout's row, balances and message keep their shape; no listener's
\* balance is ever negative.
THEOREM PayoutsTypeCorrect == PayoutSpec => []PayoutTypeOK
<1>1. PayoutIInv => PayoutTypeOK
  BY DEF PayoutIInv
<1> QED BY PayoutInitial, PayoutInductive, <1>1, PTL DEF PayoutSpec

\* A payout is debited exactly when it is paid, and once.
THEOREM WithdrawalsAreDebitedOnce == PayoutSpec => []PaidOnce
<1>1. PayoutIInv => PaidOnce
  BY DEF PayoutIInv
<1> QED BY PayoutInitial, PayoutInductive, <1>1, PTL DEF PayoutSpec

\* What a step leaves of the decision on a payout.
DecisionKept(q) ==
    /\ payoutStatus[q] \in {"paid", "rejected"} => payoutStatus'[q] = payoutStatus[q]
    /\ payoutStatus'[q] = "paid" => payoutStatus[q] \in {"approved", "paid"}

\* One step leaves a decided payout decided, and pays only an approved one.
LEMMA DecidedStays ==
    ASSUME PayoutTypeOK, [PayoutNext]_payoutVars, NEW q \in Payout
    PROVE  DecisionKept(q)
<1>1. ASSUME NEW p \in Payout, NEW from, NEW to, payoutStatus[p] = from,
             from \notin {"paid", "rejected"}, to = "paid" => from = "approved",
             payoutStatus' = [payoutStatus EXCEPT ![p] = to]
      PROVE  DecisionKept(q)
  BY <1>1 DEF PayoutTypeOK, DecisionKept
<1>2. ASSUME payoutStatus' = payoutStatus PROVE DecisionKept(q)
  BY <1>2 DEF DecisionKept
<1>3. ASSUME NEW p \in Payout, PayoutPaid(p) PROVE DecisionKept(q)
  BY <1>1, <1>3 DEF PayoutPaid
<1>4. ASSUME NEW p \in Payout, NEW approve \in BOOLEAN, ReviewPayout(p, approve)
      PROVE  DecisionKept(q)
  BY <1>1, <1>4 DEF ReviewPayout
<1>5. ASSUME NEW l \in Earner, NEW a \in AskedAmounts, NEW p \in Payout, RequestPayout(l, a, p)
      PROVE  DecisionKept(q)
  BY <1>1, <1>5 DEF RequestPayout
<1>6. ASSUME NEW l \in Earner, (\E a \in CallCredits : CreditListener(l, a)) \/ EligibilityChanges(l)
      PROVE  DecisionKept(q)
  BY <1>2, <1>6 DEF CreditListener, EligibilityChanges
<1>7. ASSUME NEW p \in Payout,
             \/ PublishPayout(p) \/ ReviewDies(p) \/ RecordReference(p)
             \/ PayoutAborts(p) \/ PayoutSkipped(p)
      PROVE  DecisionKept(q)
  BY <1>2, <1>7 DEF PublishPayout, ReviewDies, RecordReference, PayoutAborts, PayoutSkipped
<1>8. CASE UNCHANGED payoutVars
  BY <1>2, <1>8 DEF payoutVars
<1> QED
  BY <1>3, <1>4, <1>5, <1>6, <1>7, <1>8 DEF PayoutNext, HandlePayout

\* A decided payout stays decided, and what is paid was approved.
THEOREM DecisionsStand == PayoutSpec => DecisionStands
<1>1. PayoutIInv /\ [PayoutNext]_payoutVars
        => [\A p \in Payout :
              /\ payoutStatus[p] \in {"paid", "rejected"} =>
                   payoutStatus'[p] = payoutStatus[p]
              /\ payoutStatus'[p] = "paid" =>
                   payoutStatus[p] \in {"approved", "paid"}]_payoutVars
  BY DecidedStays DEF PayoutIInv, DecisionKept
<1> QED BY PayoutInitial, PayoutInductive, <1>1, PTL DEF PayoutSpec, DecisionStands

-----------------------------------------------------------------------------
(* Open payouts are covered *)

\* The amounts asked for, as a function of the payout.
Amounts == [p \in Payout |-> payoutRow[p].amount]

\* Only finitely many payouts have been asked for.
PayoutsMade == {p \in Payout : payoutStatus[p] # "none"}
CoverInv == IsFiniteSet(PayoutsMade) /\ OpenPayoutsCovered

PendingIsSum ==
    \A l \in Earner :
        /\ IsFiniteSet(OpenOf(l))
        /\ \A p \in OpenOf(l) : Amounts[p] \in Nat
        /\ Pending(l) = SumFunctionOnSet(Amounts, OpenOf(l))
        /\ Pending(l) \in Nat

LEMMA PendingSums == PayoutTypeOK /\ IsFiniteSet(PayoutsMade) => PendingIsSum
<1> SUFFICES ASSUME PayoutTypeOK, IsFiniteSet(PayoutsMade), NEW l \in Earner
             PROVE  /\ IsFiniteSet(OpenOf(l))
                    /\ \A p \in OpenOf(l) : Amounts[p] \in Nat
                    /\ Pending(l) = SumFunctionOnSet(Amounts, OpenOf(l))
                    /\ Pending(l) \in Nat
  BY DEF PendingIsSum
<1> DEFINE f == [p \in OpenOf(l) |-> payoutRow[p].amount]
<1>1. IsFiniteSet(OpenOf(l))
  BY FS_Subset DEF OpenOf, PayoutsMade
<1>2. \A p \in OpenOf(l) : Amounts[p] \in Nat /\ f[p] = Amounts[p]
  BY DEF OpenOf, PayoutTypeOK, Amounts
<1>3. DOMAIN f = OpenOf(l) /\ Pending(l) = SumFunction(f)
  BY DEF Pending, AmountsOf
<1> HIDE DEF f
<1>4. SumFunctionOnSet(f, OpenOf(l)) = SumFunctionOnSet(Amounts, OpenOf(l))
  BY <1>1, <1>2, SumAgrees
<1>5. SumFunctionOnSet(Amounts, OpenOf(l)) \in Nat
  BY <1>1, <1>2, SumOfNaturals
<1> QED BY <1>1, <1>2, <1>3, <1>4, <1>5 DEF SumFunction

\* The same of the next state.
LEMMA PendingSumsNext == (PayoutTypeOK /\ IsFiniteSet(PayoutsMade) => PendingIsSum)'
BY PendingSums, PTL

\* A payout that leaves the open ones takes its amount out of the sum.
LEMMA ClosingLowersPending ==
    ASSUME PayoutTypeOK, PayoutTypeOK', IsFiniteSet(PayoutsMade), NEW p \in Payout,
           payoutStatus[p] \in {"requested", "approved"},
           NEW to \in {"paid", "rejected"},
           payoutStatus' = [payoutStatus EXCEPT ![p] = to], UNCHANGED payoutRow
    PROVE  /\ IsFiniteSet(PayoutsMade)'
           /\ \A l \in Earner :
                IF payoutRow[p].listener = l
                THEN Pending(l) = payoutRow[p].amount + (Pending(l))'
                ELSE (Pending(l))' = Pending(l)
<1>1. PayoutsMade' = PayoutsMade
  BY DEF PayoutsMade, PayoutTypeOK
<1>2. Amounts' = Amounts
  BY DEF Amounts
<1>3. ASSUME NEW l \in Earner
      PROVE  IF payoutRow[p].listener = l
             THEN Pending(l) = payoutRow[p].amount + (Pending(l))'
             ELSE (Pending(l))' = Pending(l)
  <2>1. /\ IsFiniteSet(OpenOf(l))
        /\ \A q \in OpenOf(l) : Amounts[q] \in Int
        /\ Pending(l) = SumFunctionOnSet(Amounts, OpenOf(l))
    BY PendingSums DEF PendingIsSum
  <2>2. (Pending(l))' = SumFunctionOnSet(Amounts, (OpenOf(l))')
    BY <1>1, <1>2, PendingSumsNext DEF PendingIsSum
  <2>3. (OpenOf(l))' = OpenOf(l) \ {p}
    BY DEF OpenOf, PayoutTypeOK
  <2>4. CASE payoutRow[p].listener = l
    <3>1. p \in OpenOf(l)
      BY <2>4 DEF OpenOf
    <3>2. SumFunctionOnSet(Amounts, OpenOf(l))
            = Amounts[p] + SumFunctionOnSet(Amounts, OpenOf(l) \ {p})
      BY <2>1, <3>1, SumRemoves
    <3>3. Amounts[p] = payoutRow[p].amount
      BY DEF Amounts
    <3> QED BY <2>1, <2>2, <2>3, <2>4, <3>2, <3>3
  <2>5. CASE payoutRow[p].listener # l
    <3>1. OpenOf(l) \ {p} = OpenOf(l)
      BY <2>5 DEF OpenOf
    <3> QED BY <2>1, <2>2, <2>3, <2>5, <3>1
  <2> QED BY <2>4, <2>5
<1> QED BY <1>1, <1>3

LEMMA CoverStep ==
    ASSUME PayoutTypeOK, PayoutTypeOK', CoverInv, [PayoutNext]_payoutVars
    PROVE  CoverInv'
<1>1. \A l \in Earner : Pending(l) \in Nat /\ earnedNow[l] \in Nat
  BY PendingSums DEF CoverInv, PendingIsSum, PayoutTypeOK
<1>2. ASSUME UNCHANGED payoutRow,
             \A p \in Payout : \/ payoutStatus'[p] = payoutStatus[p]
                               \/ /\ payoutStatus[p] = "requested"
                                  /\ payoutStatus'[p] = "approved",
             \A l \in Earner : earnedNow'[l] >= earnedNow[l]
      PROVE  CoverInv'
  <2>1. PayoutsMade' = PayoutsMade
    BY <1>2 DEF PayoutsMade
  <2>2. ASSUME NEW l \in Earner PROVE (Pending(l))' = Pending(l)
    <3>1. (OpenOf(l))' = OpenOf(l)
      BY <1>2 DEF OpenOf
    <3> QED BY <1>2, <3>1 DEF Pending, AmountsOf
  <2>3. ASSUME NEW l \in Earner PROVE (Pending(l))' <= earnedNow'[l]
    <3>1. Pending(l) <= earnedNow[l]
      BY DEF CoverInv, OpenPayoutsCovered
    <3>2. earnedNow'[l] \in Nat
      BY DEF PayoutTypeOK
    <3> QED BY <1>1, <1>2, <2>2, <3>1, <3>2
  <2> QED BY <2>1, <2>3 DEF CoverInv, OpenPayoutsCovered
<1>3. ASSUME NEW l \in Earner, NEW a \in CallCredits, CreditListener(l, a)
      PROVE  CoverInv'
  <2>1. a \in Nat
    BY PayoutAmountsAssumption
  <2>2. \A k \in Earner : earnedNow'[k] >= earnedNow[k]
    BY <1>1, <1>3, <2>1 DEF CreditListener, PayoutTypeOK
  <2> QED BY <1>2, <1>3, <2>2 DEF CreditListener
<1>4. ASSUME NEW p \in Payout, NEW approve \in BOOLEAN, ReviewPayout(p, approve)
      PROVE  CoverInv'
  <2>1. UNCHANGED <<payoutRow, earnedNow>> /\ payoutStatus[p] = "requested"
    BY <1>4 DEF ReviewPayout
  <2>2. CASE approve
    <3>1. payoutStatus' = [payoutStatus EXCEPT ![p] = "approved"]
      BY <1>4, <2>2 DEF ReviewPayout
    <3>2. \A q \in Payout : \/ payoutStatus'[q] = payoutStatus[q]
                            \/ /\ payoutStatus[q] = "requested"
                               /\ payoutStatus'[q] = "approved"
      BY <2>1, <3>1 DEF PayoutTypeOK
    <3>3. \A l \in Earner : earnedNow'[l] >= earnedNow[l]
      BY <1>1, <2>1
    <3> QED BY <1>2, <2>1, <3>2, <3>3
  <2>3. CASE ~approve
    <3>1. payoutStatus' = [payoutStatus EXCEPT ![p] = "rejected"]
      BY <1>4, <2>3 DEF ReviewPayout
    <3>2. /\ IsFiniteSet(PayoutsMade)'
          /\ \A l \in Earner :
               IF payoutRow[p].listener = l
               THEN Pending(l) = payoutRow[p].amount + (Pending(l))'
               ELSE (Pending(l))' = Pending(l)
      BY <2>1, <3>1, ClosingLowersPending DEF CoverInv
    <3>3. ASSUME NEW l \in Earner PROVE (Pending(l))' <= earnedNow'[l]
      <4>1. Pending(l) <= earnedNow[l] /\ earnedNow'[l] = earnedNow[l]
        BY <2>1 DEF CoverInv, OpenPayoutsCovered
      <4>2. (Pending(l))' \in Nat
        BY <3>2, PendingSumsNext DEF PendingIsSum
      <4>3. payoutRow[p].amount \in Nat
        BY <2>1 DEF PayoutTypeOK
      <4> QED BY <1>1, <3>2, <4>1, <4>2, <4>3
    <3> QED BY <3>2, <3>3 DEF CoverInv, OpenPayoutsCovered
  <2> QED BY <2>2, <2>3
<1>5. ASSUME NEW p \in Payout, PayoutPaid(p) PROVE CoverInv'
  <2> DEFINE e == payoutRow[p].listener
             a == payoutRow[p].amount
  <2>1. /\ payoutStatus[p] = "approved" /\ UNCHANGED payoutRow
        /\ payoutStatus' = [payoutStatus EXCEPT ![p] = "paid"]
        /\ earnedNow' = [earnedNow EXCEPT ![e] = earnedNow[e] - a]
    BY <1>5 DEF PayoutPaid, DebitListener
  <2>2. e \in Earner /\ a \in Nat
    BY <2>1 DEF PayoutTypeOK
  <2>3. /\ IsFiniteSet(PayoutsMade)'
        /\ \A l \in Earner : IF e = l THEN Pending(l) = a + (Pending(l))'
                                      ELSE (Pending(l))' = Pending(l)
    BY <2>1, ClosingLowersPending DEF CoverInv
  <2> HIDE DEF e, a
  <2>4. ASSUME NEW l \in Earner PROVE (Pending(l))' <= earnedNow'[l]
    <3>1. Pending(l) <= earnedNow[l]
      BY DEF CoverInv, OpenPayoutsCovered
    <3>2. earnedNow'[l] = IF l = e THEN earnedNow[l] - a ELSE earnedNow[l]
      BY <2>1 DEF PayoutTypeOK
    <3>3. (Pending(l))' \in Nat
      BY <2>3, PendingSumsNext DEF PendingIsSum
    <3> QED BY <1>1, <2>2, <2>3, <3>1, <3>2, <3>3
  <2> QED BY <2>3, <2>4 DEF CoverInv, OpenPayoutsCovered
<1>6. ASSUME NEW l \in Earner, NEW a \in AskedAmounts, NEW p \in Payout, RequestPayout(l, a, p)
      PROVE  CoverInv'
  <2> DEFINE row == [listener |-> l, amount |-> a]
  <2>1. /\ payoutStatus[p] = "none" /\ a <= earnedNow[l] - Pending(l)
        /\ payoutRow' = [payoutRow EXCEPT ![p] = row]
        /\ payoutStatus' = [payoutStatus EXCEPT ![p] = "requested"]
        /\ earnedNow' = earnedNow
    BY <1>6 DEF RequestPayout
  <2>2. row.listener = l /\ row.amount = a /\ a \in Nat
    BY PayoutAmountsAssumption
  <2> HIDE DEF row
  <2>3. IsFiniteSet(PayoutsMade)'
    <3>1. PayoutsMade' = PayoutsMade \cup {p}
      BY <2>1 DEF PayoutsMade, PayoutTypeOK
    <3> QED BY <3>1, FS_AddElement DEF CoverInv
  <2>4. \A q \in Payout : q # p => Amounts'[q] = Amounts[q]
    BY <2>1 DEF Amounts, PayoutTypeOK
  <2>5. Amounts'[p] = a
    BY <2>1, <2>2 DEF Amounts, PayoutTypeOK
  <2>6. ASSUME NEW k \in Earner PROVE (Pending(k))' <= earnedNow'[k]
    <3>1. /\ IsFiniteSet(OpenOf(k))
          /\ \A q \in OpenOf(k) : Amounts[q] \in Nat
          /\ Pending(k) = SumFunctionOnSet(Amounts, OpenOf(k))
      BY PendingSums DEF CoverInv, PendingIsSum
    <3>2. (Pending(k))' = SumFunctionOnSet(Amounts', (OpenOf(k))')
      BY <2>3, PendingSumsNext DEF PendingIsSum
    <3>3. p \notin OpenOf(k)
      BY <2>1 DEF OpenOf
    <3>4. \A q \in OpenOf(k) : Amounts'[q] = Amounts[q]
      BY <2>4, <3>3 DEF OpenOf
    <3>5. SumFunctionOnSet(Amounts', OpenOf(k)) = Pending(k)
      BY <3>1, <3>4, SumAgrees
    <3>6. Pending(k) <= earnedNow[k]
      BY DEF CoverInv, OpenPayoutsCovered
    <3>7. CASE k = l
      <4>1. (OpenOf(k))' = OpenOf(k) \cup {p}
        BY <2>1, <2>2, <3>7 DEF OpenOf, PayoutTypeOK
      <4>2. \A q \in OpenOf(k) \cup {p} : Amounts'[q] \in Int
        BY <2>2, <2>5, <3>1, <3>4
      <4>3. SumFunctionOnSet(Amounts', OpenOf(k) \cup {p}) = a + Pending(k)
        BY <2>5, <3>1, <3>3, <3>5, <4>2, SumAdds
      <4> QED BY <1>1, <2>1, <2>2, <3>2, <3>7, <4>1, <4>3
    <3>8. CASE k # l
      <4>1. (OpenOf(k))' = OpenOf(k)
        BY <2>1, <2>2, <3>8 DEF OpenOf, PayoutTypeOK
      <4> QED BY <2>1, <3>2, <3>5, <3>6, <4>1
    <3> QED BY <3>7, <3>8
  <2> QED BY <2>3, <2>6 DEF CoverInv, OpenPayoutsCovered
<1>7. ASSUME UNCHANGED <<payoutRow, payoutStatus, earnedNow>> PROVE CoverInv'
  BY <1>1, <1>2, <1>7
<1>8. ASSUME NEW p \in Payout,
             \/ PublishPayout(p) \/ ReviewDies(p) \/ RecordReference(p)
             \/ PayoutAborts(p) \/ PayoutSkipped(p)
      PROVE  CoverInv'
  BY <1>7, <1>8 DEF PublishPayout, ReviewDies, RecordReference, PayoutAborts, PayoutSkipped
<1>9. ASSUME NEW l \in Earner, EligibilityChanges(l) PROVE CoverInv'
  BY <1>7, <1>9 DEF EligibilityChanges
<1>10. CASE UNCHANGED payoutVars
  BY <1>7, <1>10 DEF payoutVars
<1> QED
  BY <1>3, <1>4, <1>5, <1>6, <1>8, <1>9, <1>10 DEF PayoutNext, HandlePayout

LEMMA CoverStart == PayoutInit => CoverInv
<1> SUFFICES ASSUME PayoutInit PROVE CoverInv
  OBVIOUS
<1>1. PayoutsMade = {}
  BY DEF PayoutInit, PayoutsMade
<1>2. IsFiniteSet(PayoutsMade)
  BY <1>1, FS_EmptySet
<1>3. ASSUME NEW l \in Earner PROVE Pending(l) <= earnedNow[l]
  <2>1. OpenOf(l) = {}
    BY DEF PayoutInit, OpenOf
  <2>2. PayoutTypeOK
    BY PayoutInitial DEF PayoutIInv
  <2>3. Pending(l) = 0
    BY <1>2, <2>1, <2>2, PendingSums, SumEmpty DEF PendingIsSum
  <2> QED BY <2>3 DEF PayoutInit
<1> QED BY <1>2, <1>3 DEF CoverInv, OpenPayoutsCovered

\* Whatever a listener asks for, and however reviews and deliveries interleave,
\* what is open never exceeds what they earned: the worker always finds enough
\* to debit for what an admin approved (payouts.routes.js:79-82).
THEOREM RequestsAreCovered == PayoutSpec => []OpenPayoutsCovered
<1>1. PayoutTypeOK /\ PayoutTypeOK' /\ CoverInv /\ [PayoutNext]_payoutVars => CoverInv'
  BY CoverStep
<1>2. CoverInv => OpenPayoutsCovered
  BY DEF CoverInv
<1> QED BY CoverStart, <1>1, <1>2, PayoutsTypeCorrect, PTL DEF PayoutSpec

-----------------------------------------------------------------------------
(* Purchases and top-ups *)

\* A request that is not idle has a token and a buyer.
JobIsThere == \A r \in VerifyRequest : verifyAt[r] # "idle" => verifyJob[r] \in VerifyJob

\* What a buyer paid for can be counted.
PaidForIsFinite ==
    \A u \in Buyer : IsFiniteSet(VerifiedBy(u)) /\ IsFiniteSet(SettledBy(u))

PurchaseIInv == PurchaseTypeOK /\ JobIsThere /\ PaidForIsFinite /\ PaymentsCreditedOnce

LEMMA PurchaseInitial == PurchaseInit => PurchaseIInv
<1> SUFFICES ASSUME PurchaseInit PROVE PurchaseIInv
  OBVIOUS
<1>1. PurchaseTypeOK /\ JobIsThere
  BY DEF PurchaseInit, PurchaseTypeOK, JobIsThere
<1>2. ASSUME NEW u \in Buyer PROVE VerifiedBy(u) = {} /\ SettledBy(u) = {}
  BY <1>2, NoPurchaseAssumption DEF PurchaseInit, VerifiedBy, SettledBy, PurchaseRow
<1>3. IsFiniteSet({}) /\ Cardinality({}) = 0
  BY FS_EmptySet
<1>4. ASSUME NEW u \in Buyer
      PROVE  boughtCoins[u] = PackCoins * (Cardinality(VerifiedBy(u)) + Cardinality(SettledBy(u)))
  <2>1. Cardinality(VerifiedBy(u)) = 0 /\ Cardinality(SettledBy(u)) = 0
    BY <1>2, <1>3
  <2>2. boughtCoins[u] = 0
    BY DEF PurchaseInit
  <2>3. PackCoins * (0 + 0) = 0
    BY PackAssumption
  <2> QED BY <2>1, <2>2, <2>3
<1> QED
  BY <1>1, <1>2, <1>3, <1>4 DEF PurchaseIInv, PaidForIsFinite, PaymentsCreditedOnce

LEMMA PurchaseTypeStep ==
    PurchaseTypeOK /\ JobIsThere /\ [PurchaseNext]_purchaseVars => PurchaseTypeOK' /\ JobIsThere'
<1> SUFFICES ASSUME PurchaseTypeOK, JobIsThere, [PurchaseNext]_purchaseVars
             PROVE  PurchaseTypeOK' /\ JobIsThere'
  OBVIOUS
<1>1. ASSUME NEW u \in Buyer, CreditBought(u) PROVE boughtCoins' \in [Buyer -> Nat]
  <2>1. boughtCoins[u] + PackCoins \in Nat
    BY PackAssumption DEF PurchaseTypeOK
  <2> QED BY <1>1, <2>1 DEF CreditBought, PurchaseTypeOK
<1>2. ASSUME NEW t \in PlayToken, PlayMoves(t) PROVE PurchaseTypeOK' /\ JobIsThere'
  BY <1>2 DEF PlayMoves, PurchaseTypeOK, JobIsThere
<1>3. ASSUME NEW o \in TopupOrder, NEW u \in Buyer, ApplyTopup(o, u)
      PROVE  PurchaseTypeOK' /\ JobIsThere'
  BY <1>1, <1>3 DEF ApplyTopup, PurchaseTypeOK, JobIsThere
<1>4. ASSUME NEW r \in VerifyRequest, NEW t \in PlayToken, NEW u \in Buyer, VerifyStart(r, t, u)
      PROVE  PurchaseTypeOK' /\ JobIsThere'
  <2> DEFINE job == [token |-> t, user |-> u]
  <2>1. job \in VerifyJob
    BY DEF VerifyJob
  <2>2. verifyJob' = [verifyJob EXCEPT ![r] = job]
    BY <1>4 DEF VerifyStart
  <2> HIDE DEF job
  <2> QED BY <1>4, <2>1, <2>2 DEF VerifyStart, PurchaseTypeOK, JobIsThere
<1>5. ASSUME NEW r \in VerifyRequest, VerifyAnswered(r) \/ LostTheRace(r)
      PROVE  PurchaseTypeOK' /\ JobIsThere'
  BY <1>5 DEF VerifyAnswered, LostTheRace, PurchaseTypeOK, JobIsThere
<1>6. ASSUME NEW r \in VerifyRequest, verifyAt[r] # "idle"
      PROVE  verifyJob[r].token \in PlayToken /\ verifyJob[r].user \in Buyer
  BY <1>6 DEF JobIsThere, VerifyJob
<1>7. \A u \in Buyer, s \in {"verified", "invalid"} : [status |-> s, user |-> u] \in PurchaseRow
  BY DEF PurchaseRow
<1>8. ASSUME NEW r \in VerifyRequest, RecordInvalid(r) PROVE PurchaseTypeOK' /\ JobIsThere'
  <2>1. verifyJob[r].token \in PlayToken /\ verifyJob[r].user \in Buyer
    BY <1>6, <1>8 DEF RecordInvalid
  <2>2. purchaseRow' \in [PlayToken -> PurchaseRow \cup {NoPurchase}]
    BY <1>7, <1>8, <2>1 DEF RecordInvalid, PurchaseTypeOK
  <2> QED BY <1>8, <2>2 DEF RecordInvalid, PurchaseTypeOK, JobIsThere
<1>9. ASSUME NEW r \in VerifyRequest, CreditPurchase(r) PROVE PurchaseTypeOK' /\ JobIsThere'
  <2>1. verifyJob[r].token \in PlayToken /\ verifyJob[r].user \in Buyer
    BY <1>6, <1>9 DEF CreditPurchase
  <2>2. purchaseRow' \in [PlayToken -> PurchaseRow \cup {NoPurchase}]
    BY <1>7, <1>9, <2>1 DEF CreditPurchase, PurchaseTypeOK
  <2>3. boughtCoins' \in [Buyer -> Nat]
    BY <1>1, <1>9, <2>1 DEF CreditPurchase
  <2> QED BY <1>9, <2>2, <2>3 DEF CreditPurchase, PurchaseTypeOK, JobIsThere
<1>10. ASSUME NEW r \in VerifyRequest, VerifyOver(r) PROVE PurchaseTypeOK' /\ JobIsThere'
  BY <1>10 DEF VerifyOver, PurchaseTypeOK, JobIsThere
<1>11. CASE UNCHANGED purchaseVars
  BY <1>11 DEF purchaseVars, PurchaseTypeOK, JobIsThere
<1> QED
  BY <1>2, <1>3, <1>4, <1>5, <1>8, <1>9, <1>10, <1>11 DEF PurchaseNext

\* What u bought is what u paid for.
Credited(u) ==
    /\ IsFiniteSet(VerifiedBy(u)) /\ IsFiniteSet(SettledBy(u))
    /\ boughtCoins[u] = PackCoins * (Cardinality(VerifiedBy(u)) + Cardinality(SettledBy(u)))

LEMMA NothingCredited ==
    ASSUME NEW u \in Buyer, Credited(u), VerifiedBy(u)' = VerifiedBy(u),
           SettledBy(u)' = SettledBy(u), boughtCoins'[u] = boughtCoins[u]
    PROVE  Credited(u)'
BY DEF Credited

LEMMA PackAdded ==
    ASSUME NEW c \in Nat, NEW d \in Nat
    PROVE  /\ PackCoins * (c + d) + PackCoins = PackCoins * ((c + 1) + d)
           /\ PackCoins * (c + d) + PackCoins = PackCoins * (c + (d + 1))
BY PackAssumption

\* A payment more is a pack more.
LEMMA OneCredited ==
    ASSUME NEW u \in Buyer, Credited(u), NEW x,
           \/ /\ x \notin VerifiedBy(u) /\ VerifiedBy(u)' = VerifiedBy(u) \cup {x}
              /\ SettledBy(u)' = SettledBy(u)
           \/ /\ x \notin SettledBy(u) /\ SettledBy(u)' = SettledBy(u) \cup {x}
              /\ VerifiedBy(u)' = VerifiedBy(u),
           boughtCoins'[u] = boughtCoins[u] + PackCoins
    PROVE  Credited(u)'
<1> DEFINE c == Cardinality(VerifiedBy(u))
           d == Cardinality(SettledBy(u))
<1>1. c \in Nat /\ d \in Nat
  BY FS_CardinalityType DEF Credited
<1>2. boughtCoins'[u] = PackCoins * (c + d) + PackCoins
  BY DEF Credited
<1>3. CASE /\ x \notin VerifiedBy(u) /\ VerifiedBy(u)' = VerifiedBy(u) \cup {x}
           /\ SettledBy(u)' = SettledBy(u)
  <2>1. IsFiniteSet(VerifiedBy(u) \cup {x}) /\ Cardinality(VerifiedBy(u) \cup {x}) = c + 1
    BY <1>3, FS_AddElement DEF Credited
  <2>2. boughtCoins'[u] = PackCoins * ((c + 1) + d)
    BY <1>1, <1>2, PackAdded
  <2> QED BY <1>3, <2>1, <2>2 DEF Credited
<1>4. CASE /\ x \notin SettledBy(u) /\ SettledBy(u)' = SettledBy(u) \cup {x}
           /\ VerifiedBy(u)' = VerifiedBy(u)
  <2>1. IsFiniteSet(SettledBy(u) \cup {x}) /\ Cardinality(SettledBy(u) \cup {x}) = d + 1
    BY <1>4, FS_AddElement DEF Credited
  <2>2. boughtCoins'[u] = PackCoins * (c + (d + 1))
    BY <1>1, <1>2, PackAdded
  <2> QED BY <1>4, <2>1, <2>2 DEF Credited
<1> QED BY <1>3, <1>4

LEMMA CreditedStep ==
    ASSUME PurchaseTypeOK, JobIsThere, NEW v \in Buyer, Credited(v),
           [PurchaseNext]_purchaseVars
    PROVE  Credited(v)'
<1>1. ASSUME UNCHANGED <<purchaseRow, topupRow, boughtCoins>> PROVE Credited(v)'
  BY <1>1, NothingCredited DEF VerifiedBy, SettledBy
<1>2. ASSUME NEW o \in TopupOrder, NEW u \in Buyer, ApplyTopup(o, u) PROVE Credited(v)'
  <2>1. VerifiedBy(v)' = VerifiedBy(v)
    BY <1>2 DEF ApplyTopup, VerifiedBy
  <2>2. CASE v = u
    <3>1. SettledBy(v)' = SettledBy(v) \cup {o} /\ o \notin SettledBy(v)
      BY <1>2, <2>2, NoPurchaseAssumption DEF ApplyTopup, SettledBy, PurchaseTypeOK
    <3>2. boughtCoins'[v] = boughtCoins[v] + PackCoins
      BY <1>2, <2>2 DEF ApplyTopup, CreditBought, PurchaseTypeOK
    <3> QED BY <2>1, <3>1, <3>2, OneCredited
  <2>3. CASE v # u
    <3>1. SettledBy(v)' = SettledBy(v)
      BY <1>2, <2>3, NoPurchaseAssumption DEF ApplyTopup, SettledBy, PurchaseTypeOK
    <3>2. boughtCoins'[v] = boughtCoins[v]
      BY <1>2, <2>3 DEF ApplyTopup, CreditBought, PurchaseTypeOK
    <3> QED BY <2>1, <3>1, <3>2, NothingCredited
  <2> QED BY <2>2, <2>3
<1>3. ASSUME NEW r \in VerifyRequest, verifyAt[r] # "idle"
      PROVE  verifyJob[r].token \in PlayToken /\ verifyJob[r].user \in Buyer
  BY <1>3 DEF JobIsThere, VerifyJob
<1>4. NoPurchase \notin PurchaseRow
  BY NoPurchaseAssumption
<1>5. \A u \in Buyer, s \in {"verified", "invalid"} : [status |-> s, user |-> u] \in PurchaseRow
  BY DEF PurchaseRow
<1>6. ASSUME NEW r \in VerifyRequest, RecordInvalid(r) PROVE Credited(v)'
  <2> DEFINE t == verifyJob[r].token
             row == [status |-> "invalid", user |-> verifyJob[r].user]
  <2>1. t \in PlayToken /\ row # [status |-> "verified", user |-> v]
    BY <1>3, <1>6 DEF RecordInvalid
  <2>2. purchaseRow' = [purchaseRow EXCEPT
                          ![t] = IF purchaseRow[t] = NoPurchase THEN row ELSE purchaseRow[t]]
    BY <1>6 DEF RecordInvalid
  <2>3. NoPurchase # [status |-> "verified", user |-> v]
    BY <1>4, <1>5
  <2> HIDE DEF t, row
  <2>4. VerifiedBy(v)' = VerifiedBy(v)
    BY <2>1, <2>2, <2>3 DEF VerifiedBy, PurchaseTypeOK
  <2>5. SettledBy(v)' = SettledBy(v) /\ boughtCoins'[v] = boughtCoins[v]
    BY <1>6 DEF RecordInvalid, SettledBy
  <2> QED BY <2>4, <2>5, NothingCredited
<1>7. ASSUME NEW r \in VerifyRequest, CreditPurchase(r) PROVE Credited(v)'
  <2> DEFINE t == verifyJob[r].token
             u == verifyJob[r].user
             row == [status |-> "verified", user |-> u]
  <2>1. t \in PlayToken /\ u \in Buyer
    BY <1>3, <1>7 DEF CreditPurchase
  <2>2. /\ purchaseRow[t] = NoPurchase /\ purchaseRow' = [purchaseRow EXCEPT ![t] = row]
        /\ boughtCoins' = [boughtCoins EXCEPT ![u] = boughtCoins[u] + PackCoins]
    BY <1>7 DEF CreditPurchase, CreditBought
  <2>3. NoPurchase # [status |-> "verified", user |-> v]
    BY <1>4, <1>5
  <2>4. row = [status |-> "verified", user |-> v] <=> u = v
    OBVIOUS
  <2>5. SettledBy(v)' = SettledBy(v)
    BY <1>7 DEF CreditPurchase, SettledBy
  <2> HIDE DEF t, u, row
  <2>6. CASE u = v
    <3>1. VerifiedBy(v)' = VerifiedBy(v) \cup {t} /\ t \notin VerifiedBy(v)
      BY <2>1, <2>2, <2>3, <2>4, <2>6 DEF VerifiedBy, PurchaseTypeOK
    <3>2. boughtCoins'[v] = boughtCoins[v] + PackCoins
      BY <2>2, <2>6 DEF PurchaseTypeOK
    <3> QED BY <2>5, <3>1, <3>2, OneCredited
  <2>7. CASE u # v
    <3>1. VerifiedBy(v)' = VerifiedBy(v)
      BY <2>1, <2>2, <2>3, <2>4, <2>7 DEF VerifiedBy, PurchaseTypeOK
    <3>2. boughtCoins'[v] = boughtCoins[v]
      BY <2>1, <2>2, <2>7 DEF PurchaseTypeOK
    <3> QED BY <2>5, <3>1, <3>2, NothingCredited
  <2> QED BY <2>6, <2>7
<1>8. ASSUME NEW r \in VerifyRequest,
             \/ \E t \in PlayToken : \E u \in Buyer : VerifyStart(r, t, u)
             \/ VerifyAnswered(r) \/ LostTheRace(r) \/ VerifyOver(r)
      PROVE  Credited(v)'
  BY <1>1, <1>8 DEF VerifyStart, VerifyAnswered, LostTheRace, VerifyOver
<1>9. ASSUME NEW t \in PlayToken, PlayMoves(t) PROVE Credited(v)'
  BY <1>1, <1>9 DEF PlayMoves
<1>10. CASE UNCHANGED purchaseVars
  BY <1>1, <1>10 DEF purchaseVars
<1> QED
  BY <1>2, <1>6, <1>7, <1>8, <1>9, <1>10 DEF PurchaseNext

LEMMA PurchaseInductive == PurchaseIInv /\ [PurchaseNext]_purchaseVars => PurchaseIInv'
<1> SUFFICES ASSUME PurchaseIInv, [PurchaseNext]_purchaseVars PROVE PurchaseIInv'
  OBVIOUS
<1>1. PurchaseTypeOK' /\ JobIsThere'
  BY PurchaseTypeStep DEF PurchaseIInv
<1>2. \A v \in Buyer : Credited(v)
  BY DEF PurchaseIInv, PaidForIsFinite, PaymentsCreditedOnce, Credited
<1>3. \A v \in Buyer : Credited(v)'
  BY <1>2, CreditedStep DEF PurchaseIInv
<1>4. PaidForIsFinite' /\ PaymentsCreditedOnce'
  BY <1>3 DEF PaidForIsFinite, PaymentsCreditedOnce, Credited
<1> QED BY <1>1, <1>4 DEF PurchaseIInv

\* What a wallet bought is one pack for each payment.
THEOREM PaymentsAreCreditedOnce == PurchaseSpec => []PaymentsCreditedOnce
<1>1. PurchaseIInv => PaymentsCreditedOnce
  BY DEF PurchaseIInv
<1> QED BY PurchaseInitial, PurchaseInductive, <1>1, PTL DEF PurchaseSpec

\* One step leaves a token's outcome as it is.
LEMMA OutcomeStays ==
    ASSUME PurchaseTypeOK, [PurchaseNext]_purchaseVars, NEW t \in PlayToken,
           purchaseRow[t] # NoPurchase
    PROVE  purchaseRow'[t] = purchaseRow[t]
<1>1. ASSUME NEW r \in VerifyRequest, RecordInvalid(r) PROVE purchaseRow'[t] = purchaseRow[t]
  BY <1>1 DEF RecordInvalid, PurchaseTypeOK
<1>2. ASSUME NEW r \in VerifyRequest, CreditPurchase(r) PROVE purchaseRow'[t] = purchaseRow[t]
  BY <1>2 DEF CreditPurchase, PurchaseTypeOK
<1>3. ASSUME UNCHANGED purchaseRow PROVE purchaseRow'[t] = purchaseRow[t]
  BY <1>3
<1>4. ASSUME NEW r \in VerifyRequest,
             \/ \E x \in PlayToken : \E u \in Buyer : VerifyStart(r, x, u)
             \/ VerifyAnswered(r) \/ LostTheRace(r) \/ VerifyOver(r)
      PROVE  purchaseRow'[t] = purchaseRow[t]
  BY <1>3, <1>4 DEF VerifyStart, VerifyAnswered, LostTheRace, VerifyOver
<1>5. ASSUME NEW x \in PlayToken, PlayMoves(x) PROVE purchaseRow'[t] = purchaseRow[t]
  BY <1>3, <1>5 DEF PlayMoves
<1>6. ASSUME NEW o \in TopupOrder, NEW u \in Buyer, ApplyTopup(o, u)
      PROVE  purchaseRow'[t] = purchaseRow[t]
  BY <1>3, <1>6 DEF ApplyTopup
<1>7. CASE UNCHANGED purchaseVars
  BY <1>3, <1>7 DEF purchaseVars
<1> QED
  BY <1>1, <1>2, <1>4, <1>5, <1>6, <1>7 DEF PurchaseNext

\* The first outcome of a purchase token stands.
THEOREM OutcomesStand == PurchaseSpec => FirstOutcomeStands
<1>1. PurchaseIInv /\ [PurchaseNext]_purchaseVars
        => [\A t \in PlayToken :
              purchaseRow[t] # NoPurchase => purchaseRow'[t] = purchaseRow[t]]_purchaseVars
  BY OutcomeStays DEF PurchaseIInv
<1> QED BY PurchaseInitial, PurchaseInductive, <1>1, PTL DEF PurchaseSpec, FirstOutcomeStands

-----------------------------------------------------------------------------
(* The chain of sweeps.  A message carries the chain on if it has still to
   look at the calls, or has a successor to publish that no key will swallow.
   The key of the next minute belongs to a message nobody can deliver yet; the
   key of this minute swallows only a publication aimed in the last one, of a
   call that has been live since - and as long as a call is live, a message
   that carries the chain on hands it over to another. *)

SweepIs(s, at) == sweeps[s].at = at
Carries(s) ==
    \/ sweeps[s].at \in {"waiting", "running", "swept", "live"}
    \/ SweepIs(s, "aiming") /\ (sweeps[s].bucket = 1 \/ ~used[0])
\* It stands in the next minute.
Ahead(s) == SweepIs(s, "waiting") /\ sweeps[s].wait = 1
NextIsWaiting == used[1] => \E s \in SweepSlot : Ahead(s)

\* A call that was promised a sweep, or whose publication will be swallowed.
Relies(c) ==
    \/ standing[c] = "armed"
    \/ standing[c] # "over" /\ aiming[c] = 0 /\ used[0]
ChainCarriesOn ==
    ~gaveUp /\ (\E c \in SweptCall : Relies(c)) => \E s \in SweepSlot : Carries(s)

SweepIInv == SweepTypeOK /\ NextIsWaiting /\ ChainCarriesOn

SweepMessages == [SweepSlot -> SweepMessage \cup {NoSweep}]

LEMMA SweepMessageFields ==
    ASSUME NEW m \in SweepMessage \cup {NoSweep}
    PROVE  /\ m.at \in {"none", "waiting", "running", "swept", "live", "done", "aiming"}
           /\ m.at = "waiting" => m \in [at : {"waiting"}, wait : Minute, left : 1 .. SweepDeliveries]
           /\ m.at \in {"running", "swept", "live", "done"} =>
                m \in [at : {"running", "swept", "live", "done"}, left : 1 .. SweepDeliveries]
           /\ m.at = "aiming" => m \in [at : {"aiming"}, bucket : Minute, left : 1 .. SweepDeliveries]
           /\ m.at # "none" => m.left \in 1 .. SweepDeliveries
BY DEF SweepMessage, NoSweep

LEMMA SweepMessagesMade ==
    ASSUME NEW left \in 1 .. SweepDeliveries
    PROVE  /\ \A wait \in Minute : [at |-> "waiting", wait |-> wait, left |-> left] \in SweepMessage
           /\ \A at \in {"running", "swept", "live", "done"} : [at |-> at, left |-> left] \in SweepMessage
           /\ \A b \in Minute : [at |-> "aiming", bucket |-> b, left |-> left] \in SweepMessage
BY DEF SweepMessage

\* enqueue(): swallowed, or a message of its own that waits.
LEMMA SendOnceSends ==
    ASSUME NEW bucket \in Minute, NEW delay \in Minute, NEW msgs \in SweepMessages,
           used \in [Minute -> BOOLEAN], SendOnce(bucket, delay, msgs)
    PROVE  /\ sweeps' \in SweepMessages /\ used' \in [Minute -> BOOLEAN]
           /\ used[bucket] => sweeps' = msgs /\ used' = used
           /\ ~used[bucket] =>
                /\ used' = [used EXCEPT ![bucket] = TRUE]
                /\ \E q \in SweepSlot :
                     /\ msgs[q].at = "none"
                     /\ sweeps'[q].at = "waiting" /\ sweeps'[q].wait = delay
                     /\ \A r \in SweepSlot \ {q} : sweeps'[r] = msgs[r]
<1>1. CASE used[bucket]
  BY <1>1 DEF SendOnce
<1>2. CASE ~used[bucket]
  <2> DEFINE q == CHOOSE s \in SweepSlot : msgs[s].at = "none"
             new == [at |-> "waiting", wait |-> delay, left |-> SweepDeliveries]
  <2>1. /\ used' = [used EXCEPT ![bucket] = TRUE]
        /\ \E s \in SweepSlot : msgs[s].at = "none"
        /\ sweeps' = [msgs EXCEPT ![q] = new]
    BY <1>2 DEF SendOnce
  <2>2. q \in SweepSlot /\ msgs[q].at = "none"
    BY <2>1
  <2>3. SweepDeliveries \in 1 .. SweepDeliveries
    BY SweepAssumption
  <2>4. new \in SweepMessage
    BY <2>3, SweepMessagesMade
  <2>5. new.at = "waiting" /\ new.wait = delay
    OBVIOUS
  <2> HIDE DEF q, new
  <2>6. /\ sweeps' \in SweepMessages /\ sweeps'[q] = new
        /\ \A r \in SweepSlot \ {q} : sweeps'[r] = msgs[r]
    BY <2>1, <2>2, <2>4 DEF SweepMessages
  <2>7. used' \in [Minute -> BOOLEAN]
    BY <2>1
  <2> QED
    BY <1>2, <2>1, <2>2, <2>5, <2>6, <2>7
<1> QED
  BY <1>1, <1>2

LEMMA SweepTypes ==
    SweepTypeOK <=> /\ standing \in [SweptCall -> {"over", "started", "armed"}]
                    /\ silent \in [SweptCall -> BOOLEAN]
                    /\ aiming \in [SweptCall -> {NoBucket} \cup Minute]
                    /\ used \in [Minute -> BOOLEAN] /\ gaveUp \in BOOLEAN
                    /\ sweeps \in SweepMessages
BY DEF SweepTypeOK, SweepMessages

\* One message changes.
LEMMA MessageChanges ==
    ASSUME SweepTypeOK, NEW s \in SweepSlot, NEW new \in SweepMessage \cup {NoSweep},
           sweeps' = [sweeps EXCEPT ![s] = new],
           UNCHANGED <<used, standing, silent, aiming>>, gaveUp' \in BOOLEAN
    PROVE  /\ SweepTypeOK'
           /\ sweeps'[s] = new /\ \A r \in SweepSlot \ {s} : sweeps'[r] = sweeps[r]
BY DEF SweepTypeOK

LEMMA MessageStep ==
    ASSUME SweepIInv, NEW s \in SweepSlot, NEW new \in SweepMessage \cup {NoSweep},
           sweeps' = [sweeps EXCEPT ![s] = new],
           UNCHANGED <<used, standing, silent, aiming>>, gaveUp' \in BOOLEAN,
           gaveUp => gaveUp',
           ~Ahead(s),
           \/ ~Carries(s)
           \/ new.at \in {"running", "swept", "live", "waiting"}
           \/ new.at = "aiming" /\ new.bucket = 1
           \/ gaveUp'
           \/ \A c \in SweptCall : ~Relies(c)
    PROVE  SweepIInv'
<1>1. SweepTypeOK /\ NextIsWaiting /\ ChainCarriesOn
  BY DEF SweepIInv
<1>2. /\ SweepTypeOK'
      /\ sweeps'[s] = new /\ \A r \in SweepSlot \ {s} : sweeps'[r] = sweeps[r]
  BY <1>1, MessageChanges
<1>3. NextIsWaiting'
  <2>1. \A r \in SweepSlot : Ahead(r) => Ahead(r)'
    BY <1>2 DEF Ahead, SweepIs
  <2> QED
    BY <1>1, <2>1 DEF NextIsWaiting
<1>4. ASSUME ~gaveUp', NEW c \in SweptCall, Relies(c) PROVE \E r \in SweepSlot : Carries(r)'
  <2>1. PICK r \in SweepSlot : Carries(r)
    BY <1>1, <1>4 DEF ChainCarriesOn
  <2>2. CASE r # s
    BY <1>2, <2>1, <2>2 DEF Carries, SweepIs
  <2>3. CASE r = s
    BY <1>2, <1>4, <2>1, <2>3 DEF Carries, SweepIs
  <2> QED
    BY <2>2, <2>3
<1>5. ChainCarriesOn'
  <2>1. \A c \in SweptCall : Relies(c)' => Relies(c)
    BY DEF Relies
  <2> QED
    BY <1>4, <2>1 DEF ChainCarriesOn
<1> QED
  BY <1>2, <1>3, <1>5 DEF SweepIInv

\* A call moves and comes to rely on no message it did not rely on.
LEMMA CallMoves ==
    ASSUME SweepIInv, SweepTypeOK', UNCHANGED <<used, sweeps, gaveUp>>,
           \A c \in SweptCall : Relies(c)' => Relies(c) \/ used[1]
    PROVE  SweepIInv'
<1>1. NextIsWaiting /\ ChainCarriesOn
  BY DEF SweepIInv
<1>2. \A s \in SweepSlot : (Ahead(s)' <=> Ahead(s)) /\ (Carries(s)' <=> Carries(s))
  BY DEF Ahead, Carries, SweepIs
<1>3. NextIsWaiting'
  BY <1>1, <1>2 DEF NextIsWaiting
<1>4. \A s \in SweepSlot : Ahead(s) => Carries(s)
  BY DEF Ahead, Carries, SweepIs
<1>5. ChainCarriesOn'
  BY <1>1, <1>2, <1>4 DEF ChainCarriesOn, NextIsWaiting
<1> QED
  BY <1>3, <1>5 DEF SweepIInv

\* A publication that makes a message leaves the chain carried on.
LEMMA SweepPublished ==
    ASSUME SweepIInv, SweepTypeOK', NEW bucket \in Minute, NEW delay \in Minute,
           NEW q \in SweepSlot, ~used[bucket],
           used' = [used EXCEPT ![bucket] = TRUE],
           sweeps'[q].at = "waiting", sweeps'[q].wait = delay,
           bucket = 1 => delay = 1,
           \A r \in SweepSlot : Ahead(r) => sweeps'[r] = sweeps[r]
    PROVE  SweepIInv'
<1>1. SweepTypeOK /\ NextIsWaiting
  BY DEF SweepIInv
<1>2. NextIsWaiting'
  <2>1. CASE bucket = 1
    <3>1. Ahead(q)'
      BY <2>1 DEF Ahead, SweepIs
    <3> QED
      BY <3>1 DEF NextIsWaiting
  <2>2. CASE bucket = 0
    <3>1. used'[1] = used[1]
      BY <1>1, <2>2 DEF SweepTypeOK, Minute
    <3>2. \A r \in SweepSlot : Ahead(r) => Ahead(r)'
      BY DEF Ahead, SweepIs
    <3> QED
      BY <1>1, <3>1, <3>2 DEF NextIsWaiting
  <2> QED
    BY <2>1, <2>2 DEF Minute
<1>3. Carries(q)'
  BY DEF Carries
<1> QED
  BY <1>2, <1>3 DEF SweepIInv, ChainCarriesOn

LEMMA SweepEnsuredStep ==
    ASSUME SweepIInv, NEW c \in SweptCall, SweepEnsured(c)
    PROVE  SweepIInv'
<1>1. SweepTypeOK /\ sweeps \in SweepMessages /\ used \in [Minute -> BOOLEAN]
  BY SweepTypes DEF SweepIInv
<1>2. /\ aiming[c] # NoBucket /\ aiming' = [aiming EXCEPT ![c] = NoBucket]
      /\ SendOnce(aiming[c], 1, sweeps)
      /\ standing' = IF standing[c] = "started" THEN [standing EXCEPT ![c] = "armed"] ELSE standing
      /\ UNCHANGED <<silent, gaveUp>>
  BY DEF SweepEnsured
<1>3. aiming[c] \in Minute /\ 1 \in Minute
  BY <1>1, <1>2 DEF SweepTypeOK, Minute
<1>4. /\ sweeps' \in SweepMessages /\ used' \in [Minute -> BOOLEAN]
      /\ used[aiming[c]] => sweeps' = sweeps /\ used' = used
      /\ ~used[aiming[c]] =>
           /\ used' = [used EXCEPT ![aiming[c]] = TRUE]
           /\ \E q \in SweepSlot :
                /\ sweeps[q].at = "none"
                /\ sweeps'[q].at = "waiting" /\ sweeps'[q].wait = 1
                /\ \A r \in SweepSlot \ {q} : sweeps'[r] = sweeps[r]
  BY <1>1, <1>2, <1>3, SendOnceSends
<1>5. SweepTypeOK'
  BY <1>1, <1>2, <1>4, SweepTypes DEF SweepTypeOK, SweepMessages
<1>6. CASE used[aiming[c]]
  <2>1. UNCHANGED <<used, sweeps, gaveUp>>
    BY <1>2, <1>4, <1>6
  <2>2. ASSUME NEW d \in SweptCall, Relies(d)' PROVE Relies(d) \/ used[1]
    <3>1. CASE d # c
      BY <1>1, <1>2, <2>1, <2>2, <3>1 DEF Relies, SweepTypeOK
    <3>2. CASE d = c
      <4>1. standing'[c] # "over"
        BY <2>2, <3>2 DEF Relies
      <4>2. standing[c] # "over"
        BY <1>1, <1>2, <4>1 DEF SweepTypeOK
      <4>3. aiming[c] = 1 \/ aiming[c] = 0
        BY <1>3 DEF Minute
      <4> QED
        BY <1>6, <3>2, <4>2, <4>3 DEF Relies
    <3> QED
      BY <3>1, <3>2
  <2> QED
    BY <1>5, <2>1, <2>2, CallMoves
<1>7. CASE ~used[aiming[c]]
  <2>1. PICK q \in SweepSlot :
           /\ sweeps[q].at = "none"
           /\ sweeps'[q].at = "waiting" /\ sweeps'[q].wait = 1
           /\ \A r \in SweepSlot \ {q} : sweeps'[r] = sweeps[r]
    BY <1>4, <1>7
  <2>2. \A r \in SweepSlot : Ahead(r) => sweeps'[r] = sweeps[r]
    BY <2>1 DEF Ahead, SweepIs
  <2> QED
    BY <1>3, <1>4, <1>5, <1>7, <2>1, <2>2, SweepPublished
<1> QED
  BY <1>6, <1>7

LEMMA NextPublishedStep ==
    ASSUME SweepIInv, NEW s \in SweepSlot, NextPublished(s)
    PROVE  SweepIInv'
<1> DEFINE done == [at |-> "done", left |-> sweeps[s].left]
           msgs == [sweeps EXCEPT ![s] = done]
           b == sweeps[s].bucket
<1>1. SweepTypeOK /\ sweeps \in SweepMessages /\ used \in [Minute -> BOOLEAN]
  BY SweepTypes DEF SweepIInv
<1>2. sweeps[s].at = "aiming" /\ SendOnce(b, 1, msgs) /\ UNCHANGED <<gaveUp, standing, silent, aiming>>
  BY <1>1 DEF NextPublished, CallsStand, SweepMessages
<1>3. b \in Minute /\ 1 \in Minute /\ sweeps[s].left \in 1 .. SweepDeliveries
  BY <1>1, <1>2, SweepMessageFields DEF SweepMessages, Minute
<1>4. done \in SweepMessage /\ done.at = "done"
  BY <1>3, SweepMessagesMade
<1> HIDE DEF done
<1>5. msgs \in SweepMessages /\ msgs[s] = done /\ \A r \in SweepSlot \ {s} : msgs[r] = sweeps[r]
  BY <1>1, <1>4 DEF SweepMessages
<1> HIDE DEF msgs, b
<1>6. /\ sweeps' \in SweepMessages /\ used' \in [Minute -> BOOLEAN]
      /\ used[b] => sweeps' = msgs /\ used' = used
      /\ ~used[b] =>
           /\ used' = [used EXCEPT ![b] = TRUE]
           /\ \E q \in SweepSlot :
                /\ msgs[q].at = "none"
                /\ sweeps'[q].at = "waiting" /\ sweeps'[q].wait = 1
                /\ \A r \in SweepSlot \ {q} : sweeps'[r] = msgs[r]
  BY <1>1, <1>2, <1>3, <1>5, SendOnceSends
<1>7. SweepTypeOK'
  BY <1>1, <1>2, <1>6, SweepTypes DEF SweepTypeOK, SweepMessages
<1>8. CASE used[b]
  <2>1. sweeps' = [sweeps EXCEPT ![s] = done] /\ UNCHANGED <<used, standing, silent, aiming>>
    BY <1>2, <1>6, <1>8 DEF msgs
  <2>2. ~Ahead(s)
    BY <1>2 DEF Ahead, SweepIs
  <2>3. CASE b = 0
    <3>1. ~Carries(s)
      BY <1>2, <1>8, <2>3 DEF Carries, SweepIs, b
    <3> QED
      BY <1>1, <1>2, <1>4, <2>1, <2>2, <3>1, MessageStep DEF SweepTypeOK
  <2>4. CASE b = 1
    <3>1. PICK w \in SweepSlot : Ahead(w)
      BY <1>8, <2>4 DEF SweepIInv, NextIsWaiting
    <3>2. sweeps'[w] = sweeps[w]
      BY <1>2, <1>5, <1>6, <1>8, <3>1 DEF Ahead, SweepIs
    <3>3. Ahead(w)' /\ Carries(w)'
      BY <3>1, <3>2 DEF Ahead, SweepIs, Carries
    <3> QED
      BY <1>7, <3>3 DEF SweepIInv, NextIsWaiting, ChainCarriesOn
  <2> QED
    BY <1>3, <2>3, <2>4 DEF Minute
<1>9. CASE ~used[b]
  <2>1. PICK q \in SweepSlot :
           /\ msgs[q].at = "none"
           /\ sweeps'[q].at = "waiting" /\ sweeps'[q].wait = 1
           /\ \A r \in SweepSlot \ {q} : sweeps'[r] = msgs[r]
    BY <1>6, <1>9
  <2>2. ASSUME NEW r \in SweepSlot, Ahead(r) PROVE sweeps'[r] = sweeps[r]
    <3>1. r # s
      BY <1>2, <2>2 DEF Ahead, SweepIs
    <3>2. msgs[r] = sweeps[r] /\ msgs[r].at = "waiting"
      BY <1>5, <2>2, <3>1 DEF Ahead, SweepIs
    <3> QED
      BY <2>1, <3>2
  <2> QED
    BY <1>3, <1>6, <1>7, <1>9, <2>1, <2>2, SweepPublished
<1> QED
  BY <1>8, <1>9

LEMMA CronEnsuresStep ==
    ASSUME SweepIInv, CronEnsures
    PROVE  SweepIInv'
<1>1. SweepTypeOK /\ sweeps \in SweepMessages /\ used \in [Minute -> BOOLEAN]
  BY SweepTypes DEF SweepIInv
<1>2. SendOnce(0, 0, sweeps) /\ UNCHANGED <<gaveUp, standing, silent, aiming>> /\ 0 \in Minute
  BY DEF CronEnsures, CallsStand, Bucket, Minute
<1>3. /\ sweeps' \in SweepMessages /\ used' \in [Minute -> BOOLEAN]
      /\ used[0] => sweeps' = sweeps /\ used' = used
      /\ ~used[0] =>
           /\ used' = [used EXCEPT ![0] = TRUE]
           /\ \E q \in SweepSlot :
                /\ sweeps[q].at = "none"
                /\ sweeps'[q].at = "waiting" /\ sweeps'[q].wait = 0
                /\ \A r \in SweepSlot \ {q} : sweeps'[r] = sweeps[r]
  BY <1>1, <1>2, SendOnceSends
<1>4. SweepTypeOK'
  BY <1>1, <1>2, <1>3, SweepTypes DEF SweepTypeOK, SweepMessages
<1>5. CASE used[0]
  <2>1. UNCHANGED <<used, sweeps, gaveUp, standing, aiming>>
    BY <1>2, <1>3, <1>5
  <2> QED
    BY <1>4, <2>1, CallMoves DEF Relies
<1>6. CASE ~used[0]
  <2>1. PICK q \in SweepSlot :
           /\ sweeps[q].at = "none"
           /\ sweeps'[q].at = "waiting" /\ sweeps'[q].wait = 0
           /\ \A r \in SweepSlot \ {q} : sweeps'[r] = sweeps[r]
    BY <1>3, <1>6
  <2>2. \A r \in SweepSlot : Ahead(r) => sweeps'[r] = sweeps[r]
    BY <2>1 DEF Ahead, SweepIs
  <2> QED
    BY <1>2, <1>3, <1>4, <1>6, <2>1, <2>2, SweepPublished
<1> QED
  BY <1>5, <1>6

\* The next minute's key becomes this one's, and its message can be delivered.
LEMMA MinutePassesStep ==
    ASSUME SweepIInv, MinutePasses
    PROVE  SweepIInv'
<1>1. SweepTypeOK /\ NextIsWaiting /\ ChainCarriesOn /\ sweeps \in SweepMessages
  BY SweepTypes DEF SweepIInv
<1>2. /\ \A c \in SweptCall : aiming[c] # 0
      /\ \A s \in SweepSlot : sweeps[s].at = "aiming" => sweeps[s].bucket # 0
      /\ used' = [k \in Minute |-> k = 0 /\ used[1]]
      /\ aiming' = [c \in SweptCall |-> IF aiming[c] = 1 THEN 0 ELSE aiming[c]]
      /\ sweeps' = [s \in SweepSlot |->
             IF sweeps[s].at = "waiting" THEN [sweeps[s] EXCEPT !.wait = 0]
             ELSE IF sweeps[s].at = "aiming" THEN [sweeps[s] EXCEPT !.bucket = 0]
             ELSE sweeps[s]]
      /\ UNCHANGED <<standing, silent, gaveUp>>
  BY DEF MinutePasses
<1>3. ASSUME NEW s \in SweepSlot
      PROVE  /\ sweeps'[s] \in SweepMessage \cup {NoSweep} /\ sweeps'[s].at = sweeps[s].at
             /\ sweeps[s].at = "aiming" => sweeps'[s].bucket = 0
  <2>1. sweeps[s] \in SweepMessage \cup {NoSweep}
    BY <1>1 DEF SweepMessages
  <2>2. CASE sweeps[s].at = "waiting"
    <3>1. sweeps[s] \in [at : {"waiting"}, wait : Minute, left : 1 .. SweepDeliveries]
      BY <2>1, <2>2, SweepMessageFields
    <3>2. sweeps'[s] = [sweeps[s] EXCEPT !.wait = 0]
      BY <1>2, <2>2
    <3>3. sweeps'[s] \in [at : {"waiting"}, wait : Minute, left : 1 .. SweepDeliveries]
      BY <3>1, <3>2 DEF Minute
    <3> QED
      BY <2>2, <3>3 DEF SweepMessage
  <2>3. CASE sweeps[s].at = "aiming"
    <3>1. sweeps[s] \in [at : {"aiming"}, bucket : Minute, left : 1 .. SweepDeliveries]
      BY <2>1, <2>3, SweepMessageFields
    <3>2. sweeps'[s] = [sweeps[s] EXCEPT !.bucket = 0]
      BY <1>2, <2>3
    <3>3. /\ sweeps'[s] \in [at : {"aiming"}, bucket : Minute, left : 1 .. SweepDeliveries]
          /\ sweeps'[s].bucket = 0
      BY <3>1, <3>2 DEF Minute
    <3> QED
      BY <2>3, <3>3 DEF SweepMessage
  <2>4. CASE sweeps[s].at \notin {"waiting", "aiming"}
    BY <1>2, <2>1, <2>4
  <2> QED
    BY <2>2, <2>3, <2>4
<1>4. used'[0] = used[1] /\ ~used'[1] /\ used' \in [Minute -> BOOLEAN]
  <2>1. 0 \in Minute /\ 1 \in Minute /\ 1 # 0
    BY DEF Minute
  <2>2. used[1] \in BOOLEAN
    BY <1>1, <2>1 DEF SweepTypeOK
  <2>3. used'[0] = (0 = 0 /\ used[1]) /\ used'[1] = (1 = 0 /\ used[1])
    BY <1>2, <2>1
  <2>4. used'[0] = used[1]
    BY <2>2, <2>3
  <2>5. \A k \in Minute : (k = 0 /\ used[1]) \in BOOLEAN
    OBVIOUS
  <2>6. used' \in [Minute -> BOOLEAN]
    BY <1>2, <2>5
  <2> QED
    BY <2>1, <2>3, <2>4, <2>6
<1>5. SweepTypeOK'
  <2>1. sweeps' \in SweepMessages
    BY <1>2, <1>3 DEF SweepMessages
  <2>2. aiming' \in [SweptCall -> {NoBucket} \cup Minute]
    BY <1>1, <1>2 DEF SweepTypeOK, Minute
  <2> QED
    BY <1>1, <1>2, <1>4, <2>1, <2>2, SweepTypes DEF SweepTypeOK, SweepMessages
<1>6. NextIsWaiting'
  BY <1>4 DEF NextIsWaiting
<1>7. ASSUME used[1] PROVE \E s \in SweepSlot : Carries(s)'
  <2>1. PICK s \in SweepSlot : Ahead(s)
    BY <1>1, <1>7 DEF NextIsWaiting
  <2> QED
    BY <1>3, <2>1 DEF Ahead, Carries, SweepIs
<1>8. ASSUME ~used[1], ~gaveUp, NEW c \in SweptCall, Relies(c)' PROVE \E s \in SweepSlot : Carries(s)'
  <2>1. standing[c] = "armed"
    BY <1>2, <1>4, <1>8 DEF Relies
  <2>2. PICK s \in SweepSlot : Carries(s)
    BY <1>1, <1>8, <2>1 DEF ChainCarriesOn, Relies
  <2>3. Carries(s)'
    BY <1>3, <1>4, <1>8, <2>2 DEF Carries, SweepIs
  <2> QED
    BY <2>3
<1>9. ChainCarriesOn'
  BY <1>2, <1>7, <1>8 DEF ChainCarriesOn
<1> QED
  BY <1>5, <1>6, <1>9 DEF SweepIInv

LEMMA SweepStep == SweepIInv /\ [SweepNext]_sweepVars => SweepIInv'
<1> SUFFICES ASSUME SweepIInv, [SweepNext]_sweepVars PROVE SweepIInv'
  OBVIOUS
<1>0. SweepTypeOK /\ sweeps \in SweepMessages
  BY SweepTypes DEF SweepIInv
<1>1. CASE UNCHANGED sweepVars
  <2>1. SweepTypeOK' /\ UNCHANGED <<used, sweeps, gaveUp, standing, aiming>>
    BY <1>0, <1>1 DEF sweepVars, SweepTypeOK
  <2> QED
    BY <2>1, CallMoves DEF Relies
<1>2. ASSUME NEW c \in SweptCall,
             CallCommitted(c) \/ SweepAimed(c) \/ SweepNotSent(c) \/ CallFallsSilent(c) \/ CallOver(c)
      PROVE  SweepIInv'
  <2>1. SweepTypeOK'
    BY <1>0, <1>2 DEF CallCommitted, SweepAimed, SweepNotSent, CallFallsSilent, CallOver, SweepTypeOK,
                      Bucket, Minute
  <2>2. UNCHANGED <<used, sweeps, gaveUp>>
    BY <1>2 DEF CallCommitted, SweepAimed, SweepNotSent, CallFallsSilent, CallOver
  <2>3. \A d \in SweptCall : Relies(d)' => Relies(d)
    BY <1>0, <1>2, <2>2 DEF CallCommitted, SweepAimed, SweepNotSent, CallFallsSilent, CallOver, SweepTypeOK,
                      Bucket, Relies, NoBucket
  <2> QED
    BY <2>1, <2>2, <2>3, CallMoves
<1>3. ASSUME NEW c \in SweptCall, SweepEnsured(c) PROVE SweepIInv'
  BY <1>3, SweepEnsuredStep
<1>4. ASSUME NEW s \in SweepSlot
      PROVE  /\ sweeps[s].at # "none" => sweeps[s].left \in 1 .. SweepDeliveries
             /\ gaveUp \in BOOLEAN
  BY <1>0, SweepMessageFields DEF SweepMessages, SweepTypeOK
<1>5. ASSUME NEW s \in SweepSlot, SweepDelivered(s) PROVE SweepIInv'
  <2> DEFINE new == [at |-> "running", left |-> sweeps[s].left]
  <2>1. /\ sweeps[s].at = "waiting" /\ sweeps[s].wait = 0
        /\ sweeps' = [sweeps EXCEPT ![s] = new]
        /\ UNCHANGED <<used, gaveUp, standing, silent, aiming>>
    BY <1>0, <1>5 DEF SweepDelivered, CallsStand, SweepMessages
  <2>2. new \in SweepMessage /\ new.at = "running"
    BY <1>4, <2>1, SweepMessagesMade
  <2>3. ~Ahead(s)
    BY <2>1 DEF Ahead
  <2> HIDE DEF new
  <2> QED
    BY <1>4, <2>1, <2>2, <2>3, MessageStep
<1>6. ASSUME NEW s \in SweepSlot, Swept(s) PROVE SweepIInv'
  <2> DEFINE new == [sweeps[s] EXCEPT !.at = "swept"]
  <2>1. /\ sweeps[s].at = "running" /\ sweeps' = [sweeps EXCEPT ![s] = new]
        /\ standing' = [c \in SweptCall |-> IF silent[c] THEN "over" ELSE standing[c]]
        /\ UNCHANGED <<silent, aiming, used, gaveUp>>
    BY <1>0, <1>6 DEF Swept, SweepMessages
  <2>2. sweeps[s] \in [at : {"running", "swept", "live", "done"}, left : 1 .. SweepDeliveries]
    BY <1>0, <2>1, SweepMessageFields DEF SweepMessages
  <2>3. new \in SweepMessage /\ new.at = "swept"
    BY <2>2 DEF SweepMessage
  <2> HIDE DEF new
  <2>4. SweepTypeOK'
    BY <1>0, <2>1, <2>3 DEF SweepTypeOK
  <2>5. sweeps'[s].at = "swept" /\ \A r \in SweepSlot \ {s} : sweeps'[r] = sweeps[r]
    BY <1>0, <2>1, <2>3 DEF SweepMessages
  <2>6. \A r \in SweepSlot : (Ahead(r) => Ahead(r)') /\ (Carries(r) => Carries(r)')
    BY <2>1, <2>5 DEF Ahead, Carries, SweepIs
  <2>7. \A c \in SweptCall : Relies(c)' => Relies(c)
    BY <2>1 DEF Relies
  <2> QED
    BY <2>1, <2>4, <2>6, <2>7 DEF SweepIInv, NextIsWaiting, ChainCarriesOn
<1>7. ASSUME NEW s \in SweepSlot, LiveLooked(s) PROVE SweepIInv'
  <2> DEFINE new == [sweeps[s] EXCEPT !.at = IF Living # {} THEN "live" ELSE "done"]
  <2>1. /\ sweeps[s].at = "swept" /\ sweeps' = [sweeps EXCEPT ![s] = new]
        /\ UNCHANGED <<standing, silent, aiming, used, gaveUp>>
    BY <1>0, <1>7 DEF LiveLooked, CallsStand, SweepMessages
  <2>2. sweeps[s] \in [at : {"running", "swept", "live", "done"}, left : 1 .. SweepDeliveries]
    BY <1>0, <2>1, SweepMessageFields DEF SweepMessages
  <2>3. new \in SweepMessage /\ new.at = IF Living # {} THEN "live" ELSE "done"
    BY <2>2 DEF SweepMessage
  <2>4. Living = {} => \A c \in SweptCall : ~Relies(c)
    BY DEF Living, Relies
  <2>5. ~Ahead(s)
    BY <2>1 DEF Ahead, SweepIs
  <2> HIDE DEF new
  <2> QED
    BY <1>4, <2>1, <2>3, <2>4, <2>5, MessageStep
<1>8. ASSUME NEW s \in SweepSlot, NextAimed(s) PROVE SweepIInv'
  <2> DEFINE new == [at |-> "aiming", bucket |-> 1, left |-> sweeps[s].left]
  <2>1. /\ sweeps[s].at = "live" /\ sweeps' = [sweeps EXCEPT ![s] = new]
        /\ UNCHANGED <<standing, silent, aiming, used, gaveUp>>
    BY <1>0, <1>8 DEF NextAimed, CallsStand, SweepMessages, Bucket
  <2>2. new \in SweepMessage /\ new.at = "aiming" /\ new.bucket = 1
    BY <1>4, <2>1, SweepMessagesMade DEF Minute
  <2>3. ~Ahead(s)
    BY <2>1 DEF Ahead, SweepIs
  <2> HIDE DEF new
  <2> QED
    BY <1>4, <2>1, <2>2, <2>3, MessageStep
<1>9. ASSUME NEW s \in SweepSlot, NextPublished(s) PROVE SweepIInv'
  BY <1>9, NextPublishedStep
<1>10. ASSUME NEW s \in SweepSlot, SweepAcked(s) PROVE SweepIInv'
  <2>1. /\ sweeps[s].at = "done" /\ sweeps' = [sweeps EXCEPT ![s] = NoSweep]
        /\ UNCHANGED <<standing, silent, aiming, used, gaveUp>>
    BY <1>10 DEF SweepAcked, CallsStand
  <2>2. ~Ahead(s) /\ ~Carries(s)
    BY <2>1 DEF Ahead, Carries, SweepIs
  <2> QED
    BY <1>4, <2>1, <2>2, MessageStep
<1>11. ASSUME NEW s \in SweepSlot, SweepFails(s) PROVE SweepIInv'
  <2>1. /\ sweeps[s].at \notin {"none", "waiting"} /\ UNCHANGED <<used, standing, silent, aiming>>
    BY <1>11 DEF SweepFails, CallsStand
  <2>2. ~Ahead(s)
    BY <2>1 DEF Ahead, SweepIs
  <2>3. CASE sweeps[s].left = 1
    <3>1. sweeps' = [sweeps EXCEPT ![s] = NoSweep] /\ gaveUp' = TRUE
      BY <1>11, <2>3 DEF SweepFails
    <3> QED
      BY <2>1, <2>2, <3>1, MessageStep
  <2>4. CASE sweeps[s].left # 1
    <3> DEFINE new == [at |-> "waiting", wait |-> 0, left |-> sweeps[s].left - 1]
    <3>1. sweeps' = [sweeps EXCEPT ![s] = new] /\ UNCHANGED gaveUp
      BY <1>0, <1>11, <2>4 DEF SweepFails, SweepMessages
    <3>2. sweeps[s].left - 1 \in 1 .. SweepDeliveries /\ 0 \in Minute
      BY <1>4, <2>1, <2>4, SweepAssumption DEF Minute
    <3>3. new \in SweepMessage /\ new.at = "waiting"
      BY <3>2, SweepMessagesMade
    <3> HIDE DEF new
    <3> QED
      BY <1>4, <2>1, <2>2, <3>1, <3>3, MessageStep
  <2> QED
    BY <2>3, <2>4
<1>12. CASE CronEnsures
  BY <1>12, CronEnsuresStep
<1>13. CASE MinutePasses
  BY <1>13, MinutePassesStep
<1> QED
  BY <1>1, <1>2, <1>3, <1>5, <1>6, <1>7, <1>8, <1>9, <1>10, <1>11, <1>12, <1>13 DEF SweepNext

LEMMA SweepStart == SweepInit => SweepIInv
<1> SUFFICES ASSUME SweepInit PROVE SweepIInv
  OBVIOUS
<1>1. SweepTypeOK
  BY DEF SweepInit, SweepTypeOK, Minute
<1>2. ~used[1] /\ \A c \in SweptCall : ~Relies(c)
  BY DEF SweepInit, Relies, Minute
<1> QED
  BY <1>1, <1>2 DEF SweepIInv, NextIsWaiting, ChainCarriesOn

LEMMA CarriedIsArmed == SweepIInv => SweepIsArmed
<1>1. \A s \in SweepSlot : Carries(s) => sweeps[s].at \notin {"none", "done"}
  BY DEF Carries, SweepIs
<1> QED
  BY <1>1 DEF SweepIInv, ChainCarriesOn, Relies, SweepIsArmed

-----------------------------------------------------------------------------
(* The chain of Live syncs, the same argument with a demand in place of the
   calls: a listing in flight that noted it keeps it standing, and a message
   that ends for want of demand was told so by Redis, or broke the chain. *)

LinkExtends(s) ==
    \/ chain[s].at \in {"waiting", "syncing", "wanted"}
    \/ LinkAt(s, "aimed") /\ (chain[s].bucket = 1 \/ ~keyUsed[0])
LinkAhead(s) == LinkAt(s, "waiting") /\ chain[s].wait = 1
NextLinkWaits == keyUsed[1] => \E s \in ChainSlot : LinkAhead(s)

ListingTold(b) == listing[b].at # "away" /\ listing[b].told
DemandStands == (promised => demand) /\ \A b \in Browser : ListingTold(b) => demand
\* A listing that noted the demand and whose publication will be swallowed.
ListingRelies(b) ==
    BrowserAt(b, "aimed") /\ listing[b].told /\ listing[b].bucket = 0 /\ keyUsed[0]
Relied == promised \/ \E b \in Browser : ListingRelies(b)
ChainExtends == ~broken /\ Relied => \E s \in ChainSlot : LinkExtends(s)

ChainIInv == ChainTypeOK /\ NextLinkWaits /\ DemandStands /\ ChainExtends

Links == [ChainSlot -> Link \cup {NoLink}]

LEMMA LinkFields ==
    ASSUME NEW m \in Link \cup {NoLink}
    PROVE  /\ m.at \in {"none", "waiting", "syncing", "wanted", "ended", "aimed"}
           /\ m.at = "none" => m = NoLink
           /\ m.at = "waiting" => m \in [at : {"waiting"}, wait : Window, left : 1 .. ChainDeliveries]
           /\ m.at \in {"syncing", "wanted", "ended"} =>
                m \in [at : {"syncing", "wanted", "ended"}, left : 1 .. ChainDeliveries]
           /\ m.at = "aimed" => m \in [at : {"aimed"}, bucket : Window, left : 1 .. ChainDeliveries]
           /\ m.at # "none" => m.left \in 1 .. ChainDeliveries
BY DEF Link, NoLink

LEMMA LinksMade ==
    ASSUME NEW left \in 1 .. ChainDeliveries
    PROVE  /\ \A wait \in Window : [at |-> "waiting", wait |-> wait, left |-> left] \in Link
           /\ \A at \in {"syncing", "wanted", "ended"} : [at |-> at, left |-> left] \in Link
           /\ \A b \in Window : [at |-> "aimed", bucket |-> b, left |-> left] \in Link
BY DEF Link

LEMMA ListingFields ==
    ASSUME NEW l \in Listing \cup {Away}
    PROVE  /\ l.at \in {"away", "noted", "aimed"}
           /\ l.at # "away" => l.told \in BOOLEAN
           /\ l.at = "aimed" => l \in [at : {"aimed"}, told : BOOLEAN, bucket : Window]
BY DEF Listing, Away

LEMMA PublishOnceSends ==
    ASSUME NEW bucket \in Window, NEW msgs \in Links,
           keyUsed \in [Window -> BOOLEAN], PublishOnce(bucket, msgs)
    PROVE  /\ chain' \in Links /\ keyUsed' \in [Window -> BOOLEAN]
           /\ keyUsed[bucket] => chain' = msgs /\ keyUsed' = keyUsed
           /\ ~keyUsed[bucket] =>
                /\ keyUsed' = [keyUsed EXCEPT ![bucket] = TRUE]
                /\ \E q \in ChainSlot :
                     /\ msgs[q].at = "none"
                     /\ chain'[q].at = "waiting" /\ chain'[q].wait = 1
                     /\ \A r \in ChainSlot \ {q} : chain'[r] = msgs[r]
<1>1. CASE keyUsed[bucket]
  BY <1>1 DEF PublishOnce
<1>2. CASE ~keyUsed[bucket]
  <2> DEFINE q == CHOOSE s \in ChainSlot : msgs[s] = NoLink
             new == [at |-> "waiting", wait |-> 1, left |-> ChainDeliveries]
  <2>1. /\ keyUsed' = [keyUsed EXCEPT ![bucket] = TRUE]
        /\ \E s \in ChainSlot : msgs[s] = NoLink
        /\ chain' = [msgs EXCEPT ![q] = new]
    BY <1>2 DEF PublishOnce
  <2>2. q \in ChainSlot /\ msgs[q] = NoLink
    BY <2>1
  <2>3. ChainDeliveries \in 1 .. ChainDeliveries /\ 1 \in Window
    BY ChainAssumption DEF Window
  <2>4. /\ new \in Link
        /\ msgs[q].at = "none"
    <3>1. new \in Link
      BY <2>3, LinksMade
    <3>2. msgs[q].at = "none"
      BY <2>2 DEF NoLink
    <3> QED BY <3>1, <3>2
  <2>5. new.at = "waiting" /\ new.wait = 1
    OBVIOUS
  <2> HIDE DEF q, new
  <2>6. /\ chain' \in Links /\ chain'[q] = new
        /\ \A r \in ChainSlot \ {q} : chain'[r] = msgs[r]
    BY <2>1, <2>2, <2>4 DEF Links
  <2>7. keyUsed' \in [Window -> BOOLEAN]
    BY <2>1
  <2> QED
    BY <1>2, <2>1, <2>2, <2>4, <2>5, <2>6, <2>7
<1> QED
  BY <1>1, <1>2

LEMMA ChainTypes ==
    ChainTypeOK <=> /\ demand \in BOOLEAN /\ promised \in BOOLEAN /\ broken \in BOOLEAN
                    /\ listing \in [Browser -> Listing \cup {Away}]
                    /\ keyUsed \in [Window -> BOOLEAN] /\ chain \in Links
BY DEF ChainTypeOK, Links

\* A listing moves, or the demand.
LEMMA ListingMoves ==
    ASSUME ChainIInv, ChainTypeOK', DemandStands', UNCHANGED <<keyUsed, chain, broken>>,
           Relied' => Relied \/ keyUsed[1]
    PROVE  ChainIInv'
<1>1. NextLinkWaits /\ ChainExtends
  BY DEF ChainIInv
<1>2. \A s \in ChainSlot : (LinkAhead(s)' <=> LinkAhead(s)) /\ (LinkExtends(s)' <=> LinkExtends(s))
  BY DEF LinkAhead, LinkExtends, LinkAt
<1>3. NextLinkWaits'
  BY <1>1, <1>2 DEF NextLinkWaits
<1>4. \A s \in ChainSlot : LinkAhead(s) => LinkExtends(s)
  BY DEF LinkAhead, LinkExtends, LinkAt
<1>5. ChainExtends'
  BY <1>1, <1>2, <1>4 DEF ChainExtends, NextLinkWaits
<1> QED
  BY <1>3, <1>5 DEF ChainIInv

\* One message changes.
LEMMA LinkChanges ==
    ASSUME ChainIInv, NEW s \in ChainSlot, NEW new \in Link \cup {NoLink},
           chain' = [chain EXCEPT ![s] = new],
           UNCHANGED <<keyUsed, demand, promised, listing>>, broken' \in BOOLEAN,
           broken => broken',
           ~LinkAhead(s),
           \/ ~LinkExtends(s)
           \/ new.at \in {"syncing", "wanted", "waiting"}
           \/ new.at = "aimed" /\ new.bucket = 1
           \/ broken'
           \/ ~Relied
    PROVE  ChainIInv'
<1>1. ChainTypeOK /\ NextLinkWaits /\ DemandStands /\ ChainExtends
  BY DEF ChainIInv
<1>2. /\ ChainTypeOK'
      /\ chain'[s] = new /\ \A r \in ChainSlot \ {s} : chain'[r] = chain[r]
  BY <1>1 DEF ChainTypeOK
<1>3. NextLinkWaits'
  <2>1. \A r \in ChainSlot : LinkAhead(r) => LinkAhead(r)'
    BY <1>2 DEF LinkAhead, LinkAt
  <2> QED
    BY <1>1, <2>1 DEF NextLinkWaits
<1>4. DemandStands' /\ (Relied' <=> Relied)
  BY <1>1 DEF DemandStands, ListingTold, Relied, ListingRelies, BrowserAt
<1>5. ASSUME ~broken', Relied PROVE \E r \in ChainSlot : LinkExtends(r)'
  <2>1. PICK r \in ChainSlot : LinkExtends(r)
    BY <1>1, <1>5 DEF ChainExtends
  <2>2. CASE r # s
    BY <1>2, <2>1, <2>2 DEF LinkExtends, LinkAt
  <2>3. CASE r = s
    BY <1>2, <1>5, <2>1, <2>3 DEF LinkExtends, LinkAt
  <2> QED
    BY <2>2, <2>3
<1>6. ChainExtends'
  BY <1>4, <1>5 DEF ChainExtends
<1> QED
  BY <1>2, <1>3, <1>4, <1>6 DEF ChainIInv

LEMMA LinkIsPublished ==
    ASSUME ChainIInv, ChainTypeOK', DemandStands', NEW bucket \in Window,
           NEW q \in ChainSlot, ~keyUsed[bucket],
           keyUsed' = [keyUsed EXCEPT ![bucket] = TRUE],
           chain'[q].at = "waiting", chain'[q].wait = 1
    PROVE  ChainIInv'
<1>1. LinkAhead(q)' /\ LinkExtends(q)'
  BY DEF LinkAhead, LinkExtends, LinkAt
<1> QED
  BY <1>1 DEF ChainIInv, NextLinkWaits, ChainExtends

LEMMA ChainEnsuredStep ==
    ASSUME ChainIInv, NEW b \in Browser, ChainEnsured(b)
    PROVE  ChainIInv'
<1>1. /\ ChainTypeOK /\ chain \in Links /\ keyUsed \in [Window -> BOOLEAN]
      /\ listing \in [Browser -> Listing \cup {Away}] /\ promised \in BOOLEAN
      /\ DemandStands
  BY ChainTypes DEF ChainIInv
<1>2. /\ listing[b].at = "aimed" /\ PublishOnce(listing[b].bucket, chain)
      /\ listing' = [listing EXCEPT ![b] = Away]
      /\ promised' = (promised \/ listing[b].told) /\ UNCHANGED <<demand, broken>>
  BY DEF ChainEnsured, BrowserAt
<1>3. listing[b].told \in BOOLEAN /\ listing[b].bucket \in Window
  BY <1>1, <1>2, ListingFields
<1>4. /\ chain' \in Links /\ keyUsed' \in [Window -> BOOLEAN]
      /\ keyUsed[listing[b].bucket] => chain' = chain /\ keyUsed' = keyUsed
      /\ ~keyUsed[listing[b].bucket] =>
           /\ keyUsed' = [keyUsed EXCEPT ![listing[b].bucket] = TRUE]
           /\ \E q \in ChainSlot :
                /\ chain[q].at = "none"
                /\ chain'[q].at = "waiting" /\ chain'[q].wait = 1
                /\ \A r \in ChainSlot \ {q} : chain'[r] = chain[r]
  BY <1>1, <1>2, <1>3, PublishOnceSends
<1>5. promised' \in BOOLEAN /\ (promised' <=> promised \/ listing[b].told)
  BY <1>1, <1>2, <1>3
<1>6. listing'[b] = Away /\ \A d \in Browser \ {b} : listing'[d] = listing[d]
  BY <1>1, <1>2
<1>7. ChainTypeOK'
  BY <1>1, <1>2, <1>4, <1>5, ChainTypes DEF ChainTypeOK, Links
<1>8. DemandStands'
  <2>1. promised' => demand
    BY <1>1, <1>2, <1>5 DEF DemandStands, ListingTold
  <2>2. \A d \in Browser : ListingTold(d)' => ListingTold(d)
    BY <1>6 DEF ListingTold, Away
  <2> QED
    BY <1>1, <1>2, <2>1, <2>2 DEF DemandStands
<1>9. CASE keyUsed[listing[b].bucket]
  <2>1. UNCHANGED <<keyUsed, chain, broken>>
    BY <1>2, <1>4, <1>9
  <2>2. \A d \in Browser : ListingRelies(d)' => ListingRelies(d)
    BY <1>6, <2>1 DEF ListingRelies, BrowserAt, Away
  <2>3. listing[b].told => ListingRelies(b) \/ keyUsed[1]
    BY <1>2, <1>3, <1>9 DEF ListingRelies, BrowserAt, Window
  <2>4. Relied' => Relied \/ keyUsed[1]
    BY <1>5, <2>2, <2>3 DEF Relied
  <2> QED
    BY <1>7, <1>8, <2>1, <2>4, ListingMoves
<1>10. CASE ~keyUsed[listing[b].bucket]
  BY <1>3, <1>4, <1>7, <1>8, <1>10, LinkIsPublished
<1> QED
  BY <1>9, <1>10

LEMMA LinkPublishedStep ==
    ASSUME ChainIInv, NEW s \in ChainSlot, LinkPublished(s)
    PROVE  ChainIInv'
<1> DEFINE ended == [at |-> "ended", left |-> chain[s].left]
           msgs == [chain EXCEPT ![s] = ended]
           b == chain[s].bucket
<1>1. /\ ChainTypeOK /\ chain \in Links /\ keyUsed \in [Window -> BOOLEAN]
      /\ DemandStands
  BY ChainTypes DEF ChainIInv
<1>2. /\ chain[s].at = "aimed" /\ PublishOnce(b, msgs)
      /\ UNCHANGED <<demand, promised, listing, broken>>
  BY <1>1 DEF LinkPublished, LinkAt, Links
<1>3. b \in Window /\ chain[s].left \in 1 .. ChainDeliveries
  BY <1>1, <1>2, LinkFields DEF Links
<1>4. ended \in Link /\ ended.at = "ended"
  BY <1>3, LinksMade
<1> HIDE DEF ended
<1>5. msgs \in Links /\ msgs[s] = ended /\ \A r \in ChainSlot \ {s} : msgs[r] = chain[r]
  BY <1>1, <1>4 DEF Links
<1> HIDE DEF msgs, b
<1>6. /\ chain' \in Links /\ keyUsed' \in [Window -> BOOLEAN]
      /\ keyUsed[b] => chain' = msgs /\ keyUsed' = keyUsed
      /\ ~keyUsed[b] =>
           /\ keyUsed' = [keyUsed EXCEPT ![b] = TRUE]
           /\ \E q \in ChainSlot :
                /\ msgs[q].at = "none"
                /\ chain'[q].at = "waiting" /\ chain'[q].wait = 1
                /\ \A r \in ChainSlot \ {q} : chain'[r] = msgs[r]
  BY <1>1, <1>2, <1>3, <1>5, PublishOnceSends
<1>7. ChainTypeOK'
  BY <1>1, <1>2, <1>6, ChainTypes DEF ChainTypeOK, Links
<1>8. DemandStands'
  BY <1>1, <1>2 DEF DemandStands, ListingTold
<1>9. CASE keyUsed[b]
  <2>1. chain' = [chain EXCEPT ![s] = ended] /\ UNCHANGED <<keyUsed, demand, promised, listing>>
    BY <1>2, <1>6, <1>9 DEF msgs
  <2>2. ~LinkAhead(s)
    BY <1>2 DEF LinkAhead, LinkAt
  <2>3. CASE b = 0
    <3>1. ~LinkExtends(s)
      BY <1>2, <1>9, <2>3 DEF LinkExtends, LinkAt, b
    <3> QED
      BY <1>1, <1>2, <1>4, <2>1, <2>2, <3>1, LinkChanges DEF ChainTypeOK
  <2>4. CASE b = 1
    <3>1. PICK w \in ChainSlot : LinkAhead(w)
      BY <1>9, <2>4 DEF ChainIInv, NextLinkWaits
    <3>2. chain'[w] = chain[w]
      BY <1>2, <1>5, <1>6, <1>9, <3>1 DEF LinkAhead, LinkAt
    <3>3. LinkAhead(w)' /\ LinkExtends(w)'
      BY <3>1, <3>2 DEF LinkAhead, LinkAt, LinkExtends
    <3> QED
      BY <1>7, <1>8, <3>3 DEF ChainIInv, NextLinkWaits, ChainExtends
  <2> QED
    BY <1>3, <2>3, <2>4 DEF Window
<1>10. CASE ~keyUsed[b]
  BY <1>3, <1>6, <1>7, <1>8, <1>10, LinkIsPublished
<1> QED
  BY <1>9, <1>10

LEMMA WindowPassesStep ==
    ASSUME ChainIInv, WindowPasses
    PROVE  ChainIInv'
<1>1. /\ ChainTypeOK /\ NextLinkWaits /\ DemandStands /\ ChainExtends /\ chain \in Links
      /\ listing \in [Browser -> Listing \cup {Away}]
  BY ChainTypes DEF ChainIInv
<1>2. /\ \A b \in Browser : listing[b].at = "aimed" => listing[b].bucket # 0
      /\ \A s \in ChainSlot : chain[s].at = "aimed" => chain[s].bucket # 0
      /\ keyUsed' = [k \in Window |-> k = 0 /\ keyUsed[1]]
      /\ listing' = [b \in Browser |->
             IF listing[b].at = "aimed" THEN [listing[b] EXCEPT !.bucket = 0] ELSE listing[b]]
      /\ chain' = [s \in ChainSlot |->
             CASE chain[s].at = "waiting" -> [chain[s] EXCEPT !.wait = 0]
               [] chain[s].at = "aimed" -> [chain[s] EXCEPT !.bucket = 0]
               [] OTHER -> chain[s]]
      /\ UNCHANGED <<demand, promised, broken>>
  BY DEF WindowPasses, LinkAt, BrowserAt
<1>3. ASSUME NEW s \in ChainSlot
      PROVE  /\ chain'[s] \in Link \cup {NoLink} /\ chain'[s].at = chain[s].at
             /\ chain[s].at = "aimed" => chain'[s].bucket = 0
  <2>1. chain[s] \in Link \cup {NoLink}
    BY <1>1 DEF Links
  <2>2. CASE chain[s].at = "waiting"
    <3>1. chain[s] \in [at : {"waiting"}, wait : Window, left : 1 .. ChainDeliveries]
      BY <2>1, <2>2, LinkFields
    <3>2. chain'[s] = [chain[s] EXCEPT !.wait = 0]
      BY <1>2, <2>2
    <3>3. chain'[s] \in [at : {"waiting"}, wait : Window, left : 1 .. ChainDeliveries]
      BY <3>1, <3>2 DEF Window
    <3> QED
      BY <2>2, <3>3 DEF Link
  <2>3. CASE chain[s].at = "aimed"
    <3>1. chain[s] \in [at : {"aimed"}, bucket : Window, left : 1 .. ChainDeliveries]
      BY <2>1, <2>3, LinkFields
    <3>2. chain'[s] = [chain[s] EXCEPT !.bucket = 0]
      BY <1>2, <2>3
    <3>3. /\ chain'[s] \in [at : {"aimed"}, bucket : Window, left : 1 .. ChainDeliveries]
          /\ chain'[s].bucket = 0
      BY <3>1, <3>2 DEF Window
    <3> QED
      BY <2>3, <3>3 DEF Link
  <2>4. CASE chain[s].at \notin {"waiting", "aimed"}
    BY <1>2, <2>1, <2>4
  <2> QED
    BY <2>2, <2>3, <2>4
<1>4. ASSUME NEW b \in Browser
      PROVE  /\ listing'[b] \in Listing \cup {Away} /\ listing'[b].at = listing[b].at
             /\ listing[b].at # "away" => listing'[b].told = listing[b].told
  <2>1. listing[b] \in Listing \cup {Away}
    BY <1>1
  <2>2. CASE listing[b].at = "aimed"
    <3>1. listing[b] \in [at : {"aimed"}, told : BOOLEAN, bucket : Window]
      BY <2>1, <2>2, ListingFields
    <3>2. listing'[b] = [listing[b] EXCEPT !.bucket = 0]
      BY <1>2, <2>2
    <3>3. /\ listing'[b] \in [at : {"aimed"}, told : BOOLEAN, bucket : Window]
          /\ listing'[b].told = listing[b].told
      BY <3>1, <3>2 DEF Window
    <3> QED
      BY <2>2, <3>3 DEF Listing
  <2>3. CASE listing[b].at # "aimed"
    BY <1>2, <2>1, <2>3
  <2> QED
    BY <2>2, <2>3
<1>5. keyUsed'[0] = keyUsed[1] /\ ~keyUsed'[1] /\ keyUsed' \in [Window -> BOOLEAN]
  <2>1. 0 \in Window /\ 1 \in Window /\ 1 # 0
    BY DEF Window
  <2>2. keyUsed[1] \in BOOLEAN
    BY <1>1, <2>1 DEF ChainTypeOK
  <2>3. keyUsed'[0] = (0 = 0 /\ keyUsed[1]) /\ keyUsed'[1] = (1 = 0 /\ keyUsed[1])
    BY <1>2, <2>1
  <2>4. keyUsed'[0] = keyUsed[1]
    BY <2>2, <2>3
  <2>5. \A k \in Window : (k = 0 /\ keyUsed[1]) \in BOOLEAN
    OBVIOUS
  <2>6. keyUsed' \in [Window -> BOOLEAN]
    BY <1>2, <2>5
  <2> QED
    BY <2>1, <2>3, <2>4, <2>6
<1>6. ChainTypeOK'
  <2>1. chain' \in Links
    BY <1>2, <1>3 DEF Links
  <2>2. listing' \in [Browser -> Listing \cup {Away}]
    BY <1>2, <1>4
  <2> QED
    BY <1>1, <1>2, <1>5, <2>1, <2>2, ChainTypes DEF ChainTypeOK, Links
<1>7. DemandStands'
  BY <1>1, <1>2, <1>4 DEF DemandStands, ListingTold
<1>8. NextLinkWaits'
  BY <1>5 DEF NextLinkWaits
<1>9. ASSUME keyUsed[1] PROVE \E s \in ChainSlot : LinkExtends(s)'
  <2>1. PICK s \in ChainSlot : LinkAhead(s)
    BY <1>1, <1>9 DEF NextLinkWaits
  <2> QED
    BY <1>3, <2>1 DEF LinkAhead, LinkExtends, LinkAt
<1>10. ASSUME ~keyUsed[1], ~broken, Relied' PROVE \E s \in ChainSlot : LinkExtends(s)'
  <2>1. promised
    BY <1>2, <1>5, <1>10 DEF Relied, ListingRelies
  <2>2. PICK s \in ChainSlot : LinkExtends(s)
    BY <1>1, <1>10, <2>1 DEF ChainExtends, Relied
  <2>3. LinkExtends(s)'
    BY <1>3, <1>5, <1>10, <2>2 DEF LinkExtends, LinkAt
  <2> QED
    BY <2>3
<1>11. ChainExtends'
  BY <1>2, <1>9, <1>10 DEF ChainExtends
<1> QED
  BY <1>6, <1>7, <1>8, <1>11 DEF ChainIInv

LEMMA ListingStep ==
    ASSUME ChainIInv, NEW b \in Browser, Noted(b) \/ ChainAimed(b) \/ ListingEnds(b)
    PROVE  ChainIInv'
<1>1. /\ ChainTypeOK /\ DemandStands
      /\ listing \in [Browser -> Listing \cup {Away}] /\ demand \in BOOLEAN
  BY ChainTypes DEF ChainIInv
<1>2. PICK new \in Listing \cup {Away}, told \in BOOLEAN :
         /\ listing' = [listing EXCEPT ![b] = new]
         /\ demand' = (demand \/ told)
         /\ new.at # "away" /\ new.told => told \/ ListingTold(b)
         /\ new.at = "aimed" => new.bucket = 1
         /\ UNCHANGED <<promised, keyUsed, chain, broken>>
  <2>1. CASE Noted(b)
    <3>1. PICK told \in BOOLEAN :
             /\ demand' = (demand \/ told)
             /\ listing' = [listing EXCEPT ![b] = [at |-> "noted", told |-> told]]
      BY <2>1 DEF Noted
    <3>2. /\ [at |-> "noted", told |-> told] \in Listing
          /\ [at |-> "noted", told |-> told].at = "noted"
          /\ [at |-> "noted", told |-> told].told = told
      BY DEF Listing
    <3>3. UNCHANGED <<promised, keyUsed, chain, broken>>
      BY <2>1 DEF Noted
    <3> QED
      BY <3>1, <3>2, <3>3
  <2>2. CASE ChainAimed(b)
    <3> DEFINE new == [at |-> "aimed", told |-> listing[b].told, bucket |-> 1]
    <3>1. /\ listing[b].at = "noted" /\ listing' = [listing EXCEPT ![b] = new]
          /\ UNCHANGED <<demand, promised, keyUsed, chain, broken>>
      BY <1>1, <2>2 DEF ChainAimed, BrowserAt
    <3>2. listing[b].told \in BOOLEAN
      BY <1>1, <3>1, ListingFields
    <3>3. new \in Listing /\ new.at = "aimed" /\ new.told = listing[b].told /\ new.bucket = 1
      BY <3>2 DEF Listing, Window
    <3> HIDE DEF new
    <3>4. new.at # "away" /\ new.told => FALSE \/ ListingTold(b)
      BY <3>1, <3>3 DEF ListingTold
    <3>5. demand' = (demand \/ FALSE)
      BY <1>1, <3>1
    <3> QED
      BY <3>1, <3>3, <3>4, <3>5
  <2>3. CASE ListingEnds(b)
    <3>1. /\ listing' = [listing EXCEPT ![b] = Away]
          /\ UNCHANGED <<demand, promised, keyUsed, chain, broken>>
      BY <2>3 DEF ListingEnds
    <3>2. Away.at = "away" /\ demand' = (demand \/ FALSE)
      BY <1>1, <3>1 DEF Away
    <3> QED
      BY <3>1, <3>2
  <2> QED
    BY <2>1, <2>2, <2>3
<1>3. listing'[b] = new /\ \A d \in Browser \ {b} : listing'[d] = listing[d]
  BY <1>1, <1>2
<1>4. demand' \in BOOLEAN /\ (demand => demand') /\ (told => demand')
  BY <1>1, <1>2
<1>5. ChainTypeOK'
  BY <1>1, <1>2, <1>4 DEF ChainTypeOK
<1>6. DemandStands'
  BY <1>1, <1>2, <1>3, <1>4 DEF DemandStands, ListingTold
<1>7. \A d \in Browser : ListingRelies(d)' => ListingRelies(d)
  BY <1>2, <1>3 DEF ListingRelies, BrowserAt
<1> QED
  BY <1>2, <1>5, <1>6, <1>7, ListingMoves DEF Relied

LEMMA ChainStep == ChainIInv /\ [ChainNext]_chainVars => ChainIInv'
<1> SUFFICES ASSUME ChainIInv, [ChainNext]_chainVars PROVE ChainIInv'
  OBVIOUS
<1>0. ChainTypeOK /\ chain \in Links /\ DemandStands
  BY ChainTypes DEF ChainIInv
<1>1. CASE UNCHANGED chainVars
  <2>1. ChainTypeOK' /\ DemandStands'
    BY <1>0, <1>1 DEF chainVars, ChainTypeOK, DemandStands, ListingTold
  <2> QED
    BY <1>1, <2>1, ListingMoves DEF chainVars, Relied, ListingRelies, BrowserAt
<1>2. ASSUME NEW b \in Browser, Noted(b) \/ ChainAimed(b) \/ ListingEnds(b) PROVE ChainIInv'
  BY <1>2, ListingStep
<1>3. ASSUME NEW b \in Browser, ChainEnsured(b) PROVE ChainIInv'
  BY <1>3, ChainEnsuredStep
<1>4. ASSUME NEW s \in ChainSlot
      PROVE  /\ chain[s].at # "none" => chain[s].left \in 1 .. ChainDeliveries
             /\ broken \in BOOLEAN
  BY <1>0, LinkFields DEF Links, ChainTypeOK
<1>5. ASSUME NEW s \in ChainSlot, SyncDelivered(s) PROVE ChainIInv'
  <2> DEFINE new == [at |-> "syncing", left |-> chain[s].left]
  <2>1. /\ chain[s].at = "waiting" /\ chain[s].wait = 0
        /\ chain' = [chain EXCEPT ![s] = new]
        /\ UNCHANGED <<demand, promised, listing, keyUsed, broken>>
    BY <1>0, <1>5 DEF SyncDelivered, LinkAt, Links
  <2>2. new \in Link /\ new.at = "syncing"
    BY <1>4, <2>1, LinksMade
  <2>3. ~LinkAhead(s)
    BY <2>1 DEF LinkAhead
  <2> HIDE DEF new
  <2> QED
    BY <1>4, <2>1, <2>2, <2>3, LinkChanges
<1>6. ASSUME NEW s \in ChainSlot, DemandLooked(s) PROVE ChainIInv'
  <2>1. chain[s].at = "syncing" /\ UNCHANGED <<demand, promised, listing, keyUsed>>
    BY <1>6 DEF DemandLooked, LinkAt
  <2>2. PICK seen \in {demand, FALSE} :
          /\ chain' = [chain EXCEPT ![s].at = IF seen THEN "wanted" ELSE "ended"]
          /\ broken' = (broken \/ seen # demand)
    BY <1>6 DEF DemandLooked
  <2> DEFINE new == [chain[s] EXCEPT !.at = IF seen THEN "wanted" ELSE "ended"]
  <2>3. chain' = [chain EXCEPT ![s] = new]
    BY <1>0, <2>2 DEF Links
  <2>4. chain[s] \in [at : {"syncing", "wanted", "ended"}, left : 1 .. ChainDeliveries]
    BY <1>0, <2>1, LinkFields DEF Links
  <2>5. new \in Link /\ new.at = IF seen THEN "wanted" ELSE "ended"
    BY <2>4 DEF Link
  <2> HIDE DEF new
  <2>6. broken' \in BOOLEAN /\ (broken => broken') /\ ~LinkAhead(s)
    BY <1>4, <2>1, <2>2 DEF LinkAhead, LinkAt
  <2>7. CASE seen
    BY <2>1, <2>3, <2>5, <2>6, <2>7, LinkChanges
  <2>8. CASE ~seen /\ demand
    <3>1. broken'
      BY <2>2, <2>8
    <3> QED
      BY <2>1, <2>3, <2>5, <2>6, <3>1, LinkChanges
  <2>9. CASE ~demand
    <3>1. ~Relied
      BY <1>0, <2>9 DEF Relied, DemandStands, ListingTold, ListingRelies, BrowserAt
    <3> QED
      BY <2>1, <2>3, <2>5, <2>6, <3>1, LinkChanges
  <2> QED
    BY <2>7, <2>8, <2>9
<1>7. ASSUME NEW s \in ChainSlot, LinkAimed(s) PROVE ChainIInv'
  <2> DEFINE new == [at |-> "aimed", bucket |-> 1, left |-> chain[s].left]
  <2>1. /\ chain[s].at = "wanted" /\ chain' = [chain EXCEPT ![s] = new]
        /\ UNCHANGED <<demand, promised, listing, keyUsed, broken>>
    BY <1>0, <1>7 DEF LinkAimed, LinkAt, Links
  <2>2. new \in Link /\ new.at = "aimed" /\ new.bucket = 1
    BY <1>4, <2>1, LinksMade DEF Window
  <2>3. ~LinkAhead(s)
    BY <2>1 DEF LinkAhead, LinkAt
  <2> HIDE DEF new
  <2> QED
    BY <1>4, <2>1, <2>2, <2>3, LinkChanges
<1>8. ASSUME NEW s \in ChainSlot, LinkPublished(s) PROVE ChainIInv'
  BY <1>8, LinkPublishedStep
<1>9. ASSUME NEW s \in ChainSlot, LinkAcked(s) PROVE ChainIInv'
  <2>1. /\ chain[s].at = "ended" /\ chain' = [chain EXCEPT ![s] = NoLink]
        /\ UNCHANGED <<demand, promised, listing, keyUsed, broken>>
    BY <1>9 DEF LinkAcked, LinkAt
  <2>2. ~LinkAhead(s) /\ ~LinkExtends(s)
    BY <2>1 DEF LinkAhead, LinkExtends, LinkAt
  <2> QED
    BY <1>4, <2>1, <2>2, LinkChanges
<1>10. ASSUME NEW s \in ChainSlot, LinkFails(s) PROVE ChainIInv'
  <2>1. /\ chain[s].at \notin {"none", "waiting"}
        /\ UNCHANGED <<demand, promised, listing, keyUsed>>
    BY <1>10 DEF LinkFails
  <2>2. ~LinkAhead(s)
    BY <2>1 DEF LinkAhead, LinkAt
  <2>3. CASE chain[s].left = 1
    <3>1. chain' = [chain EXCEPT ![s] = NoLink] /\ broken' = TRUE
      BY <1>10, <2>3 DEF LinkFails
    <3> QED
      BY <2>1, <2>2, <3>1, LinkChanges
  <2>4. CASE chain[s].left # 1
    <3> DEFINE new == [at |-> "waiting", wait |-> 0, left |-> chain[s].left - 1]
    <3>1. chain' = [chain EXCEPT ![s] = new] /\ UNCHANGED broken
      BY <1>0, <1>10, <2>4 DEF LinkFails, Links
    <3>2. chain[s].left - 1 \in 1 .. ChainDeliveries /\ 0 \in Window
      BY <1>4, <2>1, <2>4, ChainAssumption DEF Window
    <3>3. new \in Link /\ new.at = "waiting"
      BY <3>2, LinksMade
    <3> HIDE DEF new
    <3> QED
      BY <1>4, <2>1, <2>2, <3>1, <3>3, LinkChanges
  <2> QED
    BY <2>3, <2>4
<1>11. CASE DemandExpires
  <2>1. /\ demand' = FALSE /\ promised' = FALSE /\ UNCHANGED <<listing, keyUsed, chain, broken>>
        /\ \A b \in Browser : listing[b].at \in {"noted", "aimed"} => ~listing[b].told
    BY <1>11 DEF DemandExpires
  <2>2. \A b \in Browser : listing[b].at \in {"away", "noted", "aimed"}
    BY <1>0, ListingFields DEF ChainTypeOK
  <2>3. ChainTypeOK'
    BY <1>0, <2>1 DEF ChainTypeOK
  <2>4. DemandStands'
    BY <2>1, <2>2 DEF DemandStands, ListingTold
  <2>5. ~Relied'
    BY <2>1 DEF Relied, ListingRelies, BrowserAt
  <2> QED
    BY <2>1, <2>3, <2>4, <2>5, ListingMoves
<1>12. CASE WindowPasses
  BY <1>12, WindowPassesStep
<1> QED
  BY <1>1, <1>2, <1>3, <1>5, <1>6, <1>7, <1>8, <1>9, <1>10, <1>11, <1>12 DEF ChainNext

LEMMA ChainStart == ChainInit => ChainIInv
<1> SUFFICES ASSUME ChainInit PROVE ChainIInv
  OBVIOUS
<1>1. ChainTypeOK
  BY DEF ChainInit, ChainTypeOK, Window
<1>2. ~keyUsed[1] /\ ~promised /\ \A b \in Browser : listing[b].at = "away"
  BY DEF ChainInit, Window, Away
<1> QED
  BY <1>1, <1>2 DEF ChainIInv, NextLinkWaits, DemandStands, ListingTold, ChainExtends, Relied,
                    ListingRelies, BrowserAt

LEMMA ExtendedIsChained == ChainIInv => DemandIsChained
<1>1. \A s \in ChainSlot : LinkExtends(s) => chain[s].at \notin {"none", "ended"}
  BY DEF LinkExtends, LinkAt
<1> QED
  BY <1>1 DEF ChainIInv, ChainExtends, Relied, DemandIsChained

-----------------------------------------------------------------------------
(* All of the background work.  A step moves one of the four and leaves the
   others' variables alone, so what is inductive for each is so for the
   whole. *)

WorkIInv == PayoutIInv /\ CoverInv /\ PurchaseIInv /\ SweepIInv /\ ChainIInv

LEMMA WorkStart == WorkInit => WorkIInv
BY PayoutInitial, CoverStart, PurchaseInitial, SweepStart, ChainStart DEF WorkInit, WorkIInv

LEMMA WorkMoves ==
    [WorkNext]_workVars =>
        [PayoutNext]_payoutVars /\ [PurchaseNext]_purchaseVars /\ [SweepNext]_sweepVars
        /\ [ChainNext]_chainVars
<1>1. ASSUME Only("payouts", PayoutNext, <<purchaseVars, sweepVars, chainVars>>)
      PROVE  PayoutNext /\ UNCHANGED <<purchaseVars, sweepVars, chainVars>>
  BY <1>1 DEF Only
<1>2. ASSUME Only("purchases", PurchaseNext, <<payoutVars, sweepVars, chainVars>>)
      PROVE  PurchaseNext /\ UNCHANGED <<payoutVars, sweepVars, chainVars>>
  BY <1>2 DEF Only
<1>3. ASSUME Only("sweeps", SweepNext, <<payoutVars, purchaseVars, chainVars>>)
      PROVE  SweepNext /\ UNCHANGED <<payoutVars, purchaseVars, chainVars>>
  BY <1>3 DEF Only
<1>4. ASSUME Only("syncs", ChainNext, <<payoutVars, purchaseVars, sweepVars>>)
      PROVE  ChainNext /\ UNCHANGED <<payoutVars, purchaseVars, sweepVars>>
  BY <1>4 DEF Only
<1>5. ASSUME UNCHANGED workVars
      PROVE  UNCHANGED <<payoutVars, purchaseVars, sweepVars, chainVars>>
  BY <1>5 DEF workVars
<1> QED
  BY <1>1, <1>2, <1>3, <1>4, <1>5 DEF WorkNext

LEMMA WorkStep == WorkIInv /\ [WorkNext]_workVars => WorkIInv'
<1> SUFFICES ASSUME WorkIInv, [WorkNext]_workVars PROVE WorkIInv'
  OBVIOUS
<1>1. /\ [PayoutNext]_payoutVars /\ [PurchaseNext]_purchaseVars
      /\ [SweepNext]_sweepVars /\ [ChainNext]_chainVars
  BY WorkMoves
<1>2. PayoutIInv'
  BY <1>1, PayoutInductive DEF WorkIInv
<1>3. CoverInv'
  BY <1>1, <1>2, CoverStep DEF WorkIInv, PayoutIInv
<1>4. PurchaseIInv' /\ SweepIInv' /\ ChainIInv'
  BY <1>1, PurchaseInductive, SweepStep, ChainStep DEF WorkIInv
<1> QED
  BY <1>2, <1>3, <1>4 DEF WorkIInv

LEMMA WorkIsSound == WorkSpec => []WorkIInv
BY WorkStart, WorkStep, PTL DEF WorkSpec

\* The state of payouts, purchases and both chains keeps its type.
THEOREM WorkTypeCorrect == WorkSpec => []WorkTypeOK
<1>1. WorkIInv => WorkTypeOK
  BY DEF WorkIInv, WorkTypeOK, PayoutIInv, PurchaseIInv, SweepIInv, ChainIInv
<1> QED BY <1>1, WorkIsSound, PTL

\* jobs/index.js and live.worker.js: while a call is live, and while someone
\* browses, a message that will look at the calls or the demand is on its way,
\* unless one was given up by the queue.
THEOREM ChainsNeverRunDry == WorkSpec => []ChainsStayArmed
<1>1. WorkIInv => ChainsStayArmed
  BY CarriedIsArmed, ExtendedIsChained DEF WorkIInv, ChainsStayArmed
<1> QED BY <1>1, WorkIsSound, PTL

\* Of the background work as a whole: payouts are debited once and stay within
\* what was earned, payments are credited once.
THEOREM MoneyIsSafe == WorkSpec => [](PaidOnce /\ OpenPayoutsCovered /\ PaymentsCreditedOnce)
<1>1. WorkIInv => PaidOnce /\ OpenPayoutsCovered /\ PaymentsCreditedOnce
  BY DEF WorkIInv, PayoutIInv, CoverInv, PurchaseIInv
<1> QED BY <1>1, WorkIsSound, PTL
=============================================================================
