SPECIFICATION WorkSpec
CONSTANTS
    Earner = {l1}
    Payout = {p1, p2}
    AskedAmounts = {1, 2, 3}
    CallCredits = {2}
    MinPayout = 2
    MaxEarned = 4
    PayoutDeliveries = 2
    NoPayout = NoPayout
    Buyer = {u1, u2}
    VerifyRequest = {r1, r2}
    PlayToken = {t1, t2}
    TopupOrder = {o1}
    PackCoins = 2
    NoPurchase = NoPurchase
    NoVerify = NoVerify
    SweptCall = {c1}
    SweepSlot = {q1, q2, q3}
    SweepDeliveries = 2
    Browser = {b1}
    ChainSlot = {k1, k2, k3}
    ChainDeliveries = 2
INVARIANTS
    WorkTypeOK
    PaidOnce
    OpenPayoutsCovered
    PaymentsCreditedOnce
    ChainsStayArmed
PROPERTIES
    DecisionStands
    FirstOutcomeStands
    PublishedPayoutIsPaid
    StaleCallIsSwept
CHECK_DEADLOCK FALSE
