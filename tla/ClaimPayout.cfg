SPECIFICATION PayoutFairSpec
CONSTANTS
    Earner = {l1}
    Payout = {p1}
    AskedAmounts = {2}
    CallCredits = {2}
    MinPayout = 2
    MaxEarned = 2
    PayoutDeliveries = 2
    NoPayout = NoPayout
PROPERTY
    ApprovedPayoutIsPaid
CHECK_DEADLOCK FALSE
