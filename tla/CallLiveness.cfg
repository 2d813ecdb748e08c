SPECIFICATION FairSpec
CONSTANTS
    u1 = u1
    u2 = u2
    l1 = l1
    l2 = l2
    User = {u1, l1}
    Listener = {l1}
    Call = {c1}
    Type = {"audio"}
    Rate <- MCRate
    Share <- MCShare
    StartCoins <- CoinsForOne
    MaxMinute = 2
    NoParty = NoParty
    Worker = {w1}
    NoWorker = NoWorker
    NoJob = NoJob
    MaxDeliveries = 2
    MaxRequests = 0
    ClientReasons = {"disconnect"}
    TrialSpent = {u1, l1}
    BlockPairs = {}
    Adjustments <- OneTopUp
    MaxFunded = 2
PROPERTIES
    RingingIsResolved
    ActiveCallEnds
    TicksDrain
CHECK_DEADLOCK FALSE
