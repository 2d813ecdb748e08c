SPECIFICATION Spec
CONSTANTS
    u1 = u1
    u2 = u2
    l1 = l1
    l2 = l2
    User = {u1, l1}
    Listener = {l1}
    Call = {c1}
    Type = {"audio"}
    Rate <- MCRate
    Share <- MCShare
    StartCoins <- CoinsForOne
    MaxMinute = 1
    NoParty = NoParty
    Worker = {}
    NoWorker = NoWorker
    NoJob = NoJob
    MaxDeliveries = 1
    MaxRequests = 0
    ClientReasons = {"disconnect"}
    TrialSpent = {u1, l1}
    BlockPairs <- OneBlock
    Adjustments = {}
    MaxFunded = 4
INVARIANT BusyListenerInLiveCall
CHECK_DEADLOCK FALSE
