SPECIFICATION Spec
CONSTANTS
    u1 = u1
    u2 = u2
    l1 = l1
    l2 = l2
    User = {u1, l1, l2}
    Listener = {l1, l2}
    Call = {c1, c2}
    Type = {"audio"}
    Rate <- MCRate
    Share <- MCShare
    StartCoins <- CoinsForOne
    MaxMinute = 1
    NoParty = NoParty
    Worker = {}
    NoWorker = NoWorker
    NoJob = NoJob
    MaxDeliveries = 1
    MaxRequests = 0
    ClientReasons = {"disconnect"}
    TrialSpent = {l1, l2}
    BlockPairs = {}
    Adjustments = {}
    MaxFunded = 4
INVARIANT TrialOnOneCall
CHECK_DEADLOCK FALSE
