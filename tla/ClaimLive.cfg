SPECIFICATION LiveSpec
CONSTANTS
    Model = {x1}
    Sync = {s1}
    Country = {c1}
    Region = {g1}
    BanSets = {{}}
    Offers = {"public"}
    Unknown = Unknown
    Absent = Absent
INVARIANT OnlinePublicIsListed
CHECK_DEADLOCK FALSE
