\* Two requests from one address, the blocklist and the sweep.
CONSTANTS
    p1 = p1  p2 = p2  k1 = k1
    NoEntry = NoEntry
    Procs = {p1, p2}
    Keys = {k1}
    Values = {"bad", "unknown"}
    TTLs = {1}
    DecayTime = 1
    Timeout = 1
    MaxTime = 5
SPECIFICATION DnsblFairSpec
INVARIANT DnsblTypeOK
PROPERTIES NoFreshLoss ImplementsTTLMap ExpiredEntryLeaves VerdictsFollowList
