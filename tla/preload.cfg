\* Two page requests, two fetches, an IPv4 and an IPv6 key.
CONSTANTS
    w1 = w1  w2 = w2  s1 = s1  s2 = s2  four = four  six = six
    Nobody = Nobody  NoKey = NoKey  NoResult = NoResult
    Waiters = {w1, w2}
    Solvers = {s1, s2}
    Keys = {four, six}
    IPv4Keys = {four}
    Results = {"OK", "Fail"}
SPECIFICATION FairSpec
CHECK_DEADLOCK FALSE
INVARIANTS AwaiterTypeOK NoLeakedCallback CallbackOwnedOnce PassNeedsFetch FailHasCause FetchEndsWait
PROPERTY EveryPageReturns
