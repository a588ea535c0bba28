\* A challenge with a condition.
CONSTANTS
    q1 = q1  q2 = q2
    pow = pow  dns = dns  web = web  meta = meta  ck = ck  res = res
    NoHeaders = NoHeaders  NoToken = NoToken  NoCookie = NoCookie
    NoKey = NoKey  NoChallenge = NoChallenge
    Req = {q1}
    Challenges = {meta}
    Rule <- MetaOnly
    Runtime <- MCRuntime
    Duration <- MCDuration
    DefaultDuration = 4
    Conditioned = {meta}
    Origins <- OneOrigin
    NetworkPrefix <- MCNetworkPrefix
    IsIPv4 <- MCIsIPv4
    HeaderSets <- MCHeaderSets
    HeaderValue <- MCHeaderValue
    KeyHeaders <- MCKeyHeaders
    LegacyKeyHeaders <- MCLegacyKeyHeaders
    FailAction = "DENY"
    KeepsCookies = TRUE
    Patient = TRUE
    MaxTime = 2
    MaxLost = 0
    Clears = FALSE
SPECIFICATION Spec
INVARIANT ConditionGatesChallenge
