\* A proof of work and a refresh page over several expiry windows, from changing
\* headers and addresses.
CONSTANTS
    q1 = q1  q2 = q2
    pow = pow  dns = dns  web = web  meta = meta  ck = ck  res = res
    NoHeaders = NoHeaders  NoToken = NoToken  NoCookie = NoCookie
    NoKey = NoKey  NoChallenge = NoChallenge
    Req = {q1}
    Challenges = {pow, meta}
    Rule <- PowMeta
    Runtime <- MCRuntime
    Duration <- MCDuration
    DefaultDuration = 3
    Conditioned = {}
    Origins <- ThreeOrigins
    NetworkPrefix <- MCNetworkPrefix
    IsIPv4 <- MCIsIPv4
    HeaderSets <- MCHeaderSets
    HeaderValue <- MCHeaderValue
    KeyHeaders <- MCKeyHeaders
    LegacyKeyHeaders <- MCLegacyKeyHeaders
    FailAction = "DENY"
    KeepsCookies = TRUE
    Patient = FALSE
    MaxTime = 4
    MaxLost = 0
    Clears = FALSE
SPECIFICATION Spec
INVARIANT BackendNeedsFreshProof
