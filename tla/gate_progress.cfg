\* A patient browser that keeps cookies, an http check and three blocking challenges.
CONSTANTS
    q1 = q1  q2 = q2
    pow = pow  dns = dns  web = web  meta = meta  ck = ck  res = res
    NoHeaders = NoHeaders  NoToken = NoToken  NoCookie = NoCookie
    NoKey = NoKey  NoChallenge = NoChallenge
    Req = {q1}
    Challenges = {web, res, meta, ck}
    Rule <- WebResMetaCookie
    Runtime <- MCRuntime
    Duration <- MCDuration
    DefaultDuration = 4
    Conditioned = {ck}
    Origins <- OneOrigin
    NetworkPrefix <- MCNetworkPrefix
    IsIPv4 <- MCIsIPv4
    HeaderSets <- MCHeaderSets
    HeaderValue <- MCHeaderValue
    KeyHeaders <- MCKeyHeaders
    LegacyKeyHeaders <- MCLegacyKeyHeaders
    FailAction = "NONE"
    KeepsCookies = TRUE
    Patient = TRUE
    MaxTime = 2
    MaxLost = 2
    Clears = FALSE
SPECIFICATION PatientSpec
INVARIANT ForwardedStatePrintable
PROPERTY ReachesBackend
