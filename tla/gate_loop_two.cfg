\* A patient browser that refuses cookies, two blocking challenges.
CONSTANTS
    q1 = q1  q2 = q2
    pow = pow  dns = dns  web = web  meta = meta  ck = ck  res = res
    NoHeaders = NoHeaders  NoToken = NoToken  NoCookie = NoCookie
    NoKey = NoKey  NoChallenge = NoChallenge
    Req = {q1}
    Challenges = {meta, ck}
    Rule <- MetaCookie
    Runtime <- MCRuntime
    Duration <- MCDuration
    DefaultDuration = 4
    Conditioned = {}
    Origins <- OneOrigin
    NetworkPrefix <- MCNetworkPrefix
    IsIPv4 <- MCIsIPv4
    HeaderSets <- MCHeaderSets
    HeaderValue <- MCHeaderValue
    KeyHeaders <- MCKeyHeaders
    LegacyKeyHeaders <- MCLegacyKeyHeaders
    FailAction = "DENY"
    KeepsCookies = FALSE
    Patient = TRUE
    MaxTime = 0
    MaxLost = 0
    Clears = FALSE
SPECIFICATION PatientSpec
PROPERTY NoChallengeLoop
