\* A dnsbl check and a refresh page, two connections of one browser.
CONSTANTS
    q1 = q1  q2 = q2
    pow = pow  dns = dns  web = web  meta = meta  ck = ck  res = res
    NoHeaders = NoHeaders  NoToken = NoToken  NoCookie = NoCookie
    NoKey = NoKey  NoChallenge = NoChallenge
    Req = {q1, q2}
    Challenges = {dns, meta}
    Rule <- DnsMeta
    Runtime <- MCRuntime
    Duration <- MCDuration
    DefaultDuration = 4
    Conditioned = {}
    Origins <- OneOrigin
    NetworkPrefix <- MCNetworkPrefix
    IsIPv4 <- MCIsIPv4
    HeaderSets <- MCHeaderSets
    HeaderValue <- MCHeaderValue
    KeyHeaders <- MCKeyHeaders
    LegacyKeyHeaders <- MCLegacyKeyHeaders
    FailAction = "DENY"
    KeepsCookies = TRUE
    Patient = FALSE
    MaxTime = 1
    MaxLost = 1
    Clears = TRUE
SPECIFICATION Spec
SYMMETRY Symmetry
INVARIANTS TypeOK BackendNeedsFreshProof EarningKeepsProofs
PROPERTY ProofNotOverwritten
