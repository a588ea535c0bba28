\* Every assignment of fifteen handlers to a rule, its child and a second rule.
CONSTANTS
    NoRule = NoRule  NoHandler = NoHandler  NoHost = NoHost  NoBackend = NoBackend
    Root = "state"  AnyHost = "*"
    Rules <- MCRules  Children <- MCChildren
    Handlers <- MCHandlers  Kind <- MCKind  Uses <- MCUses
    PassTo <- MCPassTo  FailTo <- MCFailTo  HttpCode <- MCHttpCode
    SetHost <- MCSetHost  SetTags <- MCSetTags  ProxyTo <- MCProxyTo
    Names <- MCNames  Challenges <- MCChallenges  Runtime <- MCRuntime
    Verdicts <- MCVerdicts
    Hosts <- MCHosts  WildcardOf <- MCWildcardOf  Backends <- MCBackends
    TransparentTo <- MCTransparentTo
SPECIFICATION FairSpec
INVARIANTS TypeOK AnsweredOnce BackendNotRefused IssuedOnce EarnedIsSent CookieNotShared
           RulesInOrder ToldWhoDecided
PROPERTY RequestEnds
CHECK_DEADLOCK FALSE
