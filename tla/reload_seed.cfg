\* A seeded instance is reloaded.
CONSTANTS
    Seeded = TRUE
    Passthrough = FALSE
    MaxVersion = 2
    MaxLoads = 2
    MaxSignals = 2
    Nil = Nil
    Direct = Direct
SPECIFICATION Spec
CHECK_DEADLOCK FALSE
INVARIANT KeyFromSeed
