\* Edits, signals and reloads in any order.
CONSTANTS
    Seeded = FALSE
    Passthrough = TRUE
    MaxVersion = 4
    MaxLoads = 4
    MaxSignals = 4
    Nil = Nil
    Direct = Direct
SPECIFICATION FairSpec
CHECK_DEADLOCK FALSE
INVARIANTS TypeOK PointerOpen
PROPERTIES ImplementsPolicyService ReloadApplied
