\* Two requests while policies are edited, signalled, loaded and closed.
CONSTANTS
    Seeded = FALSE
    Passthrough = TRUE
    MaxVersion = 3
    MaxLoads = 2
    MaxSignals = 2
    Nil = Nil
    Direct = Direct
    r1 = r1  r2 = r2
    Requests = {r1, r2}
SPECIFICATION ServiceSpec
SYMMETRY Symmetry
CHECK_DEADLOCK FALSE
INVARIANTS ServiceTypeOK LeakOnlyAfterFailure ServedObjectsOpen
PROPERTIES VerdictIsOwn ErrorPageComplete
