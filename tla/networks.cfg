\* Two States that share the cache file of a network.
CONSTANTS
    States = {s1, s2}
    Entries <- MCEntries
    UseCache = TRUE
    Size <- MCSize
    MaxVersion = 3
    MaxAge = 1
    SetTime = 1
    MaxTime = 4
SPECIFICATION Spec
SYMMETRY Symmetry
INVARIANTS TypeOK ListsWhole
PROPERTY FreshEnough
