\* Two calls that share two keys, sources of at most two chunks, power losses.
CONSTANTS
    Calls = {a, b}
    Keys = {k1, k2}
    Nobody = Nobody
    MaxChunks = 2
    PowerMayFail = TRUE
SPECIFICATION FairSpec
CHECK_DEADLOCK FALSE
INVARIANTS
    TypeOK
    OwnNameOnly
    NoPartialDocument
PROPERTIES
    ImplementsPort
    StoreEnds
