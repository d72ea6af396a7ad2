\* A limit of five bytes read in chunks of two, sources of up to eight.
CONSTANTS
    MaxSize = 5
    ChunkSize = 2
    MaxLength = 8
SPECIFICATION FairSpec
CHECK_DEADLOCK FALSE
INVARIANTS
    TypeOK
    AcceptedIsWhole
    LimitIsExact
    ReadIsBounded
    SourceIsRestored
PROPERTY ValidationEnds
