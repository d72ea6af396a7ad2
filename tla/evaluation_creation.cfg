\* Three requests, so that one waits for the pool and one for the row.
CONSTANTS
    Requests = {r1, r2, r3}
    PoolSize = 2
SPECIFICATION FairSpec
CHECK_DEADLOCK FALSE
INVARIANTS
    TypeOK
    AnswersAreTrue
    ConflictsAreEarly
PROPERTY EveryCreationEnds
