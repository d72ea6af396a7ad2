\* Two uploads into one evaluation, with fairness and no crash.
CONSTANTS
    Requests = {r1, r2}
    Evaluations = {e1}
    Contents = {c1, c2}
    NoFile = NoFile
    Faults <- LiveFaults
SPECIFICATION FairSpec
CHECK_DEADLOCK FALSE
INVARIANT SourceRestored
PROPERTIES
    EveryUploadEnds
    LocksAreReleased
