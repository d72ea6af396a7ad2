\* One upload whose storage raises after it read the source.
CONSTANTS
    Requests = {r1}
    Evaluations = {e1}
    Contents = {c1}
    NoFile = NoFile
    Faults <- StoreFault
SPECIFICATION Spec
CHECK_DEADLOCK FALSE
INVARIANT SourceRestoredAfterFailure
