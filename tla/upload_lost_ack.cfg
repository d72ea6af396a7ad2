\* One upload whose COMMIT takes effect while its acknowledgement is lost.
CONSTANTS
    Requests = {r1}
    Evaluations = {e1}
    Contents = {c1}
    NoFile = NoFile
    Faults <- LostAck
SPECIFICATION Spec
CHECK_DEADLOCK FALSE
INVARIANT RowHasFile
