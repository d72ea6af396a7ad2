\* Two uploads, every fault but the lost acknowledgement of a COMMIT.
CONSTANTS
    Requests = {r1, r2}
    Evaluations = {e1, e2}
    Contents = {c1, c2}
    NoFile = NoFile
    Faults <- PlainFaults
SYMMETRY Symmetry
SPECIFICATION Spec
CHECK_DEADLOCK FALSE
INVARIANTS
    TypeOK
    RowHasFile
    NoPartialSuccess
    CreatedIsKept
    DuplicateIsThere
    OrphansAreExplained
    UploadInv
PROPERTY ImplementsRegistry
