\* Three uploads racing for the same evaluation, with power losses.
CONSTANTS
    Requests = {r1, r2, r3}
    Evaluations = {e1}
    Contents = {c1, c2}
    NoFile = NoFile
    Faults <- RaceFaults
SYMMETRY Symmetry
SPECIFICATION Spec
CHECK_DEADLOCK FALSE
INVARIANTS
    UploadsAreUnique
    RowFileIsWhole
