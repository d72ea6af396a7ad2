\* Two sessions, two documents, two evaluations and two readers.
CONSTANTS
    Sessions = {s1, s2}
    Documents = {d1, d2}
    Evaluations = {e1, e2}
    Hashes = {h1, h2}
    Readers = {q1, q2}
SYMMETRY Symmetry
SPECIFICATION ListingSpec
CHECK_DEADLOCK FALSE
INVARIANTS
    ListingTypeOK
    DocumentsAreUnique
    ReferencesExist
    ListIsComplete
PROPERTY
    AnswersTellOneStory
