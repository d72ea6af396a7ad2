\* Two uploads, of any of two files, into any of two evaluations.
CONSTANTS
    Evaluations = {e1, e2}
    Contents = {c1, c2}
    MaxAttempts = 2
    None = None
SYMMETRY Symmetry
SPECIFICATION Spec
INVARIANTS
    TypeOK
    FlagIsExplained
    OneAtATime
    UserIsToldTheTruth
    NoResendAfterSuccess
    UploadIsShown
PROPERTY SelectionFollowsUser
