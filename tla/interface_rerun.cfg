\* An interaction during the first upload.
CONSTANTS
    Evaluations = {e1}
    Contents = {c1}
    MaxAttempts = 1
    None = None
SPECIFICATION FairSpec
PROPERTY FlagIsRestored
