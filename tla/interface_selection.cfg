\* Two evaluations to choose from, and nothing uploaded.
CONSTANTS
    Evaluations = {e1, e2}
    Contents = {}
    MaxAttempts = 0
    None = None
SPECIFICATION Spec
PROPERTY ChoiceIsKept
