SPECIFICATION Spec
CONSTANTS
    Releases = {1, 2, 3}
    Units = 2
    Chunk = 2
    MaxRetries = 1
    MaxAttempts = 2
    MaxUpdates = 3
    MaxResets = 2
INVARIANTS InOrder UpdateBoots ConfirmedSurvives
PROPERTY BootEnds
CHECK_DEADLOCK FALSE
