CONSTANTS
    Turns = {t1, t2}
    Workers = {w1, w2}
    MaxRetries = 1
    MaxCrashes = 1
    MaxFailovers = 1
SPECIFICATION Spec
CHECK_DEADLOCK FALSE
INVARIANTS
    TypeOK
    NothingIsLostSilently
    DuplicatesNeedDoubt
PROPERTIES
    PendingEnds
    ImplementsTurnLog
