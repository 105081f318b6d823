CONSTANTS
    Turns = {t1}
    Workers = {w1}
    MaxRetries = 3
    MaxCrashes = 0
    MaxFailovers = 0
SPECIFICATION Spec
CHECK_DEADLOCK FALSE
PROPERTIES
    LandsOrDeadLetters
