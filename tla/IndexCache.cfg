CONSTANTS
    Workers = {w1}
    Broken = Broken
    None = None
    MaxSaves = 3
SPECIFICATION Spec
INVARIANTS
    TypeOK
    SeenIsServed
    LookupFollows
PROPERTY CatchesUp
