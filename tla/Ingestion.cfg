CONSTANTS
    a = a
    b = b
    c = c
    blank = blank
    k1 = k1
    k2 = k2
    Docs = {d1, d2}
    Contents <- MCContents
    Chunks <- MCChunks
    ChunksOf <- MCChunksOf
    NoContent = NoContent
    NoIndex = NoIndex
    Broken = Broken
    Askew = Askew
    Clean = Clean
    Spoilt = Spoilt
    MaxVersion = 2
SPECIFICATION Spec
SYMMETRY Symmetry
CHECK_DEADLOCK FALSE
INVARIANTS
    TypeOK
    StoresAgree
    DiffIsApplicable
PROPERTY BumpIsLast
