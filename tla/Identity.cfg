CONSTANTS
    d1 = d1
    d2 = d2
    d3 = d3
    d4 = d4
    d5 = d5
    d6 = d6
    blank = blank
    h1 = h1
    h2 = h2
    h3 = h3
    Docs <- MCDocs
    Blank <- MCBlank
    TitleOf <- MCTitleOf
    TextOf <- MCTextOf
    Ids = {1, 2, 3}
    IdOf <- MCIdOf
    Hashes <- MCHashes
    HashOf <- MCHashOf
    Lists <- MCLists
    MaxCalls = 2
    None = None
    Torn = Torn
SPECIFICATION Spec
CHECK_DEADLOCK FALSE
INVARIANTS
    TypeOK
    EndedMeansKnown
    SafeBuildLosesNothing
PROPERTIES
    ImplementsIdentityTable
    ExtractionEnds
