CONSTANTS
    c1 = c1
    c2 = c2
    Chunks <- MCChunks
    Preambles <- MCPreambles
    NoChunk = NoChunk
    Attempts = 3
    Slots = 1
    MaxClaims = 2
SPECIFICATION Spec
INVARIANTS
    TypeOK
    RetryNeverWorsens
    CitationsAreKnown
    SupportIsEarned
PROPERTY VerificationEnds
