CONSTANTS
    u1 = u1
    u2 = u2
    d1 = d1
    d2 = d2
    q1 = q1
    q2 = q2
    Users <- MCUsers
    Docs <- MCDocs
    Questions = {q1, q2}
    Statements = {}
    Says <- MCSays
    Requests = {r1, r2}
    NoDoc = NoDoc
    NoText = NoText
    Free = Free
    Orphan = Orphan
    NoUser = NoUser
SPECIFICATION Spec
SYMMETRY Symmetry
INVARIANTS
    TypeOK
    ReleasedInTime
    NoLostUpdate
    PendingIsAnswerable
