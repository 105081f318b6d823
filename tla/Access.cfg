CONSTANTS
    Users = {u1}
    Requests = {r1, r2}
    Roles = {"viewer", "ceo", "admin"}
    Ttl = 3
    MaxDelay = 1
SPECIFICATION Spec
INVARIANTS
    TypeOK
    RoleIsRecent
PROPERTIES
    LockedOut
    RoleTakesEffect
