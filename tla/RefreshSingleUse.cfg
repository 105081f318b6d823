CONSTANTS
    Users = {u1, u2}
    Tokens = {t1, t2, t3}
    Requests = {r1, r2, r3}
    NoUser = NoUser
    NoToken = NoToken
SPECIFICATION Spec
SYMMETRY Symmetry
INVARIANT SingleUse
