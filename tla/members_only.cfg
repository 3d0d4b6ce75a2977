SPECIFICATION Spec
CONSTANTS
    Users = {u1, u2}
    NoUser = NoUser
    Caps = {2}
    Code = code
    Conns = {k1, k2}
    Tasks = {t1}
SYMMETRY Symmetry
INVARIANT MembersOnly
