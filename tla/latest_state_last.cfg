SPECIFICATION CalmSpec
CONSTANTS
    Users = {u1, u2}
    Conns = {k1, k2}
    Bets <- MCBets
    NoUser = NoUser
INVARIANT LatestStateLast
