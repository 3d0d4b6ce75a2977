SPECIFICATION Spec
CONSTANTS
    Users = {u1, u2}
    Conns = {k1, k2}
    Bets <- MCBets
    NoUser = NoUser
INVARIANTS TypeOK ChipsConserved DealerNeverBets ServedAreWalked
PROPERTIES GhostsDropped AccountsSurviveReconnects KeepsBettingPromise
SYMMETRY Symmetry
