SPECIFICATION Spec
CONSTANTS
    Names = {n1, n2}
    Passwords = {p1, p2}
    NoPassword = NoPassword
    Volumes = {full, half}
    FullVolume = full
    DefaultVolume = half
    Diffs <- OneRound
    Requests = {r1, r2}
    MaxAccounts = 2
    MaxDrift = 5000
SYMMETRY Symmetry
INVARIANTS
    TypeOK
    TokensEarned
    OwnData
    GuestsComplete
    ChipsLedger
PROPERTIES
    ChipsShown
    NothingReset
