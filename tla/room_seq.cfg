SPECIFICATION SerialSpec
CONSTANTS
    Users = {u1, u2, u3}
    RoomCodes = {c1, c2}
    Requests = {r1, r2}
    MaxPlayersAsked <- Asked
    NoUser = NoUser
    NoCode = NoCode
INVARIANT SequentialSafety
PROPERTIES ImplementsPromise ApprovedStartsAreReady
SYMMETRY Symmetry
