SPECIFICATION FairSpec
CONSTANTS
    Users = {u1, u2, u3}
    RoomCodes = {c1}
    Requests = {r1, r2}
    MaxPlayersAsked = {1, 2}
    NoUser = NoUser
    NoCode = NoCode
INVARIANTS TypeOK CapacityBounded OneRowOneLeave PlayingHasGame HandoverSound
PROPERTIES RequestsFinish OnlyLateRequestsPass OwnRowOnly
