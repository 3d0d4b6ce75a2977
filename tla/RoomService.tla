---------------------------- MODULE RoomService ----------------------------
(***************************************************************************)
(* The room endpoints of the API server over its MySQL tables.             *)
(*                                                                         *)
(* Every HTTP request is a goroutine that runs a handler: a sequence of    *)
(* SQL statements, each in a transaction of its own unless the handler     *)
(* opened one.  `request' holds the requests in flight; an action is one   *)
(* statement together with the Go code up to the next one.  The tables     *)
(* hold the COMMITTED rows; an open transaction's own writes live in its   *)
(* request until the commit, as InnoDB shows them to nobody else.          *)
(***************************************************************************)
EXTENDS Integers, Sequences, FiniteSets

CONSTANTS
    Users,            \* users.id of the players
    RoomCodes,        \* the room codes that can be drawn
    Requests,         \* slots for requests in flight at the same time
    MaxPlayersAsked,  \* values of max_players a client may send
    NoUser, NoCode    \* the empty user and code of an idle slot

ASSUME ServiceAssumption ==
    /\ NoUser \notin Users
    /\ NoCode \notin RoomCodes
    /\ MaxPlayersAsked \subseteq Int
    /\ IsFiniteSet(Requests) /\ Requests # {}

VARIABLES
    rooms,       \* rooms: status, max_players and owner_id of each code
    room_users,  \* room_users: the users of each room in room_users.id order
    ready,       \* room_users.is_ready: the users whose row is marked ready
    games,       \* games: how many rows each room's starts have inserted
    request      \* the handler each slot is running, and its local variables

vars == <<rooms, room_users, ready, games, request>>
tables == <<rooms, room_users, ready, games>>

----------------------------------------------------------------------------
(* Rows, locals and helpers.                                               *)

NoRoom == [status |-> "absent", max_players |-> 0, owner_id |-> NoUser]

\* A request's locals, and in `tx' what its open start transaction has written;
\* those a statement no longer needs are reset.
Request(pc, u, c) ==
    [pc |-> pc, user |-> u, code |-> c, hosted |-> FALSE, playing |-> FALSE,
     count |-> 0, heir |-> NoUser, tx |-> {}]

Idle == Request("idle", NoUser, NoCode)

\* A max_players that is zero or less becomes the default.
Capacity(asked) == IF asked <= 0 THEN 4 ELSE asked

Rows(s) == {s[i] : i \in 1..Len(s)}
Members(c) == Rows(room_users[c])

\* The rows left when user u's row is deleted.
Without(s, u) ==
    LET i == CHOOSE j \in 1..Len(s) : s[j] = u
    IN  [j \in 1..(Len(s) - 1) |-> IF j < i THEN s[j] ELSE s[j + 1]]

Left(c, u) == Without(room_users[c], u)

InLeaveTx(r) == request[r].pc \in {"leave_count", "leave_commit"}

\* No other open transaction has deleted, and so locked, this user's row.
RowFree(u, c) ==
    \A s \in Requests :
        ~(InLeaveTx(s) /\ request[s].user = u /\ request[s].code = c)

\* No start has updated, and so locked, the room's row without committing.
RoomRowFree(c) ==
    \A s \in Requests : ~(request[s].pc = "start_commit" /\ request[s].code = c)

\* Slot r goes on to statement pc with its locals otherwise as they are.
GoTo(r, pc) == request' = [request EXCEPT ![r].pc = pc]
Reply(r)    == request' = [request EXCEPT ![r] = Idle]

----------------------------------------------------------------------------
(* POST /room/create: one transaction, on a code no room has yet.          *)

CreateRoom(u, c, asked) ==
    /\ rooms[c].status = "absent"
    /\ rooms' = [rooms EXCEPT ![c] =
           [status |-> "waiting", max_players |-> Capacity(asked), owner_id |-> u]]
    /\ room_users' = [room_users EXCEPT ![c] = <<u>>]
    /\ UNCHANGED <<ready, games, request>>

----------------------------------------------------------------------------
(* POST /room/join: four statements, no transaction.                       *)

\* A join that does not look at the room's status.
JoinLookupAnyStatus(r, u, c) ==
    /\ request[r].pc = "idle"
    /\ rooms[c].status # "absent"
    /\ request' = [request EXCEPT ![r] = Request("join_member", u, c)]
    /\ UNCHANGED tables

JoinLookup(r, u, c) ==
    /\ request[r].pc = "idle"
    /\ rooms[c].status = "waiting"
    /\ request' = [request EXCEPT ![r] = Request("join_member", u, c)]
    /\ UNCHANGED tables

JoinMember(r) ==
    LET q == request[r] IN
    /\ q.pc = "join_member"
    /\ IF q.user \in Members(q.code) THEN Reply(r) ELSE GoTo(r, "join_count")
    /\ UNCHANGED tables

\* A count that lets one player too many in.
JoinCountOffByOne(r) ==
    LET q == request[r] IN
    /\ q.pc = "join_count"
    /\ IF Len(room_users[q.code]) > rooms[q.code].max_players
       THEN Reply(r)
       ELSE GoTo(r, "join_insert")
    /\ UNCHANGED tables

JoinCount(r) ==
    LET q == request[r] IN
    /\ q.pc = "join_count"
    /\ IF Len(room_users[q.code]) >= rooms[q.code].max_players
       THEN Reply(r)
       ELSE GoTo(r, "join_insert")
    /\ UNCHANGED tables

\* The unique key (room_id, user_id) makes a second insert fail.
AddUserToRoom(r) ==
    LET q == request[r] IN
    /\ q.pc = "join_insert"
    /\ RowFree(q.user, q.code)
    /\ room_users' = IF q.user \in Members(q.code)
                     THEN room_users
                     ELSE [room_users EXCEPT ![q.code] = Append(@, q.user)]
    /\ Reply(r)
    /\ UNCHANGED <<rooms, ready, games>>

----------------------------------------------------------------------------
(* POST /room/leave: two statements, then a transaction of delete, count,  *)
(* update and commit.                                                      *)

LeaveLookup(r, u, c) ==
    /\ request[r].pc = "idle"
    /\ rooms[c].status # "absent"
    /\ request' = [request EXCEPT ![r] =
           [Request("leave_member", u, c) EXCEPT !.hosted = (rooms[c].owner_id = u)]]
    /\ UNCHANGED tables

LeaveMember(r) ==
    LET q == request[r] IN
    /\ q.pc = "leave_member"
    /\ IF q.user \in Members(q.code) THEN GoTo(r, "leave_remove") ELSE Reply(r)
    /\ UNCHANGED tables

\* A delete whose number of affected rows nobody checks.
RemoveUserUnchecked(r) ==
    LET q == request[r] IN
    /\ q.pc = "leave_remove"
    /\ RowFree(q.user, q.code)
    /\ GoTo(r, "leave_count")
    /\ UNCHANGED tables

\* The delete waits for the row's lock; a row already gone ends the request.
RemoveUser(r) ==
    LET q == request[r] IN
    /\ q.pc = "leave_remove"
    /\ RowFree(q.user, q.code)
    /\ IF q.user \in Members(q.code) THEN GoTo(r, "leave_count") ELSE Reply(r)
    /\ UNCHANGED tables

\* A next owner picked from the other end of the rows.
CountLeftNewestHeir(r) ==
    LET q == request[r]
        left == Left(q.code, q.user)
    IN  /\ q.pc = "leave_count"
        /\ request' = [request EXCEPT ![r] =
               [q EXCEPT !.pc = "leave_commit",
                         !.count = IF left = <<>> THEN 0 ELSE 1,
                         !.heir = IF q.hosted /\ left # <<>> THEN left[Len(left)] ELSE NoUser]]
        /\ UNCHANGED tables

\* A transaction that touches its row through another connection, and so waits
\* for its own lock.
CountLeftOutsideTx(r) ==
    /\ request[r].pc = "leave_count"
    /\ RowFree(request[r].user, request[r].code)
    /\ GoTo(r, "leave_commit")
    /\ UNCHANGED tables

\* A count and a next owner read outside the transaction, the leaver's row still
\* among the rows.
CountLeftCommitted(r) ==
    LET q == request[r]
        rows == room_users[q.code]
    IN  /\ q.pc = "leave_count"
        /\ request' = [request EXCEPT ![r] =
               [q EXCEPT !.pc = "leave_commit", !.count = 1,
                         !.heir = IF q.hosted THEN rows[1] ELSE NoUser]]
        /\ UNCHANGED tables

\* The first SELECT fixes the transaction's snapshot: the committed rows less
\* its own delete.  Both the count and the next owner come from that snapshot.
CountLeft(r) ==
    LET q == request[r]
        left == Left(q.code, q.user)
    IN  /\ q.pc = "leave_count"
        /\ request' = [request EXCEPT ![r] =
               [q EXCEPT !.pc = "leave_commit",
                         !.count = IF left = <<>> THEN 0 ELSE 1,
                         !.heir = IF q.hosted /\ left # <<>> THEN left[1] ELSE NoUser]]
        /\ UNCHANGED tables

\* A leave that keeps the user's ready mark apart from the row.
LeaveCommitKeepsReady(r) ==
    LET q == request[r]
        c == q.code
    IN  /\ q.pc = "leave_commit"
        /\ (q.count = 0 \/ q.hosted) => RoomRowFree(c)
        /\ room_users' = [room_users EXCEPT ![c] = Left(c, q.user)]
        /\ rooms' = IF q.count = 0 THEN [rooms EXCEPT ![c].status = "closed"]
                    ELSE IF q.hosted THEN [rooms EXCEPT ![c].owner_id = q.heir]
                    ELSE rooms
        /\ Reply(r)
        /\ UNCHANGED <<ready, games>>

\* A delete that names the room and not the user.
LeaveCommitWholeRoom(r) ==
    LET q == request[r]
        c == q.code
    IN  /\ q.pc = "leave_commit"
        /\ (q.count = 0 \/ q.hosted) => RoomRowFree(c)
        /\ room_users' = [room_users EXCEPT ![c] = <<>>]
        /\ ready' = [ready EXCEPT ![c] = {}]
        /\ rooms' = IF q.count = 0 THEN [rooms EXCEPT ![c].status = "closed"]
                    ELSE IF q.hosted THEN [rooms EXCEPT ![c].owner_id = q.heir]
                    ELSE rooms
        /\ Reply(r)
        /\ UNCHANGED games

\* The last statements of the transaction.  Closing the room or naming its next
\* owner updates the room's row, and waits for a start that holds it.
LeaveCommit(r) ==
    LET q == request[r]
        c == q.code
    IN  /\ q.pc = "leave_commit"
        /\ (q.count = 0 \/ q.hosted) => RoomRowFree(c)
        /\ room_users' = [room_users EXCEPT ![c] = Left(c, q.user)]
        /\ ready' = [ready EXCEPT ![c] = @ \ {q.user}]
        /\ rooms' = IF q.count = 0 THEN [rooms EXCEPT ![c].status = "closed"]
                    ELSE IF q.hosted THEN [rooms EXCEPT ![c].owner_id = q.heir]
                    ELSE rooms
        /\ Reply(r)
        /\ UNCHANGED games

----------------------------------------------------------------------------
(* POST /room/start: three statements, then a transaction that inserts the *)
(* game and marks the room.                                                *)

\* A start that forgets that a game is running.
StartLookupAnyStatus(r, u, c) ==
    /\ request[r].pc = "idle"
    /\ rooms[c].status # "absent"
    /\ rooms[c].owner_id = u
    /\ request' = [request EXCEPT ![r] = Request("start_users", u, c)]
    /\ UNCHANGED tables

StartLookup(r, u, c) ==
    /\ request[r].pc = "idle"
    /\ rooms[c].status # "absent"
    /\ rooms[c].owner_id = u
    /\ request' = [request EXCEPT ![r] =
           [Request("start_users", u, c) EXCEPT
               !.playing = (rooms[c].status = "playing")]]
    /\ UNCHANGED tables

CountUsers(r) ==
    LET q == request[r] IN
    /\ q.pc = "start_users"
    /\ request' = [request EXCEPT ![r] =
           [q EXCEPT !.pc = "start_ready", !.count = Len(room_users[q.code])]]
    /\ UNCHANGED tables

\* A start that only asks whether anybody is ready.
CountReadyAny(r) ==
    LET q == request[r] IN
    /\ q.pc = "start_ready"
    /\ IF q.count # 0 /\ ready[q.code] # {} /\ ~q.playing
       THEN request' = [request EXCEPT ![r] = Request("start_insert", q.user, q.code)]
       ELSE Reply(r)
    /\ UNCHANGED tables

\* All three refusals follow this statement: nobody there, somebody not
\* ready, a game already running when the room was looked up.
CountReady(r) ==
    LET q == request[r] IN
    /\ q.pc = "start_ready"
    /\ IF q.count # 0 /\ q.count = Cardinality(ready[q.code]) /\ ~q.playing
       THEN request' = [request EXCEPT ![r] = Request("start_insert", q.user, q.code)]
       ELSE Reply(r)
    /\ UNCHANGED tables

\* A game inserted by a statement outside the transaction.
InsertGameOutsideTx(r) ==
    LET q == request[r] IN
    /\ q.pc = "start_insert"
    /\ games' = [games EXCEPT ![q.code] = @ + 1]
    /\ GoTo(r, "start_update")
    /\ UNCHANGED <<rooms, room_users, ready>>

\* The transaction begins, and inserts the game's row.
InsertGame(r) ==
    LET q == request[r] IN
    /\ q.pc = "start_insert"
    /\ request' = [request EXCEPT ![r] = [q EXCEPT !.pc = "start_update", !.tx = {"game"}]]
    /\ UNCHANGED tables

\* The update takes the lock of the room's row.
UpdateRoomStatus(r) ==
    LET q == request[r] IN
    /\ q.pc = "start_update"
    /\ RoomRowFree(q.code)
    /\ request' = [request EXCEPT ![r] =
           [q EXCEPT !.pc = "start_commit", !.tx = @ \union {"playing"}]]
    /\ UNCHANGED tables

\* The commit publishes what the transaction has written.
StartCommit(r) ==
    LET q == request[r] IN
    /\ q.pc = "start_commit"
    /\ games' = [games EXCEPT ![q.code] = IF "game" \in q.tx THEN @ + 1 ELSE @]
    /\ rooms' = [rooms EXCEPT ![q.code].status = IF "playing" \in q.tx THEN "playing" ELSE @]
    /\ Reply(r)
    /\ UNCHANGED <<room_users, ready>>

----------------------------------------------------------------------------
(* The room's WebSocket connections mark a user ready, and not ready when  *)
(* they close; a handler that fails rolls its transaction back.            *)

UpdateUserReady(u, c, is_ready) ==
    /\ u \in Members(c)
    /\ RowFree(u, c)
    /\ ready' = [ready EXCEPT ![c] = IF is_ready THEN @ \union {u} ELSE @ \ {u}]
    /\ UNCHANGED <<rooms, room_users, games, request>>

Abort(r) ==
    /\ request[r].pc # "idle"
    /\ Reply(r)
    /\ UNCHANGED tables

----------------------------------------------------------------------------
Init ==
    /\ rooms = [c \in RoomCodes |-> NoRoom]
    /\ room_users = [c \in RoomCodes |-> <<>>]
    /\ ready = [c \in RoomCodes |-> {}]
    /\ games = [c \in RoomCodes |-> 0]
    /\ request = [r \in Requests |-> Idle]

\* A new request reaches a free slot.
Arrive(r) ==
    \E u \in Users, c \in RoomCodes :
        JoinLookup(r, u, c) \/ LeaveLookup(r, u, c) \/ StartLookup(r, u, c)

\* The request in slot r executes its next statement.
Step(r) ==
    \/ JoinMember(r) \/ JoinCount(r) \/ AddUserToRoom(r)
    \/ LeaveMember(r) \/ RemoveUser(r) \/ CountLeft(r) \/ LeaveCommit(r)
    \/ CountUsers(r) \/ CountReady(r)
    \/ InsertGame(r) \/ UpdateRoomStatus(r) \/ StartCommit(r)

Next ==
    \/ \E u \in Users, c \in RoomCodes, asked \in MaxPlayersAsked : CreateRoom(u, c, asked)
    \/ \E r \in Requests : Arrive(r) \/ Step(r) \/ Abort(r)
    \/ \E u \in Users, c \in RoomCodes, b \in BOOLEAN : UpdateUserReady(u, c, b)

Spec == Init /\ [][Next]_vars

\* A goroutine that can run does, and InnoDB grants a row's lock in the order
\* it was asked for, so a request that waits for one is not passed for ever.
FairSpec == Spec /\ \A r \in Requests : SF_vars(Step(r))

----------------------------------------------------------------------------
(* Properties.                                                             *)

RowType ==
    [status : {"absent", "waiting", "playing", "closed"}, max_players : Nat,
     owner_id : Users \union {NoUser}]

RequestType ==
    [pc : {"idle", "join_member", "join_count", "join_insert",
           "leave_member", "leave_remove", "leave_count", "leave_commit",
           "start_users", "start_ready", "start_insert", "start_update", "start_commit"},
     user : Users \union {NoUser}, code : RoomCodes \union {NoCode},
     hosted : BOOLEAN, playing : BOOLEAN, count : Nat,
     heir : Users \union {NoUser}, tx : SUBSET {"game", "playing"}]

\* The tables and the requests have their types, a busy slot names a user and
\* a room, and only a row of room_users can be ready.
TypeOK ==
    /\ rooms \in [RoomCodes -> RowType]
    /\ room_users \in [RoomCodes -> Seq(Users)]
    /\ ready \in [RoomCodes -> SUBSET Users]
    /\ games \in [RoomCodes -> Nat]
    /\ request \in [Requests -> RequestType]
    /\ \A r \in Requests : request[r].pc # "idle" =>
           request[r].user \in Users /\ request[r].code \in RoomCodes
    /\ \A c \in RoomCodes : ready[c] \subseteq Members(c)

\* A room holds at most one player over its limit for each further request in
\* flight: the count and the insert of JoinRoomHandler are two statements, and
\* this is all the overshoot their interleaving can cause.
CapacityBounded ==
    \A c \in RoomCodes : rooms[c].status # "absent" =>
        Len(room_users[c]) + 1 <= rooms[c].max_players + Cardinality(Requests)

\* The rows of a room name each user once.
RowsUnique ==
    \A c \in RoomCodes : \A i, j \in 1..Len(room_users[c]) :
        room_users[c][i] = room_users[c][j] => i = j

\* The row an open leave transaction has deleted is still there for the others.
LeaversPresent ==
    \A r \in Requests : InLeaveTx(r) => request[r].user \in Members(request[r].code)

\* No two open leave transactions have deleted the same row.
RowLocksExclusive ==
    \A r, s \in Requests :
        /\ InLeaveTx(r) /\ InLeaveTx(s)
        /\ request[r].user = request[s].user
        /\ request[r].code = request[s].code
        => r = s

\* However joins and leaves of one user overlap, the user has at most one row
\* in a room, and a leave that passed the affected-rows check is the only one
\* to count, hand over and commit for that row, which exists until it does.
OneRowOneLeave == RowsUnique /\ LeaversPresent /\ RowLocksExclusive

\* A room in play has a row in games, and a room nobody started has none,
\* wherever between its three statements a start stops: neither the insert nor
\* the update shows before the commit, which shows both.
PlayingHasGame ==
    \A c \in RoomCodes :
        /\ rooms[c].status = "playing" => games[c] > 0
        /\ rooms[c].status \in {"absent", "waiting"} => games[c] = 0

\* Requests that may yet insert a row into the room, and starts that may yet
\* insert a game for it.
Joining(c) ==
    {r \in Requests : /\ request[r].code = c
                      /\ request[r].pc \in {"join_member", "join_count", "join_insert"}}
Starting(c) ==
    {r \in Requests : /\ request[r].code = c
                      /\ \/ request[r].pc \in {"start_users", "start_ready"} /\ ~request[r].playing
                         \/ request[r].pc \in {"start_insert", "start_update", "start_commit"}}

\* The lookups of JoinRoomHandler and StartRoomHandler are the only statements
\* that see the room's status.  A room that is no longer waiting never is again;
\* only a join that had looked it up before may still enter it, and only a start
\* that had looked it up before may start a room in play once more.
OnlyLateRequestsPass ==
    [][\A c \in RoomCodes : rooms[c].status \in {"playing", "closed"} =>
           /\ rooms'[c].status \in {"playing", "closed"}
           /\ Joining(c)' \subseteq Joining(c)
           /\ rooms[c].status = "playing" => Starting(c)' \subseteq Starting(c)]_vars

\* An owner who leaves hands over to another user or to nobody, and a room never
\* lacks an owner: RemoveUserFromRoom counts and picks in one snapshot, from
\* which the leaver's row is gone.
HandoverSound ==
    /\ \A c \in RoomCodes : rooms[c].status # "absent" => rooms[c].owner_id \in Users
    /\ \A r \in Requests :
           request[r].pc = "leave_commit" /\ request[r].hosted /\ request[r].count # 0 =>
               request[r].heir \in Users \ {request[r].user}

\* User u stands before user v.
Before(s, u, v) == \E i, j \in 1..Len(s) : i < j /\ s[i] = u /\ s[j] = v

\* Slot r answers user u's request to room c with its statement pc.
Answers(r, pc, u, c) ==
    /\ request[r].pc = pc /\ request[r].user = u /\ request[r].code = c
    /\ request'[r] = Idle

\* A user comes into a room that exists, or goes, only by the insert or commit of
\* a request of that user to that room, and the users who stay keep the order in
\* which they came, by which the next owner is chosen.
OwnRowOnly ==
    [][\A c \in RoomCodes : rooms[c].status # "absent" /\ room_users'[c] # room_users[c] =>
           /\ \A u \in Members(c) \ Members(c)' :
                  \E r \in Requests : Answers(r, "leave_commit", u, c)
           /\ \A u \in Members(c)' \ Members(c) :
                  \E r \in Requests : Answers(r, "join_insert", u, c)
           /\ \A u, v \in Members(c) \intersect Members(c)' :
                  Before(room_users[c], u, v) <=> Before(room_users'[c], u, v)]_vars

\* Every request ends: the locks its statements wait for are released.
RequestsFinish == \A r \in Requests : request[r].pc # "idle" ~> request[r].pc = "idle"

\* "When the host leaves, hand over" (room_leave.go): the owner of a waiting
\* room with members is one of them.
HostPresent ==
    \A c \in RoomCodes : rooms[c].status = "waiting" /\ room_users[c] # <<>> =>
        rooms[c].owner_id \in Members(c)

\* "With nobody left, close the room" (room_leave.go).
EmptyRoomClosed ==
    \A c \in RoomCodes : room_users[c] = <<>> => rooms[c].status \in {"absent", "closed"}

\* "No joining unless the room is waiting" (room_join.go).
JoinOnlyWaiting ==
    [][\A c \in RoomCodes : Len(room_users'[c]) > Len(room_users[c]) =>
           rooms'[c].status = "waiting"]_vars

\* "Check that everybody is ready" (room_start.go): when the check lets a start
\* through, every member of the room is ready.
ApprovedStartsAreReady ==
    [][\A r \in Requests :
           request[r].pc = "start_ready" /\ request'[r].pc = "start_insert" =>
               ready[request[r].code] = Members(request[r].code)]_vars
=============================================================================
