------------------------- MODULE RoomOverlapProofs -------------------------
(***************************************************************************)
(* What remains true of RoomService when requests to one room overlap, for *)
(* any users, room codes, limits and number of requests in flight.         *)
(***************************************************************************)
EXTENDS RoomServiceProofs

(* The order of the rows.                                                  *)

\* Deleting a row keeps the others in their order.
LEMMA WithoutKeepsOrder ==
    ASSUME NEW S, NEW s \in Seq(S), NEW u \in Rows(s), NEW x, NEW y, x # u, y # u
    PROVE  Before(s, x, y) <=> Before(Without(s, u), x, y)
<1> DEFINE d == CHOOSE j \in 1..Len(s) : s[j] = u
           w == [j \in 1..(Len(s) - 1) |-> IF j < d THEN s[j] ELSE s[j + 1]]
           at(j) == IF j < d THEN j ELSE j + 1
           back(k) == IF k < d THEN k ELSE k - 1
<1>1. Len(s) \in Nat /\ Len(Without(s, u)) = Len(s) - 1
  BY LenProperties, WithoutIsShorter
<1>2. d \in 1..Len(s) /\ s[d] = u
  BY DEF Rows
<1>3. Without(s, u) = w
  BY DEF Without
<1>4. \A j \in 1..(Len(s) - 1) : at(j) \in 1..Len(s) /\ w[j] = s[at(j)]
  BY <1>1, <1>2
<1>5. \A i, j \in 1..(Len(s) - 1) : i < j => at(i) < at(j)
  BY <1>1, <1>2
<1>6. \A k \in 1..Len(s) : s[k] # u =>
          back(k) \in 1..(Len(s) - 1) /\ w[back(k)] = s[k]
  BY <1>1, <1>2
<1>7. \A i, j \in 1..Len(s) : i < j /\ i # d /\ j # d => back(i) < back(j)
  BY <1>1, <1>2
<1> HIDE DEF at, back, w, d
<1>8. ASSUME NEW i \in 1..Len(s), NEW j \in 1..Len(s), i < j, s[i] = x, s[j] = y
      PROVE  Before(w, x, y)
  <2>1. back(i) \in 1..Len(w) /\ back(j) \in 1..Len(w) /\ w[back(i)] = x /\ w[back(j)] = y
    BY <1>1, <1>3, <1>6, <1>8
  <2>2. back(i) < back(j)
    BY <1>2, <1>7, <1>8
  <2> QED  BY <2>1, <2>2 DEF Before
<1>9. ASSUME NEW i \in 1..(Len(s) - 1), NEW j \in 1..(Len(s) - 1), i < j, w[i] = x, w[j] = y
      PROVE  Before(s, x, y)
  BY <1>4, <1>5, <1>9 DEF Before
<1> QED  BY <1>1, <1>3, <1>8, <1>9 DEF Before

\* Neither does a row added at the end change it.
LEMMA AppendKeepsOrder ==
    ASSUME NEW S, NEW s \in Seq(S), NEW u \in S, NEW x \in Rows(s), NEW y \in Rows(s),
           u \notin Rows(s)
    PROVE  Before(s, x, y) <=> Before(Append(s, u), x, y)
<1>1. /\ Len(s) \in Nat /\ Len(Append(s, u)) = Len(s) + 1 /\ Append(s, u)[Len(s) + 1] = u
      /\ \A i \in 1..Len(s) : Append(s, u)[i] = s[i]
  BY LenProperties, AppendProperties
<1>2. x # u /\ y # u
  OBVIOUS
<1>3. \A i \in 1..(Len(s) + 1) : i \in 1..Len(s) \/ i = Len(s) + 1
  BY <1>1
<1>4. \A i \in 1..Len(s) : i \in 1..(Len(s) + 1)
  BY <1>1
<1> QED  BY <1>1, <1>2, <1>3, <1>4 DEF Before

\* A row added at the end is one more member.
LEMMA AppendRows ==
    ASSUME NEW S, NEW s \in Seq(S), NEW u \in S
    PROVE  Rows(Append(s, u)) = Rows(s) \union {u}
<1>1. /\ Len(s) \in Nat /\ Len(Append(s, u)) = Len(s) + 1 /\ Append(s, u)[Len(s) + 1] = u
      /\ \A i \in 1..Len(s) : Append(s, u)[i] = s[i]
  BY LenProperties, AppendProperties
<1>2. \A i : i \in 1..(Len(s) + 1) <=> i \in 1..Len(s) \/ i = Len(s) + 1
  BY <1>1
<1> QED  BY <1>1, <1>2 DEF Rows

----------------------------------------------------------------------------
(* Rows and their requests.                                                *)

\* Users come and go by their own requests, and those who stay keep their order.
THEOREM OwnRowCorrect == Spec => OwnRowOnly
<1>1. RowsInv /\ [Next]_vars =>
          [\A c \in RoomCodes : rooms[c].status # "absent" /\ room_users'[c] # room_users[c] =>
               /\ \A u \in Members(c) \ Members(c)' :
                      \E r \in Requests : Answers(r, "leave_commit", u, c)
               /\ \A u \in Members(c)' \ Members(c) :
                      \E r \in Requests : Answers(r, "join_insert", u, c)
               /\ \A u, v \in Members(c) \intersect Members(c)' :
                      Before(room_users[c], u, v) <=> Before(room_users'[c], u, v)]_vars
  <2> SUFFICES ASSUME RowsInv, Next, NEW c \in RoomCodes, rooms[c].status # "absent",
                      room_users'[c] # room_users[c]
               PROVE  /\ \A u \in Members(c) \ Members(c)' :
                             \E r \in Requests : Answers(r, "leave_commit", u, c)
                      /\ \A u \in Members(c)' \ Members(c) :
                             \E r \in Requests : Answers(r, "join_insert", u, c)
                      /\ \A u, v \in Members(c) \intersect Members(c)' :
                             Before(room_users[c], u, v) <=> Before(room_users'[c], u, v)
    BY DEF vars
  <2>1. /\ room_users \in [RoomCodes -> Seq(Users)] /\ room_users[c] \in Seq(Users)
        /\ request \in [Requests -> RequestType]
    BY DEF RowsInv, TypeOK
  <2>2. ~\E u \in Users, d \in RoomCodes, n \in MaxPlayersAsked : CreateRoom(u, d, n)
    BY <2>1 DEF CreateRoom
  <2>3. PICK r \in Requests : AddUserToRoom(r) \/ LeaveCommit(r)
    BY <2>2 DEF Next, Arrive, Step, Abort, JoinLookup, LeaveLookup, StartLookup, JoinMember,
       JoinCount, LeaveMember, RemoveUser, CountLeft, CountUsers, CountReady, InsertGame,
       UpdateRoomStatus, StartCommit, UpdateUserReady, tables
  <2> DEFINE u == request[r].user
  <2>4. u \in Users /\ request[r].code \in RoomCodes /\ request'[r] = Idle
    BY <2>1, <2>3 DEF AddUserToRoom, LeaveCommit, Reply, RowsInv, TypeOK
  <2>5. request[r].code = c
    BY <2>1, <2>3, <2>4 DEF AddUserToRoom, LeaveCommit
  <2> HIDE DEF u
  <2>6. CASE AddUserToRoom(r)
    <3>1. /\ room_users'[c] = Append(room_users[c], u) /\ u \notin Rows(room_users[c])
          /\ Answers(r, "join_insert", u, c)
      BY <2>1, <2>4, <2>5, <2>6 DEF AddUserToRoom, Answers, Members, u
    <3>2. Members(c)' = Members(c) \union {u}
      BY <2>1, <2>4, <3>1, AppendRows DEF Members
    <3>3. \A x, y \in Members(c) : Before(room_users[c], x, y) <=> Before(room_users'[c], x, y)
      BY <2>1, <2>4, <3>1, AppendKeepsOrder DEF Members
    <3> QED  BY <3>1, <3>2, <3>3
  <2>7. CASE LeaveCommit(r)
    <3>1. /\ room_users'[c] = Left(c, u) /\ Answers(r, "leave_commit", u, c)
          /\ u \in Members(c)
      BY <2>1, <2>4, <2>5, <2>7
         DEF LeaveCommit, Answers, RowsInv, OneRowOneLeave, LeaversPresent, InLeaveTx, u
    <3>2. Members(c)' = Members(c) \ {u}
      BY <3>1, LeftRows DEF Members, RowsInv, OneRowOneLeave
    <3>3. \A x, y \in Members(c) \ {u} :
              Before(room_users[c], x, y) <=> Before(room_users'[c], x, y)
      BY <2>1, <3>1, WithoutKeepsOrder DEF Members, Left
    <3> QED  BY <3>1, <3>2, <3>3
  <2> QED  BY <2>3, <2>6, <2>7
<1> QED  BY <1>1, RowsInvAlways, PTL DEF Spec, OwnRowOnly

----------------------------------------------------------------------------
(* Handing a room over.                                                    *)

\* Only the snapshot of a leave transaction brings it to its commit.
LEMMA OnlyCountCommits ==
    ASSUME TypeOK, Next, NEW r \in Requests, request'[r].pc = "leave_commit",
           request'[r] # request[r]
    PROVE  CountLeft(r)
<1>1. request \in [Requests -> RequestType] /\ request[r] \in RequestType
  BY DEF TypeOK
<1>2. ~Reply(r)
  BY <1>1 DEF Reply, Idle, Request
<1>3. \A pc : GoTo(r, pc) => pc = "leave_commit"
  BY <1>1 DEF GoTo, RequestType
<1>4. ASSUME NEW u \in Users, NEW c \in RoomCodes,
             JoinLookup(r, u, c) \/ LeaveLookup(r, u, c) \/ StartLookup(r, u, c)
      PROVE  FALSE
  <2>1. request'[r].pc \in {"join_member", "leave_member", "start_users"}
    BY <1>1, <1>4 DEF JoinLookup, LeaveLookup, StartLookup, Request
  <2> QED  BY <2>1
<1>5. ~CountUsers(r) /\ ~CountReady(r)
  <2>1. CountUsers(r) => request'[r].pc = "start_ready"
    BY <1>1 DEF CountUsers, RequestType
  <2>2. CountReady(r) => request'[r].pc = "start_insert"
    BY <1>1, <1>2 DEF CountReady, Request
  <2> QED  BY <2>1, <2>2
<1>6. ~(JoinMember(r) \/ JoinCount(r) \/ LeaveMember(r) \/ RemoveUser(r))
  BY <1>2, <1>3 DEF JoinMember, JoinCount, LeaveMember, RemoveUser
<1>7. ~(AddUserToRoom(r) \/ LeaveCommit(r) \/ StartCommit(r) \/ Abort(r))
  BY <1>2 DEF AddUserToRoom, LeaveCommit, StartCommit, Abort
<1>8. ~InsertGame(r) /\ ~UpdateRoomStatus(r)
  <2>1. InsertGame(r) => request'[r].pc = "start_update"
    BY <1>1 DEF InsertGame, RequestType
  <2>2. UpdateRoomStatus(r) => request'[r].pc = "start_commit"
    BY <1>1 DEF UpdateRoomStatus, RequestType
  <2> QED  BY <2>1, <2>2
<1> QED  BY <1>4, <1>5, <1>6, <1>7, <1>8, OwnStep DEF Step, Arrive

\* The next owner is picked among the rows left in the leave's own snapshot.
LEMMA HeirStays ==
    ASSUME RowsInv, NEW r \in Requests, CountLeft(r), request'[r].hosted,
           request'[r].count # 0
    PROVE  request'[r].heir \in Users \ {request'[r].user}
<1> DEFINE q == request[r]
           left == Left(q.code, q.user)
           count == IF left = <<>> THEN 0 ELSE 1
           heir == IF q.hosted /\ left # <<>> THEN left[1] ELSE NoUser
<1>1. q.pc = "leave_count" /\ q \in RequestType /\ q.code \in RoomCodes
  BY DEF CountLeft, RowsInv, TypeOK
<1>2. /\ left \in Seq(Users) /\ Rows(left) = Members(q.code) \ {q.user}
  BY <1>1, LeftRows DEF RowsInv, OneRowOneLeave, LeaversPresent, InLeaveTx
<1>3. request'[r] = [q EXCEPT !.pc = "leave_commit", !.count = count, !.heir = heir]
  BY DEF CountLeft, RowsInv, TypeOK
<1> HIDE DEF left
<1>4. /\ request'[r].user = q.user /\ request'[r].hosted = q.hosted
      /\ request'[r].count = count /\ request'[r].heir = heir
  BY <1>1, <1>3 DEF RequestType
<1>5. left # <<>> /\ heir = left[1]
  BY <1>4
<1>6. 1 \in 1..Len(left)
  BY <1>2, <1>5, EmptySeq, LenProperties
<1>7. left[1] \in Rows(left) /\ left[1] \in Users
  BY <1>2, <1>6, LenProperties DEF Rows
<1> QED  BY <1>2, <1>4, <1>5, <1>7

\* The owner of a room changes only to the heir of a leave.
LEMMA OwnerStep ==
    ASSUME TypeOK, RoomsExist, HandoverSound, Next, NEW c \in RoomCodes, rooms'[c].status # "absent"
    PROVE  rooms'[c].owner_id \in Users
<1>1. rooms \in [RoomCodes -> RowType] /\ rooms[c] \in RowType
  BY DEF TypeOK
<1>2. CASE rooms' = rooms
  BY <1>2 DEF HandoverSound
<1>3. ASSUME NEW u \in Users, NEW d \in RoomCodes, NEW n \in MaxPlayersAsked, CreateRoom(u, d, n)
      PROVE  rooms'[c].owner_id \in Users
  BY <1>1, <1>3 DEF CreateRoom, HandoverSound
<1>4. ASSUME NEW r \in Requests, LeaveCommit(r)
      PROVE  rooms'[c].owner_id \in Users
  <2>1. /\ request[r].pc = "leave_commit" /\ request[r].code \in RoomCodes
        /\ rooms' = IF request[r].count = 0 THEN [rooms EXCEPT ![request[r].code].status = "closed"]
                    ELSE IF request[r].hosted
                    THEN [rooms EXCEPT ![request[r].code].owner_id = request[r].heir]
                    ELSE rooms
    BY <1>4 DEF LeaveCommit, TypeOK
  <2>2. CASE rooms'[c].owner_id = rooms[c].owner_id
    <3>1. rooms[c].status # "absent" \/ request[r].code = c
      BY <1>1, <2>1
    <3>2. rooms[request[r].code].status # "absent"
      BY <2>1 DEF RoomsExist
    <3> QED  BY <2>2, <3>1, <3>2 DEF HandoverSound
  <2>3. CASE rooms'[c].owner_id # rooms[c].owner_id
    <3>1. request[r].hosted /\ request[r].count # 0 /\ rooms'[c].owner_id = request[r].heir
      BY <1>1, <2>1, <2>3 DEF RowType
    <3> QED  BY <2>1, <3>1 DEF HandoverSound
  <2> QED  BY <2>2, <2>3
<1>5. ASSUME NEW r \in Requests, StartCommit(r)
      PROVE  rooms'[c].owner_id \in Users
  <2>1. /\ request[r].code \in RoomCodes /\ rooms[request[r].code].status # "absent"
        /\ rooms' = [rooms EXCEPT ![request[r].code].status =
                         IF "playing" \in request[r].tx THEN "playing" ELSE @]
    BY <1>5 DEF StartCommit, TypeOK, RoomsExist
  <2>2. rooms'[c].owner_id = rooms[c].owner_id /\ rooms[c].status # "absent"
    BY <1>1, <2>1 DEF RowType
  <2> QED  BY <2>2 DEF HandoverSound
<1> QED
  BY <1>2, <1>3, <1>4, <1>5 DEF Next, Arrive, Step, Abort, JoinLookup, LeaveLookup, StartLookup,
     JoinMember, JoinCount, AddUserToRoom, LeaveMember, RemoveUser, CountLeft, CountUsers,
     CountReady, InsertGame, UpdateRoomStatus, UpdateUserReady, tables

\* However leaves overlap with joins and with each other, a room never lacks an
\* owner and no leave hands the room back to the user who goes.
THEOREM HandoverCorrect == Spec => []HandoverSound
<1>1. Init => HandoverSound
  BY DEF Init, NoRoom, Idle, Request, HandoverSound
<1>2. RowsInv /\ HandoverSound /\ [Next]_vars => HandoverSound'
  <2> SUFFICES ASSUME RowsInv, HandoverSound, Next PROVE HandoverSound'
    BY DEF vars, HandoverSound
  <2>1. ASSUME NEW c \in RoomCodes, rooms'[c].status # "absent"
        PROVE  rooms'[c].owner_id \in Users
    BY <2>1, OwnerStep DEF RowsInv
  <2>2. ASSUME NEW r \in Requests, request'[r].pc = "leave_commit", request'[r].hosted,
               request'[r].count # 0
        PROVE  request'[r].heir \in Users \ {request'[r].user}
    <3>1. CASE request'[r] = request[r]
      BY <2>2, <3>1 DEF HandoverSound
    <3>2. CASE request'[r] # request[r]
      BY <2>2, <3>2, OnlyCountCommits, HeirStays DEF RowsInv
    <3> QED  BY <3>1, <3>2
  <2> QED  BY <2>1, <2>2 DEF HandoverSound
<1> QED  BY <1>1, <1>2, RowsInvAlways, PTL DEF Spec

----------------------------------------------------------------------------
(* Late requests.                                                          *)

\* What brings a request to a statement of a join or of a start that may insert.
LEMMA LateRequest ==
    ASSUME TypeOK, Next, NEW r \in Requests, NEW c \in RoomCodes
    PROVE  /\ r \in Joining(c)' => r \in Joining(c) \/ rooms[c].status = "waiting"
           /\ r \in Starting(c)' => r \in Starting(c) \/ rooms[c].status # "playing"
<1>1. request \in [Requests -> RequestType] /\ request[r] \in RequestType
  BY DEF TypeOK
<1>2. CASE request'[r] = request[r]
  BY <1>2 DEF Joining, Starting
<1>3. CASE Reply(r)
  BY <1>1, <1>3 DEF Reply, Idle, Request, Joining, Starting
<1>4. ASSUME NEW u \in Users, NEW d \in RoomCodes, JoinLookup(r, u, d)
      PROVE  r \notin Starting(c)' /\ (r \in Joining(c)' => rooms[c].status = "waiting")
  BY <1>1, <1>4 DEF JoinLookup, Request, Joining, Starting
<1>5. ASSUME NEW u \in Users, NEW d \in RoomCodes, LeaveLookup(r, u, d)
      PROVE  r \notin Starting(c)' /\ r \notin Joining(c)'
  BY <1>1, <1>5 DEF LeaveLookup, Request, Joining, Starting
<1>6. ASSUME NEW u \in Users, NEW d \in RoomCodes, StartLookup(r, u, d)
      PROVE  r \notin Joining(c)' /\ (r \in Starting(c)' => rooms[c].status # "playing")
  BY <1>1, <1>6 DEF StartLookup, Request, Joining, Starting
<1>7. ASSUME NEW pc, GoTo(r, pc)
      PROVE  request'[r].pc = pc /\ request'[r].code = request[r].code
  BY <1>1, <1>7 DEF GoTo, RequestType
<1>8. CASE ~Reply(r) /\ (JoinMember(r) \/ JoinCount(r))
  BY <1>1, <1>7, <1>8 DEF JoinMember, JoinCount, Joining, Starting
<1>9. CASE ~Reply(r) /\ (LeaveMember(r) \/ RemoveUser(r))
  BY <1>1, <1>7, <1>9 DEF LeaveMember, RemoveUser, Joining, Starting
<1>10. CASE CountLeft(r)
  <2>1. request'[r].pc = "leave_commit"
    BY <1>1, <1>10 DEF CountLeft, RequestType
  <2> QED  BY <2>1 DEF Joining, Starting
<1>11. CASE CountUsers(r)
  <2>1. /\ request[r].pc = "start_users" /\ request'[r].pc = "start_ready"
        /\ request'[r].code = request[r].code /\ request'[r].playing = request[r].playing
    BY <1>1, <1>11 DEF CountUsers, RequestType
  <2> QED  BY <2>1 DEF Joining, Starting
<1>12. CASE ~Reply(r) /\ CountReady(r)
  BY <1>1, <1>12 DEF CountReady, Request, Joining, Starting
<1>13. CASE InsertGame(r) \/ UpdateRoomStatus(r)
  <2>0. request[r].tx \subseteq {"game", "playing"}
    BY <1>1 DEF RequestType
  <2>1. PICK p \in {"start_update", "start_commit"}, w \in SUBSET {"game", "playing"} :
            request' = [request EXCEPT ![r] = [request[r] EXCEPT !.pc = p, !.tx = w]]
    BY <1>13, <2>0 DEF InsertGame, UpdateRoomStatus
  <2>2. request'[r].pc = p /\ request'[r].code = request[r].code
    BY <1>1, <2>1 DEF RequestType
  <2> QED  BY <1>13, <2>2 DEF InsertGame, UpdateRoomStatus, Joining, Starting
<1> QED
  BY <1>2, <1>3, <1>4, <1>5, <1>6, <1>8, <1>9, <1>10, <1>11, <1>12, <1>13, OwnStep
     DEF Arrive, Step, Abort, AddUserToRoom, LeaveCommit, StartCommit

\* Once a room is in play or closed it stays so, and only the requests that had
\* looked it up before can still let a user in or start it again.
THEOREM LateRequestsCorrect == Spec => OnlyLateRequestsPass
<1>1. RowsInv /\ [Next]_vars =>
          [\A c \in RoomCodes : rooms[c].status \in {"playing", "closed"} =>
               /\ rooms'[c].status \in {"playing", "closed"}
               /\ Joining(c)' \subseteq Joining(c)
               /\ rooms[c].status = "playing" => Starting(c)' \subseteq Starting(c)]_vars
  <2> SUFFICES ASSUME RowsInv, Next, NEW c \in RoomCodes,
                      rooms[c].status \in {"playing", "closed"}
               PROVE  /\ rooms'[c].status \in {"playing", "closed"}
                      /\ Joining(c)' \subseteq Joining(c)
                      /\ rooms[c].status = "playing" => Starting(c)' \subseteq Starting(c)
    BY DEF vars
  <2>1. rooms \in [RoomCodes -> RowType]
    BY DEF RowsInv, TypeOK
  <2>2. rooms'[c].status \in {"playing", "closed"}
    <3>1. ASSUME NEW r \in Requests, LeaveCommit(r) \/ StartCommit(r)
          PROVE  rooms'[c].status \in {"playing", "closed"}
      BY <2>1, <3>1 DEF LeaveCommit, StartCommit, RowType
    <3>2. ASSUME NEW u \in Users, NEW d \in RoomCodes, NEW n \in MaxPlayersAsked,
                 CreateRoom(u, d, n)
          PROVE  rooms'[c].status \in {"playing", "closed"}
      BY <2>1, <3>2 DEF CreateRoom
    <3> QED
      BY <3>1, <3>2 DEF Next, Arrive, Step, Abort, JoinLookup, LeaveLookup, StartLookup,
         JoinMember, JoinCount, AddUserToRoom, LeaveMember, RemoveUser, CountLeft, CountUsers,
         CountReady, InsertGame, UpdateRoomStatus, UpdateUserReady, tables
  <2>3. Joining(c)' \subseteq Requests /\ Starting(c)' \subseteq Requests
    BY DEF Joining, Starting
  <2>4. Joining(c)' \subseteq Joining(c)
    BY <2>3, LateRequest DEF RowsInv
  <2>5. rooms[c].status = "playing" => Starting(c)' \subseteq Starting(c)
    BY <2>3, LateRequest DEF RowsInv
  <2> QED  BY <2>2, <2>4, <2>5
<1> QED  BY <1>1, RowsInvAlways, PTL DEF Spec, OnlyLateRequestsPass
=============================================================================
