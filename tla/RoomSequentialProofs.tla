------------------------ MODULE RoomSequentialProofs ------------------------
(***************************************************************************)
(* For any users, room codes, limits and number of requests in flight: as  *)
(* long as no room has two of them, the handlers implement RoomPromise,    *)
(* and what the comments of the handlers say is so.                        *)
(***************************************************************************)
EXTENDS RoomSequential, RoomServiceProofs

\* The theorems about RoomPromise, of the tables as RoomSequential reads them.
Facts == INSTANCE RoomPromiseProofs WITH
    Caps <- {Capacity(n) : n \in MaxPlayersAsked},
    phase <- [c \in RoomCodes |-> rooms[c].status],
    line <- room_users,
    host <- [c \in RoomCodes |-> rooms[c].owner_id],
    cap <- [c \in RoomCodes |-> rooms[c].max_players],
    launches <- games

Phase == [c \in RoomCodes |-> rooms[c].status]
Host == [c \in RoomCodes |-> rooms[c].owner_id]
Cap == [c \in RoomCodes |-> rooms[c].max_players]

----------------------------------------------------------------------------
(* What a request has read is still so.                                    *)

\* What the locals of request q say of its room, whose row is w and whose users
\* are s.
StillSo(q, w, s) ==
    /\ q.pc \in {"join_member", "join_count", "join_insert",
                 "start_insert", "start_update", "start_commit"} => w.status = "waiting"
    /\ q.pc \in {"join_count", "join_insert"} => q.user \notin Rows(s)
    /\ q.pc = "join_insert" => Len(s) < w.max_players
    /\ q.pc \in {"leave_member", "leave_remove", "leave_count", "leave_commit"} =>
           (q.hosted <=> w.owner_id = q.user)
    /\ q.pc \in {"leave_remove", "leave_count", "leave_commit"} => q.user \in Rows(s)
    /\ q.pc = "leave_commit" =>
           /\ q.count = 0 <=> Without(s, q.user) = <<>>
           /\ q.hosted /\ Without(s, q.user) # <<>> => q.heir = Without(s, q.user)[1]
    /\ q.pc \in {"start_users", "start_ready"} => (q.playing <=> w.status = "playing")
    /\ q.pc = "start_ready" => q.count = Len(s)

NothingStale ==
    \A r \in Requests : request[r].pc # "idle" =>
        StillSo(request[r], rooms[request[r].code], room_users[request[r].code])

SeqInv == RowsInv /\ Apart /\ NothingStale /\ Facts!PromiseInv

\* Every limit a room opens with is positive.
LEMMA CapacityPositive == Facts!CapsPositive
  BY ServiceAssumption DEF Facts!CapsPositive, Capacity

\* A request whose tables stay and whose locals stay right.
LEMMA LocalsStep ==
    ASSUME RowsInv, NothingStale, NEW r \in Requests, NEW q,
           request' = [request EXCEPT ![r] = q], UNCHANGED tables,
           q.pc # "idle" => StillSo(q, rooms[q.code], room_users[q.code])
    PROVE  NothingStale'
<1>1. request'[r] = q /\ \A s \in Requests \ {r} : request'[s] = request[s]
  BY DEF RowsInv, TypeOK
<1> QED
  BY <1>1 DEF NothingStale, tables

\* A request that is answered as it writes its room has read nothing, and the
\* other requests have read other rooms.
LEMMA AnsweredStep ==
    ASSUME RowsInv, Apart, NothingStale, NEW r \in Requests, Reply(r), request[r].pc # "idle",
           \A d \in RoomCodes \ {request[r].code} :
               rooms'[d] = rooms[d] /\ room_users'[d] = room_users[d]
    PROVE  NothingStale'
<1>1. request'[r].pc = "idle" /\ \A s \in Requests \ {r} : request'[s] = request[s]
  BY DEF RowsInv, TypeOK, Reply, Idle, Request
<1>2. \A s \in Requests \ {r} : request[s].pc # "idle" =>
          request[s].code \in RoomCodes \ {request[r].code}
  BY DEF Apart, RowsInv, TypeOK
<1> QED
  BY <1>1, <1>2 DEF NothingStale

\* The request on its way.
LEMMA OnItsWay ==
    ASSUME RowsInv, NothingStale, NEW r \in Requests, request[r].pc # "idle"
    PROVE  /\ request[r] \in RequestType
           /\ request[r].user \in Users /\ request[r].code \in RoomCodes
           /\ rooms[request[r].code] \in RowType
           /\ room_users[request[r].code] \in Seq(Users)
           /\ rooms[request[r].code].status # "absent"
           /\ StillSo(request[r], rooms[request[r].code], room_users[request[r].code])
  BY DEF RowsInv, TypeOK, RoomsExist, NothingStale

\* GoTo changes the position only.
LEMMA GoToFields ==
    ASSUME RowsInv, NEW r \in Requests,
           NEW pc \in {"join_count", "join_insert", "leave_remove", "leave_count"}, GoTo(r, pc)
    PROVE  \E q : /\ request' = [request EXCEPT ![r] = q]
                  /\ q.pc = pc /\ q.user = request[r].user /\ q.code = request[r].code
                  /\ q.hosted = request[r].hosted
<1> DEFINE q == [request[r] EXCEPT !.pc = pc]
<1>1. request' = [request EXCEPT ![r] = q]
  BY DEF GoTo, RowsInv, TypeOK
<1>2. q.pc = pc /\ q.user = request[r].user /\ q.code = request[r].code
      /\ q.hosted = request[r].hosted
  BY DEF RowsInv, TypeOK, RequestType
<1> QED
  BY <1>1, <1>2

\* The statements of a join before its insert.
LEMMA JoinSteps ==
    ASSUME RowsInv, Apart, NothingStale, NEW r \in Requests, JoinMember(r) \/ JoinCount(r)
    PROVE  NothingStale'
<1>1. CASE Reply(r)
  BY <1>1, AnsweredStep DEF JoinMember, JoinCount, tables
<1>2. CASE JoinMember(r) /\ ~Reply(r)
  <2>1. /\ request[r].pc = "join_member" /\ UNCHANGED tables /\ GoTo(r, "join_count")
        /\ request[r].user \notin Members(request[r].code)
    BY <1>2 DEF JoinMember
  <2>2. PICK q : /\ request' = [request EXCEPT ![r] = q] /\ q.pc = "join_count"
                 /\ q.user = request[r].user /\ q.code = request[r].code
    BY <2>1, GoToFields
  <2>3. rooms[q.code].status = "waiting"
    BY <2>1, <2>2, OnItsWay DEF StillSo
  <2>4. StillSo(q, rooms[q.code], room_users[q.code])
    BY <2>1, <2>2, <2>3 DEF StillSo, Members
  <2> QED
    BY <2>1, <2>2, <2>4, LocalsStep
<1>3. CASE JoinCount(r) /\ ~Reply(r)
  <2>1. /\ request[r].pc = "join_count" /\ UNCHANGED tables /\ GoTo(r, "join_insert")
        /\ ~(Len(room_users[request[r].code]) >= rooms[request[r].code].max_players)
    BY <1>3 DEF JoinCount
  <2>2. PICK q : /\ request' = [request EXCEPT ![r] = q] /\ q.pc = "join_insert"
                 /\ q.user = request[r].user /\ q.code = request[r].code
    BY <2>1, GoToFields
  <2>3. /\ rooms[q.code].status = "waiting" /\ q.user \notin Rows(room_users[q.code])
        /\ rooms[q.code].max_players \in Nat /\ Len(room_users[q.code]) \in Nat
    BY <2>1, <2>2, OnItsWay, LenProperties DEF StillSo, RowType
  <2>4. Len(room_users[q.code]) < rooms[q.code].max_players
    BY <2>1, <2>2, <2>3
  <2>5. StillSo(q, rooms[q.code], room_users[q.code])
    BY <2>2, <2>3, <2>4 DEF StillSo
  <2> QED
    BY <2>1, <2>2, <2>5, LocalsStep
<1> QED
  BY <1>1, <1>2, <1>3

\* The statements of a leave before its commit.
LEMMA LeaveSteps ==
    ASSUME RowsInv, Apart, NothingStale, NEW r \in Requests,
           LeaveMember(r) \/ RemoveUser(r) \/ CountLeft(r)
    PROVE  NothingStale'
<1>1. CASE Reply(r)
  BY <1>1, AnsweredStep DEF LeaveMember, RemoveUser, CountLeft, tables
<1>2. CASE (LeaveMember(r) \/ RemoveUser(r)) /\ ~Reply(r)
  <2>1. PICK pc \in {"leave_remove", "leave_count"} :
            /\ request[r].pc \in {"leave_member", "leave_remove"}
            /\ UNCHANGED tables /\ GoTo(r, pc)
            /\ request[r].user \in Members(request[r].code)
    BY <1>2 DEF LeaveMember, RemoveUser
  <2>2. PICK q : /\ request' = [request EXCEPT ![r] = q] /\ q.pc = pc
                 /\ q.user = request[r].user /\ q.code = request[r].code
                 /\ q.hosted = request[r].hosted
    BY <2>1, GoToFields
  <2>3. q.hosted <=> rooms[q.code].owner_id = q.user
    BY <2>1, <2>2, OnItsWay DEF StillSo
  <2>4. StillSo(q, rooms[q.code], room_users[q.code])
    BY <2>1, <2>2, <2>3 DEF StillSo, Members
  <2> QED
    BY <2>1, <2>2, <2>4, LocalsStep
<1>3. CASE CountLeft(r)
  <2> DEFINE p == request[r]
             left == Left(p.code, p.user)
             q == [p EXCEPT !.pc = "leave_commit", !.count = IF left = <<>> THEN 0 ELSE 1,
                            !.heir = IF p.hosted /\ left # <<>> THEN left[1] ELSE NoUser]
  <2>1. p.pc = "leave_count" /\ UNCHANGED tables /\ request' = [request EXCEPT ![r] = q]
    BY <1>3 DEF CountLeft
  <2>2. p \in RequestType /\ StillSo(p, rooms[p.code], room_users[p.code])
    BY <2>1, OnItsWay
  <2>3. left = Without(room_users[p.code], p.user)
    BY DEF Left
  <2> HIDE DEF left
  <2>4. /\ q.pc = "leave_commit" /\ q.user = p.user /\ q.code = p.code /\ q.hosted = p.hosted
        /\ q.count = IF left = <<>> THEN 0 ELSE 1
        /\ q.heir = IF p.hosted /\ left # <<>> THEN left[1] ELSE NoUser
    BY <2>2 DEF RequestType
  <2> HIDE DEF q
  <2>5. (p.hosted <=> rooms[p.code].owner_id = p.user) /\ p.user \in Rows(room_users[p.code])
    BY <2>1, <2>2 DEF StillSo
  <2>6. StillSo(q, rooms[q.code], room_users[q.code])
    BY <2>3, <2>4, <2>5 DEF StillSo
  <2> QED
    BY <2>1, <2>6, LocalsStep
<1> QED
  BY <1>1, <1>2, <1>3

\* A request that arrives has read its room's row.
LEMMA ArriveReads ==
    ASSUME RowsInv, NothingStale, NEW r \in Requests, Arrive(r)
    PROVE  NothingStale'
<1> PICK u \in Users, c \in RoomCodes :
        JoinLookup(r, u, c) \/ LeaveLookup(r, u, c) \/ StartLookup(r, u, c)
  BY DEF Arrive
<1>1. CASE JoinLookup(r, u, c)
  <2> DEFINE q == Request("join_member", u, c)
  <2>1. /\ request' = [request EXCEPT ![r] = q] /\ UNCHANGED tables
        /\ rooms[c].status = "waiting"
    BY <1>1 DEF JoinLookup
  <2>2. q.pc = "join_member" /\ q.code = c
    BY DEF Request
  <2> HIDE DEF q
  <2>3. StillSo(q, rooms[q.code], room_users[q.code])
    BY <2>1, <2>2 DEF StillSo
  <2> QED
    BY <2>1, <2>3, LocalsStep
<1>2. CASE LeaveLookup(r, u, c)
  <2> DEFINE q == [Request("leave_member", u, c) EXCEPT !.hosted = (rooms[c].owner_id = u)]
  <2>1. request' = [request EXCEPT ![r] = q] /\ UNCHANGED tables
    BY <1>2 DEF LeaveLookup
  <2>2. /\ q.pc = "leave_member" /\ q.code = c /\ q.user = u
        /\ q.hosted <=> rooms[c].owner_id = u
    BY DEF Request
  <2> HIDE DEF q
  <2>3. StillSo(q, rooms[q.code], room_users[q.code])
    BY <2>2 DEF StillSo
  <2> QED
    BY <2>1, <2>3, LocalsStep
<1>3. CASE StartLookup(r, u, c)
  <2> DEFINE q == [Request("start_users", u, c) EXCEPT
                       !.playing = (rooms[c].status = "playing")]
  <2>1. request' = [request EXCEPT ![r] = q] /\ UNCHANGED tables
    BY <1>3 DEF StartLookup
  <2>2. /\ q.pc = "start_users" /\ q.code = c
        /\ q.playing <=> rooms[c].status = "playing"
    BY DEF Request
  <2> HIDE DEF q
  <2>3. StillSo(q, rooms[q.code], room_users[q.code])
    BY <2>2 DEF StillSo
  <2> QED
    BY <2>1, <2>3, LocalsStep
<1> QED
  BY <1>1, <1>2, <1>3

\* A start that is let through starts a waiting room.
LEMMA CountReadyWaits ==
    ASSUME SeqInv, NEW r \in Requests, CountReady(r), ~Reply(r)
    PROVE  /\ request' = [request EXCEPT
                  ![r] = Request("start_insert", request[r].user, request[r].code)]
           /\ rooms[request[r].code].status = "waiting"
           /\ request[r].pc = "start_ready"
           /\ Len(room_users[request[r].code]) = Cardinality(ready[request[r].code])
<1> DEFINE p == request[r]
<1>1. /\ p.pc = "start_ready" /\ p.count # 0 /\ ~p.playing /\ p.count = Cardinality(ready[p.code])
      /\ request' = [request EXCEPT ![r] = Request("start_insert", p.user, p.code)]
  BY DEF CountReady
<1>2. /\ p.code \in RoomCodes /\ rooms[p.code] \in RowType /\ rooms[p.code].status # "absent"
      /\ StillSo(p, rooms[p.code], room_users[p.code])
  BY <1>1, OnItsWay DEF SeqInv
<1>3. p.count = Len(room_users[p.code]) /\ rooms[p.code].status # "playing"
  BY <1>1, <1>2 DEF StillSo
<1>4. room_users[p.code] # <<>>
  BY <1>1, <1>3
<1>5. rooms[p.code].status # "closed"
  BY <1>2, <1>4 DEF SeqInv, Facts!PromiseInv, Facts!NobodyInside
<1>6. rooms[p.code].status = "waiting"
  BY <1>2, <1>3, <1>5 DEF RowType
<1> QED
  BY <1>1, <1>3, <1>6

\* The statements of a start before its commit.
LEMMA StartSteps ==
    ASSUME SeqInv, NEW r \in Requests,
           CountUsers(r) \/ CountReady(r) \/ InsertGame(r) \/ UpdateRoomStatus(r)
    PROVE  NothingStale'
<1>1. CASE CountUsers(r)
  <2> DEFINE p == request[r]
             q == [p EXCEPT !.pc = "start_ready", !.count = Len(room_users[p.code])]
  <2>1. p.pc = "start_users" /\ UNCHANGED tables /\ request' = [request EXCEPT ![r] = q]
    BY <1>1 DEF CountUsers
  <2>2. p \in RequestType /\ StillSo(p, rooms[p.code], room_users[p.code])
    BY <2>1, OnItsWay DEF SeqInv
  <2>3. /\ q.pc = "start_ready" /\ q.code = p.code /\ q.playing = p.playing
        /\ q.count = Len(room_users[p.code])
    BY <2>2 DEF RequestType
  <2> HIDE DEF q
  <2>4. p.playing <=> rooms[p.code].status = "playing"
    BY <2>1, <2>2 DEF StillSo
  <2>5. StillSo(q, rooms[q.code], room_users[q.code])
    BY <2>3, <2>4 DEF StillSo
  <2> QED
    BY <2>1, <2>5, LocalsStep DEF SeqInv
<1>2. CASE CountReady(r) /\ ~Reply(r)
  <2> DEFINE q == Request("start_insert", request[r].user, request[r].code)
  <2>1. /\ request' = [request EXCEPT ![r] = q]
        /\ rooms[request[r].code].status = "waiting" /\ UNCHANGED tables
    BY <1>2, CountReadyWaits DEF CountReady
  <2>2. q.pc = "start_insert" /\ q.code = request[r].code
    BY DEF Request
  <2> HIDE DEF q
  <2>3. StillSo(q, rooms[q.code], room_users[q.code])
    BY <2>1, <2>2 DEF StillSo
  <2> QED
    BY <2>1, <2>3, LocalsStep DEF SeqInv
<1>3. CASE Reply(r)
  BY <1>3, AnsweredStep DEF SeqInv, CountUsers, CountReady, InsertGame, UpdateRoomStatus, tables
<1>4. CASE InsertGame(r) \/ UpdateRoomStatus(r)
  <2> DEFINE p == request[r]
             q(pc, w) == [p EXCEPT !.pc = pc, !.tx = w]
  <2>0. p.tx \subseteq {"game", "playing"}
    BY DEF SeqInv, RowsInv, TypeOK, RequestType
  <2>1. PICK pc \in {"start_update", "start_commit"}, w \in SUBSET {"game", "playing"} :
            request' = [request EXCEPT ![r] = q(pc, w)] /\ UNCHANGED tables
    <3>1. CASE InsertGame(r)
      <4>1. request' = [request EXCEPT ![r] = q("start_update", {"game"})] /\ UNCHANGED tables
        BY <3>1 DEF InsertGame
      <4> QED  BY <4>1
    <3>2. CASE UpdateRoomStatus(r)
      <4>1. /\ request' = [request EXCEPT ![r] = q("start_commit", p.tx \union {"playing"})]
            /\ UNCHANGED tables
        BY <3>2 DEF UpdateRoomStatus
      <4>2. p.tx \union {"playing"} \in SUBSET {"game", "playing"}
        BY <2>0
      <4> QED  BY <4>1, <4>2
    <3> QED  BY <1>4, <3>1, <3>2
  <2>2. /\ p \in RequestType /\ StillSo(p, rooms[p.code], room_users[p.code])
        /\ p.pc \in {"start_insert", "start_update"}
    BY <1>4, OnItsWay DEF SeqInv, InsertGame, UpdateRoomStatus
  <2>3. q(pc, w).pc = pc /\ q(pc, w).code = p.code
    BY <2>2 DEF RequestType
  <2> HIDE DEF q
  <2>4. rooms[p.code].status = "waiting"
    BY <2>2 DEF StillSo
  <2>5. StillSo(q(pc, w), rooms[p.code], room_users[p.code])
    BY <2>1, <2>3, <2>4 DEF StillSo
  <2> QED
    BY <2>1, <2>3, <2>5, LocalsStep DEF SeqInv
<1> QED
  BY <1>1, <1>2, <1>3, <1>4

\* The tables that a request relies on are written by no other statement.
LEMMA NothingStaleNext ==
    ASSUME SeqInv, Next
    PROVE  NothingStale'
<1>1. ASSUME NEW u \in Users, NEW c \in RoomCodes, NEW asked \in MaxPlayersAsked,
             CreateRoom(u, c, asked)
      PROVE  NothingStale'
  <2>1. /\ rooms[c].status = "absent" /\ UNCHANGED request
        /\ \A d \in RoomCodes \ {c} : rooms'[d] = rooms[d] /\ room_users'[d] = room_users[d]
    BY <1>1 DEF CreateRoom, SeqInv, RowsInv, TypeOK
  <2>2. \A r \in Requests : request[r].pc # "idle" => request[r].code \in RoomCodes \ {c}
    BY <2>1, OnItsWay DEF SeqInv
  <2> QED
    BY <2>1, <2>2 DEF SeqInv, NothingStale
<1>2. ASSUME NEW u \in Users, NEW c \in RoomCodes, NEW b \in BOOLEAN, UpdateUserReady(u, c, b)
      PROVE  NothingStale'
  BY <1>2 DEF UpdateUserReady, SeqInv, NothingStale
<1>3. ASSUME NEW r \in Requests, Arrive(r) PROVE NothingStale'
  BY <1>3, ArriveReads DEF SeqInv
<1>4. ASSUME NEW r \in Requests, Abort(r) PROVE NothingStale'
  BY <1>4, AnsweredStep DEF SeqInv, Abort, tables
<1>5. ASSUME NEW r \in Requests, Step(r) PROVE NothingStale'
  <2>1. CASE AddUserToRoom(r) \/ LeaveCommit(r) \/ StartCommit(r)
    <3>1. request[r].pc # "idle" /\ Reply(r)
      BY <2>1 DEF AddUserToRoom, LeaveCommit, StartCommit
    <3>2. \A d \in RoomCodes \ {request[r].code} :
              rooms'[d] = rooms[d] /\ room_users'[d] = room_users[d]
      BY <2>1 DEF SeqInv, RowsInv, TypeOK, AddUserToRoom, LeaveCommit, StartCommit
    <3> QED
      BY <3>1, <3>2, AnsweredStep DEF SeqInv
  <2> QED
    BY <1>5, <2>1, JoinSteps, LeaveSteps, StartSteps DEF SeqInv, Step
<1> QED
  BY <1>1, <1>2, <1>3, <1>4, <1>5 DEF Next

----------------------------------------------------------------------------
(* Refinement.                                                             *)

\* Two functions that differ at one place.
LEMMA OneChange ==
    ASSUME NEW D, NEW c \in D, NEW f, NEW g, NEW v,
           f = [x \in D |-> f[x]], g = [x \in D |-> g[x]],
           g[c] = v, \A x \in D \ {c} : g[x] = f[x]
    PROVE  g = [f EXCEPT ![c] = v]
  OBVIOUS

\* A step that writes one row of rooms changes each of its columns there.
LEMMA ColumnsStep ==
    ASSUME TypeOK, NEW c \in RoomCodes, NEW w, rooms' = [rooms EXCEPT ![c] = w]
    PROVE  /\ Phase' = [Phase EXCEPT ![c] = w.status]
           /\ Host' = [Host EXCEPT ![c] = w.owner_id]
           /\ Cap' = [Cap EXCEPT ![c] = w.max_players]
<1>1. rooms'[c] = w /\ \A d \in RoomCodes \ {c} : rooms'[d] = rooms[d]
  BY DEF TypeOK
<1>2. Phase' = [Phase EXCEPT ![c] = w.status]
  <2>1. /\ Phase = [d \in RoomCodes |-> Phase[d]] /\ Phase' = [d \in RoomCodes |-> Phase'[d]]
        /\ Phase'[c] = w.status /\ \A d \in RoomCodes \ {c} : Phase'[d] = Phase[d]
    BY <1>1 DEF Phase
  <2> QED
    BY <2>1, OneChange
<1>3. Host' = [Host EXCEPT ![c] = w.owner_id]
  <2>1. /\ Host = [d \in RoomCodes |-> Host[d]] /\ Host' = [d \in RoomCodes |-> Host'[d]]
        /\ Host'[c] = w.owner_id /\ \A d \in RoomCodes \ {c} : Host'[d] = Host[d]
    BY <1>1 DEF Host
  <2> QED
    BY <2>1, OneChange
<1>4. Cap' = [Cap EXCEPT ![c] = w.max_players]
  <2>1. /\ Cap = [d \in RoomCodes |-> Cap[d]] /\ Cap' = [d \in RoomCodes |-> Cap'[d]]
        /\ Cap'[c] = w.max_players /\ \A d \in RoomCodes \ {c} : Cap'[d] = Cap[d]
    BY <1>1 DEF Cap
  <2> QED
    BY <2>1, OneChange
<1> QED
  BY <1>2, <1>3, <1>4

\* A column that is given the value it had does not change.
LEMMA ColumnsStay ==
    ASSUME NEW c \in RoomCodes
    PROVE  /\ Phase = [Phase EXCEPT ![c] = rooms[c].status]
           /\ Host = [Host EXCEPT ![c] = rooms[c].owner_id]
           /\ Cap = [Cap EXCEPT ![c] = rooms[c].max_players]
           /\ Phase[c] = rooms[c].status /\ Host[c] = rooms[c].owner_id
           /\ Cap[c] = rooms[c].max_players
  BY DEF Phase, Host, Cap

\* Creating a room opens it.
LEMMA CreateOpens ==
    ASSUME TypeOK, NEW u \in Users, NEW c \in RoomCodes, NEW asked \in MaxPlayersAsked,
           CreateRoom(u, c, asked)
    PROVE  Facts!Open(u, c, Capacity(asked))
<1> DEFINE w == [status |-> "waiting", max_players |-> Capacity(asked), owner_id |-> u]
<1>1. /\ rooms[c].status = "absent" /\ rooms' = [rooms EXCEPT ![c] = w]
      /\ room_users' = [room_users EXCEPT ![c] = <<u>>] /\ UNCHANGED games
  BY DEF CreateRoom
<1>2. w.status = "waiting" /\ w.max_players = Capacity(asked) /\ w.owner_id = u
  OBVIOUS
<1> HIDE DEF w
<1>5. /\ Phase' = [Phase EXCEPT ![c] = w.status] /\ Host' = [Host EXCEPT ![c] = w.owner_id]
      /\ Cap' = [Cap EXCEPT ![c] = w.max_players]
  BY <1>1, ColumnsStep
<1>3. /\ Phase' = [Phase EXCEPT ![c] = "waiting"] /\ Host' = [Host EXCEPT ![c] = u]
      /\ Cap' = [Cap EXCEPT ![c] = Capacity(asked)]
  BY <1>2, <1>5
<1>4. Phase[c] = "absent"
  BY <1>1, ColumnsStay
<1> QED
  BY <1>1, <1>3, <1>4 DEF Facts!Open, Phase, Host, Cap

\* A join's insert lets the player in.
LEMMA InsertEnters ==
    ASSUME RowsInv, NothingStale, NEW r \in Requests, AddUserToRoom(r),
           NEW u \in Users, NEW c \in RoomCodes, u = request[r].user, c = request[r].code
    PROVE  Facts!Enter(u, c)
<1>1. /\ request[r].pc = "join_insert" /\ UNCHANGED <<rooms, games>>
      /\ room_users' = IF u \in Members(c) THEN room_users
                       ELSE [room_users EXCEPT ![c] = Append(room_users[c], u)]
  BY DEF AddUserToRoom
<1>2. StillSo(request[r], rooms[c], room_users[c])
  BY <1>1, OnItsWay
<1>3. /\ rooms[c].status = "waiting" /\ u \notin Rows(room_users[c])
      /\ Len(room_users[c]) < rooms[c].max_players
  BY <1>1, <1>2 DEF StillSo
<1>4. /\ room_users' = [room_users EXCEPT ![c] = Append(room_users[c], u)]
      /\ u \notin Facts!Present(c)
  BY <1>1, <1>3 DEF Members, Rows, Facts!Present
<1>5. Phase[c] = "waiting" /\ Len(room_users[c]) < Cap[c]
  BY <1>2, <1>3, ColumnsStay
<1> QED
  BY <1>1, <1>4, <1>5 DEF Facts!Enter, Phase, Host, Cap

\* A leave's commit lets the player out: the last one closes the room, and an
\* owner hands over to the player next in line.
LEMMA CommitExits ==
    ASSUME RowsInv, NothingStale, NEW r \in Requests, LeaveCommit(r),
           NEW u \in Users, NEW c \in RoomCodes, u = request[r].user, c = request[r].code
    PROVE  Facts!ExitLast(u, c) \/ Facts!Exit(u, c)
<1> DEFINE q == request[r]
           left == Without(room_users[c], u)
<1>1. /\ q.pc = "leave_commit" /\ UNCHANGED games
      /\ room_users' = [room_users EXCEPT ![c] = left]
      /\ rooms' = IF q.count = 0 THEN [rooms EXCEPT ![c].status = "closed"]
                  ELSE IF q.hosted THEN [rooms EXCEPT ![c].owner_id = q.heir]
                  ELSE rooms
  BY DEF LeaveCommit, Left
<1>2. /\ rooms[c] \in RowType
      /\ room_users[c] \in Seq(Users) /\ StillSo(q, rooms[c], room_users[c])
  BY <1>1, OnItsWay
<1>3. /\ q.hosted <=> rooms[c].owner_id = u
      /\ u \in Rows(room_users[c])
      /\ q.count = 0 <=> left = <<>>
      /\ q.hosted /\ left # <<>> => q.heir = left[1]
  BY <1>1, <1>2 DEF StillSo
<1> HIDE DEF q, left
<1>4. /\ left \in Seq(Users) /\ Len(left) = Len(room_users[c]) - 1
      /\ Len(room_users[c]) \in Nat
  BY <1>2, <1>3, WithoutIsShorter, LenProperties DEF left
<1>5. room_users' = [room_users EXCEPT ![c] = left] /\ room_users'[c] = left
  BY <1>1, <1>2 DEF RowsInv, TypeOK
<1>6. CASE left = <<>>
  <2> DEFINE w == [rooms[c] EXCEPT !.status = "closed"]
  <2>1. rooms' = [rooms EXCEPT ![c] = w]
    BY <1>1, <1>2, <1>3, <1>6 DEF RowsInv, TypeOK
  <2>2. /\ w.status = "closed" /\ w.owner_id = rooms[c].owner_id
        /\ w.max_players = rooms[c].max_players
    BY <1>2 DEF RowType
  <2> HIDE DEF w
  <2>8. /\ Phase' = [Phase EXCEPT ![c] = w.status] /\ Host' = [Host EXCEPT ![c] = w.owner_id]
        /\ Cap' = [Cap EXCEPT ![c] = w.max_players]
    BY <2>1, ColumnsStep DEF RowsInv
  <2>3. Phase' = [Phase EXCEPT ![c] = "closed"] /\ Host' = Host /\ Cap' = Cap
    BY <2>2, <2>8, ColumnsStay
  <2>4. Len(room_users[c]) = 1
    BY <1>4, <1>6
  <2>5. room_users[c] = <<u>>
    BY <1>2, <1>3, <2>4 DEF Rows
  <2> QED
    BY <1>1, <1>5, <1>6, <2>3, <2>5 DEF Facts!ExitLast, Phase, Host, Cap
<1>7. CASE left # <<>>
  <2> DEFINE h == IF u = rooms[c].owner_id THEN left[1] ELSE rooms[c].owner_id
             w == [rooms[c] EXCEPT !.owner_id = h]
  <2>1. rooms' = [rooms EXCEPT ![c] = w]
    <3>1. CASE q.hosted
      BY <1>1, <1>2, <1>3, <1>7, <3>1 DEF RowsInv, TypeOK
    <3>2. CASE ~q.hosted
      <4>1. rooms' = rooms /\ w = rooms[c]
        BY <1>1, <1>2, <1>3, <1>7, <3>2 DEF RowType
      <4> QED
        BY <1>2, <4>1 DEF RowsInv, TypeOK
    <3> QED
      BY <3>1, <3>2
  <2>2. /\ w.status = rooms[c].status /\ w.owner_id = h
        /\ w.max_players = rooms[c].max_players
    BY <1>2 DEF RowType
  <2> HIDE DEF w
  <2>8. /\ Phase' = [Phase EXCEPT ![c] = w.status] /\ Host' = [Host EXCEPT ![c] = w.owner_id]
        /\ Cap' = [Cap EXCEPT ![c] = w.max_players]
    BY <2>1, ColumnsStep DEF RowsInv
  <2>3. Phase' = Phase /\ Host' = [Host EXCEPT ![c] = h] /\ Cap' = Cap
    BY <2>2, <2>8, ColumnsStay
  <2>4. Len(room_users[c]) > 1
    BY <1>4, <1>7, EmptySeq
  <2>5. u \in Facts!Present(c) /\ left = Facts!StepOut(room_users[c], u)
    BY <1>3 DEF Rows, Facts!Present, Facts!StepOut, Without, left
  <2>6. Host' = [Host EXCEPT ![c] = IF u = Host[c] THEN room_users'[c][1] ELSE Host[c]]
    BY <1>2, <1>5, <2>3, ColumnsStay
  <2> QED
    BY <1>1, <1>5, <2>3, <2>4, <2>5, <2>6 DEF Facts!Exit, Phase, Host, Cap
<1> QED
  BY <1>6, <1>7

\* A start's commit starts the game of a waiting room.
LEMMA CommitLaunches ==
    ASSUME SeqInv, NEW r \in Requests, StartCommit(r),
           NEW c \in RoomCodes, c = request[r].code
    PROVE  Facts!Launch(c)
<1> DEFINE w == [rooms[c] EXCEPT !.status = "playing"]
<1>1. /\ request[r].pc = "start_commit" /\ UNCHANGED room_users
      /\ games' = [games EXCEPT ![c] = games[c] + 1]
      /\ rooms' = [rooms EXCEPT ![c].status = "playing"]
  <2>1. request[r].pc = "start_commit" /\ request[r].tx = {"game", "playing"}
    BY DEF StartCommit, SeqInv, RowsInv, TxWhole
  <2> QED  BY <2>1 DEF StartCommit
<1>2. rooms[c] \in RowType /\ StillSo(request[r], rooms[c], room_users[c])
      /\ room_users[c] \in Seq(Users)
  BY <1>1, OnItsWay DEF SeqInv
<1>3. rooms[c].status = "waiting"
  BY <1>1, <1>2 DEF StillSo
<1>4. rooms' = [rooms EXCEPT ![c] = w]
  BY <1>1, <1>2 DEF SeqInv, RowsInv, TypeOK
<1>5. /\ w.status = "playing" /\ w.owner_id = rooms[c].owner_id
      /\ w.max_players = rooms[c].max_players
  BY <1>2 DEF RowType
<1> HIDE DEF w
<1>8. /\ Phase' = [Phase EXCEPT ![c] = w.status] /\ Host' = [Host EXCEPT ![c] = w.owner_id]
      /\ Cap' = [Cap EXCEPT ![c] = w.max_players]
  BY <1>4, ColumnsStep DEF SeqInv, RowsInv
<1>6. Phase' = [Phase EXCEPT ![c] = "playing"] /\ Host' = Host /\ Cap' = Cap
  BY <1>5, <1>8, ColumnsStay
<1>7. Phase[c] = "waiting" /\ Host[c] \in Facts!Present(c)
  <2>1. room_users[c] # <<>> /\ rooms[c].owner_id = room_users[c][1]
    BY <1>2, <1>3 DEF SeqInv, Facts!PromiseInv, Facts!HostIsFirst
  <2>2. 1 \in 1..Len(room_users[c])
    BY <1>2, <2>1, EmptySeq, LenProperties
  <2> QED
    BY <1>2, <1>3, <2>1, <2>2, ColumnsStay DEF Facts!Present
<1> QED
  BY <1>1, <1>6, <1>7 DEF Facts!Launch, Phase, Host, Cap

\* Every statement of a handler is a change the promise allows, or none.
LEMMA StatementsMap ==
    ASSUME SeqInv, [Next]_vars
    PROVE  [Facts!Next]_(Facts!promiseVars)
<1>1. ASSUME NEW u \in Users, NEW c \in RoomCodes, NEW asked \in MaxPlayersAsked,
             CreateRoom(u, c, asked)
      PROVE  Facts!Next
  <2>1. Facts!Open(u, c, Capacity(asked))
    BY <1>1, CreateOpens DEF SeqInv, RowsInv
  <2>2. Capacity(asked) \in {Capacity(n) : n \in MaxPlayersAsked}
    OBVIOUS
  <2> QED
    BY <2>1, <2>2 DEF Facts!Next
<1>2. ASSUME NEW r \in Requests, AddUserToRoom(r) \/ LeaveCommit(r) \/ StartCommit(r)
      PROVE  Facts!Next
  <2>1. request[r].pc # "idle"
    BY <1>2 DEF AddUserToRoom, LeaveCommit, StartCommit
  <2>2. request[r].user \in Users /\ request[r].code \in RoomCodes
    BY <2>1, OnItsWay DEF SeqInv
  <2>3. PICK u \in Users, c \in RoomCodes : u = request[r].user /\ c = request[r].code
    BY <2>2
  <2>4. Facts!Enter(u, c) \/ Facts!ExitLast(u, c) \/ Facts!Exit(u, c) \/ Facts!Launch(c)
    BY <1>2, <2>3, InsertEnters, CommitExits, CommitLaunches DEF SeqInv
  <2> QED
    BY <2>4 DEF Facts!Next
<1>3. CASE UNCHANGED <<rooms, room_users, games>>
  BY <1>3 DEF Facts!promiseVars
<1>4. ASSUME NEW r \in Requests, Step(r)
      PROVE  \/ AddUserToRoom(r) \/ LeaveCommit(r) \/ StartCommit(r)
             \/ UNCHANGED <<rooms, room_users, games>>
  BY <1>4 DEF Step, JoinMember, JoinCount, LeaveMember, RemoveUser, CountLeft, CountUsers,
     CountReady, InsertGame, UpdateRoomStatus, tables
<1>5. ASSUME NEW r \in Requests, Arrive(r) \/ Abort(r)
      PROVE  UNCHANGED <<rooms, room_users, games>>
  BY <1>5 DEF Arrive, JoinLookup, LeaveLookup, StartLookup, Abort, tables
<1>6. ASSUME NEW u \in Users, NEW c \in RoomCodes, NEW b \in BOOLEAN, UpdateUserReady(u, c, b)
      PROVE  UNCHANGED <<rooms, room_users, games>>
  BY <1>6 DEF UpdateUserReady
<1>7. UNCHANGED vars => UNCHANGED <<rooms, room_users, games>>
  BY DEF vars
<1> QED
  BY <1>1, <1>2, <1>3, <1>4, <1>5, <1>6, <1>7 DEF Next

\* The empty tables are those of rooms nobody has opened.
LEMMA InitMaps == Init => Facts!Init
  BY DEF Init, NoRoom, Facts!Init

\* The invariant, with the promise's, holds at first and after every step.
LEMMA SeqInvAlways == SerialSpec => []SeqInv
<1>1. Init => SeqInv
  <2> SUFFICES ASSUME Init PROVE SeqInv
    OBVIOUS
  <2>1. RowsInv
    BY RowsInit DEF Init, RowsInv, RoomsExist, TxWhole, Idle, Request
  <2>2. NothingStale
    BY DEF Init, NothingStale, Idle, Request
  <2>3. Facts!PromiseInv
    BY InitMaps, Facts!PromiseInit
  <2>4. Apart
    BY DEF Init, Apart, Idle, Request
  <2> QED
    BY <2>1, <2>2, <2>3, <2>4 DEF SeqInv
<1>2. SeqInv /\ [Next /\ Apart']_vars => SeqInv'
  <2> SUFFICES ASSUME SeqInv, [Next /\ Apart']_vars PROVE SeqInv'
    OBVIOUS
  <2>1. RowsInv'
    BY RowsInvNext DEF SeqInv
  <2>2. NothingStale'
    <3>1. UNCHANGED vars => NothingStale'
      BY DEF vars, SeqInv, NothingStale
    <3> QED
      BY <3>1, NothingStaleNext
  <2>3. Facts!PromiseInv'
    BY StatementsMap, CapacityPositive, Facts!PromiseKept DEF SeqInv
  <2>4. Apart'
    BY DEF SeqInv, Apart, vars
  <2> QED
    BY <2>1, <2>2, <2>3, <2>4 DEF SeqInv
<1> QED
  BY <1>1, <1>2, PTL DEF SerialSpec

----------------------------------------------------------------------------
(* Theorems.                                                               *)

\* When the requests to one room do not overlap, every handler does what
\* RoomPromise says, as one atomic change, however many statements it runs,
\* wherever it fails and whatever goes on in the other rooms meanwhile.
THEOREM PromiseImplemented == SerialSpec => ImplementsPromise
<1>1. Init => Promise!Init
  BY DEF Init, NoRoom, Promise!Init
<1>2. SeqInv /\ [Next /\ Apart']_vars => [Promise!Next]_(Promise!promiseVars)
  BY StatementsMap DEF Facts!promiseVars, Facts!Next, Facts!Open, Facts!Enter, Facts!Exit,
     Facts!ExitLast, Facts!Launch, Facts!Present, Facts!StepOut,
     Promise!promiseVars, Promise!Next, Promise!Open, Promise!Enter, Promise!Exit,
     Promise!ExitLast, Promise!Launch, Promise!Present, Promise!StepOut
<1> QED
  BY <1>1, <1>2, SeqInvAlways, PTL DEF SerialSpec, ImplementsPromise, Promise!Spec

\* So an open room always has players and the longest-staying one owns it, a
\* closed one is empty, no room is over its limit and none is started twice.
THEOREM SequentialCorrect == SerialSpec => []SequentialSafety
<1>1. SeqInv => SequentialSafety
  BY DEF SeqInv, Facts!PromiseInv, Facts!HostIsFirst, Facts!NobodyInside, Facts!WithinCap,
     Facts!LaunchedOnce, SequentialSafety, Promise!HostIsFirst, Promise!NobodyInside,
     Promise!WithinCap, Promise!LaunchedOnce
<1> QED
  BY <1>1, SeqInvAlways, PTL

\* A list without repetitions has as many entries as users.
LEMMA DistinctCount ==
    ASSUME NEW S, NEW s \in Seq(S), \A i, j \in 1..Len(s) : s[i] = s[j] => i = j
    PROVE  IsFiniteSet(Rows(s)) /\ Cardinality(Rows(s)) = Len(s)
<1> DEFINE f == [i \in 1..Len(s) |-> s[i]]
<1>1. Len(s) \in Nat
  BY LenProperties
<1>2. f \in Bijection(1..Len(s), Rows(s))
  BY DEF Bijection, Injection, Surjection, IsInjective, Rows
<1>3. ExistsBijection(1..Len(s), Rows(s))
  BY <1>2 DEF ExistsBijection
<1>4. IsFiniteSet(Rows(s))
  BY <1>1, <1>3, FS_NatBijection
<1> QED
  BY <1>1, <1>3, <1>4, FS_CountingElements

\* With no other request to the room between the two counts of a start, equal
\* numbers mean that every member is ready.
THEOREM StartsCorrect == SerialSpec => ApprovedStartsAreReady
<1>1. SeqInv /\ [Next /\ Apart']_vars =>
          [\A r \in Requests :
               request[r].pc = "start_ready" /\ request'[r].pc = "start_insert" =>
                   ready[request[r].code] = Members(request[r].code)]_vars
  <2> SUFFICES ASSUME SeqInv, Next, NEW r \in Requests,
                      request[r].pc = "start_ready", request'[r].pc = "start_insert"
               PROVE  ready[request[r].code] = Members(request[r].code)
    BY DEF vars
  <2>1. \A t \in Requests \ {r} : ~(Arrive(t) \/ Step(t) \/ Abort(t))
    BY OthersStay DEF SeqInv, RowsInv
  <2>2. Idle.pc # "start_insert" /\ request' # request
    BY DEF Idle, Request
  <2>3. CountReady(r) /\ ~Reply(r)
    <3>1. ~Reply(r)
      BY <2>2 DEF Reply, SeqInv, RowsInv, TypeOK
    <3>2. Arrive(r) \/ Step(r) \/ Abort(r)
      BY <2>1, <2>2 DEF Next, CreateRoom, UpdateUserReady
    <3> QED
      BY <3>1, <3>2 DEF Arrive, JoinLookup, LeaveLookup, StartLookup, Abort, Step, JoinMember,
         JoinCount, AddUserToRoom, LeaveMember, RemoveUser, CountLeft, LeaveCommit, CountUsers,
         InsertGame, UpdateRoomStatus, StartCommit
  <2>4. PICK c \in RoomCodes : c = request[r].code
    BY OnItsWay DEF SeqInv
  <2>5. Len(room_users[c]) = Cardinality(ready[c])
    BY <2>3, <2>4, CountReadyWaits
  <2>6. /\ room_users[c] \in Seq(Users) /\ ready[c] \subseteq Members(c)
        /\ \A i, j \in 1..Len(room_users[c]) : room_users[c][i] = room_users[c][j] => i = j
    BY DEF SeqInv, RowsInv, TypeOK, OneRowOneLeave, RowsUnique
  <2>7. IsFiniteSet(Members(c)) /\ Cardinality(Members(c)) = Len(room_users[c])
    BY <2>6, DistinctCount DEF Members
  <2>8. ready[c] = Members(c)
    BY <2>5, <2>6, <2>7, FS_Subset
  <2> QED
    BY <2>4, <2>8
<1> QED
  BY <1>1, SeqInvAlways, PTL DEF SerialSpec, ApprovedStartsAreReady

\* The comments that overlapping requests can falsify are true as long as the
\* requests to one room do not overlap: the owner of a waiting room is in it, an
\* empty room is closed, and nobody is let into a room that is not waiting.
THEOREM CommentsHold == SerialSpec => [](HostPresent /\ EmptyRoomClosed) /\ JoinOnlyWaiting
<1>1. SeqInv => HostPresent /\ EmptyRoomClosed
  <2> SUFFICES ASSUME SeqInv, NEW c \in RoomCodes
               PROVE  /\ rooms[c].status = "waiting" => rooms[c].owner_id \in Members(c)
                      /\ room_users[c] = <<>> => rooms[c].status \in {"absent", "closed"}
    BY DEF HostPresent, EmptyRoomClosed
  <2>1. rooms[c] \in RowType /\ room_users[c] \in Seq(Users)
    BY DEF SeqInv, RowsInv, TypeOK
  <2>2. rooms[c].status \in {"waiting", "playing"} =>
            room_users[c] # <<>> /\ rooms[c].owner_id = room_users[c][1]
    BY DEF SeqInv, Facts!PromiseInv, Facts!HostIsFirst
  <2>3. room_users[c] # <<>> => 1 \in 1..Len(room_users[c])
    BY <2>1, EmptySeq, LenProperties
  <2> QED
    BY <2>1, <2>2, <2>3 DEF RowType, Members, Rows
<1>2. SeqInv /\ [Next /\ Apart']_vars =>
          [\A c \in RoomCodes : Len(room_users'[c]) > Len(room_users[c]) =>
               rooms'[c].status = "waiting"]_vars
  <2> SUFFICES ASSUME SeqInv, Next, NEW c \in RoomCodes,
                      Len(room_users'[c]) > Len(room_users[c])
               PROVE  rooms'[c].status = "waiting"
    BY DEF vars
  <2>1. Len(room_users[c]) \in Nat /\ room_users'[c] # room_users[c]
    BY LenProperties DEF SeqInv, RowsInv, TypeOK
  <2>2. CASE rooms[c].status = "absent"
    BY <2>1, <2>2, RoomFrame DEF SeqInv, RowsInv
  <2>3. CASE rooms[c].status # "absent"
    <3>1. PICK r \in Requests :
              /\ request[r].pc = "join_insert" /\ request[r].code = c
              /\ request' = [request EXCEPT ![r] = Idle]
      BY <2>1, <2>3, RoomFrame DEF SeqInv, RowsInv
    <3>2. rooms[c].status = "waiting"
      BY <3>1, OnItsWay DEF SeqInv, StillSo
    <3>3. /\ Idle.pc = "idle" /\ request'[r] = Idle
          /\ \A t \in Requests \ {r} : request'[t] = request[t]
      BY <3>1 DEF Idle, Request, SeqInv, RowsInv, TypeOK
    <3>4. ASSUME NEW t \in Requests, LeaveCommit(t) PROVE FALSE
      BY <3>1, <3>3, <3>4 DEF LeaveCommit, Reply, SeqInv, RowsInv, TypeOK
    <3>5. ~\E u \in Users, d \in RoomCodes, n \in MaxPlayersAsked : CreateRoom(u, d, n)
      BY <3>1, <3>3 DEF CreateRoom
    <3>6. \E t \in Requests : AddUserToRoom(t)
      BY <2>1, <3>4, <3>5
         DEF Next, Arrive, Step, Abort, JoinLookup, LeaveLookup, StartLookup, JoinMember,
             JoinCount, LeaveMember, RemoveUser, CountLeft, CountUsers, CountReady,
             InsertGame, UpdateRoomStatus, StartCommit, UpdateUserReady, tables
    <3> QED
      BY <3>2, <3>6 DEF AddUserToRoom
  <2> QED
    BY <2>2, <2>3
<1> QED
  BY <1>1, <1>2, SeqInvAlways, PTL DEF SerialSpec, JoinOnlyWaiting
=============================================================================
