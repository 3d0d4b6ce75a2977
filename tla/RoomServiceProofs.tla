------------------------- MODULE RoomServiceProofs -------------------------
(***************************************************************************)
(* Theorems about RoomService for any users, room codes, limits and number *)
(* of requests in flight.                                                  *)
(***************************************************************************)
EXTENDS RoomService, SequenceTheorems, FiniteSetTheorems, TLAPS

(* The rows that remain when a user's row is deleted.                      *)

\* Deleting u's row leaves a list of the same users, one shorter, that still
\* has every other user.
LEMMA WithoutIsShorter ==
    ASSUME NEW S, NEW s \in Seq(S), NEW u \in Rows(s)
    PROVE  /\ Without(s, u) \in Seq(S)
           /\ Len(Without(s, u)) = Len(s) - 1
           /\ \A k \in 1..Len(s) : s[k] # u =>
                  \E j \in 1..(Len(s) - 1) : Without(s, u)[j] = s[k]
<1> DEFINE d == CHOOSE j \in 1..Len(s) : s[j] = u
           w == [j \in 1..(Len(s) - 1) |-> IF j < d THEN s[j] ELSE s[j + 1]]
<1>1. Len(s) \in Nat /\ s \in [1..Len(s) -> S]
  BY LenProperties
<1>2. d \in 1..Len(s) /\ s[d] = u
  BY DEF Rows
<1>3. Without(s, u) = w
  BY DEF Without
<1>4. \A j \in 1..(Len(s) - 1) : w[j] \in S
  BY <1>1, <1>2
<1>5. w \in Seq(S) /\ Len(w) = Len(s) - 1
  <2>1. Len(s) - 1 \in Nat
    BY <1>1, <1>2
  <2> QED  BY <1>4, <2>1, SeqDef, LenProperties
<1>6. ASSUME NEW k \in 1..Len(s), s[k] # u
      PROVE  \E j \in 1..(Len(s) - 1) : w[j] = s[k]
  <2>1. CASE k < d
    <3>1. k \in 1..(Len(s) - 1) /\ w[k] = s[k]
      BY <1>1, <1>2, <2>1
    <3> QED  BY <3>1
  <2>2. CASE d < k
    <3>1. k - 1 \in 1..(Len(s) - 1) /\ w[k - 1] = s[k]
      BY <1>1, <1>2, <2>2
    <3> QED  BY <3>1
  <2>3. k < d \/ d < k
    BY <1>1, <1>2, <1>6
  <2> QED  BY <2>1, <2>2, <2>3
<1> QED  BY <1>3, <1>5, <1>6

\* In a list without repetitions, deleting u's row leaves no row of u's and no
\* repetition.
LEMMA WithoutKeepsDistinct ==
    ASSUME NEW S, NEW s \in Seq(S), NEW u \in Rows(s),
           \A j, k \in 1..Len(s) : s[j] = s[k] => j = k
    PROVE  /\ \A j \in 1..(Len(s) - 1) : Without(s, u)[j] # u
           /\ \A j \in 1..(Len(s) - 1) : \E k \in 1..Len(s) : Without(s, u)[j] = s[k]
           /\ \A j, k \in 1..(Len(s) - 1) : Without(s, u)[j] = Without(s, u)[k] => j = k
<1> DEFINE d == CHOOSE j \in 1..Len(s) : s[j] = u
           w == [j \in 1..(Len(s) - 1) |-> IF j < d THEN s[j] ELSE s[j + 1]]
           at(j) == IF j < d THEN j ELSE j + 1
<1>1. Len(s) \in Nat
  BY LenProperties
<1>2. d \in 1..Len(s) /\ s[d] = u
  BY DEF Rows
<1>3. Without(s, u) = w
  BY DEF Without
<1>4. \A j \in 1..(Len(s) - 1) :
          at(j) \in 1..Len(s) /\ at(j) # d /\ w[j] = s[at(j)]
  BY <1>1, <1>2
<1>5. \A j, k \in 1..(Len(s) - 1) : at(j) = at(k) => j = k
  BY <1>1, <1>2
<1> HIDE DEF at, w, d
<1>6. ASSUME NEW j \in 1..(Len(s) - 1)
      PROVE  w[j] # u /\ \E k \in 1..Len(s) : w[j] = s[k]
  BY <1>2, <1>4
<1>7. ASSUME NEW j \in 1..(Len(s) - 1), NEW k \in 1..(Len(s) - 1), w[j] = w[k]
      PROVE  j = k
  <2>1. at(j) \in 1..Len(s) /\ at(k) \in 1..Len(s) /\ s[at(j)] = s[at(k)]
    BY <1>4, <1>7
  <2>2. at(j) = at(k)
    BY <2>1
  <2> QED  BY <1>5, <2>2
<1> QED  BY <1>3, <1>6, <1>7
----------------------------------------------------------------------------
(* Types and rows.                                                         *)

\* Deleting a member's row takes exactly that user off the list of the room.
LEMMA LeftRows ==
    ASSUME TypeOK, RowsUnique, NEW c \in RoomCodes, NEW u \in Members(c)
    PROVE  /\ Left(c, u) \in Seq(Users)
           /\ Len(Left(c, u)) = Len(room_users[c]) - 1
           /\ Rows(Left(c, u)) = Members(c) \ {u}
           /\ \A j, k \in 1..Len(Left(c, u)) : Left(c, u)[j] = Left(c, u)[k] => j = k
<1> DEFINE s == room_users[c]
<1>1. s \in Seq(Users)
  BY DEF TypeOK
<1>2. u \in Rows(s)
  BY DEF Members
<1>3. \A j, k \in 1..Len(s) : s[j] = s[k] => j = k
  BY DEF RowsUnique
<1> HIDE DEF s
<1>4. /\ Without(s, u) \in Seq(Users)
      /\ Len(Without(s, u)) = Len(s) - 1
      /\ \A k \in 1..Len(s) : s[k] # u =>
             \E j \in 1..(Len(s) - 1) : Without(s, u)[j] = s[k]
  BY <1>1, <1>2, WithoutIsShorter
<1>5. /\ \A j \in 1..(Len(s) - 1) : Without(s, u)[j] # u
      /\ \A j \in 1..(Len(s) - 1) : \E k \in 1..Len(s) : Without(s, u)[j] = s[k]
      /\ \A j, k \in 1..(Len(s) - 1) : Without(s, u)[j] = Without(s, u)[k] => j = k
  BY <1>1, <1>2, <1>3, WithoutKeepsDistinct
<1>6. Rows(Without(s, u)) = Rows(s) \ {u}
  <2> DEFINE w == Without(s, u)
  <2>1. Len(w) = Len(s) - 1
    BY <1>4
  <2>2. ASSUME NEW x \in Rows(w) PROVE x \in Rows(s) \ {u}
    BY <1>5, <2>1 DEF Rows
  <2>3. ASSUME NEW x \in Rows(s) \ {u} PROVE x \in Rows(w)
    BY <1>4, <2>1 DEF Rows
  <2> QED  BY <2>2, <2>3
<1> QED  BY <1>4, <1>5, <1>6 DEF Left, Members, s

\* The initial state is well typed and has no rows and no transactions.
LEMMA RowsInit == Init => TypeOK /\ OneRowOneLeave
<1> SUFFICES ASSUME Init PROVE TypeOK /\ OneRowOneLeave
  OBVIOUS
<1>1. \A c \in RoomCodes : room_users[c] = <<>> /\ Len(room_users[c]) = 0
  BY DEF Init
<1>2. \A r \in Requests : request[r] = Idle /\ request[r].pc = "idle"
  BY DEF Init, Idle, Request
<1>3. TypeOK
  <2>1. rooms \in [RoomCodes -> RowType]
    BY DEF Init, NoRoom, RowType
  <2>2. request \in [Requests -> RequestType]
    BY DEF Init, Idle, Request, RequestType
  <2>3. \A c \in RoomCodes : ready[c] = {}
    BY DEF Init
  <2> QED  BY <1>2, <2>1, <2>2, <2>3 DEF Init, TypeOK
<1>4. OneRowOneLeave
  BY <1>1, <1>2 DEF OneRowOneLeave, RowsUnique, LeaversPresent, RowLocksExclusive, InLeaveTx
<1> QED  BY <1>3, <1>4

\* A step that gives one slot new locals and writes no table.
LEMMA SlotStep ==
    ASSUME TypeOK, OneRowOneLeave, NEW r \in Requests, NEW q \in RequestType,
           UNCHANGED tables, request' = [request EXCEPT ![r] = q],
           q.pc # "idle" => q.user \in Users /\ q.code \in RoomCodes,
           q.pc \in {"leave_count", "leave_commit"} =>
               /\ q.user \in Members(q.code)
               /\ \A s \in Requests \ {r} :
                      ~(InLeaveTx(s) /\ request[s].user = q.user /\ request[s].code = q.code)
    PROVE  TypeOK' /\ OneRowOneLeave'
<1>1. request' \in [Requests -> RequestType]
  BY DEF TypeOK
<1>2. request'[r] = q /\ \A s \in Requests \ {r} : request'[s] = request[s]
  BY DEF TypeOK
<1>3. TypeOK'
  BY <1>1, <1>2 DEF TypeOK, tables, Members
<1>4. RowsUnique' /\ LeaversPresent'
  BY <1>2 DEF OneRowOneLeave, RowsUnique, LeaversPresent, InLeaveTx, Members, tables
<1>5. RowLocksExclusive'
  BY <1>2 DEF OneRowOneLeave, RowLocksExclusive, InLeaveTx
<1> QED  BY <1>3, <1>4, <1>5 DEF OneRowOneLeave

\* Answering a request frees its slot.
LEMMA ReplyStep ==
    ASSUME TypeOK, OneRowOneLeave, NEW r \in Requests, UNCHANGED tables, Reply(r)
    PROVE  TypeOK' /\ OneRowOneLeave'
<1>1. Idle \in RequestType /\ Idle.pc = "idle"
  BY DEF Idle, Request, RequestType
<1> QED  BY <1>1, SlotStep DEF Reply

\* A request that goes on to another statement keeps its locals.
LEMMA GoToStep ==
    ASSUME TypeOK, OneRowOneLeave, NEW r \in Requests, UNCHANGED tables,
           NEW pc \in {"join_count", "join_insert", "leave_remove", "leave_count"},
           GoTo(r, pc), request[r].pc # "idle",
           pc = "leave_count" =>
               /\ request[r].user \in Members(request[r].code)
               /\ RowFree(request[r].user, request[r].code)
    PROVE  TypeOK' /\ OneRowOneLeave'
<1> DEFINE q == [request[r] EXCEPT !.pc = pc]
<1>1. request[r] \in RequestType /\ request[r].user \in Users /\ request[r].code \in RoomCodes
  BY DEF TypeOK
<1>2. /\ q \in RequestType
      /\ q.pc = pc /\ q.user = request[r].user /\ q.code = request[r].code
  BY <1>1 DEF RequestType
<1>3. request' = [request EXCEPT ![r] = q]
  BY <1>1 DEF GoTo, TypeOK
<1> HIDE DEF q
<1> QED  BY <1>1, <1>2, <1>3, SlotStep DEF RowFree

\* A new request arrives with the locals of its handler's first statement.
LEMMA ArriveStep ==
    ASSUME TypeOK, OneRowOneLeave, NEW r \in Requests, Arrive(r)
    PROVE  TypeOK' /\ OneRowOneLeave'
<1> PICK u \in Users, c \in RoomCodes :
        JoinLookup(r, u, c) \/ LeaveLookup(r, u, c) \/ StartLookup(r, u, c)
  BY DEF Arrive
<1>1. CASE JoinLookup(r, u, c)
  <2>1. Request("join_member", u, c) \in RequestType
    BY DEF Request, RequestType
  <2> QED  BY <1>1, <2>1, SlotStep DEF JoinLookup, Request
<1>2. CASE LeaveLookup(r, u, c)
  <2> DEFINE q == [Request("leave_member", u, c) EXCEPT !.hosted = (rooms[c].owner_id = u)]
  <2>1. q \in RequestType /\ q.pc = "leave_member" /\ q.user = u /\ q.code = c
    BY DEF Request, RequestType
  <2> HIDE DEF q
  <2>2. UNCHANGED tables /\ request' = [request EXCEPT ![r] = q]
    BY <1>2 DEF LeaveLookup, q
  <2> QED  BY <2>1, <2>2, SlotStep
<1>3. CASE StartLookup(r, u, c)
  <2> DEFINE q == [Request("start_users", u, c) EXCEPT
                       !.playing = (rooms[c].status = "playing")]
  <2>1. q \in RequestType /\ q.pc = "start_users" /\ q.user = u /\ q.code = c
    BY DEF Request, RequestType
  <2> HIDE DEF q
  <2>2. UNCHANGED tables /\ request' = [request EXCEPT ![r] = q]
    BY <1>3 DEF StartLookup, q
  <2> QED  BY <2>1, <2>2, SlotStep
<1> QED  BY <1>1, <1>2, <1>3

\* The snapshot of a leave transaction, and the counts of a start, are locals.
LEMMA CountStep ==
    ASSUME TypeOK, OneRowOneLeave, NEW r \in Requests,
           CountLeft(r) \/ CountUsers(r) \/ CountReady(r)
    PROVE  TypeOK' /\ OneRowOneLeave'
<1> DEFINE q == request[r]
<1>1. q \in RequestType /\ (q.pc # "idle" => q.user \in Users /\ q.code \in RoomCodes)
  BY DEF TypeOK
<1>2. CASE CountLeft(r)
  <2>1. InLeaveTx(r) /\ q.pc # "idle"
    BY <1>2 DEF CountLeft, InLeaveTx
  <2>2. q.user \in Members(q.code)
    BY <2>1 DEF OneRowOneLeave, LeaversPresent
  <2>3. Left(q.code, q.user) \in Seq(Users)
    BY <1>1, <2>1, <2>2, LeftRows DEF OneRowOneLeave
  <2> DEFINE left == Left(q.code, q.user)
             count == IF left = <<>> THEN 0 ELSE 1
             heir == IF q.hosted /\ left # <<>> THEN left[1] ELSE NoUser
             p == [q EXCEPT !.pc = "leave_commit", !.count = count, !.heir = heir]
  <2>4. p \in RequestType /\ p.pc = "leave_commit" /\ p.user = q.user /\ p.code = q.code
    <3>1. heir \in Users \union {NoUser}
      BY <2>3, EmptySeq, LenProperties
    <3>2. count \in Nat
      OBVIOUS
    <3> HIDE DEF heir, count
    <3> QED  BY <1>1, <3>1, <3>2 DEF RequestType
  <2>5. UNCHANGED tables /\ request' = [request EXCEPT ![r] = p]
    BY <1>2 DEF CountLeft
  <2>6. \A s \in Requests \ {r} :
            ~(InLeaveTx(s) /\ request[s].user = q.user /\ request[s].code = q.code)
    BY <2>1 DEF OneRowOneLeave, RowLocksExclusive
  <2> HIDE DEF p
  <2> QED  BY <1>1, <2>1, <2>2, <2>4, <2>5, <2>6, SlotStep
<1>3. CASE CountUsers(r)
  <2> DEFINE p == [q EXCEPT !.pc = "start_ready", !.count = Len(room_users[q.code])]
  <2>1. Len(room_users[q.code]) \in Nat
    BY <1>1, <1>3, LenProperties DEF CountUsers, TypeOK
  <2>2. p \in RequestType /\ p.pc = "start_ready" /\ p.user = q.user /\ p.code = q.code
    BY <1>1, <2>1 DEF RequestType
  <2>3. UNCHANGED tables /\ request' = [request EXCEPT ![r] = p] /\ q.pc # "idle"
    BY <1>3 DEF CountUsers
  <2> HIDE DEF p
  <2> QED  BY <1>1, <2>2, <2>3, SlotStep
<1>4. CASE CountReady(r)
  <2> DEFINE p == Request("start_insert", q.user, q.code)
  <2>1. UNCHANGED tables /\ q.pc # "idle"
    BY <1>4 DEF CountReady
  <2>2. p \in RequestType /\ p.pc = "start_insert" /\ p.user = q.user /\ p.code = q.code
    BY <1>1, <2>1 DEF Request, RequestType
  <2>3. CASE request' = [request EXCEPT ![r] = p]
    BY <1>1, <2>1, <2>2, <2>3, SlotStep
  <2>4. CASE Reply(r)
    BY <2>1, <2>4, ReplyStep
  <2> QED  BY <1>4, <2>3, <2>4 DEF CountReady
<1> QED  BY <1>2, <1>3, <1>4

\* The writes of an open start transaction are locals too.
LEMMA StartTxStep ==
    ASSUME TypeOK, OneRowOneLeave, NEW r \in Requests, InsertGame(r) \/ UpdateRoomStatus(r)
    PROVE  TypeOK' /\ OneRowOneLeave'
<1> DEFINE q == request[r]
<1>1. q \in RequestType /\ q.pc # "idle" /\ q.user \in Users /\ q.code \in RoomCodes
  BY DEF TypeOK, InsertGame, UpdateRoomStatus
<1>2. CASE InsertGame(r)
  <2> DEFINE p == [q EXCEPT !.pc = "start_update", !.tx = {"game"}]
  <2>1. p \in RequestType /\ p.pc = "start_update" /\ p.user = q.user /\ p.code = q.code
    BY <1>1 DEF RequestType
  <2>2. UNCHANGED tables /\ request' = [request EXCEPT ![r] = p]
    BY <1>2 DEF InsertGame
  <2> HIDE DEF p
  <2> QED  BY <1>1, <2>1, <2>2, SlotStep
<1>3. CASE UpdateRoomStatus(r)
  <2> DEFINE written == q.tx \union {"playing"}
             p == [q EXCEPT !.pc = "start_commit", !.tx = written]
  <2>1. written \in SUBSET {"game", "playing"}
    BY <1>1 DEF RequestType
  <2>2. UNCHANGED tables /\ request' = [request EXCEPT ![r] = p]
    BY <1>3 DEF UpdateRoomStatus
  <2> HIDE DEF written
  <2>3. p \in RequestType /\ p.pc = "start_commit" /\ p.user = q.user /\ p.code = q.code
    BY <1>1, <2>1 DEF RequestType
  <2> HIDE DEF p
  <2> QED  BY <1>1, <2>2, <2>3, SlotStep
<1> QED  BY <1>2, <1>3

\* Requests are about rooms that exist, and a room that does not has no rows.
RoomsExist ==
    /\ \A r \in Requests : request[r].pc # "idle" => rooms[request[r].code].status # "absent"
    /\ \A c \in RoomCodes : rooms[c].status = "absent" => room_users[c] = <<>>

\* A new room's only row is its owner's; nobody is joining or leaving it yet.
LEMMA CreateStep ==
    ASSUME TypeOK, OneRowOneLeave, RoomsExist,
           NEW u \in Users, NEW c \in RoomCodes, NEW asked \in MaxPlayersAsked,
           CreateRoom(u, c, asked)
    PROVE  TypeOK' /\ OneRowOneLeave'
<1>1. /\ rooms[c].status = "absent" /\ room_users[c] = <<>>
      /\ rooms' = [rooms EXCEPT ![c] =
             [status |-> "waiting", max_players |-> Capacity(asked), owner_id |-> u]]
      /\ room_users' = [room_users EXCEPT ![c] = <<u>>]
      /\ UNCHANGED <<ready, games, request>>
  BY DEF CreateRoom, RoomsExist
<1>2. rooms' \in [RoomCodes -> RowType]
  <2>1. Capacity(asked) \in Nat
    BY ServiceAssumption DEF Capacity
  <2> QED  BY <1>1, <2>1 DEF TypeOK, RowType
<1>3. /\ room_users' \in [RoomCodes -> Seq(Users)]
      /\ room_users'[c] = <<u>>
      /\ \A d \in RoomCodes \ {c} : room_users'[d] = room_users[d]
  BY <1>1 DEF TypeOK
<1>4. Members(c) = {} /\ Members(c)' = {u}
  BY <1>1, <1>3 DEF Members, Rows
<1>5. \A d \in RoomCodes : Members(d) \subseteq Members(d)'
  BY <1>3, <1>4 DEF Members
<1>6. TypeOK'
  BY <1>1, <1>2, <1>3, <1>5 DEF TypeOK
<1>7. RowsUnique'
  BY <1>3 DEF OneRowOneLeave, RowsUnique
<1>8. LeaversPresent'
  <2> SUFFICES ASSUME NEW r \in Requests, InLeaveTx(r)
               PROVE  request[r].user \in Members(request[r].code)'
    BY <1>1 DEF LeaversPresent, InLeaveTx
  <2>1. request[r].user \in Members(request[r].code) /\ request[r].code \in RoomCodes
    BY DEF OneRowOneLeave, LeaversPresent, TypeOK, InLeaveTx
  <2> QED  BY <1>5, <2>1, <1>1
<1>9. RowLocksExclusive'
  BY <1>1 DEF OneRowOneLeave, RowLocksExclusive, InLeaveTx
<1> QED  BY <1>6, <1>7, <1>8, <1>9 DEF OneRowOneLeave

\* A join's insert appends a row for a user who had none, or does nothing.
LEMMA InsertStep ==
    ASSUME TypeOK, OneRowOneLeave, NEW r \in Requests, AddUserToRoom(r)
    PROVE  TypeOK' /\ OneRowOneLeave'
<1> DEFINE q == request[r]
<1>1. q.pc = "join_insert" /\ q.user \in Users /\ q.code \in RoomCodes
  BY DEF AddUserToRoom, TypeOK
<1>2. CASE q.user \in Members(q.code)
  <2>1. UNCHANGED tables /\ Reply(r)
    BY <1>2 DEF AddUserToRoom, tables
  <2> QED  BY <2>1, ReplyStep
<1>3. CASE q.user \notin Members(q.code)
  <2> DEFINE c == q.code
             u == q.user
  <2>1. /\ room_users' = [room_users EXCEPT ![c] = Append(@, u)]
        /\ UNCHANGED <<rooms, ready, games>>
        /\ request' = [request EXCEPT ![r] = Idle]
    BY <1>3 DEF AddUserToRoom, Reply
  <2>2. room_users[c] \in Seq(Users)
    BY <1>1 DEF TypeOK
  <2>3. /\ Append(room_users[c], u) \in Seq(Users)
        /\ Len(Append(room_users[c], u)) = Len(room_users[c]) + 1
        /\ \A i \in 1..Len(room_users[c]) : Append(room_users[c], u)[i] = room_users[c][i]
        /\ Append(room_users[c], u)[Len(room_users[c]) + 1] = u
        /\ Len(room_users[c]) \in Nat
    BY <1>1, <2>2, AppendProperties, LenProperties
  <2>4. /\ room_users' \in [RoomCodes -> Seq(Users)]
        /\ room_users'[c] = Append(room_users[c], u)
        /\ \A d \in RoomCodes \ {c} : room_users'[d] = room_users[d]
    BY <1>1, <2>1, <2>3 DEF TypeOK
  <2>5. \A d \in RoomCodes : Members(d) \subseteq Members(d)'
    BY <2>3, <2>4 DEF Members, Rows
  <2>6. /\ request' \in [Requests -> RequestType]
        /\ request'[r].pc = "idle"
        /\ \A s \in Requests \ {r} : request'[s] = request[s]
    BY <2>1 DEF TypeOK, Idle, Request, RequestType
  <2>7. TypeOK'
    BY <2>1, <2>4, <2>5, <2>6 DEF TypeOK
  <2>8. RowsUnique'
    <3>1. \A i \in 1..Len(room_users[c]) : room_users[c][i] # u
      BY <1>3 DEF Members, Rows
    <3>2. \A i, j \in 1..Len(room_users'[c]) : room_users'[c][i] = room_users'[c][j] => i = j
      <4>1. \A i \in 1..Len(room_users'[c]) :
                i \in 1..Len(room_users[c]) \/ i = Len(room_users[c]) + 1
        BY <2>3, <2>4
      <4>2. \A i, j \in 1..Len(room_users[c]) : room_users[c][i] = room_users[c][j] => i = j
        BY <1>1 DEF OneRowOneLeave, RowsUnique
      <4> HIDE DEF c, u
      <4> QED  BY <2>3, <2>4, <3>1, <4>1, <4>2
    <3> QED  BY <2>4, <3>2 DEF OneRowOneLeave, RowsUnique
  <2>9. LeaversPresent' /\ RowLocksExclusive'
    <3>1. \A s \in Requests : InLeaveTx(s)' => s # r /\ InLeaveTx(s) /\ request'[s] = request[s]
      BY <2>6 DEF InLeaveTx
    <3>2. \A s \in Requests : InLeaveTx(s) => request[s].code \in RoomCodes
      BY DEF InLeaveTx, TypeOK
    <3> QED  BY <2>5, <3>1, <3>2 DEF OneRowOneLeave, LeaversPresent, RowLocksExclusive
  <2> QED  BY <2>7, <2>8, <2>9 DEF OneRowOneLeave
<1> QED  BY <1>2, <1>3

\* A leave's commit deletes the row its transaction holds, which no other does.
LEMMA LeaveStep ==
    ASSUME TypeOK, OneRowOneLeave, NEW r \in Requests, LeaveCommit(r)
    PROVE  TypeOK' /\ OneRowOneLeave'
<1> DEFINE q == request[r]
<1>1. /\ q.pc = "leave_commit" /\ q.user \in Users /\ q.code \in RoomCodes
      /\ q.heir \in Users \union {NoUser}
  BY DEF LeaveCommit, TypeOK, RequestType
<1> PICK u \in Users, c \in RoomCodes : u = q.user /\ c = q.code
  BY <1>1
<1>2. u \in Members(c)
  BY <1>1 DEF OneRowOneLeave, LeaversPresent, InLeaveTx
<1>3. /\ room_users' = [room_users EXCEPT ![c] = Left(c, u)]
      /\ ready' = [ready EXCEPT ![c] = @ \ {u}]
      /\ rooms' = IF q.count = 0 THEN [rooms EXCEPT ![c].status = "closed"]
                  ELSE IF q.hosted THEN [rooms EXCEPT ![c].owner_id = q.heir]
                  ELSE rooms
      /\ request' = [request EXCEPT ![r] = Idle]
      /\ games' = games
  BY DEF LeaveCommit, Reply
<1>4. /\ Left(c, u) \in Seq(Users)
      /\ Rows(Left(c, u)) = Members(c) \ {u}
      /\ \A i, j \in 1..Len(Left(c, u)) : Left(c, u)[i] = Left(c, u)[j] => i = j
  BY <1>1, <1>2, LeftRows DEF OneRowOneLeave
<1>5. /\ room_users' \in [RoomCodes -> Seq(Users)]
      /\ room_users'[c] = Left(c, u)
      /\ \A d \in RoomCodes \ {c} : room_users'[d] = room_users[d]
  BY <1>1, <1>3, <1>4 DEF TypeOK
<1>6. rooms' \in [RoomCodes -> RowType]
  <2>1. rooms[c] \in RowType
    BY <1>1 DEF TypeOK
  <2>2. [rooms[c] EXCEPT !.status = "closed"] \in RowType
    BY <2>1 DEF RowType
  <2>3. [rooms[c] EXCEPT !.owner_id = q.heir] \in RowType
    BY <1>1, <2>1 DEF RowType
  <2> QED  BY <1>1, <1>3, <2>2, <2>3 DEF TypeOK
<1>7. /\ Members(c)' = Members(c) \ {u}
      /\ \A d \in RoomCodes \ {c} : Members(d)' = Members(d)
  BY <1>4, <1>5 DEF Members
<1>8. /\ ready' \in [RoomCodes -> SUBSET Users]
      /\ \A d \in RoomCodes : ready'[d] \subseteq Members(d)'
  BY <1>1, <1>3, <1>7 DEF TypeOK
<1>9. /\ request' \in [Requests -> RequestType]
      /\ request'[r].pc = "idle"
      /\ \A s \in Requests \ {r} : request'[s] = request[s]
  BY <1>3 DEF TypeOK, Idle, Request, RequestType
<1>10. TypeOK'
  BY <1>3, <1>5, <1>6, <1>8, <1>9 DEF TypeOK
<1>11. RowsUnique'
  BY <1>4, <1>5 DEF OneRowOneLeave, RowsUnique
<1>12. LeaversPresent' /\ RowLocksExclusive'
  <2>1. \A s \in Requests : InLeaveTx(s)' => s # r /\ InLeaveTx(s) /\ request'[s] = request[s]
    BY <1>9 DEF InLeaveTx
  <2>2. ASSUME NEW s \in Requests, s # r, InLeaveTx(s)
        PROVE  request[s].user # u \/ request[s].code # c
    BY <1>1, <2>2 DEF OneRowOneLeave, RowLocksExclusive, InLeaveTx
  <2>3. \A s \in Requests : InLeaveTx(s) => request[s].code \in RoomCodes
    BY DEF InLeaveTx, TypeOK
  <2>4. LeaversPresent'
    <3> SUFFICES ASSUME NEW s \in Requests, InLeaveTx(s)'
                 PROVE  (request[s].user \in Members(request[s].code))'
      BY DEF LeaversPresent
    <3>1. s # r /\ InLeaveTx(s) /\ request'[s] = request[s]
      BY <2>1
    <3>2. request[s].user \in Members(request[s].code) /\ request[s].code \in RoomCodes
      BY <2>3, <3>1 DEF OneRowOneLeave, LeaversPresent
    <3>3. request[s].user \in Members(request[s].code)'
      BY <1>7, <2>2, <3>1, <3>2
    <3> QED  BY <3>1, <3>3
  <2>5. RowLocksExclusive'
    BY <2>1 DEF OneRowOneLeave, RowLocksExclusive
  <2> QED  BY <2>4, <2>5
<1> QED  BY <1>10, <1>11, <1>12 DEF OneRowOneLeave

\* A start's commit and a ready mark change no row's user.
LEMMA StartAndReadyStep ==
    ASSUME TypeOK, OneRowOneLeave,
           \/ \E r \in Requests : StartCommit(r)
           \/ \E u \in Users, c \in RoomCodes, b \in BOOLEAN : UpdateUserReady(u, c, b)
    PROVE  TypeOK' /\ OneRowOneLeave'
<1>1. ASSUME NEW r \in Requests, StartCommit(r)
      PROVE  TypeOK' /\ OneRowOneLeave'
  <2> DEFINE c == request[r].code
  <2>1. /\ c \in RoomCodes
        /\ games' = [games EXCEPT ![c] = IF "game" \in request[r].tx THEN @ + 1 ELSE @]
        /\ rooms' = [rooms EXCEPT ![c].status =
                         IF "playing" \in request[r].tx THEN "playing" ELSE @]
        /\ request' = [request EXCEPT ![r] = Idle]
        /\ UNCHANGED <<room_users, ready>>
    BY <1>1 DEF StartCommit, Reply, TypeOK
  <2>2. rooms' \in [RoomCodes -> RowType]
    <3>1. rooms[c] \in RowType
      BY <2>1 DEF TypeOK
    <3>2. [rooms[c] EXCEPT !.status = "playing"] \in RowType
      BY <3>1 DEF RowType
    <3>3. [rooms[c] EXCEPT !.status = @] = rooms[c]
      BY <3>1 DEF RowType
    <3> QED  BY <2>1, <3>1, <3>2, <3>3 DEF TypeOK
  <2>3. games' \in [RoomCodes -> Nat]
    BY <2>1 DEF TypeOK
  <2>4. /\ request' \in [Requests -> RequestType]
        /\ request'[r].pc = "idle"
        /\ \A s \in Requests \ {r} : request'[s] = request[s]
    BY <2>1 DEF TypeOK, Idle, Request, RequestType
  <2>5. \A s \in Requests : InLeaveTx(s)' => InLeaveTx(s) /\ request'[s] = request[s]
    BY <2>4 DEF InLeaveTx
  <2>6. TypeOK'
    BY <2>1, <2>2, <2>3, <2>4 DEF TypeOK, Members
  <2>7. OneRowOneLeave'
    BY <2>1, <2>5 DEF OneRowOneLeave, RowsUnique, LeaversPresent, RowLocksExclusive, Members
  <2> QED  BY <2>6, <2>7
<1>2. ASSUME NEW u \in Users, NEW c \in RoomCodes, NEW b \in BOOLEAN, UpdateUserReady(u, c, b)
      PROVE  TypeOK' /\ OneRowOneLeave'
  <2>1. /\ ready' \in [RoomCodes -> SUBSET Users]
        /\ \A d \in RoomCodes : ready'[d] \subseteq Members(d)
        /\ UNCHANGED <<rooms, room_users, games, request>>
    BY <1>2 DEF UpdateUserReady, TypeOK
  <2>2. TypeOK'
    BY <2>1 DEF TypeOK, Members
  <2>3. OneRowOneLeave'
    BY <2>1 DEF OneRowOneLeave, RowsUnique, LeaversPresent, RowLocksExclusive, InLeaveTx, Members
  <2> QED  BY <2>2, <2>3
<1> QED  BY <1>1, <1>2

\* Every statement of a handler keeps types and rows.
LEMMA RowsNext ==
    ASSUME TypeOK, OneRowOneLeave, RoomsExist, Next
    PROVE  TypeOK' /\ OneRowOneLeave'
<1>1. ASSUME NEW u \in Users, NEW c \in RoomCodes, NEW asked \in MaxPlayersAsked,
             CreateRoom(u, c, asked)
      PROVE  TypeOK' /\ OneRowOneLeave'
  BY <1>1, CreateStep
<1>2. ASSUME NEW r \in Requests, Arrive(r)
      PROVE  TypeOK' /\ OneRowOneLeave'
  BY <1>2, ArriveStep
<1>3. ASSUME NEW r \in Requests, Step(r)
      PROVE  TypeOK' /\ OneRowOneLeave'
  <2>1. CASE JoinMember(r)
    BY <2>1, GoToStep, ReplyStep DEF JoinMember
  <2>2. CASE JoinCount(r)
    BY <2>2, GoToStep, ReplyStep DEF JoinCount
  <2>3. CASE AddUserToRoom(r)
    BY <2>3, InsertStep
  <2>4. CASE LeaveMember(r)
    BY <2>4, GoToStep, ReplyStep DEF LeaveMember
  <2>5. CASE RemoveUser(r)
    BY <2>5, GoToStep, ReplyStep DEF RemoveUser
  <2>6. CASE CountLeft(r) \/ CountUsers(r) \/ CountReady(r)
    BY <2>6, CountStep
  <2>7. CASE LeaveCommit(r)
    BY <2>7, LeaveStep
  <2>8. CASE InsertGame(r) \/ UpdateRoomStatus(r)
    BY <2>8, StartTxStep
  <2>9. CASE StartCommit(r)
    BY <2>9, StartAndReadyStep
  <2> QED  BY <1>3, <2>1, <2>2, <2>3, <2>4, <2>5, <2>6, <2>7, <2>8, <2>9 DEF Step
<1>4. ASSUME NEW r \in Requests, Abort(r)
      PROVE  TypeOK' /\ OneRowOneLeave'
  BY <1>4, ReplyStep DEF Abort
<1>5. ASSUME NEW u \in Users, NEW c \in RoomCodes, NEW b \in BOOLEAN, UpdateUserReady(u, c, b)
      PROVE  TypeOK' /\ OneRowOneLeave'
  BY <1>5, StartAndReadyStep
<1> QED  BY <1>1, <1>2, <1>3, <1>4, <1>5 DEF Next

\* A handler changes its own slot only.
LEMMA OthersStay ==
    ASSUME TypeOK, NEW t \in Requests, Arrive(t) \/ Step(t) \/ Abort(t)
    PROVE  \A s \in Requests \ {t} : request'[s] = request[s]
<1>1. \E q : request' = [request EXCEPT ![t] = q]
  <2>1. CASE Reply(t)
    BY <2>1 DEF Reply
  <2>2. ASSUME NEW pc, GoTo(t, pc) PROVE \E q : request' = [request EXCEPT ![t] = q]
    BY <2>2 DEF GoTo, TypeOK
  <2>3. CASE CountLeft(t) \/ CountUsers(t) \/ CountReady(t) \/ InsertGame(t) \/ UpdateRoomStatus(t)
    BY <2>1, <2>3 DEF CountLeft, CountUsers, CountReady, InsertGame, UpdateRoomStatus
  <2>4. CASE Arrive(t)
    BY <2>4 DEF Arrive, JoinLookup, LeaveLookup, StartLookup
  <2>5. CASE \/ JoinMember(t) \/ JoinCount(t) \/ AddUserToRoom(t) \/ LeaveMember(t)
             \/ RemoveUser(t) \/ LeaveCommit(t) \/ StartCommit(t) \/ Abort(t)
    BY <2>1, <2>2, <2>5 DEF JoinMember, JoinCount, AddUserToRoom, LeaveMember, RemoveUser,
       LeaveCommit, StartCommit, Abort
  <2> QED
    BY <2>3, <2>4, <2>5 DEF Step
<1> QED
  BY <1>1 DEF TypeOK

\* A slot changes by a step of its own.
LEMMA OwnStep ==
    ASSUME TypeOK, Next, NEW r \in Requests, request'[r] # request[r]
    PROVE  Arrive(r) \/ Step(r) \/ Abort(r)
  BY OthersStay DEF Next, CreateRoom, UpdateUserReady

\* What any step does to the requests and the rooms: a request goes on about
\* the same room, or is answered, or arrives for a room that exists.
LEMMA RequestFrame ==
    ASSUME TypeOK, Next, NEW r \in Requests, request'[r].pc # "idle"
    PROVE  \/ request[r].pc # "idle" /\ request'[r].code = request[r].code
           \/ /\ request'[r].pc \in {"join_member", "leave_member", "start_users"}
              /\ request'[r].code \in RoomCodes
              /\ rooms[request'[r].code].status # "absent"
<1>1. request \in [Requests -> RequestType]
  BY DEF TypeOK
<1>2. CASE request' = request
  BY <1>2
<1>3. ASSUME NEW t \in Requests, Arrive(t) \/ Step(t) \/ Abort(t)
      PROVE  \/ request'[r] = request[r]
             \/ request[r].pc # "idle" /\ request'[r].code = request[r].code
             \/ /\ request'[r].pc \in {"join_member", "leave_member", "start_users"}
                /\ request'[r].code \in RoomCodes
                /\ rooms[request'[r].code].status # "absent"
  <2>1. CASE t # r
    BY <1>1, <1>3, <2>1
       DEF Arrive, Step, Abort, JoinLookup, JoinMember, JoinCount, AddUserToRoom, LeaveLookup,
           LeaveMember, RemoveUser, CountLeft, LeaveCommit, StartLookup, CountUsers,
           CountReady, InsertGame, UpdateRoomStatus, StartCommit, GoTo, Reply
  <2>2. CASE t = r /\ Arrive(r)
    BY <1>1, <2>2 DEF Arrive, JoinLookup, LeaveLookup, StartLookup, Request
  <2>3. CASE t = r /\ ~Arrive(r)
    <3>1. ~(Abort(r) \/ Reply(r))
      BY <1>1 DEF Abort, Reply, Idle, Request
    <3>2. request[r] \in RequestType
      BY <1>1
    <3>3. \A pc : GoTo(r, pc) => request'[r].code = request[r].code
      BY <1>1, <3>2 DEF GoTo, RequestType
    <3>4. CASE JoinMember(r) \/ JoinCount(r) \/ LeaveMember(r) \/ RemoveUser(r)
      BY <3>1, <3>3, <3>4 DEF JoinMember, JoinCount, LeaveMember, RemoveUser
    <3>5. CASE CountLeft(r)
      BY <1>1, <3>2, <3>5 DEF CountLeft, RequestType
    <3>6. CASE CountUsers(r)
      BY <1>1, <3>2, <3>6 DEF CountUsers, RequestType
    <3>7. CASE CountReady(r)
      BY <1>1, <3>1, <3>7 DEF CountReady, Request
    <3>8. CASE AddUserToRoom(r) \/ LeaveCommit(r) \/ StartCommit(r)
      BY <3>1, <3>8 DEF AddUserToRoom, LeaveCommit, StartCommit
    <3>9. CASE InsertGame(r) \/ UpdateRoomStatus(r)
      <4>1. PICK p, w : request' = [request EXCEPT ![r] = [request[r] EXCEPT !.pc = p, !.tx = w]]
        BY <3>9 DEF InsertGame, UpdateRoomStatus
      <4>2. request'[r].code = request[r].code /\ request[r].pc # "idle"
        BY <1>1, <3>2, <3>9, <4>1 DEF InsertGame, UpdateRoomStatus, RequestType
      <4> QED  BY <4>2
    <3> QED  BY <1>3, <2>3, <3>1, <3>4, <3>5, <3>6, <3>7, <3>8, <3>9 DEF Step
  <2> QED  BY <1>3, <2>1, <2>2, <2>3
<1> QED  BY <1>2, <1>3 DEF Next, CreateRoom, UpdateUserReady

\* What any step does to the rooms: none disappears, its limit stays, and only
\* requests about a room that exists change its rows.
LEMMA RoomFrame ==
    ASSUME TypeOK, OneRowOneLeave, RoomsExist, Next, NEW c \in RoomCodes
    PROVE  \/ /\ rooms[c].status = "absent" /\ rooms'[c].status = "waiting"
              /\ rooms'[c].max_players \in Nat \ {0} /\ Len(room_users'[c]) = 1
              /\ request' = request
           \/ /\ rooms'[c].status = "absent" <=> rooms[c].status = "absent"
              /\ rooms'[c].max_players = rooms[c].max_players
              /\ \/ room_users'[c] = room_users[c]
                 \/ /\ rooms[c].status # "absent"
                    /\ Len(room_users'[c]) + 1 = Len(room_users[c])
                 \/ /\ rooms[c].status # "absent"
                    /\ Len(room_users'[c]) = Len(room_users[c]) + 1
                    /\ \E r \in Requests :
                           /\ request[r].pc = "join_insert" /\ request[r].code = c
                           /\ request' = [request EXCEPT ![r] = Idle]
<1>1. rooms \in [RoomCodes -> RowType] /\ rooms[c] \in RowType
  BY DEF TypeOK
<1>2. room_users \in [RoomCodes -> Seq(Users)]
  BY DEF TypeOK
<1>3. ASSUME NEW u \in Users, NEW d \in RoomCodes, NEW asked \in MaxPlayersAsked,
             CreateRoom(u, d, asked), d = c
      PROVE  /\ rooms[c].status = "absent" /\ rooms'[c].status = "waiting"
             /\ rooms'[c].max_players \in Nat \ {0} /\ Len(room_users'[c]) = 1
             /\ request' = request
  <2>1. Capacity(asked) \in Nat \ {0}
    BY ServiceAssumption DEF Capacity
  <2> QED  BY <1>1, <1>2, <1>3, <2>1 DEF CreateRoom
<1>4. ASSUME NEW u \in Users, NEW d \in RoomCodes, NEW asked \in MaxPlayersAsked,
             CreateRoom(u, d, asked), d # c
      PROVE  rooms'[c] = rooms[c] /\ room_users'[c] = room_users[c]
  BY <1>1, <1>2, <1>4 DEF CreateRoom
<1>5. ASSUME NEW r \in Requests, AddUserToRoom(r), room_users'[c] # room_users[c]
      PROVE  /\ rooms' = rooms /\ rooms[c].status # "absent"
             /\ Len(room_users'[c]) = Len(room_users[c]) + 1
             /\ request[r].pc = "join_insert" /\ request[r].code = c
             /\ request' = [request EXCEPT ![r] = Idle]
  <2>1. /\ request[r].pc = "join_insert" /\ request[r].user \in Users
        /\ request[r].code \in RoomCodes
    BY <1>5 DEF AddUserToRoom, TypeOK
  <2>2. /\ room_users' = [room_users EXCEPT ![request[r].code] = Append(@, request[r].user)]
        /\ rooms' = rooms /\ request' = [request EXCEPT ![r] = Idle]
    BY <1>5 DEF AddUserToRoom, Reply
  <2>3. request[r].code = c
    BY <1>2, <1>5, <2>1, <2>2
  <2>4. Len(Append(room_users[c], request[r].user)) = Len(room_users[c]) + 1
    BY <1>2, <2>1, AppendProperties
  <2> QED  BY <1>2, <2>1, <2>2, <2>3, <2>4 DEF RoomsExist
<1>6. ASSUME NEW r \in Requests, LeaveCommit(r), room_users'[c] # room_users[c]
      PROVE  rooms[c].status # "absent" /\ Len(room_users'[c]) + 1 = Len(room_users[c])
  <2>1. /\ request[r].pc = "leave_commit" /\ request[r].code \in RoomCodes
        /\ room_users' = [room_users EXCEPT ![request[r].code]
                              = Left(request[r].code, request[r].user)]
    BY <1>6 DEF LeaveCommit, TypeOK
  <2>2. request[r].code = c
    BY <1>2, <1>6, <2>1
  <2>3. request[r].user \in Members(c)
    BY <2>1, <2>2 DEF OneRowOneLeave, LeaversPresent, InLeaveTx
  <2>4. Len(Left(c, request[r].user)) = Len(room_users[c]) - 1
    BY <2>3, LeftRows DEF OneRowOneLeave
  <2>5. Len(room_users[c]) \in Nat
    BY <1>2, LenProperties
  <2> QED  BY <1>2, <2>1, <2>2, <2>4, <2>5 DEF RoomsExist
<1>7. ASSUME NEW r \in Requests, Step(r)
      PROVE  /\ rooms'[c].status = "absent" <=> rooms[c].status = "absent"
             /\ rooms'[c].max_players = rooms[c].max_players
             /\ room_users'[c] # room_users[c] => AddUserToRoom(r) \/ LeaveCommit(r)
  <2>1. CASE LeaveCommit(r)
    <3>1. rooms[request[r].code].status # "absent"
      BY <2>1 DEF LeaveCommit, RoomsExist
    <3> QED  BY <1>1, <2>1, <3>1 DEF LeaveCommit, RowType
  <2>2. CASE StartCommit(r)
    <3>1. rooms[request[r].code].status # "absent"
      BY <2>2 DEF StartCommit, RoomsExist
    <3> QED  BY <1>1, <2>2, <3>1 DEF StartCommit, RowType
  <2>3. CASE AddUserToRoom(r)
    BY <2>3 DEF AddUserToRoom
  <2> QED
    BY <1>7, <2>1, <2>2, <2>3
       DEF Step, JoinMember, JoinCount, LeaveMember, RemoveUser, CountLeft, CountUsers,
           CountReady, InsertGame, UpdateRoomStatus, tables
<1>8. CASE UNCHANGED <<rooms, room_users>>
  BY <1>8
<1>9. ASSUME NEW r \in Requests, Arrive(r) \/ Abort(r)
      PROVE  UNCHANGED <<rooms, room_users>>
  BY <1>9 DEF Arrive, Abort, JoinLookup, LeaveLookup, StartLookup, tables
<1> QED  BY <1>3, <1>4, <1>5, <1>6, <1>7, <1>8, <1>9 DEF Next, UpdateUserReady

\* A row of rooms, once inserted, stays, so requests name rooms that exist.
LEMMA RoomsExistNext ==
    ASSUME TypeOK, OneRowOneLeave, RoomsExist, Next
    PROVE  RoomsExist'
<1>1. ASSUME NEW r \in Requests, request'[r].pc # "idle"
      PROVE  rooms'[request'[r].code].status # "absent"
  <2>1. PICK d \in RoomCodes : d = request'[r].code /\ rooms[d].status # "absent"
    BY <1>1, RequestFrame DEF RoomsExist, TypeOK
  <2> QED  BY <2>1, RoomFrame
<1>2. ASSUME NEW c \in RoomCodes, rooms'[c].status = "absent"
      PROVE  room_users'[c] = <<>>
  BY <1>2, RoomFrame DEF RoomsExist
<1> QED  BY <1>1, <1>2 DEF RoomsExist

\* A start that has updated the room's row has inserted the game before, in the
\* same transaction.
TxWhole ==
    \A r \in Requests :
        /\ request[r].pc = "start_update" => request[r].tx = {"game"}
        /\ request[r].pc = "start_commit" => request[r].tx = {"game", "playing"}

\* Only the two statements of the transaction bring a start to its update and
\* to its commit.
LEMMA TxWholeNext ==
    ASSUME TypeOK, TxWhole, Next
    PROVE  TxWhole'
<1> SUFFICES ASSUME NEW r \in Requests, request'[r] # request[r],
                    request'[r].pc \in {"start_update", "start_commit"}
             PROVE  /\ request'[r].pc = "start_update" => request'[r].tx = {"game"}
                    /\ request'[r].pc = "start_commit" => request'[r].tx = {"game", "playing"}
  BY DEF TxWhole
<1>1. request \in [Requests -> RequestType] /\ request[r] \in RequestType
  BY DEF TypeOK
<1>2. ~Reply(r)
  BY <1>1 DEF Reply, Idle, Request
<1>3. \A pc : GoTo(r, pc) => pc \in {"start_update", "start_commit"}
  BY <1>1 DEF GoTo, RequestType
<1>4. ASSUME NEW u \in Users, NEW c \in RoomCodes,
             JoinLookup(r, u, c) \/ LeaveLookup(r, u, c) \/ StartLookup(r, u, c)
      PROVE  FALSE
  <2>1. request'[r].pc \in {"join_member", "leave_member", "start_users"}
    BY <1>1, <1>4 DEF JoinLookup, LeaveLookup, StartLookup, Request
  <2> QED  BY <2>1
<1>5. ~CountLeft(r) /\ ~CountUsers(r) /\ ~CountReady(r)
  <2>1. CountLeft(r) => request'[r].pc = "leave_commit"
    BY <1>1 DEF CountLeft, RequestType
  <2>2. CountUsers(r) => request'[r].pc = "start_ready"
    BY <1>1 DEF CountUsers, RequestType
  <2>3. CountReady(r) => request'[r].pc = "start_insert"
    BY <1>1, <1>2 DEF CountReady, Request
  <2> QED  BY <2>1, <2>2, <2>3
<1>6. ~(JoinMember(r) \/ JoinCount(r) \/ LeaveMember(r) \/ RemoveUser(r))
  BY <1>2, <1>3 DEF JoinMember, JoinCount, LeaveMember, RemoveUser
<1>7. ~(AddUserToRoom(r) \/ LeaveCommit(r) \/ StartCommit(r) \/ Abort(r))
  BY <1>2 DEF AddUserToRoom, LeaveCommit, StartCommit, Abort
<1>8. CASE InsertGame(r)
  BY <1>1, <1>8 DEF InsertGame, RequestType
<1>9. CASE UpdateRoomStatus(r)
  <2>1. request[r].tx = {"game"}
    BY <1>9 DEF UpdateRoomStatus, TxWhole
  <2>2. request'[r].pc = "start_commit" /\ request'[r].tx = request[r].tx \union {"playing"}
    BY <1>1, <1>9 DEF UpdateRoomStatus, RequestType
  <2> QED  BY <2>1, <2>2
<1> QED  BY <1>4, <1>5, <1>6, <1>7, <1>8, <1>9, OwnStep DEF Step, Arrive

\* The inductive invariant of types, rows and start transactions.
RowsInv == TypeOK /\ OneRowOneLeave /\ RoomsExist /\ TxWhole

\* Every step keeps rows and leave transactions paired up.
LEMMA RowsInvNext == RowsInv /\ [Next]_vars => RowsInv'
<1> SUFFICES ASSUME RowsInv, [Next]_vars PROVE RowsInv'
  OBVIOUS
<1> USE DEF RowsInv
<1>1. CASE Next
  BY <1>1, RowsNext, RoomsExistNext, TxWholeNext
<1>2. CASE UNCHANGED vars
  BY <1>2 DEF vars, TypeOK, OneRowOneLeave, RowsUnique, LeaversPresent, RowLocksExclusive,
              InLeaveTx, RoomsExist, Members, TxWhole
<1> QED  BY <1>1, <1>2

\* So do all reachable states.
LEMMA RowsInvAlways == Spec => []RowsInv
<1>1. Init => RowsInv
  <2>1. Init => RoomsExist /\ TxWhole
    BY DEF Init, RoomsExist, TxWhole, Idle, Request
  <2> QED  BY <2>1, RowsInit DEF RowsInv
<1> QED  BY <1>1, RowsInvNext, PTL DEF Spec

\* The tables and requests are well typed in every reachable state, and only a
\* row that exists is marked ready.
THEOREM TypesCorrect == Spec => []TypeOK
<1>1. RowsInv => TypeOK
  BY DEF RowsInv
<1> QED  BY <1>1, RowsInvAlways, PTL

\* Rows and leave transactions pair up: at most one row for a user in a room, at
\* most one transaction deleting it, and that row is there until it commits.
THEOREM RowsCorrect == Spec => []OneRowOneLeave
<1>1. RowsInv => OneRowOneLeave
  BY DEF RowsInv
<1> QED  BY <1>1, RowsInvAlways, PTL

----------------------------------------------------------------------------
(* Capacity.                                                               *)

\* The joins that have passed the count and will insert a row.
Inserting(c) == {r \in Requests : request[r].pc = "join_insert" /\ request[r].code = c}

\* Each of them was admitted by a count taken before the others' inserts, so a
\* room's rows and pending inserts are bounded together.
RoomFits ==
    \A c \in RoomCodes : rooms[c].status # "absent" =>
        /\ rooms[c].max_players >= 1
        /\ Len(room_users[c]) + Cardinality(Inserting(c)) + 1
               <= rooms[c].max_players + Cardinality(Requests)

\* Only the count lets a join go on to its insert, and only below the limit.
LEMMA OnlyCountAdmits ==
    ASSUME TypeOK, Next, NEW r \in Requests, request'[r].pc = "join_insert",
           request[r].pc # "join_insert"
    PROVE  /\ UNCHANGED tables
           /\ \A t \in Requests \ {r} : request'[t] = request[t]
           /\ ~(Len(room_users[request[r].code]) >= rooms[request[r].code].max_players)
           /\ request'[r].code = request[r].code
           /\ request[r].code \in RoomCodes
<1>1. request \in [Requests -> RequestType] /\ request[r] \in RequestType
  BY DEF TypeOK
<1>2. request'[r] # request[r]
  OBVIOUS
<1>3. ASSUME NEW t \in Requests, Arrive(t) \/ Abort(t)
      PROVE  FALSE
  <2>1. ASSUME NEW q, request' = [request EXCEPT ![t] = q],
               q.pc \in {"idle", "join_member", "leave_member", "start_users"}
        PROVE  FALSE
    BY <1>1, <2>1
  <2>3. Idle.pc = "idle"
    BY DEF Idle, Request
  <2>4. ~Abort(t)
    BY <2>1, <2>3 DEF Abort, Reply
  <2>5. ASSUME NEW u \in Users, NEW c \in RoomCodes
        PROVE  ~(JoinLookup(t, u, c) \/ LeaveLookup(t, u, c) \/ StartLookup(t, u, c))
    <3> DEFINE join == Request("join_member", u, c)
               leave == [Request("leave_member", u, c) EXCEPT !.hosted = (rooms[c].owner_id = u)]
               start == [Request("start_users", u, c) EXCEPT
                             !.playing = (rooms[c].status = "playing")]
    <3>1. join.pc = "join_member" /\ leave.pc = "leave_member" /\ start.pc = "start_users"
      BY DEF Request
    <3>2. /\ JoinLookup(t, u, c) => request' = [request EXCEPT ![t] = join]
          /\ LeaveLookup(t, u, c) => request' = [request EXCEPT ![t] = leave]
          /\ StartLookup(t, u, c) => request' = [request EXCEPT ![t] = start]
      BY DEF JoinLookup, LeaveLookup, StartLookup
    <3> HIDE DEF join, leave, start
    <3> QED  BY <2>1, <3>1, <3>2
  <2>6. ~Arrive(t)
    BY <2>5 DEF Arrive
  <2> QED  BY <1>3, <2>4, <2>6
<1>4. PICK t \in Requests : Step(t)
  BY <1>2, <1>3 DEF Next, CreateRoom, UpdateUserReady
<1>5. \A p : Reply(p) => request'[r].pc # "join_insert"
  BY <1>1 DEF Reply, Idle, Request
<1>6. CASE JoinCount(t)
  BY <1>1, <1>2, <1>5, <1>6 DEF JoinCount, GoTo, TypeOK, RequestType
<1>7. CASE CountLeft(t) \/ CountUsers(t)
  <2> DEFINE left == Left(request[t].code, request[t].user)
             n == IF left = <<>> THEN 0 ELSE 1
             h == IF request[t].hosted /\ left # <<>> THEN left[1] ELSE NoUser
             counted == [request[t] EXCEPT !.pc = "leave_commit", !.count = n, !.heir = h]
             users == [request[t] EXCEPT !.pc = "start_ready",
                                         !.count = Len(room_users[request[t].code])]
  <2>1. ASSUME NEW q, request' = [request EXCEPT ![t] = q], q.pc # "join_insert"
        PROVE  FALSE
    BY <1>1, <2>1
  <2>2. request[t] \in RequestType
    BY <1>1
  <2>3. \A m, k : [request[t] EXCEPT !.pc = "leave_commit", !.count = m, !.heir = k].pc
                     # "join_insert"
    BY <2>2 DEF RequestType
  <2>4. \A m : [request[t] EXCEPT !.pc = "start_ready", !.count = m].pc # "join_insert"
    BY <2>2 DEF RequestType
  <2>5. counted.pc # "join_insert"
    BY <2>3
  <2>6. users.pc # "join_insert"
    BY <2>4
  <2>7. /\ CountLeft(t) => request' = [request EXCEPT ![t] = counted]
        /\ CountUsers(t) => request' = [request EXCEPT ![t] = users]
    BY DEF CountLeft, CountUsers
  <2> HIDE DEF counted, users
  <2> QED  BY <1>7, <2>1, <2>5, <2>6, <2>7
<1>8. CASE CountReady(t)
  BY <1>1, <1>5, <1>8 DEF CountReady, Request
<1>9. CASE JoinMember(t) \/ LeaveMember(t) \/ RemoveUser(t)
  <2>1. \A pc : GoTo(t, pc) /\ pc # "join_insert" => request'[r].pc # "join_insert"
    BY <1>1 DEF GoTo
  <2>2. "join_count" # "join_insert" /\ "leave_remove" # "join_insert"
        /\ "leave_count" # "join_insert"
    OBVIOUS
  <2> QED  BY <1>5, <1>9, <2>1, <2>2 DEF JoinMember, LeaveMember, RemoveUser
<1>10. CASE AddUserToRoom(t) \/ LeaveCommit(t) \/ StartCommit(t)
  BY <1>5, <1>10 DEF AddUserToRoom, LeaveCommit, StartCommit
<1>11. CASE InsertGame(t) \/ UpdateRoomStatus(t)
  <2>0. request[t].tx \subseteq {"game", "playing"}
    BY <1>1 DEF RequestType
  <2>1. PICK p \in {"start_update", "start_commit"}, w \in SUBSET {"game", "playing"} :
            request' = [request EXCEPT ![t] = [request[t] EXCEPT !.pc = p, !.tx = w]]
    BY <1>11, <2>0 DEF InsertGame, UpdateRoomStatus
  <2>2. request'[t].pc = p /\ \A z \in Requests \ {t} : request'[z] = request[z]
    BY <1>1, <2>1 DEF RequestType
  <2> QED  BY <1>2, <2>2
<1> QED  BY <1>4, <1>6, <1>7, <1>8, <1>9, <1>10, <1>11 DEF Step

\* The joins about to insert are finitely many, and so are the slots.
LEMMA InsertingFinite ==
    ASSUME NEW c
    PROVE  /\ IsFiniteSet(Inserting(c)) /\ Cardinality(Inserting(c)) \in Nat
           /\ IsFiniteSet(Inserting(c)') /\ Cardinality(Inserting(c)') \in Nat
           /\ IsFiniteSet(Requests) /\ Cardinality(Requests) \in Nat \ {0}
<1>1. IsFiniteSet(Requests) /\ Requests # {}
  BY ServiceAssumption
<1>2. Inserting(c) \subseteq Requests /\ Inserting(c)' \subseteq Requests
  BY DEF Inserting
<1>3. Cardinality(Requests) \in Nat /\ Cardinality(Requests) # 0
  BY <1>1, FS_CardinalityType, FS_EmptySet
<1> QED  BY <1>1, <1>2, <1>3, FS_Subset, FS_CardinalityType

\* The arithmetic of a room that got no new rows and no new pending inserts.
LEMMA SumShrinks ==
    ASSUME NEW l \in Nat, NEW n \in Nat, NEW i \in Nat, NEW j \in Nat,
           NEW m \in Nat, NEW k \in Nat,
           n <= l, j <= i, l + i + 1 <= m + k
    PROVE  n + j + 1 <= m + k
  OBVIOUS

\* Every step keeps rows and joins about to insert within the bound.
LEMMA RoomFitsNext ==
    ASSUME RowsInv, RoomFits, Next
    PROVE  RoomFits'
<1> USE DEF RowsInv
<1> SUFFICES ASSUME NEW c \in RoomCodes, rooms'[c].status # "absent"
             PROVE  /\ rooms'[c].max_players >= 1
                    /\ Len(room_users'[c]) + Cardinality(Inserting(c)') + 1
                           <= rooms'[c].max_players + Cardinality(Requests)
  BY DEF RoomFits, Inserting
<1> DEFINE I == Inserting(c)
           J == Inserting(c)'
<1>1. /\ Cardinality(I) \in Nat /\ Cardinality(J) \in Nat /\ Cardinality(Requests) \in Nat \ {0}
      /\ IsFiniteSet(I) /\ IsFiniteSet(J) /\ IsFiniteSet(Requests)
  BY InsertingFinite
<1>2. /\ Len(room_users[c]) \in Nat /\ rooms[c].max_players \in Nat
      /\ Len(room_users'[c]) \in Nat
  BY RowsNext, LenProperties DEF TypeOK, RowType
<1>3. CASE rooms[c].status = "absent"
  <2>1. /\ rooms'[c].max_players \in Nat \ {0} /\ Len(room_users'[c]) = 1
        /\ request' = request
    BY <1>3, RoomFrame
  <2>2. J = {}
    BY <1>3, <2>1 DEF Inserting, RoomsExist
  <2>3. Cardinality(Inserting(c)') = 0
    BY <2>2, FS_EmptySet
  <2> QED  BY <1>1, <2>1, <2>3
<1>4. CASE rooms[c].status # "absent" /\ J \subseteq I
  <2>1. /\ rooms[c].max_players >= 1 /\ rooms'[c].max_players = rooms[c].max_players
        /\ Len(room_users[c]) + Cardinality(I) + 1 <= rooms[c].max_players + Cardinality(Requests)
    BY <1>4, RoomFrame DEF RoomFits
  <2>2. Cardinality(J) <= Cardinality(I)
    BY <1>1, <1>4, FS_Subset
  <2>3. CASE Len(room_users'[c]) <= Len(room_users[c])
    <3>1. Cardinality(I) \in Nat /\ Cardinality(J) \in Nat /\ Cardinality(Requests) \in Nat
      BY <1>1
    <3> HIDE DEF I, J, RowsInv
    <3>2. Len(room_users'[c]) + Cardinality(J) + 1 <= rooms[c].max_players + Cardinality(Requests)
      BY <1>2, <2>1, <2>2, <2>3, <3>1, SumShrinks
    <3> QED  BY <2>1, <3>2 DEF J
  <2>4. CASE ~(Len(room_users'[c]) <= Len(room_users[c]))
    <3>1. PICK r \in Requests :
              /\ Len(room_users'[c]) = Len(room_users[c]) + 1
              /\ request[r].pc = "join_insert" /\ request[r].code = c
              /\ request' = [request EXCEPT ![r] = Idle]
      BY <1>2, <1>4, <2>4, RoomFrame
    <3>2. r \in I /\ J = I \ {r}
      <4>1. Idle.pc # "join_insert"
        BY DEF Idle, Request
      <4>2. request'[r] = Idle /\ \A t \in Requests \ {r} : request'[t] = request[t]
        BY <3>1 DEF TypeOK
      <4>3. \A t : t \in J <=> t \in I /\ t # r
        BY <4>1, <4>2 DEF Inserting
      <4> QED  BY <3>1, <4>3 DEF Inserting
    <3>3. Cardinality(J) = Cardinality(I) - 1
      BY <1>1, <3>2, FS_RemoveElement
    <3> QED  BY <1>1, <1>2, <2>1, <3>1, <3>3
  <2> QED  BY <2>3, <2>4
<1>5. CASE rooms[c].status # "absent" /\ ~(J \subseteq I)
  <2>1. PICK r \in Requests : r \in J /\ r \notin I
    BY <1>5 DEF Inserting
  <2>2. request'[r].pc = "join_insert" /\ request'[r].code = c
    BY <2>1 DEF Inserting
  <2>3. request[r].pc # "join_insert"
    BY <2>1, <2>2, RequestFrame DEF Inserting
  <2>4. /\ rooms' = rooms /\ room_users' = room_users
        /\ \A t \in Requests \ {r} : request'[t] = request[t]
        /\ ~(Len(room_users[c]) >= rooms[c].max_players)
    BY <2>2, <2>3, OnlyCountAdmits DEF tables
  <2>5. J = I \union {r}
    BY <2>1, <2>4 DEF Inserting
  <2>6. Cardinality(J) = Cardinality(I) + 1
    BY <1>1, <2>1, <2>5, FS_AddElement
  <2>7. Cardinality(J) <= Cardinality(Requests)
    BY <1>1, FS_Subset DEF Inserting
  <2>8. rooms[c].max_players >= 1
    BY <1>5 DEF RoomFits
  <2> QED  BY <1>1, <1>2, <2>4, <2>7, <2>8
<1> QED  BY <1>3, <1>4, <1>5

\* However many joins overlap, a room is over its limit by at most one player
\* for each request in flight beyond the first.
THEOREM CapacityCorrect == Spec => []CapacityBounded
<1>1. Init => RoomFits
  BY DEF Init, NoRoom, RoomFits
<1>2. RowsInv /\ RoomFits /\ [Next]_vars => RoomFits'
  <2>1. UNCHANGED vars /\ RoomFits => RoomFits'
    BY DEF vars, RoomFits, Inserting
  <2> QED  BY <2>1, RoomFitsNext
<1>3. RowsInv /\ RoomFits => CapacityBounded
  <2> SUFFICES ASSUME RowsInv, RoomFits, NEW c \in RoomCodes, rooms[c].status # "absent"
               PROVE  Len(room_users[c]) + 1 <= rooms[c].max_players + Cardinality(Requests)
    BY DEF CapacityBounded
  <2>1. Cardinality(Inserting(c)) \in Nat /\ Cardinality(Requests) \in Nat
    BY InsertingFinite
  <2>2. Len(room_users[c]) \in Nat /\ rooms[c].max_players \in Nat
    BY LenProperties DEF RowsInv, TypeOK, RowType
  <2> QED  BY <2>1, <2>2 DEF RoomFits
<1> QED  BY <1>1, <1>2, <1>3, RowsInvAlways, PTL DEF Spec

----------------------------------------------------------------------------
(* Games.                                                                  *)

\* A room in play has a game and a room nobody started has none: what a start
\* has written in its open transaction, at whichever statement it stops, shows
\* in neither table.
THEOREM GamesCorrect == Spec => []PlayingHasGame
<1>1. Init => PlayingHasGame
  BY DEF Init, NoRoom, PlayingHasGame
<1>2. RowsInv /\ PlayingHasGame /\ [Next]_vars => PlayingHasGame'
  <2> SUFFICES ASSUME RowsInv, PlayingHasGame, [Next]_vars PROVE PlayingHasGame'
    OBVIOUS
  <2>1. rooms \in [RoomCodes -> RowType] /\ games \in [RoomCodes -> Nat]
    BY DEF RowsInv, TypeOK
  <2>2. CASE UNCHANGED <<rooms, games>>
    BY <2>2 DEF PlayingHasGame
  <2>3. ASSUME NEW u \in Users, NEW c \in RoomCodes, NEW asked \in MaxPlayersAsked,
               CreateRoom(u, c, asked)
        PROVE  PlayingHasGame'
    BY <2>1, <2>3 DEF CreateRoom, PlayingHasGame
  <2>4. ASSUME NEW r \in Requests, LeaveCommit(r)
        PROVE  PlayingHasGame'
    <3>1. games' = games
      BY <2>4 DEF LeaveCommit
    <3>2. \A c \in RoomCodes : rooms'[c].status \in {"closed", rooms[c].status}
      BY <2>1, <2>4 DEF LeaveCommit, RowType
    <3> QED  BY <3>1, <3>2 DEF PlayingHasGame
  <2>5. ASSUME NEW r \in Requests, StartCommit(r)
        PROVE  PlayingHasGame'
    <3>1. request[r].tx = {"game", "playing"}
      BY <2>5 DEF StartCommit, RowsInv, TxWhole
    <3>2. /\ games' = [games EXCEPT ![request[r].code] = @ + 1]
          /\ rooms' = [rooms EXCEPT ![request[r].code].status = "playing"]
      BY <2>5, <3>1 DEF StartCommit
    <3> QED  BY <2>1, <3>2 DEF PlayingHasGame, RowType
  <2> QED
    BY <2>2, <2>3, <2>4, <2>5
       DEF Next, Arrive, Step, Abort, JoinLookup, LeaveLookup, StartLookup, JoinMember,
           JoinCount, AddUserToRoom, LeaveMember, RemoveUser, CountLeft, CountUsers,
           CountReady, InsertGame, UpdateRoomStatus, UpdateUserReady, tables, vars
<1> QED  BY <1>1, <1>2, RowsInvAlways, PTL DEF Spec
=============================================================================
