------------------------------ MODULE RoomHub ------------------------------
(***************************************************************************)
(* The WebSocket hub of one room lobby: the table of its connections, the  *)
(* goroutines that serve them, and the broadcasts that tell them of the    *)
(* room, composed with the room itself.                                    *)
(*                                                                         *)
(* The room endpoints are the atomic changes of RoomPromise, each followed *)
(* by the part of its handler that belongs to the hub.  A broadcast copies *)
(* the table under roomConnMu, reads the database, and then writes to one  *)
(* connection after the other without any lock.                            *)
(***************************************************************************)
EXTENDS Naturals, Sequences, FiniteSets

CONSTANTS
    Users, NoUser, Caps,
    Code,    \* the code of the room
    Conns,   \* WebSocket connections; a name is reused once nothing refers to it
    Tasks    \* room requests, or the goroutines they leave, at the same time

ASSUME HubAssumption ==
    /\ NoUser \notin Users
    /\ Caps \subseteq Nat \ {0}
    /\ Conns \intersect Tasks = {}

VARIABLES
    phase, line, host, cap, launches,   \* the room, as in RoomPromise
    ready,     \* the members whose row is marked ready
    conns,     \* roomConnections[roomCode], the connections in the table
    open,      \* the connections that this process has not closed
    worker,    \* the goroutine of each connection and task
    behind,    \* listed connections that have not been sent the room as it is now,
               \* or as it was after the last change that a broadcast follows
    awaiting   \* listed connections still to be sent the start_game of a launch

Room == INSTANCE RoomPromise WITH RoomCodes <- {Code}

room == <<phase, line, host, cap, launches>>
table == <<conns, open>>
news == <<behind, awaiting>>
vars == <<room, ready, table, worker, news>>

Workers == Conns \union Tasks
Members == Room!Present(Code)

----------------------------------------------------------------------------
(* Goroutines.                                                             *)

\* due: the connections a broadcast has yet to write to; failed: those it
\* could not write to; fresh: no change has been announced since it read the room;
\* leaving: the deferred function of a connection's handler is running.
Worker(pc, u) ==
    [pc |-> pc, user |-> u, due |-> {}, failed |-> {}, fresh |-> FALSE, leaving |-> FALSE]

Idle == Worker("idle", NoUser)

\* Where a handler's deferred function begins.
Teardown(u) == [Worker("reset", u) EXCEPT !.leaving = TRUE]

\* Its last broadcast, which no longer knows whose connection it was.
Farewell == [Worker("sync", NoUser) EXCEPT !.leaving = TRUE]

\* Goroutine g goes on at pc; it has ks to write to; it has read the room; it has
\* written to t, or lost it; it no longer knows the room.
At(g, pc) == [g EXCEPT !.pc = pc]
Facing(g, pc, ks) == [g EXCEPT !.pc = pc, !.due = ks]
Informed(g) == [g EXCEPT !.pc = "cast", !.fresh = TRUE]
Wrote(g, t, lost) == [g EXCEPT !.due = @ \ {t}, !.failed = @ \union lost]
Stale(g) == [g EXCEPT !.fresh = FALSE]

\* Worker w becomes q.
Become(w, q) == worker' = [worker EXCEPT ![w] = q]

\* Worker w returns from its broadcast, which closed ks: a request ends, and so
\* does a handler whose deferred function this was, closing its connection.
ReturnClosing(w, ks) ==
    IF w \in Conns /\ ~worker[w].leaving
    THEN /\ Become(w, Worker("read", worker[w].user))
         /\ open' = open \ ks
    ELSE /\ Become(w, Idle)
         /\ open' = open \ (ks \union {w})

Return(w) == ReturnClosing(w, {})

\* Worker w goes on as q after a change to the room's rows that it will announce:
\* nobody has been sent the room as it is now, and no broadcast has read it.
Changed(w, q) ==
    /\ worker' = [x \in Workers |-> IF x = w THEN q ELSE Stale(worker[x])]
    /\ behind' = conns

\* The connections ks were sent what worker w's broadcast tells.
Heard(w, ks) ==
    /\ behind' = IF worker[w].pc = "cast" /\ worker[w].fresh THEN behind \ ks ELSE behind
    /\ awaiting' = IF worker[w].pc = "startcast" THEN awaiting \ ks ELSE awaiting

\* Connections leave the table, and with it the audience of later broadcasts.
Unlist(ks) ==
    /\ conns' = conns \ ks
    /\ behind' = behind \ ks
    /\ awaiting' = awaiting \ ks

\* A name for a new connection: no table, handler or broadcast refers to it.
Unused(k) ==
    /\ worker[k] = Idle
    /\ k \notin conns
    /\ \A w \in Workers : k \notin worker[w].due \union worker[w].failed

----------------------------------------------------------------------------
(* The room endpoints: the change of the room, then the hub's part.        *)

Create(u, n) ==
    /\ Room!Open(u, Code, n)
    /\ UNCHANGED <<ready, table, worker, news>>

\* A join that is not followed by a broadcast.
JoinUntold(t, u) ==
    /\ worker[t] = Idle
    /\ Room!Enter(u, Code)
    /\ Changed(t, Idle)
    /\ UNCHANGED <<ready, table, awaiting>>

Join(t, u) ==
    /\ worker[t] = Idle
    /\ Room!Enter(u, Code)
    /\ Changed(t, Worker("sync", NoUser))
    /\ UNCHANGED <<ready, table, awaiting>>

\* The lookup after the insert fails: no broadcast tells of the new player.  What
\* the connections are owed of earlier changes stays.
JoinLookupFails(u) ==
    /\ Room!Enter(u, Code)
    /\ UNCHANGED <<ready, table, worker, news>>

Leave(t, u) ==
    /\ worker[t] = Idle
    /\ Room!Exit(u, Code) \/ Room!ExitLast(u, Code)
    /\ ready' = ready \ {u}
    /\ Changed(t, Worker("kick", u))
    /\ UNCHANGED <<table, awaiting>>

\* closeUserConnections, before the broadcast of a leave.
Kick(t) ==
    LET ks == {k \in conns : worker[k].user = worker[t].user}
    IN  /\ worker[t].pc = "kick"
        /\ Unlist(ks)
        /\ open' = open \ ks
        /\ Become(t, Worker("sync", NoUser))
        /\ UNCHANGED <<room, ready>>

\* The goroutine of broadcastStartGame takes the request's place.
Start(t) ==
    /\ worker[t] = Idle
    /\ Room!Launch(Code)
    /\ ready = Members
    /\ Become(t, Worker("start", NoUser))
    /\ awaiting' = conns
    /\ UNCHANGED <<ready, table, behind>>

----------------------------------------------------------------------------
(* A connection.                                                           *)

\* The handler has found its user in the room, and is yet to register.
Connect(k, u) ==
    /\ Unused(k)
    /\ u \in Members
    /\ Become(k, Worker("register", u))
    /\ open' = open \union {k}
    /\ UNCHANGED <<room, ready, conns, news>>

Register(k) ==
    /\ worker[k].pc = "register"
    /\ conns' = conns \union {k}
    /\ behind' = behind \union {k}
    /\ Become(k, At(worker[k], "sync"))
    /\ UNCHANGED <<room, ready, open, awaiting>>

\* A message arrives, or is still in the buffer of a connection closed since.
ReadyMessage(k) ==
    /\ worker[k].pc = "read"
    /\ Become(k, At(worker[k], "update"))
    /\ UNCHANGED <<room, ready, table, news>>

\* An update that puts a row there where its user has none.
UpdateUserReadyUpserts(k, b) ==
    /\ worker[k].pc = "update"
    /\ ready' = IF b THEN ready \union {worker[k].user} ELSE ready \ {worker[k].user}
    /\ Changed(k, At(worker[k], "sync"))
    /\ UNCHANGED <<room, table, awaiting>>

\* What the message said is written, whether or not the connection was closed or
\* its user has left meanwhile; a user without a row changes nothing.
UpdateUserReady(k, b) ==
    /\ worker[k].pc = "update"
    /\ ready' = IF b THEN ready \union ({worker[k].user} \intersect Members)
                     ELSE ready \ {worker[k].user}
    /\ Changed(k, At(worker[k], "sync"))
    /\ UNCHANGED <<room, table, awaiting>>

\* The lookup of the room or the update fails: the handler reads on.
UpdateFails(k) ==
    /\ worker[k].pc = "update"
    /\ Become(k, At(worker[k], "read"))
    /\ UNCHANGED <<room, ready, table, news>>

\* A handler that returns with its user left ready.
DetectWithoutReset(k) ==
    /\ worker[k].pc = "read"
    /\ Become(k, At(Teardown(worker[k].user), "unregister"))
    /\ UNCHANGED <<room, ready, table, news>>

\* ReadMessage fails: the client has gone, or stayed silent past the read
\* deadline, or the connection was closed here.
Detect(k) ==
    /\ worker[k].pc = "read"
    /\ Become(k, Teardown(worker[k].user))
    /\ UNCHANGED <<room, ready, table, news>>

Reset(k) ==
    /\ worker[k].pc = "reset"
    /\ ready' = ready \ {worker[k].user}
    /\ Changed(k, At(worker[k], "unregister"))
    /\ UNCHANGED <<room, table, awaiting>>

\* The teardown ignores the error of its update.
ResetFails(k) ==
    /\ worker[k].pc = "reset"
    /\ Become(k, At(worker[k], "unregister"))
    /\ UNCHANGED <<room, ready, table, news>>

Unregister(k) ==
    /\ worker[k].pc = "unregister"
    /\ Unlist({k})
    /\ Become(k, Farewell)
    /\ UNCHANGED <<room, ready, open>>

----------------------------------------------------------------------------
(* Broadcasts.                                                             *)

\* broadcastRoomStatus copies the table under roomConnMu.
Snapshot(w) ==
    /\ worker[w].pc = "sync"
    /\ IF conns = {} THEN Return(w)
       ELSE /\ Become(w, Facing(worker[w], "lookup", conns))
            /\ UNCHANGED open
    /\ UNCHANGED <<room, ready, conns, news>>

\* It reads the room and its users.
Lookup(w) ==
    /\ worker[w].pc = "lookup"
    /\ Become(w, Informed(worker[w]))
    /\ UNCHANGED <<room, ready, table, news>>

\* A failed read ends it: its connections are owed nothing by it any more.
LookupFails(w) ==
    /\ worker[w].pc = "lookup"
    /\ Return(w)
    /\ behind' = behind \ worker[w].due
    /\ UNCHANGED <<room, ready, conns, awaiting>>

\* A broadcast that gives up at the first write that fails.
DeliverUntilFailure(w, t) ==
    /\ worker[w].pc \in {"cast", "startcast"}
    /\ t \in worker[w].due
    /\ \E lost \in SUBSET {t} :
           /\ Become(w, [Wrote(worker[w], t, lost) EXCEPT !.due = IF lost = {} THEN @ ELSE {}])
           /\ Heard(w, {t} \ lost)
    /\ UNCHANGED <<room, ready, table>>

\* A write to t; the status includes the all_ready that the host's connections
\* get with it.  Any write may fail, not only one to a closed connection:
\* broadcastStartGame sets a deadline of 5 s, the pings have one too, and after a
\* write that failed the library refuses every further one.
Deliver(w, t) ==
    /\ worker[w].pc \in {"cast", "startcast"}
    /\ t \in worker[w].due
    /\ \E lost \in SUBSET {t} :
           /\ Become(w, Wrote(worker[w], t, lost))
           /\ Heard(w, {t} \ lost)
    /\ UNCHANGED <<room, ready, table>>

\* A broadcast that removes connections and leaves them open.
FinishCastUnclosed(w) ==
    /\ worker[w].pc \in {"cast", "startcast"}
    /\ worker[w].due = {}
    /\ Return(w)
    /\ Unlist(worker[w].failed)
    /\ UNCHANGED <<room, ready>>

\* Under roomConnMu the connections that could not be written to are removed and
\* closed.
FinishCast(w) ==
    /\ worker[w].pc \in {"cast", "startcast"}
    /\ worker[w].due = {}
    /\ ReturnClosing(w, worker[w].failed)
    /\ Unlist(worker[w].failed)
    /\ UNCHANGED <<room, ready>>

\* broadcastStartGame copies the table under roomConnMu.
StartSnapshot(t) ==
    /\ worker[t].pc = "start"
    /\ Become(t, IF conns = {} THEN Idle ELSE Facing(worker[t], "startcast", conns))
    /\ UNCHANGED <<room, ready, table, news>>

----------------------------------------------------------------------------
(* Faults.                                                                 *)

\* The process ends: the rows stay, the connections and goroutines are gone.
Restart ==
    /\ worker' = [w \in Workers |-> Idle]
    /\ conns' = {}
    /\ open' = {}
    /\ behind' = {}
    /\ awaiting' = {}
    /\ UNCHANGED <<room, ready>>

\* Two broadcasts write to one connection at the same time and the library
\* panics in one of them, v, which forgets the writes it has left and those that
\* failed.  A request is given up; a handler runs its deferred function, or ends
\* if that is where it was; in the goroutine of broadcastStartGame nothing
\* recovers, and the process ends.
Collide(v, w, t) ==
    /\ v # w
    /\ \A x \in {v, w} : worker[x].pc \in {"cast", "startcast"} /\ t \in worker[x].due
    /\ IF worker[v].pc = "startcast" THEN Restart
       ELSE /\ IF v \in Conns /\ ~worker[v].leaving
               THEN /\ Become(v, Teardown(worker[v].user))
                    /\ UNCHANGED open
               ELSE Return(v)
            /\ behind' = behind \ (worker[v].due \union worker[v].failed)
            /\ UNCHANGED <<room, ready, conns, awaiting>>

----------------------------------------------------------------------------
Init ==
    /\ Room!Init
    /\ ready = {}
    /\ conns = {}
    /\ open = {}
    /\ worker = [w \in Workers |-> Idle]
    /\ behind = {}
    /\ awaiting = {}

\* What a goroutine does by itself.
Work(w) ==
    \/ Snapshot(w) \/ Lookup(w) \/ LookupFails(w) \/ FinishCast(w)
    \/ \E t \in Conns : Deliver(w, t)
    \/ w \in Tasks /\ (Kick(w) \/ StartSnapshot(w))
    \/ /\ w \in Conns
       /\ \/ Register(w) \/ (\E b \in BOOLEAN : UpdateUserReady(w, b)) \/ UpdateFails(w)
          \/ Detect(w) \/ Reset(w) \/ ResetFails(w) \/ Unregister(w)

Next ==
    \/ \E u \in Users :
           \/ \E n \in Caps : Create(u, n)
           \/ \E t \in Tasks : Join(t, u) \/ Leave(t, u)
           \/ JoinLookupFails(u)
           \/ \E k \in Conns : Connect(k, u)
    \/ \E t \in Tasks : Start(t)
    \/ \E k \in Conns : ReadyMessage(k)
    \/ \E w \in Workers : Work(w)
    \/ \E v, w \in Workers, t \in Conns : Collide(v, w, t)
    \/ Restart

Spec == Init /\ [][Next]_vars

----------------------------------------------------------------------------
(* Correctness.                                                            *)

Pcs == {"idle", "register", "sync", "lookup", "cast", "read", "update", "reset",
        "unregister", "kick", "start", "startcast"}

Served == Users \union {NoUser}

Goroutine ==
    [pc : Pcs, user : Served, due : SUBSET Conns, failed : SUBSET Conns,
     fresh : BOOLEAN, leaving : BOOLEAN]

\* Only handlers of connections are served or torn down, only requests kick or start.
WorkersOK ==
    /\ conns \subseteq Conns /\ open \subseteq Conns
    /\ behind \subseteq conns /\ awaiting \subseteq conns
    /\ worker \in [Workers -> Goroutine]
    /\ \A k \in Conns :
           /\ worker[k].pc \notin {"kick", "start", "startcast"}
           /\ worker[k].pc \in {"reset", "unregister"} => worker[k].leaving
           /\ worker[k].pc \in {"register", "read", "update"} => ~worker[k].leaving
    /\ \A t \in Tasks :
           /\ worker[t].pc \notin {"register", "read", "update", "reset", "unregister"}
           /\ ~worker[t].leaving

\* The variables have their types; in particular only members are ready, although
\* ready messages and teardowns of users who have left go on (room_websocket.go:121, 161).
TypeOK == Room!TypeOK /\ ready \subseteq Members /\ WorkersOK

\* Handler g has registered its connection and is yet to take it out again.
Serves(g) ==
    \/ g.pc \in {"read", "update", "reset", "unregister"}
    \/ g.pc \in {"sync", "lookup", "cast"} /\ ~g.leaving

\* The table holds connections of running handlers only, and every connection that
\* is served and that this process has not closed.  A broadcast may give up a
\* connection whose client is still there, one that did not take a write within its
\* deadline; then it closes it too, so that no client stays connected and hears of
\* nothing any more.  A panic or a leave in the middle of a broadcast leaves no dead
\* connection behind (room_websocket.go:110-130, 247-254, 258-277, 303-319).
RegistryExact ==
    /\ \A k \in conns : Serves(worker[k])
    /\ \A k \in open : Serves(worker[k]) => k \in conns

\* Nobody is in the middle of anything.
Quiet == \A w \in Workers : worker[w].pc \in {"idle", "read"}

\* Once all broadcasts are over, every connection of the table was sent the
\* room as it is now, in whatever order joins, leaves, ready messages and
\* disconnections came, unless a fault ended the broadcast that owed it; of a
\* join whose lookup failed only a later change tells (room_websocket.go:128,
\* 132, 166).
EveryoneTold == Quiet => behind = {}

\* Once all is over, every connection that was in the table when the game
\* started and still is has been sent its start_game (room_start.go:114).
StartHeard == Quiet => awaiting = {}

\* Handler g stands for user u: it is still to reset the user's row.
Attends(g, u) == g.user = u /\ Serves(g) /\ g.pc # "unregister"

Attended(u) == \E k \in Conns : Attends(worker[k], u)

\* The step leaves no user ready whom no connection stands for.
ReadyKept == \A u \in Users : u \in ready' /\ ~Attended(u)' => u \in ready /\ ~Attended(u)

\* No step makes a user ready and unattended, except the end of the process and
\* a failed update in the teardown: otherwise a game could be started with
\* players who are gone (room_websocket.go:120-121).
ReadyNeedsConnection ==
    [][Restart \/ (\E k \in Conns : ResetFails(k)) \/ ReadyKept]_vars

\* A connection of the table belongs to a member, or to a user whose leave is
\* about to close it ("所属チェック（未所属なら弾く）", room_websocket.go:79).
MembersOnly ==
    \A k \in conns :
        \/ worker[k].user \in Members
        \/ \E t \in Tasks : worker[t].pc = "kick" /\ worker[t].user = worker[k].user
=============================================================================
