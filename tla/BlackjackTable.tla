--------------------------- MODULE BlackjackTable ---------------------------
(***************************************************************************)
(* The blackjack WebSocket of one room: the betting state the server keeps *)
(* in memory, the table of connections, and the broadcasts of that state.  *)
(*                                                                         *)
(* Every connection is served by a goroutine of BlackjackWebSocketHandle.  *)
(* What it does under bjMu is one action.  A broadcast copies the betting  *)
(* state under bjMu but then walks the live map of connections without it, *)
(* one locked write at a time, and other goroutines run in between.        *)
(***************************************************************************)
EXTENDS Integers, FiniteSets

CONSTANTS
    Users,    \* users.id of the players
    Conns,    \* WebSocket connections; a name is reused once nothing refers to it
    Bets,     \* the amounts a client may send
    NoUser    \* DealerID 0, and the user of a free connection

ASSUME TableAssumption == NoUser \notin Users /\ Bets \subseteq Int

VARIABLES
    seated,    \* keys of BJRoomState.Players
    account,   \* BJRoomState.Players: bet, confirmed and total_chips
    dealer,    \* BJRoomState.DealerID
    conns,     \* bjRoomConns[roomCode], the connections a broadcast walks
    handler,   \* what the goroutine of each connection is doing
    open,      \* the connections whose client is still there
    view       \* the last bet_state each client has received

vars == <<seated, account, dealer, conns, handler, open, view>>
table == <<seated, account, dealer>>

----------------------------------------------------------------------------
InitialChips == 1000

Fresh == [bet |-> 0, confirmed |-> FALSE, total_chips |-> InitialChips]

\* The players as broadcastBetState copies them, and a copy of no players.
BetState == [seated |-> seated, account |-> account]
NoBetState == [seated |-> {}, account |-> [u \in Users |-> Fresh]]

\* users: the room's rows as read before the lock; state: a broadcast's copy;
\* due and sent: the connections its walk must still reach or has written to;
\* failed: those it will remove, a write to them having failed; ghosts: those in
\* the map when it began whose handler had panicked, kept for a property only.
Handler(pc, u) ==
    [pc |-> pc, user |-> u, users |-> {}, state |-> NoBetState,
     due |-> {}, sent |-> {}, failed |-> {}, ghosts |-> {}]

Free == Handler("free", NoUser)

Goto(k, pc) == handler' = [handler EXCEPT ![k] = Handler(pc, handler[k].user)]

\* A connection that ends shows its client nothing more.
Lose(k) ==
    /\ open' = open \ {k}
    /\ view' = [view EXCEPT ![k] = NoBetState]

\* The walk may reach t: it is in the live map and was not visited yet.
Reaches(k, t) ==
    handler[k].pc = "cast" /\ t \in conns /\ t \notin handler[k].sent

\* A name for a new connection: no map, handler or broadcast refers to it.
Unused(k) ==
    /\ handler[k].pc = "free"
    /\ k \notin conns
    /\ \A j \in Conns : k \notin handler[j].due \union handler[j].sent

----------------------------------------------------------------------------
(* Opening a connection.                                                   *)

\* A connection served without knowing its user.
ConnectAnonymous(k, u, users) ==
    /\ Unused(k)
    /\ handler' = [handler EXCEPT ![k] = [Handler("enter", NoUser) EXCEPT !.users = users]]
    /\ open' = open \union {k}
    /\ UNCHANGED <<table, conns, view>>

\* The handler reads the room's users; the rows may change before it goes on.
Connect(k, u, users) ==
    /\ Unused(k)
    /\ handler' = [handler EXCEPT ![k] = [Handler("enter", u) EXCEPT !.users = users]]
    /\ open' = open \union {k}
    /\ UNCHANGED <<table, conns, view>>

\* One of the players becomes the dealer, once.
EnsureDealerAssigned(players) ==
    \/ /\ dealer # NoUser
       /\ UNCHANGED <<dealer, account>>
    \/ /\ dealer = NoUser
       /\ \E d \in players :
              /\ dealer' = d
              /\ account' = [account EXCEPT ![d].bet = 0, ![d].confirmed = TRUE]

\* A registration that deals out fresh accounts every time.
EnterAfresh(k) ==
    /\ handler[k].pc = "enter"
    /\ seated' = seated \union handler[k].users
    /\ dealer' = IF dealer = NoUser THEN handler[k].user ELSE dealer
    /\ account' = [u \in Users |-> IF u \in handler[k].users THEN Fresh ELSE account[u]]
    /\ conns' = conns \union {k}
    /\ Goto(k, "order")
    /\ UNCHANGED <<open, view>>

\* Under bjMu: seat the users not known yet, settle the dealer, register the
\* connection.
Enter(k) ==
    /\ handler[k].pc = "enter"
    /\ seated' = seated \union handler[k].users
    /\ EnsureDealerAssigned(seated')
    /\ conns' = conns \union {k}
    /\ Goto(k, "order")
    /\ UNCHANGED <<open, view>>

\* SendPlayerOrder has written its message, without bjWriteMu.
OrderSent(k) ==
    /\ handler[k].pc = "order"
    /\ Goto(k, "notify")
    /\ UNCHANGED <<table, conns, open, view>>

----------------------------------------------------------------------------
(* broadcastBetState.                                                      *)

\* The connections that no handler serves any more, still in the map.
Ghosts == {t \in conns : handler[t].pc = "dead"}

TakeSnapshot(k) ==
    /\ handler[k].pc = "notify"
    /\ handler' = [handler EXCEPT ![k] =
           [Handler("cast", handler[k].user) EXCEPT
               !.state = BetState, !.due = conns, !.ghosts = Ghosts]]
    /\ UNCHANGED <<table, conns, open, view>>

\* Handler g has written to t, or lost it.
Wrote(g, t, lost) == [g EXCEPT !.sent = @ \union {t}, !.failed = @ \union lost]

\* One write of the walk.  To a client that is there it succeeds; to one that
\* left it may fail; on a connection this process closed, when its handler
\* panicked, it does.
Deliver(k, t) ==
    /\ Reaches(k, t)
    /\ \E lost \in SUBSET {t} :
           /\ t \in open => lost = {}
           /\ handler[t].pc = "dead" => lost = {t}
           /\ handler' = [handler EXCEPT ![k] = Wrote(handler[k], t, lost)]
    /\ view' = IF t \in open THEN [view EXCEPT ![t] = handler[k].state] ELSE view
    /\ UNCHANGED <<table, conns, open>>

\* A broadcast that leaves the connections it could not write to in the map.
FinishBroadcastKeeping(k) ==
    /\ handler[k].pc = "cast"
    /\ handler[k].due \intersect conns \subseteq handler[k].sent
    /\ Goto(k, "read")
    /\ UNCHANGED <<table, conns, open, view>>

\* The connections to which a write failed are removed, and closed: none of them
\* is open.
FinishBroadcast(k) ==
    /\ handler[k].pc = "cast"
    /\ handler[k].due \intersect conns \subseteq handler[k].sent
    /\ conns' = conns \ handler[k].failed
    /\ Goto(k, "read")
    /\ UNCHANGED <<table, open, view>>

\* Two goroutines in a write to connection t: the WebSocket library panics in
\* one of them.  Its handler unwinds, which closes the connection and skips
\* the code that would have unregistered it.
ConcurrentWrite(k, t, victim) ==
    /\ Reaches(k, t)
    /\ handler[t].pc = "order"
    /\ victim \in {k, t}
    /\ handler' = [handler EXCEPT ![victim] = Handler("dead", NoUser)]
    /\ Lose(victim)
    /\ UNCHANGED <<table, conns>>

----------------------------------------------------------------------------
(* The receive loop.                                                       *)

\* A bet whose chips are checked against the whole chip count, not the change.
BetWithoutRefund(k, bet, confirm) ==
    LET u == handler[k].user IN
    /\ handler[k].pc = "read"
    /\ k \in open
    /\ u \in seated
    /\ u # dealer
    /\ bet >= 0
    /\ bet <= account[u].total_chips
    /\ account' = [account EXCEPT ![u] =
           [bet |-> bet, confirmed |-> confirm, total_chips |-> @.total_chips - bet]]
    /\ Goto(k, "notify")
    /\ UNCHANGED <<seated, dealer, conns, open, view>>

\* A bet that any player may place, the dealer too.
BetByAnyone(k, bet, confirm) ==
    LET u == handler[k].user
        delta == bet - account[u].bet
    IN  /\ handler[k].pc = "read"
        /\ k \in open
        /\ u \in seated
        /\ bet >= 0
        /\ delta <= account[u].total_chips
        /\ account' = [account EXCEPT ![u] =
               [bet |-> bet, confirmed |-> confirm, total_chips |-> @.total_chips - delta]]
        /\ Goto(k, "notify")
        /\ UNCHANGED <<seated, dealer, conns, open, view>>

\* A bet_update that passes every check, under bjMu; any other changes nothing.
Bet(k, bet, confirm) ==
    LET u == handler[k].user
        delta == bet - account[u].bet
    IN  /\ handler[k].pc = "read"
        /\ k \in open
        /\ u \in seated
        /\ u # dealer
        /\ bet >= 0
        /\ delta <= account[u].total_chips
        /\ account' = [account EXCEPT ![u] =
               [bet |-> bet, confirmed |-> confirm, total_chips |-> @.total_chips - delta]]
        /\ Goto(k, "notify")
        /\ UNCHANGED <<seated, dealer, conns, open, view>>

\* The client goes away, at any moment.
HangUp(k) ==
    /\ k \in open
    /\ Lose(k)
    /\ UNCHANGED <<table, conns, handler>>

\* A handler that ends without unregistering.
CloseForgetful(k) ==
    /\ handler[k].pc = "read"
    /\ k \notin open
    /\ handler' = [handler EXCEPT ![k] = Free]
    /\ UNCHANGED <<table, conns, open, view>>

\* The read fails: under bjMu the handler unregisters its connection.
Close(k) ==
    /\ handler[k].pc = "read"
    /\ k \notin open
    /\ conns' = conns \ {k}
    /\ handler' = [handler EXCEPT ![k] = Free]
    /\ UNCHANGED <<table, open, view>>

\* A connection whose handler panicked is forgotten once no map names it.
Forget(k) ==
    /\ handler[k].pc = "dead"
    /\ k \notin conns
    /\ handler' = [handler EXCEPT ![k] = Free]
    /\ UNCHANGED <<table, conns, open, view>>

\* The process dies and starts again: all of this was in its memory.
Restart ==
    /\ seated' = {}
    /\ account' = NoBetState.account
    /\ dealer' = NoUser
    /\ conns' = {}
    /\ handler' = [k \in Conns |-> Free]
    /\ open' = {}
    /\ view' = [k \in Conns |-> NoBetState]

----------------------------------------------------------------------------
Init ==
    /\ seated = {}
    /\ account = NoBetState.account
    /\ dealer = NoUser
    /\ conns = {}
    /\ handler = [k \in Conns |-> Free]
    /\ open = {}
    /\ view = [k \in Conns |-> NoBetState]

Next ==
    \/ \E k \in Conns :
        \/ \E u \in Users, users \in (SUBSET Users) \ {{}} : Connect(k, u, users)
        \/ Enter(k) \/ OrderSent(k) \/ TakeSnapshot(k) \/ FinishBroadcast(k)
        \/ \E t \in Conns : Deliver(k, t)
        \/ \E t, victim \in Conns : ConcurrentWrite(k, t, victim)
        \/ \E bet \in Bets, confirm \in BOOLEAN : Bet(k, bet, confirm)
        \/ HangUp(k) \/ Close(k) \/ Forget(k)
    \/ Restart

Spec == Init /\ [][Next]_vars

----------------------------------------------------------------------------
(* Properties.                                                             *)

AccountType == [bet : Int, confirmed : BOOLEAN, total_chips : Int]
BetStateType == [seated : SUBSET Users, account : [Users -> AccountType]]
HandlerType ==
    [pc : {"free", "enter", "order", "notify", "cast", "read", "dead"},
     user : Users \union {NoUser}, users : SUBSET Users, state : BetStateType,
     due : SUBSET Conns, sent : SUBSET Conns, failed : SUBSET Conns, ghosts : SUBSET Conns]

\* The variables have their types, and a handler at work knows its user.
TypeOK ==
    /\ seated \in SUBSET Users
    /\ account \in [Users -> AccountType]
    /\ dealer \in Users \union {NoUser}
    /\ conns \in SUBSET Conns
    /\ handler \in [Conns -> HandlerType]
    /\ \A k \in Conns : handler[k].pc \notin {"free", "dead"} => handler[k].user \in Users
    /\ open \in SUBSET Conns
    /\ view \in [Conns -> BetStateType]

\* Bet and chips together are what the player sat down with, and neither is
\* ever negative.
Conserved(accounts) ==
    \A u \in Users : /\ accounts[u].bet >= 0
                     /\ accounts[u].total_chips >= 0
                     /\ accounts[u].bet + accounts[u].total_chips = InitialChips

\* No bet makes or loses chips, in the server's state and in every copy of it
\* a broadcast is sending or a client is showing.
ChipsConserved ==
    /\ Conserved(account)
    /\ \A k \in Conns : Conserved(handler[k].state.account) /\ Conserved(view[k].account)

\* The dealer sits at the table, has no bet and counts as confirmed; there is a
\* dealer as soon as anybody sits down.
DealerNeverBets ==
    /\ dealer = NoUser => seated = {}
    /\ dealer # NoUser =>
           dealer \in seated /\ account[dealer].bet = 0 /\ account[dealer].confirmed

\* A client that is there and past its registration is in the map broadcasts
\* walk, whatever removals and panics go on around it.  What they walk besides
\* is a connection whose client has left and whose handler has yet to notice, or
\* one whose handler panicked: never one that is not registered or unregistered.
ServedAreWalked ==
    \A k \in Conns :
        /\ k \in open /\ handler[k].pc \in {"order", "notify", "cast", "read"} => k \in conns
        /\ k \in conns => handler[k].pc \in {"order", "notify", "cast", "read", "dead"}

\* A handler that panics skips the code that unregisters its connection
\* (game_websocket.go).  The next broadcast makes up for it: when it ends, none
\* of the connections in this state when it began is in the map, whoever else
\* walks, connects or panics meanwhile.
GhostsDropped ==
    [][\A k \in Conns : handler[k].pc = "cast" /\ handler'[k].pc = "read" =>
           handler[k].ghosts \intersect conns' = {}]_vars

\* Coming, going and reconnecting leave every account alone: the only step that
\* changes it is one of a connection of that player, from its receive loop to the
\* broadcast of a bet, until the process restarts.  The dealer stays the dealer.
AccountsSurviveReconnects ==
    [][ \/ seated' = {}
        \/ /\ seated \subseteq seated'
           /\ dealer # NoUser => dealer' = dealer
           /\ \A u \in seated : account'[u] # account[u] =>
                  \E k \in Conns : /\ handler[k].user = u
                                   /\ handler[k].pc = "read" /\ handler'[k].pc = "notify"]_vars

Promise == INSTANCE BettingPromise WITH
    BuyIn <- InitialChips,
    seats <- seated,
    banker <- dealer,
    stake <- [u \in Users |-> account[u].bet],
    purse <- [u \in Users |-> account[u].total_chips],
    settled <- {u \in Users : account[u].confirmed}

\* Whatever connections do, the table the players share is that of
\* BettingPromise: the difference that a bet is checked against and paid with
\* (game_websocket.go) never adds up to more or less than one stake out of one
\* buy-in, and registering, dropping and broadcasting change nothing of it.
KeepsBettingPromise == Promise!Spec

\* "Broadcast everyone's latest state" (game_websocket.go): once no handler has
\* anything left to send, every connected client shows the current bets.
LatestStateLast ==
    (\A k \in Conns : handler[k].pc \in {"free", "read"}) =>
        \A k \in open : view[k] = BetState

\* "Exclusive writes" (game_websocket.go): nobody writes to a connection on
\* which SendPlayerOrder is writing.
WritesExclusive ==
    [][\A k, t \in Conns : handler[t].pc = "order" /\ t \notin handler[k].sent =>
           t \notin handler'[k].sent]_vars
=============================================================================
