# JackPotCard server: verification project

The repository holds the Go API server of a card-game service
(`src/Graduation_Server/api`): accounts, rooms that players create, join, leave
and start over HTTP, a WebSocket per room lobby and a WebSocket per blackjack
table. Everything durable is in MySQL (InnoDB); the connection tables and the
blackjack state are maps in the server's memory. The rest of the tree
(`pkg/mod`) is vendored third-party code.

Nothing in the server is single-threaded: every HTTP request and every
WebSocket connection is a goroutine, handlers run several SQL statements of
which only some share a transaction, and broadcasts walk shared maps. That is
what the models are about. Paths below are relative to
`src/Graduation_Server/api/internal/`.

## The system's parts

| Part | State | Operations | How it meets the others | Hard behaviour | What makes it correct | Status |
| --- | --- | --- | --- | --- | --- | --- |
| Room endpoints (`handlers/room_create.go`, `room_join.go`, `room_leave.go`, `room_start.go`, `models/room*.go`) | tables `rooms`, `room_users`, `games` | create, join, leave, start | end with broadcasts by the hub; a leave closes the user's connections | statements of different requests interleave; rows read before a transaction are used in it; row locks; failing statements | one row per user; capacity; owner is a member; empty rooms are closed; starts need everybody ready; every request ends | modelled |
| Room WebSocket hub (`handlers/room_websocket.go`) | `roomConnections` under `roomConnMu` | connect, ready message, disconnect, `broadcastRoomStatus`, `broadcastStartGame`, `closeUserConnections` | writes `is_ready` of `room_users`, reads the tables for each broadcast | registration races with leave; teardown races with reconnection; unlocked writes | the table and the open, served connections agree; nobody misses the last status or `start_game`; nobody is ready without a connection; members only | modelled |
| Blackjack table (`handlers/game_websocket.go`, `game_tip.go`, `game_dealer.go`, `player_order.go`) | `bjRoomStates`, `bjRoomConns` under `bjMu`, writes under `bjWriteMu` | connect, bet, broadcast, disconnect | reads a room's users once per connection | snapshots sent out of order; a connection that is written before it is ready; reconnects; loss of the process | chips are conserved; the dealer does not bet; no served client is missed, and what a panic left in the map is cleared away | modelled |
| Action timer (`handlers/game_timer.go`) | a `float64` per connection | count down and send | shares `bjWriteMu` | rounding; a blocked write | ends, and ends at zero | not modelled |
| Accounts (`create_account.go`, `login.go`, `maindata.go`, `updatesolotip.go`, `get_tipsdate.go`, `user_setting.go`) | tables `users`, `settings`, `tips` | create, log in, read, update | issue the tokens the others need | check-then-insert; inserts without a transaction | a token speaks for its own account; a token holder has its rows; chips are what was acknowledged | modelled |
| JWT middleware, lists, unrouted handlers, start-up | none | | | | | not modelled: stateless, read-only or unreachable |

## Modules

* `RoomService`: the room endpoints. One action is one SQL statement and the
  Go code up to the next one; `request` holds the requests in flight with
  their program counter, the locals later statements use and, for a start, what its
  open transaction has written.
* `RoomPromise`: the abstract specification, what a client may rely on when
  requests do not overlap. A room is a line of players with the host in front;
  open, enter, exit and launch are atomic.
* `RoomSequential`: RoomService restricted to behaviours in which no room has two
  requests in flight (`SerialSpec`; requests to different rooms overlap as they
  like), and the refinement mapping into RoomPromise. `MCRoomSequential` adds the
  symmetry for TLC.
* `RoomHub`: the hub of one lobby, composed with the room as an instance of
  RoomPromise. `MCRoomHub` adds the symmetry for TLC.
* `Accounts`: creation, login, main data and the two updates. `MCAccounts` gives
  the differences of chips and the symmetry.
* `BlackjackTable`: the blackjack WebSocket of one room (rooms share nothing
  but mutexes, so one is enough), and the refinement mapping into BettingPromise.
  `MCBlackjackTable` gives the bets, the symmetry and the restriction `CalmSpec`.
* `BettingPromise`: the abstract specification of a table without connections,
  messages or differences: players sit down with the same purse, one of them is the
  banker, a stake replaces the one before and the purse is what is left of the buy-in.
* `RoomServiceProofs`, `RoomOverlapProofs`, `RoomPromiseProofs`, `RoomSequentialProofs`,
  `RoomHubProofs`, `AccountsProofs`, `BlackjackTableProofs`: the theorems about each;
  RoomOverlapProofs has those about overlapping requests to one room.

Definitions such as `CountLeftNewestHeir` that stand right before an action are
plausible wrong versions of it. No specification uses them; each is there to
show that a named property would notice the mistake.

### RoomService and the code

| Variable | Code |
| --- | --- |
| `rooms[c]` | the row of `rooms`: `status`, `max_players`, `owner_id` |
| `room_users[c]` | the rows of `room_users` in `id` order, as the users they name |
| `ready[c]` | the users whose row has `is_ready` |
| `games[c]` | how many `games` rows the starts of this room have inserted |
| `request[r]` | a running handler: statement, user, code, and `hosted` (`userID == room.OwnerID` at the lookup), `playing` (`room.Status` at the lookup), `count`, `heir`, and `tx`, the uncommitted writes of a start |

What InnoDB does, and the models take from it:

* A statement outside a transaction sees the committed rows and is atomic.
* The leave transaction runs at the default isolation, REPEATABLE READ. Its
  `DELETE` is the only locking statement before its first `SELECT`, which fixes
  the snapshot (`CountLeft`): the committed rows less its own deletion. The next
  owner is picked from that same snapshot, so both are one action.
* Until its commit the deletion is invisible to others, but the row is locked:
  a delete, an insert or a ready update of that row waits (`RowFree`).
* The start transaction is three actions: `InsertGame`, `UpdateRoomStatus`, which
  takes the lock of the `rooms` row, and `StartCommit`, which publishes both writes;
  the request may fail before each. An update of that row waits for the lock (`RoomRowFree`).
* `UPDATE rooms` in the leave transaction is followed by nothing but the commit and
  is merged with it; it waits for that lock too.
* The UNIQUE key over `(room_id, user_id)` that `models/room_user.go:33` assumes
  exists, and so does one over `room_code`. The repository has no schema.

Any statement of a request may fail; the transaction, if there is one, is then
rolled back: `Abort`. A failure after the commit is part of the reply. JSON,
the JWT, game names and log lines are left out; the calls into the hub are in RoomHub.

### RoomHub and the code

`phase`, `line`, `host`, `cap` and `launches` are the room as RoomPromise has it
(`Room`), one atomic change per answered request; what overlapping requests do
to the rows is RoomService's subject, and the violations found there do not
enter RoomHub. `ready` is `is_ready`, `conns` is `roomConnections[roomCode]`.
`worker[w]` is a goroutine: the handler of connection w, or a request w between
its commit and its end (`Tasks`). It has a position, a user, the connections its
broadcast has yet to write to (`due`) and could not write to (`failed`), and
`leaving`, true in the deferred function of a handler. `open` are the
connections that this process has not closed; whether a client is still there the
server learns only from a read or a write that fails.

* `behind`, `awaiting` and the field `fresh` are history: which connections were
  not sent the room since its last change, which are owed a `start_game`, and
  whether the room is still as the broadcast read it.
* `Snapshot`, `Register`, `Unregister`, `Kick`, `FinishCast` are the critical
  sections of `roomConnMu`; nothing else is locked. Deferred functions run last
  in, first out: ready is reset, the connection leaves the table, the others are
  told, and only then is it closed (`Return`).
* Any write may fail, on an open connection too (`Deliver`): `broadcastStartGame` sets
  a write deadline of 5 s (`room_websocket.go:304`) and resets it, a ping has one of
  5 s, and the library refuses every write after one that failed. `broadcastRoomStatus`
  sets none. When a broadcast ends it removes the connections it could not write to
  and closes them (`FinishCast`); their handlers then find their read failing.
* A read fails when the client has gone, has been silent for 180 s or the connection was
  closed here: `Detect` may happen whenever a handler reads. A message may still be
  read from a connection closed meanwhile; its lookup and update are a later step
  (`UpdateUserReady`, `UpdateFails`), and the connection may be closed or its user gone by then.
* `all_ready` goes with the status and is not told apart
  from it. A broadcast reads the room's code, which never changes, and then
  its users in one statement: one `Lookup`.
* `Collide` is the library's panic when two writes overlap. In a handler the
  deferred function runs, in a request `net/http` recovers; in the goroutine of
  `broadcastStartGame` nothing does, so the process ends, which is `Restart`.
* Faults end a broadcast that owed somebody the news: `LookupFails` and
  `Collide` strike those connections off `behind`. A join whose own lookup fails
  (`JoinLookupFails`) owes nobody its news, and takes nothing back of what earlier changes owe.

### Accounts and the code

`users`, `settings`, `tips` are the tables, `tokens` the JWTs handed out, each with
the password it was given for, and `request` the creations and main data requests
in flight. A guest is an account made with `auto_flg` and has no password.
`indexed` says whether `users.name` has a UNIQUE key: the comment at
`create_account.go:16` says that names are unique, but the schema is not in the
repository, so both cases are explored. `acked` and `early` are history: the
differences answered OK, and the accounts some of them came too early for.

* A token carries an id and a name; chips and settings go by the id, main data by
  the name (`maindata.go:39`). Of several rows of a name a query may return any.
* Main data are three steps: the settings, the chips, the answer. Each read takes the row
  or the handler's default; the creation may insert the row in between. The default of
  the chips is what a creation inserts (10000), that of the volumes is not: 0.5
  against the 1.0 of `create_account.go`, hence `DefaultVolume`.
* The token of an account with a password can be had by logging in before the
  settings and chips are inserted; a guest's only by the end of its creation.
* `Fail` may end any request between two statements: nothing is undone.
* Expiry, hashing and the integers' width are left out.

### BlackjackTable and the code

`seated` and `account` are `BJRoomState.Players`, `dealer` is `DealerID`,
`conns` is `bjRoomConns[roomCode]`. `handler[k]` is the goroutine of connection
k: its position, its user, the room's users it read before taking `bjMu`
(`users`) and, in a broadcast, the copied state, the connections due and done,
those it could not write to (`failed`) and, for a property only, those whose
handler had panicked when it began (`ghosts`). `open` and `view` belong to the
clients: who is still there and what the last `bet_state` was.

* Each critical section of `bjMu` is one action: `Enter`, `TakeSnapshot`, `Bet`,
  `Close`, the removals of `FinishBroadcast`.
* A broadcast ranges over the live map: a connection that was in it from the start and
  still is must be written to, one added during the walk may be. Nothing sets a write
  deadline here, so a write to a client that is there succeeds; to one that has gone it
  may fail, and on a connection closed by its handler's panic it does. A write that
  succeeded before the panic does not get its connection removed.
* The room's users are any non-empty set and the connecting user any user: the
  handler checks neither membership nor status.
* `SendPlayerOrder` writes without `bjWriteMu`. The vendored WebSocket library
  detects overlapping writes on a best-effort basis and panics
  (`conn.go:617`); `net/http` recovers, the deferred `conn.Close` runs, the
  clean-up after the receive loop does not. That is `ConcurrentWrite`; the
  writer that panics is either one. A frame that is garbled without being
  detected is not modelled, other than as a client that hangs up.
* `Restart` is the end of the process at any moment, for instance the Go
  runtime stopping it because a map is ranged over and changed at once.

## Runs

| Run | Instance | What it shows |
| --- | --- | --- |
| `room_conc` | 3 users, 1 room, 2 requests in flight, limits 1 and 2 | `TypeOK`, `CapacityBounded`, `OneRowOneLeave`, `PlayingHasGame` in every interleaving; what remains of the hand-over, the rows and the status checks when requests overlap (`HandoverSound`, `OwnRowOnly`, `OnlyLateRequestsPass`); every request ends (`RequestsFinish`) |
| `room_seq` | 3 users, 2 rooms, 2 requests but one per room, limits asked -1, 0 and 1 | the handlers implement `RoomPromise`; its invariants hold of the tables (`SequentialSafety`); a start that is let through finds everybody ready |
| `host_present` | as `room_conc`, limit 2 | violated: a stale `OwnerID` leaves a waiting room to an owner who has gone |
| `empty_room_closed` | same | violated: a start revives a room its last player has closed |
| `join_only_waiting` | same | violated: a row is inserted into a room closed or started since the check |
| `approved_starts` | same | violated: two counts that agree though the host is not ready |
| `bj_table` | 2 users, 2 connections, bets -100, 0, 600, 1000, 1200 | `TypeOK`, `ChipsConserved`, `DealerNeverBets`, `ServedAreWalked`, `GhostsDropped`, `AccountsSurviveReconnects`; the whole implements `BettingPromise` (`KeepsBettingPromise`) |
| `latest_state_last` | same, no colliding writes | violated: an older snapshot is written last |
| `writes_exclusive` | same | violated: a broadcast writes during `SendPlayerOrder` |
| `room_hub` | 2 users, 2 connections, 1 request at a time, limit 2 | `TypeOK`, `RegistryExact`, `EveryoneTold`, `StartHeard`, `ReadyNeedsConnection` under kicks, failing writes, lookups and updates, colliding writes and restarts |
| `members_only` | same | violated: a connection registered after its user's leave has closed the others |
| `accounts` | 2 names, 2 passwords, 2 requests, 2 accounts, one round lost and one won | `TypeOK`, `TokensEarned`, `OwnData`, `GuestsComplete`, `ChipsLedger`, `ChipsShown`, `NothingReset`, with and without the UNIQUE key |

Each of the seven violated properties is a comment in the code; PROJECT.json quotes it
and retells the trace. The first four need two requests to one room at the same time:
without that, `room_seq` shows the intended behaviour, and `CommentsHold` proves three
of those comments and `StartsCorrect` the fourth.

Bounds. A handler reads a row and later relies on it, so two requests reach every kind
of overlap; three users give a host, an heir and somebody else, and three for a room of
two is the overshoot `CapacityBounded` speaks of. The limit 4 that `Capacity` makes of
-1 and 0 is never filled with three users, but it is taken, and the refinement checks
that the room opens with it. Rooms share no row; `room_seq` has two, each with a request
of its own, to show that handlers keep them apart. It asks for the limits -1, 0 and 1,
so rooms of four and of one; the limit 2 is in `room_conc`. `games` needs no bound: no
room returns to waiting, a room in play is not started, and only requests that were in
flight when it stopped waiting can put players into a closed one and start it again. The
bets include one every player can raise and take back, all the chips, one too many and a
negative one. Two connections are one broadcaster and one other, or two of one user; a
connection's name is used again when nothing refers to it, so there may be any number in
a run. In the hub the second connection is the other member's, or the same user's before
and after reconnecting; each handler broadcasts by itself, so with the request there are
three broadcasters; `RoomHubProofs` has the same properties without bounds. Two accounts
and two creations are enough for one name to be taken twice; `MaxAccounts` bounds the
rows, `MaxDrift` the sum of an account's differences. No run disables the deadlock
check.

Fairness. `RequestsFinish` assumes `SF_vars(Step(r))` for each request. A goroutine
that can run is run by the Go scheduler. Strong fairness is needed where a
statement waits for a row lock that other transactions take and release in
turn, and it is justified by InnoDB granting a row's lock in the order of the
requests. Nothing is assumed about arrivals, ready updates or failures.

## Theorems

Every property of the passing runs but one (`RequestsFinish`) is proved for any value of
the constants.

`RoomServiceProofs` proves, for any users, rooms, asked limits and any finite,
non-empty set of request slots (`ServiceAssumption`):

* `TypesCorrect`: `Spec => []TypeOK`, and `RowsCorrect`: `Spec => []OneRowOneLeave`.
  `TypeOK` alone is not inductive: when a leave commits it removes its row from a
  sequence, and the result is a sequence of users, containing all ready users but the
  one who left, only if that row is there exactly once. That it is there needs that no
  other leave holds the same row, and that in turn needs the lock
  (`RowLocksExclusive`). So the three conjuncts of `OneRowOneLeave` and `TypeOK`
  are one inductive invariant (`RowsInv`). The facts about deleting from a
  sequence without repetition are lemmas of their own (`WithoutIsShorter`,
  `WithoutKeepsDistinct`, `LeftRows`).
* `CapacityCorrect`: `Spec => []CapacityBounded`. The bound itself is not
  inductive, since a request past its count is a player about to enter. `RoomFits`
  adds those: the rows of a room plus the requests that will still insert into
  it are at most the limit plus the slots less one. A count that lets a request
  pass has seen a free seat, and that request was not counted before.
* `GamesCorrect`: `Spec => []PlayingHasGame`. At its commit a start must have written
  both the game and the status (`TxWhole`), and the room must be one that was ever
  opened (`RoomsExist`), or a commit would put an absent room in play.

`RoomOverlapProofs` proves what is left of the violated comments when requests to one
room overlap, under the same assumption and from `RowsInv`:

* `HandoverCorrect`: `Spec => []HandoverSound`. A room always has an owner and nobody
  hands a room back to himself. Only the snapshot of the leave transaction brings a
  leave to its commit (`OnlyCountCommits`), and from that snapshot its own row, which is
  in it once, is gone (`HeirStays`). That the heir is still there at the commit is what
  cannot be proved: `host_present`.
* `OwnRowCorrect`: `Spec => OwnRowOnly`. Users come and go by their own requests only,
  and whoever stays keeps the place in line that decides the next owner
  (`WithoutKeepsOrder`, `AppendKeepsOrder`).
* `LateRequestsCorrect`: `Spec => OnlyLateRequestsPass`. The joins and starts that
  `join_only_waiting` and `empty_room_closed` show are only those in flight when the
  room stopped waiting (`LateRequest`), and no room waits a second time.

`RoomPromiseProofs` proves `PromiseCorrect`: if all limits are positive
(`CapsPositive`), `Spec => [](TypeOK /\ HostIsFirst /\ NobodyInside /\ WithinCap /\
LaunchedOnce)`. The conjunction is inductive; a step changes one room, so each action's
lemma is about that room (`OneRoom`, `RoomInv`). RoomHub and RoomSequential use it
through `INSTANCE`, with their own state in place of the room's.

`RoomSequentialProofs` proves of `SerialSpec`, for any users, rooms, limits and any
number of requests as long as no room has two of them (`Apart`):

* `PromiseImplemented`: `SerialSpec => ImplementsPromise`, the refinement of RoomPromise.
* `SequentialCorrect`: `SerialSpec => []SequentialSafety`.
* `StartsCorrect`: `SerialSpec => ApprovedStartsAreReady`.
* `CommentsHold`: `SerialSpec => [](HostPresent /\ EmptyRoomClosed) /\ JoinOnlyWaiting`,
  so the overlap within one room is all that breaks the comments of the code.

A handler's last statement relies on what its earlier ones read. `NothingStale` says
that all of it is still so: a join about to insert finds the room waiting, not full
and without its user; a leave knows whether its user owns the room and who is next; a
start about to commit finds the room waiting. A step of one request changes its own room
only, and because of `Apart` no other request has read that room; this is exactly
what fails when requests overlap, and the four violated runs show how. With it each
statement that writes is one action of RoomPromise (`CreateOpens`, `InsertEnters`,
`CommitExits`, `CommitLaunches`) and every other is a stutter, a rollback too. That a
start's room is not an empty or closed one needs the promise's own invariant, which is
why it is part of `SeqInv`.

`RoomHubProofs` proves, for any users, limits, connections and request slots
that are not connections (`HubAssumption`):

* `TableCorrect`: `Spec => []RegistryExact`.
* `BroadcastsReach`: `Spec => []EveryoneTold`, and `StartsReach`: `Spec => []StartHeard`.
* `ReadyCorrect`: `Spec => ReadyNeedsConnection`.

The inductive invariant is `HubInv`. `RegistryExact` survives a failed write to an open
connection because the step that takes it out of the table closes it. `EveryoneTold`
speaks of rest only; behind it is `Owed`: whoever has not been sent the present room is
still owed it by some goroutine, which is about to copy the table, or has copied it with
them in it and not yet read the room, or has read the present room and not yet written
to them, or failed to and is about to remove them (`Owes`). `StartOwed` is the same for
`start_game`. A step makes one goroutine, w, go on as q; `Move` reduces keeping `HubInv`
to conditions on w and q (`MoveTyped`, `MoveListed`, `MoveOwed`, `MoveStart`,
`MoveReady`), which each action's lemma checks.

* `TypesCorrect`: `Spec => []TypeOK`. Every step of the hub is a step of RoomPromise
  or leaves the room alone (`RoomSteps`), so what `RoomPromiseProofs` shows of a room
  holds of this one. What remains is that only members are ready: ready messages
  and teardowns of users who have left go on, but touch only a row that is there.

`AccountsProofs` proves, for any names, passwords, differences and requests:

* `TypesCorrect`, `TokensCorrect`, `GuestsCorrect`: `Spec => []TypeOK`,
  `[]TokensEarned` and `[]GuestsComplete`.
* `MainDataCorrect`: `Spec => []OwnData`. A lookup by the token's name finds the
  token's row because the key keeps names unique (`KeyKept`) and the token has the
  name of its row (`TokensEarned`).
* `ShownCorrect`: `Spec => ChipsShown`. A main data request in flight names a row of `users`
  (`ReadersKnown`), and for an account without chips nothing was acknowledged but
  too early, so the default is its balance.
* `ChipsCorrect`: `Spec => []ChipsLedger`. The insert of the chips must not
  overwrite a balance: a creation is the only one of its account and the account has
  no chips yet (`CreationsOK`), and what was acknowledged before that is nothing, or
  too early (`NothingYet`).
* `ResetCorrect`: `Spec => NothingReset`. That a creation's inserts overwrite nothing
  needs one more invariant, `SettingsToCome`: the settings a creation is about to insert
  are not there. A creation gets to that insert only by inserting its user, whose id is
  new (`ToSettings`), and no other creation has that id.

`BlackjackTableProofs` proves, for any users, connections and bets that are integers:

* `TypesCorrect`, `FanOutCorrect`: `Spec => []TypeOK` and `[]ServedAreWalked`.
* `GhostsCorrect`: `Spec => GhostsDropped`. A broadcast may have written to a connection
  before its handler panicked, and then does not remove it; but of those that had panicked when
  it began, each is still closed and in the map until its walk fails there, or was removed by
  another broadcast, and no connection gets its name while this one refers to it.
* `ChipsCorrect`, `DealerCorrect`: `Spec => []ChipsConserved` and `[]DealerNeverBets`.
* `AccountsCorrect`: `Spec => AccountsSurviveReconnects`.
* `BettingPromiseKept`: `Spec => KeepsBettingPromise`. The registration that finds no
  dealer is `SitDown`, with the drawn dealer as the banker (`EnterSitsDown`); a bet is
  `Stake` because a difference of at most the chips left is a new stake of at most the
  buy-in when bet and chips add up to it (`BetStakes`); a restart is `Clear`, and
  everything else stutters (`TableMaps`).

The dealer is drawn when the first handler enters, and drawing one clears that
player's bet. No chips are lost only because everybody's account is then fresh: without a
dealer nobody is seated (`DealerNeverBets`), and whoever is not seated has a fresh account
(`OthersFresh`). That there is then a dealer needs that a handler about to enter
has read a non-empty list of users (`EntersWithUsers`; the handler returns otherwise).

Only model-checked: `RequestsFinish`, since liveness is out of the prover's reach, and
the violations.

## Not modelled

* The JWT middleware (stateless), the read-only lists (one SELECT each), handlers
  without a route, start-up.
* The action timer. It changes nothing that another part reads, and its
  arithmetic, 150 rounded subtractions of 0.1, needs 53-bit integers, which
  TLC does not have. What it does is in the findings: 152 messages over 15.1
  seconds, the last of which says -0.1.
* Time: a write that blocks is a step that has not happened yet. Status and
  betting broadcasts set no write deadline, so nothing bounds their delay;
  `start_game` and pings have one of 5 s, which is a write that fails. That every dead
  connection eventually leaves the table is not stated by a run for that reason.
* Pings, which the library allows beside other writes, and the read deadline, other
  than as a write or a read that fails.
* The third-party modules under `pkg/mod` apart from the one panic above. They are
  nearly all of the tree's lines; the modelled code is the server's own.

## Plan

What is left is outside the server's own state: a schema in the repository would settle
the UNIQUE keys that RoomService assumes and Accounts leaves open, and a write deadline
in every broadcast would make "every dead connection eventually leaves the table" a
property to state. Once requests to one room that overlap are made safe (the status and
the owner read again in the transaction), `HostPresent`, `EmptyRoomClosed`,
`JoinOnlyWaiting` and `ApprovedStartsAreReady` become properties of RoomService to
prove, and `CommentsHold` can drop `Apart`.
