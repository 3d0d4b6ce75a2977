--------------------------- MODULE RoomHubProofs ---------------------------
(* Theorems about RoomHub.                                                 *)
EXTENDS RoomHub, TLAPS

----------------------------------------------------------------------------
(* What the operators that make goroutines return.                         *)

\* Where a goroutine may be.
LEMMA Positions ==
    /\ "idle" \in Pcs /\ "register" \in Pcs /\ "sync" \in Pcs /\ "lookup" \in Pcs
    /\ "cast" \in Pcs /\ "read" \in Pcs /\ "reset" \in Pcs /\ "unregister" \in Pcs
    /\ "kick" \in Pcs /\ "start" \in Pcs /\ "startcast" \in Pcs /\ "update" \in Pcs
  BY DEF Pcs

\* Whom a goroutine may serve.
LEMMA ServedUsers == Users \subseteq Served /\ NoUser \in Served
  BY DEF Served

\* The goroutine of a free slot.
LEMMA IdleFields ==
    /\ Idle \in Goroutine
    /\ Idle.pc = "idle" /\ Idle.user = NoUser /\ Idle.due = {} /\ Idle.failed = {}
    /\ Idle.fresh = FALSE /\ Idle.leaving = FALSE
  BY DEF Idle, Worker, Goroutine, Pcs, Served

\* A handler about to tear its connection down.
LEMMA TeardownFields ==
    ASSUME NEW u \in Served
    PROVE  /\ Teardown(u) \in Goroutine
           /\ Teardown(u).pc = "reset" /\ Teardown(u).user = u
           /\ Teardown(u).due = {} /\ Teardown(u).failed = {}
           /\ Teardown(u).fresh = FALSE /\ Teardown(u).leaving = TRUE
  BY DEF Teardown, Worker, Goroutine, Pcs

\* The last broadcast of a teardown.
LEMMA FarewellFields ==
    /\ Farewell \in Goroutine
    /\ Farewell.pc = "sync" /\ Farewell.failed = {} /\ Farewell.leaving = TRUE
<1>1. "sync" \in Pcs /\ NoUser \in Served
  BY Positions, ServedUsers
<1> QED
  BY <1>1 DEF Farewell, Worker, Goroutine

\* The fields of a goroutine are of their types.
LEMMA GoroutineFields ==
    ASSUME NEW g \in Goroutine
    PROVE  /\ g.pc \in Pcs /\ g.user \in Served
           /\ g.due \subseteq Conns /\ g.failed \subseteq Conns
           /\ g.fresh \in BOOLEAN /\ g.leaving \in BOOLEAN
  BY DEF Goroutine

\* In the next five only the fields that an operator sets are new: the position ...
LEMMA AtFields ==
    ASSUME NEW g \in Goroutine, NEW p \in Pcs
    PROVE  /\ At(g, p) \in Goroutine
           /\ At(g, p).pc = p /\ At(g, p).user = g.user
           /\ At(g, p).due = g.due /\ At(g, p).failed = g.failed
           /\ At(g, p).fresh = g.fresh /\ At(g, p).leaving = g.leaving
  BY DEF At, Goroutine

\* ... the position and what is due ...
LEMMA FacingFields ==
    ASSUME NEW g \in Goroutine, NEW p \in Pcs, NEW ks \in SUBSET Conns
    PROVE  /\ Facing(g, p, ks) \in Goroutine
           /\ Facing(g, p, ks).pc = p /\ Facing(g, p, ks).user = g.user
           /\ Facing(g, p, ks).due = ks /\ Facing(g, p, ks).failed = g.failed
           /\ Facing(g, p, ks).fresh = g.fresh /\ Facing(g, p, ks).leaving = g.leaving
  BY DEF Facing, Goroutine

\* ... the position and the freshness ...
LEMMA InformedFields ==
    ASSUME NEW g \in Goroutine
    PROVE  /\ Informed(g) \in Goroutine
           /\ Informed(g).pc = "cast" /\ Informed(g).user = g.user
           /\ Informed(g).due = g.due /\ Informed(g).failed = g.failed
           /\ Informed(g).fresh = TRUE /\ Informed(g).leaving = g.leaving
  BY DEF Informed, Goroutine, Pcs

\* ... what is due and what failed ...
LEMMA WroteFields ==
    ASSUME NEW g \in Goroutine, NEW t \in Conns, NEW lost \in SUBSET Conns
    PROVE  /\ Wrote(g, t, lost) \in Goroutine
           /\ Wrote(g, t, lost).pc = g.pc /\ Wrote(g, t, lost).user = g.user
           /\ Wrote(g, t, lost).due = g.due \ {t}
           /\ Wrote(g, t, lost).failed = g.failed \union lost
           /\ Wrote(g, t, lost).fresh = g.fresh /\ Wrote(g, t, lost).leaving = g.leaving
  BY DEF Wrote, Goroutine

\* ... the freshness.
LEMMA StaleFields ==
    ASSUME NEW g \in Goroutine
    PROVE  /\ Stale(g) \in Goroutine
           /\ Stale(g).pc = g.pc /\ Stale(g).user = g.user
           /\ Stale(g).due = g.due /\ Stale(g).failed = g.failed
           /\ Stale(g).fresh = FALSE /\ Stale(g).leaving = g.leaving
  BY DEF Stale, Goroutine

----------------------------------------------------------------------------
(* The inductive invariant.                                                *)

\* Goroutine g will still send connection k the room as it is now, if k is in
\* the table when g copies it, or will take k out of the table.
Owes(g, k) ==
    \/ g.pc \in {"kick", "sync", "unregister"}
    \/ g.pc = "lookup" /\ k \in g.due
    \/ g.pc = "cast" /\ (k \in g.failed \/ (g.fresh /\ k \in g.due))

OwesStart(g, k) == g.pc = "start" \/ (g.pc = "startcast" /\ k \in g.due \union g.failed)

Owed == \A k \in behind : \E w \in Workers : Owes(worker[w], k)

StartOwed == \A k \in awaiting : \E t \in Tasks : OwesStart(worker[t], k)

HubInv ==
    /\ WorkersOK
    /\ RegistryExact
    /\ Owed
    /\ StartOwed

----------------------------------------------------------------------------
(* Steps in which one worker, w, becomes q.  The conditions on such a step *)
(* are what the parts of the invariant, and ReadyKept, need of it.         *)

MoveTyped(w, q) ==
    /\ w \in Conns =>
           /\ q.pc \notin {"kick", "start", "startcast"}
           /\ q.pc \in {"reset", "unregister"} => q.leaving
           /\ q.pc \in {"register", "read", "update"} => ~q.leaving
    /\ w \in Tasks =>
           q.pc \notin {"register", "read", "update", "reset", "unregister"} /\ ~q.leaving
    /\ conns' \subseteq Conns /\ open' \subseteq Conns
    /\ behind' \subseteq conns' /\ awaiting' \subseteq conns'

MoveListed(w, q) ==
    /\ \A k \in conns' : (k = w /\ Serves(q)) \/ (k # w /\ k \in conns)
    /\ \A k \in open' : \/ k = w /\ (Serves(q) => k \in conns')
                        \/ k # w /\ k \in open /\ (k \in conns => k \in conns')

MoveOwed(w, q) ==
    \/ /\ Become(w, q)
       /\ behind' \subseteq behind
       /\ \A k \in behind' : Owes(worker[w], k) => Owes(q, k)
    \/ \A k \in behind' : Owes(q, k)

MoveStart(w, q) ==
    \/ awaiting' \subseteq awaiting /\ \A k \in awaiting' : OwesStart(worker[w], k) => OwesStart(q, k)
    \/ w \in Tasks /\ \A k \in awaiting' : OwesStart(q, k)

MoveReady(w, q) ==
    /\ w \in Conns => \A u \in ready' : Attends(worker[w], u) => Attends(q, u)
    /\ \A u \in ready' : u \in ready \/ (w \in Conns /\ Attends(q, u))

\* Worker w becomes q; the others stay, except that they may no longer know the room.
LEMMA MoveOne ==
    ASSUME WorkersOK, NEW w \in Workers, NEW q \in Goroutine, Become(w, q) \/ Changed(w, q)
    PROVE  /\ worker' \in [Workers -> Goroutine]
           /\ worker'[w] = q
           /\ \A x \in Workers \ {w} :
                  /\ worker'[x].pc = worker[x].pc /\ worker'[x].user = worker[x].user
                  /\ worker'[x].due = worker[x].due /\ worker'[x].failed = worker[x].failed
                  /\ worker'[x].leaving = worker[x].leaving
           /\ Become(w, q) => \A x \in Workers \ {w} : worker'[x] = worker[x]
<1>1. CASE Become(w, q)
  BY <1>1 DEF Become, WorkersOK
<1>2. CASE Changed(w, q) /\ ~Become(w, q)
  <2>1. worker' = [x \in Workers |-> IF x = w THEN q ELSE Stale(worker[x])]
    BY <1>2 DEF Changed
  <2>2. \A x \in Workers : worker[x] \in Goroutine
    BY DEF WorkersOK
  <2> QED
    BY <1>2, <2>1, <2>2, StaleFields
<1> QED
  BY <1>1, <1>2

\* The types survive such a step.
LEMMA MoveKeepsTypes ==
    ASSUME WorkersOK, NEW w \in Workers, NEW q \in Goroutine, Become(w, q) \/ Changed(w, q),
           MoveTyped(w, q)
    PROVE  WorkersOK'
<1>1. \A x \in Workers : x # w =>
          worker'[x].pc = worker[x].pc /\ worker'[x].leaving = worker[x].leaving
  BY MoveOne
<1>2. worker' \in [Workers -> Goroutine] /\ worker'[w] = q
  BY MoveOne
<1>3. \A k \in Conns : /\ worker'[k].pc \notin {"kick", "start", "startcast"}
                       /\ worker'[k].pc \in {"reset", "unregister"} => worker'[k].leaving
                       /\ worker'[k].pc \in {"register", "read", "update"} => ~worker'[k].leaving
  BY <1>1, <1>2 DEF WorkersOK, MoveTyped, Workers
<1>4. \A t \in Tasks :
          /\ worker'[t].pc \notin {"register", "read", "update", "reset", "unregister"}
          /\ ~worker'[t].leaving
  BY <1>1, <1>2 DEF WorkersOK, MoveTyped, Workers
<1> QED
  BY <1>2, <1>3, <1>4 DEF WorkersOK, MoveTyped

\* So does the exactness of the table.
LEMMA MoveKeepsTable ==
    ASSUME WorkersOK, RegistryExact,
           NEW w \in Workers, NEW q \in Goroutine, Become(w, q) \/ Changed(w, q),
           MoveTyped(w, q), MoveListed(w, q)
    PROVE  RegistryExact'
<1>1. \A x \in Workers : x # w => (Serves(worker'[x]) <=> Serves(worker[x]))
  BY MoveOne DEF Serves
<1>2. worker'[w] = q
  BY MoveOne
<1>3. conns' \subseteq Workers /\ open' \subseteq Workers
  BY DEF MoveTyped, Workers
<1> QED
  BY <1>1, <1>2, <1>3 DEF RegistryExact, MoveListed

\* So do the promises of a status ...
LEMMA MoveKeepsOwed ==
    ASSUME WorkersOK, Owed, NEW w \in Workers, NEW q \in Goroutine, Become(w, q) \/ Changed(w, q),
           MoveOwed(w, q)
    PROVE  Owed'
<1>1. worker'[w] = q
  BY MoveOne
<1>2. CASE \A k \in behind' : Owes(q, k)
  BY <1>1, <1>2 DEF Owed
<1>3. CASE /\ Become(w, q)
           /\ behind' \subseteq behind
           /\ \A k \in behind' : Owes(worker[w], k) => Owes(q, k)
  <2> SUFFICES ASSUME NEW k \in behind' PROVE \E x \in Workers : Owes(worker'[x], k)
    BY DEF Owed
  <2>1. PICK x \in Workers : Owes(worker[x], k)
    BY <1>3 DEF Owed
  <2>2. CASE x = w
    BY <1>1, <1>3, <2>1, <2>2
  <2>3. CASE x # w
    <3>1. worker'[x] = worker[x]
      BY <1>3, <2>3, MoveOne
    <3> QED
      BY <2>1, <3>1
  <2> QED
    BY <2>2, <2>3
<1> QED
  BY <1>2, <1>3 DEF MoveOwed

\* ... and of a start_game.
LEMMA MoveKeepsStart ==
    ASSUME WorkersOK, StartOwed, NEW w \in Workers, NEW q \in Goroutine,
           Become(w, q) \/ Changed(w, q), MoveStart(w, q)
    PROVE  StartOwed'
<1>1. worker'[w] = q
  BY MoveOne
<1>2. CASE w \in Tasks /\ \A k \in awaiting' : OwesStart(q, k)
  BY <1>1, <1>2 DEF StartOwed
<1>3. CASE /\ awaiting' \subseteq awaiting
           /\ \A k \in awaiting' : OwesStart(worker[w], k) => OwesStart(q, k)
  <2> SUFFICES ASSUME NEW k \in awaiting' PROVE \E t \in Tasks : OwesStart(worker'[t], k)
    BY DEF StartOwed
  <2>1. PICK t \in Tasks : OwesStart(worker[t], k)
    BY <1>3 DEF StartOwed
  <2>2. CASE t = w
    BY <1>1, <1>3, <2>1, <2>2
  <2>3. CASE t # w
    <3>1. /\ worker'[t].pc = worker[t].pc /\ worker'[t].due = worker[t].due
          /\ worker'[t].failed = worker[t].failed
      BY <2>3, MoveOne DEF Workers
    <3> QED
      BY <2>1, <3>1 DEF OwesStart
  <2> QED
    BY <2>2, <2>3
<1> QED
  BY <1>2, <1>3 DEF MoveStart

\* Nobody is left ready and unattended by such a step.
LEMMA MoveKeepsReady ==
    ASSUME WorkersOK, NEW w \in Workers, NEW q \in Goroutine, Become(w, q) \/ Changed(w, q),
           MoveReady(w, q)
    PROVE  ReadyKept
<1>1. worker'[w] = q
  BY MoveOne
<1>2. \A k \in Conns, u \in Users :
          k # w => (Attends(worker'[k], u) <=> Attends(worker[k], u))
  BY MoveOne DEF Attends, Serves, Workers
<1> SUFFICES ASSUME NEW u \in Users, u \in ready', \A k \in Conns : ~Attends(worker'[k], u)
             PROVE  u \in ready /\ \A k \in Conns : ~Attends(worker[k], u)
  BY DEF ReadyKept, Attended
<1>3. \A k \in Conns : ~Attends(worker[k], u)
  BY <1>1, <1>2 DEF MoveReady
<1>4. u \in ready
  BY <1>1 DEF MoveReady
<1> QED
  BY <1>3, <1>4

\* The whole invariant survives a step that meets the conditions.
LEMMA Move ==
    ASSUME HubInv, NEW w \in Workers, NEW q \in Goroutine, Become(w, q) \/ Changed(w, q),
           MoveTyped(w, q), MoveListed(w, q), MoveOwed(w, q), MoveStart(w, q)
    PROVE  HubInv'
  BY MoveKeepsTypes, MoveKeepsTable, MoveKeepsOwed, MoveKeepsStart DEF HubInv

----------------------------------------------------------------------------
(* The steps of requests and connections.                                  *)

\* The invariant and a join, which owes every connection the new state of the room.
LEMMA JoinKeeps ==
    ASSUME HubInv, NEW u \in Users, NEW t \in Tasks, Join(t, u)
    PROVE  HubInv' /\ ReadyKept
<1> DEFINE q == Worker("sync", NoUser)
<1>1. t \in Workers /\ worker[t] \in Goroutine
  BY DEF HubInv, WorkersOK, Workers
<1>2. /\ q \in Goroutine
      /\ q.pc = "sync" /\ q.failed = {} /\ q.leaving = FALSE
  <2>1. "sync" \in Pcs /\ NoUser \in Served
    BY <1>1, Positions, ServedUsers, GoroutineFields
  <2> QED
    BY <2>1 DEF Worker, Goroutine
<1>3. Changed(t, q)
  BY DEF Join
<1> HIDE DEF q
<1>4. MoveTyped(t, q)
  BY <1>1, <1>2, <1>3, HubAssumption DEF MoveTyped, HubInv, WorkersOK, Join, Changed, table, news
<1>5. MoveListed(t, q)
  BY <1>1, <1>2, GoroutineFields, HubAssumption
  DEF MoveListed, Serves, HubInv, WorkersOK, RegistryExact, Join, table
<1>6. MoveOwed(t, q)
  BY <1>1, <1>2, <1>3, IdleFields DEF MoveOwed, Owes, HubInv, WorkersOK, Join, news
<1>7. MoveStart(t, q)
  BY <1>1, <1>2, IdleFields, GoroutineFields DEF MoveStart, OwesStart, HubInv, WorkersOK, Join, news
<1>8. MoveReady(t, q)
  BY <1>1, <1>2, IdleFields, HubAssumption
  DEF MoveReady, Attends, Serves, HubInv, WorkersOK, Join
<1> QED
  BY <1>1, <1>2, <1>3, <1>4, <1>5, <1>6, <1>7, <1>8, Move, MoveKeepsReady, Zenon DEF HubInv

\* The invariant and a leave, before it closes its user's connections.
LEMMA LeaveKeeps ==
    ASSUME HubInv, NEW u \in Users, NEW t \in Tasks, Leave(t, u)
    PROVE  HubInv' /\ ReadyKept
<1> DEFINE q == Worker("kick", u)
<1>1. t \in Workers /\ worker[t] \in Goroutine
  BY DEF HubInv, WorkersOK, Workers
<1>2. /\ q \in Goroutine
      /\ q.pc = "kick" /\ q.failed = {} /\ q.leaving = FALSE
  <2>1. "kick" \in Pcs /\ u \in Served
    BY <1>1, Positions, ServedUsers, GoroutineFields
  <2> QED
    BY <2>1 DEF Worker, Goroutine
<1>3. Changed(t, q)
  BY DEF Leave
<1> HIDE DEF q
<1>4. MoveTyped(t, q)
  BY <1>1, <1>2, <1>3, HubAssumption DEF MoveTyped, HubInv, WorkersOK, Leave, Changed, table, news
<1>5. MoveListed(t, q)
  BY <1>1, <1>2, GoroutineFields, HubAssumption
  DEF MoveListed, Serves, HubInv, WorkersOK, RegistryExact, Leave, table
<1>6. MoveOwed(t, q)
  BY <1>1, <1>2, <1>3, IdleFields DEF MoveOwed, Owes, HubInv, WorkersOK, Leave, news
<1>7. MoveStart(t, q)
  BY <1>1, <1>2, IdleFields, GoroutineFields DEF MoveStart, OwesStart, HubInv, WorkersOK, Leave, news
<1>8. MoveReady(t, q)
  BY <1>1, <1>2, IdleFields, HubAssumption
  DEF MoveReady, Attends, Serves, HubInv, WorkersOK, Leave
<1> QED
  BY <1>1, <1>2, <1>3, <1>4, <1>5, <1>6, <1>7, <1>8, Move, MoveKeepsReady, Zenon DEF HubInv

\* The invariant and a start, which owes every connection its start_game.
LEMMA StartKeeps ==
    ASSUME HubInv, NEW t \in Tasks, Start(t)
    PROVE  HubInv' /\ ReadyKept
<1> DEFINE q == Worker("start", NoUser)
<1>1. t \in Workers /\ worker[t] \in Goroutine
  BY DEF HubInv, WorkersOK, Workers
<1>2. /\ q \in Goroutine
      /\ q.pc = "start" /\ q.failed = {} /\ q.leaving = FALSE
  <2>1. "start" \in Pcs /\ NoUser \in Served
    BY <1>1, Positions, ServedUsers, GoroutineFields
  <2> QED
    BY <2>1 DEF Worker, Goroutine
<1>3. Become(t, q)
  BY DEF Start
<1> HIDE DEF q
<1>4. MoveTyped(t, q)
  BY <1>1, <1>2, <1>3, HubAssumption DEF MoveTyped, HubInv, WorkersOK, Start, table, news
<1>5. MoveListed(t, q)
  BY <1>1, <1>2, GoroutineFields, HubAssumption
  DEF MoveListed, Serves, HubInv, WorkersOK, RegistryExact, Start, table
<1>6. MoveOwed(t, q)
  BY <1>1, <1>2, <1>3, IdleFields DEF MoveOwed, Owes, HubInv, WorkersOK, Start, news
<1>7. MoveStart(t, q)
  BY <1>1, <1>2, IdleFields, GoroutineFields DEF MoveStart, OwesStart, HubInv, WorkersOK, Start, news
<1>8. MoveReady(t, q)
  BY <1>1, <1>2, IdleFields, HubAssumption
  DEF MoveReady, Attends, Serves, HubInv, WorkersOK, Start
<1> QED
  BY <1>1, <1>2, <1>3, <1>4, <1>5, <1>6, <1>7, <1>8, Move, MoveKeepsReady, Zenon DEF HubInv

\* The invariant and the membership check of a new connection.
LEMMA ConnectKeeps ==
    ASSUME HubInv, NEW u \in Users, NEW k \in Conns, Connect(k, u)
    PROVE  HubInv' /\ ReadyKept
<1> DEFINE q == Worker("register", u)
<1>1. k \in Workers /\ worker[k] \in Goroutine
  BY DEF HubInv, WorkersOK, Workers
<1>2. /\ q \in Goroutine
      /\ q.pc = "register" /\ q.failed = {} /\ q.leaving = FALSE
  <2>1. "register" \in Pcs /\ u \in Served
    BY <1>1, Positions, ServedUsers, GoroutineFields
  <2> QED
    BY <2>1 DEF Worker, Goroutine
<1>3. Become(k, q)
  BY DEF Connect, Unused
<1> HIDE DEF q
<1>4. MoveTyped(k, q)
  BY <1>1, <1>2, <1>3, HubAssumption DEF MoveTyped, HubInv, WorkersOK, Connect, table, news, Unused
<1>5. MoveListed(k, q)
  BY <1>1, <1>2, GoroutineFields, HubAssumption
  DEF MoveListed, Serves, HubInv, WorkersOK, RegistryExact, Connect, table, Unused
<1>6. MoveOwed(k, q)
  BY <1>1, <1>2, <1>3, IdleFields DEF MoveOwed, Owes, HubInv, WorkersOK, Connect, news, Unused
<1>7. MoveStart(k, q)
  BY <1>1, <1>2, IdleFields, GoroutineFields DEF MoveStart, OwesStart, HubInv, WorkersOK, Connect, news, Unused
<1>8. MoveReady(k, q)
  BY <1>1, <1>2, IdleFields, HubAssumption
  DEF MoveReady, Attends, Serves, HubInv, WorkersOK, Connect, Unused
<1> QED
  BY <1>1, <1>2, <1>3, <1>4, <1>5, <1>6, <1>7, <1>8, Move, MoveKeepsReady, Zenon DEF HubInv

\* The invariant and the registration of a connection.
LEMMA RegisterKeeps ==
    ASSUME HubInv, NEW k \in Conns, Register(k)
    PROVE  HubInv' /\ ReadyKept
<1> DEFINE q == At(worker[k], "sync")
<1>1. k \in Workers /\ worker[k] \in Goroutine
  BY DEF HubInv, WorkersOK, Workers
<1>2. /\ q \in Goroutine
      /\ q.pc = "sync" /\ q.failed = worker[k].failed /\ q.leaving = worker[k].leaving /\ q.user = worker[k].user
  BY <1>1, AtFields, Positions, ServedUsers, GoroutineFields
<1>3. Become(k, q)
  BY DEF Register
<1> HIDE DEF q
<1>4. MoveTyped(k, q)
  BY <1>1, <1>2, <1>3, HubAssumption DEF MoveTyped, HubInv, WorkersOK, Register, table, news
<1>5. MoveListed(k, q)
  BY <1>1, <1>2, GoroutineFields, HubAssumption
  DEF MoveListed, Serves, HubInv, WorkersOK, RegistryExact, Register, table
<1>6. MoveOwed(k, q)
  BY <1>1, <1>2, <1>3, IdleFields DEF MoveOwed, Owes, HubInv, WorkersOK, Register, news
<1>7. MoveStart(k, q)
  BY <1>1, <1>2, IdleFields, GoroutineFields DEF MoveStart, OwesStart, HubInv, WorkersOK, Register, news
<1>8. MoveReady(k, q)
  BY <1>1, <1>2, IdleFields, HubAssumption
  DEF MoveReady, Attends, Serves, HubInv, WorkersOK, Register
<1> QED
  BY <1>1, <1>2, <1>3, <1>4, <1>5, <1>6, <1>7, <1>8, Move, MoveKeepsReady, Zenon DEF HubInv

\* The invariant and the arrival of a message.
LEMMA ReadyMessageKeeps ==
    ASSUME HubInv, NEW k \in Conns, ReadyMessage(k)
    PROVE  HubInv' /\ ReadyKept
<1> DEFINE q == At(worker[k], "update")
<1>1. k \in Workers /\ worker[k] \in Goroutine
  BY DEF HubInv, WorkersOK, Workers
<1>2. /\ q \in Goroutine
      /\ q.pc = "update" /\ q.failed = worker[k].failed /\ q.leaving = worker[k].leaving /\ q.user = worker[k].user
  BY <1>1, AtFields, Positions, ServedUsers, GoroutineFields
<1>3. Become(k, q)
  BY DEF ReadyMessage
<1> HIDE DEF q
<1>4. MoveTyped(k, q)
  BY <1>1, <1>2, <1>3, HubAssumption DEF MoveTyped, HubInv, WorkersOK, ReadyMessage, table, news
<1>5. MoveListed(k, q)
  BY <1>1, <1>2, GoroutineFields, HubAssumption
  DEF MoveListed, Serves, HubInv, WorkersOK, RegistryExact, ReadyMessage, table
<1>6. MoveOwed(k, q)
  BY <1>1, <1>2, <1>3, IdleFields DEF MoveOwed, Owes, HubInv, WorkersOK, ReadyMessage, news
<1>7. MoveStart(k, q)
  BY <1>1, <1>2, IdleFields, GoroutineFields DEF MoveStart, OwesStart, HubInv, WorkersOK, ReadyMessage, news
<1>8. MoveReady(k, q)
  BY <1>1, <1>2, IdleFields, HubAssumption
  DEF MoveReady, Attends, Serves, HubInv, WorkersOK, ReadyMessage
<1> QED
  BY <1>1, <1>2, <1>3, <1>4, <1>5, <1>6, <1>7, <1>8, Move, MoveKeepsReady, Zenon DEF HubInv

\* The invariant and the update that a ready message asks for.
LEMMA UpdateUserReadyKeeps ==
    ASSUME HubInv, NEW k \in Conns, NEW b \in BOOLEAN, UpdateUserReady(k, b)
    PROVE  HubInv' /\ ReadyKept
<1> DEFINE q == At(worker[k], "sync")
<1>1. k \in Workers /\ worker[k] \in Goroutine
  BY DEF HubInv, WorkersOK, Workers
<1>2. /\ q \in Goroutine
      /\ q.pc = "sync" /\ q.failed = worker[k].failed /\ q.leaving = worker[k].leaving /\ q.user = worker[k].user
  BY <1>1, AtFields, Positions, ServedUsers, GoroutineFields
<1>3. Changed(k, q)
  BY DEF UpdateUserReady
<1> HIDE DEF q
<1>4. MoveTyped(k, q)
  BY <1>1, <1>2, <1>3, HubAssumption DEF MoveTyped, HubInv, WorkersOK, UpdateUserReady, table, news, Changed
<1>5. MoveListed(k, q)
  BY <1>1, <1>2, GoroutineFields, HubAssumption
  DEF MoveListed, Serves, HubInv, WorkersOK, RegistryExact, UpdateUserReady, table
<1>6. MoveOwed(k, q)
  BY <1>1, <1>2, <1>3, IdleFields DEF MoveOwed, Owes, HubInv, WorkersOK, UpdateUserReady, news
<1>7. MoveStart(k, q)
  BY <1>1, <1>2, IdleFields, GoroutineFields DEF MoveStart, OwesStart, HubInv, WorkersOK, UpdateUserReady, news
<1>8. MoveReady(k, q)
  BY <1>1, <1>2, IdleFields, HubAssumption
  DEF MoveReady, Attends, Serves, HubInv, WorkersOK, UpdateUserReady
<1> QED
  BY <1>1, <1>2, <1>3, <1>4, <1>5, <1>6, <1>7, <1>8, Move, MoveKeepsReady, Zenon DEF HubInv

\* The invariant and an update that fails.
LEMMA UpdateFailsKeeps ==
    ASSUME HubInv, NEW k \in Conns, UpdateFails(k)
    PROVE  HubInv' /\ ReadyKept
<1> DEFINE q == At(worker[k], "read")
<1>1. k \in Workers /\ worker[k] \in Goroutine
  BY DEF HubInv, WorkersOK, Workers
<1>2. /\ q \in Goroutine
      /\ q.pc = "read" /\ q.failed = worker[k].failed /\ q.leaving = worker[k].leaving /\ q.user = worker[k].user
  BY <1>1, AtFields, Positions, ServedUsers, GoroutineFields
<1>3. Become(k, q)
  BY DEF UpdateFails
<1> HIDE DEF q
<1>4. MoveTyped(k, q)
  BY <1>1, <1>2, <1>3, HubAssumption DEF MoveTyped, HubInv, WorkersOK, UpdateFails, table, news
<1>5. MoveListed(k, q)
  BY <1>1, <1>2, GoroutineFields, HubAssumption
  DEF MoveListed, Serves, HubInv, WorkersOK, RegistryExact, UpdateFails, table
<1>6. MoveOwed(k, q)
  BY <1>1, <1>2, <1>3, IdleFields DEF MoveOwed, Owes, HubInv, WorkersOK, UpdateFails, news
<1>7. MoveStart(k, q)
  BY <1>1, <1>2, IdleFields, GoroutineFields DEF MoveStart, OwesStart, HubInv, WorkersOK, UpdateFails, news
<1>8. MoveReady(k, q)
  BY <1>1, <1>2, IdleFields, HubAssumption
  DEF MoveReady, Attends, Serves, HubInv, WorkersOK, UpdateFails
<1> QED
  BY <1>1, <1>2, <1>3, <1>4, <1>5, <1>6, <1>7, <1>8, Move, MoveKeepsReady, Zenon DEF HubInv

\* The invariant and the end of a connection's read loop.
LEMMA DetectKeeps ==
    ASSUME HubInv, NEW k \in Conns, Detect(k)
    PROVE  HubInv' /\ ReadyKept
<1> DEFINE q == Teardown(worker[k].user)
<1>1. k \in Workers /\ worker[k] \in Goroutine
  BY DEF HubInv, WorkersOK, Workers
<1>2. /\ q \in Goroutine
      /\ q.pc = "reset" /\ q.failed = {} /\ q.leaving = TRUE /\ q.user = worker[k].user
  BY <1>1, TeardownFields, Positions, ServedUsers, GoroutineFields
<1>3. Become(k, q)
  BY DEF Detect
<1> HIDE DEF q
<1>4. MoveTyped(k, q)
  BY <1>1, <1>2, <1>3, HubAssumption DEF MoveTyped, HubInv, WorkersOK, Detect, table, news
<1>5. MoveListed(k, q)
  BY <1>1, <1>2, GoroutineFields, HubAssumption
  DEF MoveListed, Serves, HubInv, WorkersOK, RegistryExact, Detect, table
<1>6. MoveOwed(k, q)
  BY <1>1, <1>2, <1>3, IdleFields DEF MoveOwed, Owes, HubInv, WorkersOK, Detect, news
<1>7. MoveStart(k, q)
  BY <1>1, <1>2, IdleFields, GoroutineFields DEF MoveStart, OwesStart, HubInv, WorkersOK, Detect, news
<1>8. MoveReady(k, q)
  BY <1>1, <1>2, IdleFields, HubAssumption
  DEF MoveReady, Attends, Serves, HubInv, WorkersOK, Detect
<1> QED
  BY <1>1, <1>2, <1>3, <1>4, <1>5, <1>6, <1>7, <1>8, Move, MoveKeepsReady, Zenon DEF HubInv

\* The invariant and the update of a teardown.
LEMMA ResetKeeps ==
    ASSUME HubInv, NEW k \in Conns, Reset(k)
    PROVE  HubInv' /\ ReadyKept
<1> DEFINE q == At(worker[k], "unregister")
<1>1. k \in Workers /\ worker[k] \in Goroutine
  BY DEF HubInv, WorkersOK, Workers
<1>2. /\ q \in Goroutine
      /\ q.pc = "unregister" /\ q.failed = worker[k].failed /\ q.leaving = worker[k].leaving /\ q.user = worker[k].user
  BY <1>1, AtFields, Positions, ServedUsers, GoroutineFields
<1>3. Changed(k, q)
  BY DEF Reset
<1> HIDE DEF q
<1>4. MoveTyped(k, q)
  BY <1>1, <1>2, <1>3, HubAssumption DEF MoveTyped, HubInv, WorkersOK, Reset, Changed, table, news
<1>5. MoveListed(k, q)
  BY <1>1, <1>2, GoroutineFields, HubAssumption
  DEF MoveListed, Serves, HubInv, WorkersOK, RegistryExact, Reset, table
<1>6. MoveOwed(k, q)
  BY <1>1, <1>2, <1>3, IdleFields DEF MoveOwed, Owes, HubInv, WorkersOK, Reset, news
<1>7. MoveStart(k, q)
  BY <1>1, <1>2, IdleFields, GoroutineFields DEF MoveStart, OwesStart, HubInv, WorkersOK, Reset, news
<1>8. MoveReady(k, q)
  BY <1>1, <1>2, IdleFields, HubAssumption
  DEF MoveReady, Attends, Serves, HubInv, WorkersOK, Reset
<1> QED
  BY <1>1, <1>2, <1>3, <1>4, <1>5, <1>6, <1>7, <1>8, Move, MoveKeepsReady, Zenon DEF HubInv

\* The invariant and the failed update of a teardown, which may leave a user ready.
LEMMA ResetFailsKeeps ==
    ASSUME HubInv, NEW k \in Conns, ResetFails(k)
    PROVE  HubInv'
<1> DEFINE q == At(worker[k], "unregister")
<1>1. k \in Workers /\ worker[k] \in Goroutine
  BY DEF HubInv, WorkersOK, Workers
<1>2. /\ q \in Goroutine
      /\ q.pc = "unregister" /\ q.failed = worker[k].failed /\ q.leaving = worker[k].leaving /\ q.user = worker[k].user
  BY <1>1, AtFields, Positions, ServedUsers, GoroutineFields
<1>3. Become(k, q)
  BY DEF ResetFails
<1> HIDE DEF q
<1>4. MoveTyped(k, q)
  BY <1>1, <1>2, <1>3, HubAssumption DEF MoveTyped, HubInv, WorkersOK, ResetFails, table, news
<1>5. MoveListed(k, q)
  BY <1>1, <1>2, GoroutineFields, HubAssumption
  DEF MoveListed, Serves, HubInv, WorkersOK, RegistryExact, ResetFails, table
<1>6. MoveOwed(k, q)
  BY <1>1, <1>2, <1>3, IdleFields DEF MoveOwed, Owes, HubInv, WorkersOK, ResetFails, news
<1>7. MoveStart(k, q)
  BY <1>1, <1>2, IdleFields, GoroutineFields DEF MoveStart, OwesStart, HubInv, WorkersOK, ResetFails, news
<1> QED
  BY <1>1, <1>2, <1>3, <1>4, <1>5, <1>6, <1>7, Move

\* The invariant and the removal of a connection by its own handler.
LEMMA UnregisterKeeps ==
    ASSUME HubInv, NEW k \in Conns, Unregister(k)
    PROVE  HubInv' /\ ReadyKept
<1> DEFINE q == Farewell
<1>1. k \in Workers /\ worker[k] \in Goroutine
  BY DEF HubInv, WorkersOK, Workers
<1>2. /\ q \in Goroutine
      /\ q.pc = "sync" /\ q.failed = {} /\ q.leaving = TRUE
  BY FarewellFields
<1>3. Become(k, q)
  BY DEF Unregister, Unlist
<1> HIDE DEF q
<1>4. MoveTyped(k, q)
  BY <1>1, <1>2, <1>3, HubAssumption DEF MoveTyped, HubInv, WorkersOK, Unregister, table, news, Unlist
<1>5. MoveListed(k, q)
  BY <1>1, <1>2, GoroutineFields, HubAssumption
  DEF MoveListed, Serves, HubInv, WorkersOK, RegistryExact, Unregister, table, Unlist
<1>6. MoveOwed(k, q)
  BY <1>1, <1>2, <1>3, IdleFields DEF MoveOwed, Owes, HubInv, WorkersOK, Unregister, news, Unlist
<1>7. MoveStart(k, q)
  BY <1>1, <1>2, IdleFields, GoroutineFields DEF MoveStart, OwesStart, HubInv, WorkersOK, Unregister, news, Unlist
<1>8. MoveReady(k, q)
  BY <1>1, <1>2, IdleFields, HubAssumption
  DEF MoveReady, Attends, Serves, HubInv, WorkersOK, Unregister, Unlist
<1> QED
  BY <1>1, <1>2, <1>3, <1>4, <1>5, <1>6, <1>7, <1>8, Move, MoveKeepsReady, Zenon DEF HubInv

\* The invariant and the closing of a leaver's connections.
LEMMA KickKeeps ==
    ASSUME HubInv, NEW t \in Tasks, Kick(t)
    PROVE  HubInv' /\ ReadyKept
<1> DEFINE q == Worker("sync", NoUser)
<1>1. t \in Workers /\ worker[t] \in Goroutine
  BY DEF HubInv, WorkersOK, Workers
<1>2. /\ q \in Goroutine
      /\ q.pc = "sync" /\ q.failed = {} /\ q.leaving = FALSE
  <2>1. "sync" \in Pcs /\ NoUser \in Served
    BY <1>1, Positions, ServedUsers, GoroutineFields
  <2> QED
    BY <2>1 DEF Worker, Goroutine
<1>3. Become(t, q)
  BY DEF Kick, Unlist
<1> HIDE DEF q
<1>4. MoveTyped(t, q)
  BY <1>1, <1>2, <1>3, HubAssumption DEF MoveTyped, HubInv, WorkersOK, Kick, table, news, Unlist
<1>5. MoveListed(t, q)
  BY <1>1, <1>2, GoroutineFields, HubAssumption
  DEF MoveListed, Serves, HubInv, WorkersOK, RegistryExact, Kick, table, Unlist
<1>6. MoveOwed(t, q)
  BY <1>1, <1>2, <1>3, IdleFields DEF MoveOwed, Owes, HubInv, WorkersOK, Kick, news, Unlist
<1>7. MoveStart(t, q)
  BY <1>1, <1>2, IdleFields, GoroutineFields DEF MoveStart, OwesStart, HubInv, WorkersOK, Kick, news, Unlist
<1>8. MoveReady(t, q)
  BY <1>1, <1>2, IdleFields, HubAssumption
  DEF MoveReady, Attends, Serves, HubInv, WorkersOK, Kick, Unlist
<1> QED
  BY <1>1, <1>2, <1>3, <1>4, <1>5, <1>6, <1>7, <1>8, Move, MoveKeepsReady, Zenon DEF HubInv

----------------------------------------------------------------------------
(* The steps of broadcasts.                                                *)

\* The invariant and a broadcast's read of the room.
LEMMA LookupKeeps ==
    ASSUME HubInv, NEW w \in Workers, Lookup(w)
    PROVE  HubInv' /\ ReadyKept
<1> DEFINE q == Informed(worker[w])
<1>1. w \in Workers /\ worker[w] \in Goroutine
  BY DEF HubInv, WorkersOK, Workers
<1>2. /\ q \in Goroutine
      /\ q.pc = "cast" /\ q.fresh = TRUE /\ q.due = worker[w].due
      /\ q.failed = worker[w].failed /\ q.leaving = worker[w].leaving /\ q.user = worker[w].user
  BY <1>1, InformedFields, Positions, ServedUsers, GoroutineFields
<1>3. Become(w, q)
  BY DEF Lookup
<1> HIDE DEF q
<1>4. MoveTyped(w, q)
  BY <1>1, <1>2, <1>3, HubAssumption DEF MoveTyped, HubInv, WorkersOK, Lookup, table, news
<1>5. MoveListed(w, q)
  BY <1>1, <1>2, GoroutineFields, HubAssumption
  DEF MoveListed, Serves, HubInv, WorkersOK, RegistryExact, Lookup, table
<1>6. MoveOwed(w, q)
  BY <1>1, <1>2, <1>3, IdleFields DEF MoveOwed, Owes, HubInv, WorkersOK, Lookup, news
<1>7. MoveStart(w, q)
  BY <1>1, <1>2, IdleFields, GoroutineFields DEF MoveStart, OwesStart, HubInv, WorkersOK, Lookup, news
<1>8. MoveReady(w, q)
  BY <1>1, <1>2, IdleFields, HubAssumption
  DEF MoveReady, Attends, Serves, HubInv, WorkersOK, Lookup
<1> QED
  BY <1>1, <1>2, <1>3, <1>4, <1>5, <1>6, <1>7, <1>8, Move, MoveKeepsReady, Zenon DEF HubInv

\* A goroutine that returns from a broadcast: q reads on, or is free and its
\* connection is closed.
LEMMA ReturnMoves ==
    ASSUME HubInv, NEW w \in Workers, worker[w].pc \in {"sync", "lookup", "cast", "startcast"},
           NEW ks, ReturnClosing(w, ks)
    PROVE  \E q \in Goroutine :
               /\ Become(w, q)
               /\ q.due = {} /\ q.failed = {} /\ q.leaving = FALSE
               /\ \/ /\ w \in Conns /\ ~worker[w].leaving /\ q.pc = "read" /\ open' = open \ ks
                     /\ q.user = worker[w].user
                  \/ /\ w \in Tasks \/ worker[w].leaving
                     /\ q.pc = "idle" /\ open' = open \ (ks \union {w})
<1>1. "read" \in Pcs /\ worker[w].user \in Served /\ worker[w] \in Goroutine
  BY Positions, GoroutineFields DEF HubInv, WorkersOK
<1>2. CASE w \in Conns /\ ~worker[w].leaving
  <2> DEFINE q == Worker("read", worker[w].user)
  <2>1. /\ q \in Goroutine /\ q.pc = "read" /\ q.user = worker[w].user
        /\ q.due = {} /\ q.failed = {} /\ q.leaving = FALSE
    BY <1>1 DEF Worker, Goroutine
  <2>2. Become(w, q) /\ open' = open \ ks
    BY <1>2 DEF ReturnClosing
  <2> HIDE DEF q
  <2> QED
    BY <1>2, <2>1, <2>2
<1>3. CASE ~(w \in Conns /\ ~worker[w].leaving)
  <2>1. Become(w, Idle) /\ open' = open \ (ks \union {w})
    BY <1>3 DEF ReturnClosing
  <2>2. w \in Tasks \/ worker[w].leaving
    BY <1>1, <1>3, GoroutineFields DEF Workers
  <2> QED
    BY <2>1, <2>2, IdleFields
<1> QED
  BY <1>2, <1>3

\* A goroutine that returns may take connections out of the table if it closes
\* them, and out of what is owed those that it was not the one to tell.
LEMMA ReturnKeeps ==
    ASSUME HubInv, NEW w \in Workers, worker[w].pc \in {"sync", "lookup", "cast", "startcast"},
           NEW ks, ReturnClosing(w, ks), ready' = ready,
           conns' = conns \ ks,
           behind' \subseteq behind \intersect conns', awaiting' \subseteq awaiting \intersect conns',
           \A k \in behind' : ~Owes(worker[w], k),
           \A k \in awaiting' : ~OwesStart(worker[w], k)
    PROVE  HubInv' /\ ReadyKept
<1>1. PICK q \in Goroutine :
          /\ Become(w, q)
          /\ q.due = {} /\ q.failed = {} /\ q.leaving = FALSE
          /\ \/ /\ w \in Conns /\ ~worker[w].leaving /\ q.pc = "read" /\ open' = open \ ks
                /\ q.user = worker[w].user
             \/ /\ w \in Tasks \/ worker[w].leaving
                /\ q.pc = "idle" /\ open' = open \ (ks \union {w})
  BY ReturnMoves
<1>2. MoveTyped(w, q)
  BY <1>1, HubAssumption DEF MoveTyped, HubInv, WorkersOK
<1>3. MoveListed(w, q)
  <2>1. open' \subseteq open \ ks
    BY <1>1
  <2>2. w \in conns' => Serves(q)
    BY <1>1, HubAssumption DEF HubInv, RegistryExact, WorkersOK, Serves
  <2>3. w \in open' /\ Serves(q) => w \in conns'
    BY <1>1, <2>1, HubAssumption DEF HubInv, RegistryExact, WorkersOK, Serves
  <2> QED
    BY <1>1, <2>1, <2>2, <2>3 DEF MoveListed
<1>4. MoveOwed(w, q) /\ MoveStart(w, q)
  BY <1>1 DEF MoveOwed, MoveStart
<1>5. MoveReady(w, q)
  BY <1>1, HubAssumption DEF MoveReady, Attends, Serves, HubInv, WorkersOK
<1> QED
  BY <1>1, <1>2, <1>3, <1>4, <1>5, Move, MoveKeepsReady DEF HubInv

\* The invariant and a broadcast's copy of the table.
LEMMA SnapshotKeeps ==
    ASSUME HubInv, NEW w \in Workers, Snapshot(w)
    PROVE  HubInv' /\ ReadyKept
<1>1. worker[w] \in Goroutine /\ worker[w].pc = "sync"
  BY DEF HubInv, WorkersOK, Snapshot
<1>2. CASE conns = {}
  <2>1. behind = {} /\ awaiting = {}
    BY <1>2 DEF HubInv, WorkersOK
  <2> QED
    BY <1>1, <1>2, <2>1, ReturnKeeps DEF Snapshot, Return, news
<1>3. CASE conns # {}
  <2> DEFINE q == Facing(worker[w], "lookup", conns)
  <2>1. /\ q \in Goroutine /\ q.pc = "lookup" /\ q.due = conns
        /\ q.failed = worker[w].failed /\ q.leaving = worker[w].leaving
        /\ q.user = worker[w].user
    BY <1>1, FacingFields, Positions DEF HubInv, WorkersOK
  <2>2. Become(w, q) /\ open' = open
    BY <1>3 DEF Snapshot
  <2> HIDE DEF q
  <2>3. MoveTyped(w, q)
    BY <1>1, <2>1, <2>2, HubAssumption DEF MoveTyped, HubInv, WorkersOK, Snapshot, news
  <2>4. MoveListed(w, q)
    BY <1>1, <2>1, <2>2, GoroutineFields
    DEF MoveListed, Serves, HubInv, RegistryExact, Snapshot
  <2>5. MoveOwed(w, q) /\ MoveStart(w, q)
    BY <1>1, <2>1, <2>2
    DEF MoveOwed, MoveStart, Owes, OwesStart, HubInv, WorkersOK, Snapshot, news
  <2>6. MoveReady(w, q)
    BY <1>1, <2>1 DEF MoveReady, Attends, Serves, Snapshot
  <2> QED
    BY <2>1, <2>2, <2>3, <2>4, <2>5, <2>6, Move, MoveKeepsReady DEF HubInv
<1> QED
  BY <1>2, <1>3

\* The invariant and a broadcast that ends at a failed read.
LEMMA LookupFailsKeeps ==
    ASSUME HubInv, NEW w \in Workers, LookupFails(w)
    PROVE  HubInv' /\ ReadyKept
<1>1. /\ worker[w].pc = "lookup" /\ ReturnClosing(w, {})
      /\ behind' = behind \ worker[w].due /\ conns' = conns \ {} /\ awaiting' = awaiting
      /\ ready' = ready
  BY DEF LookupFails, Return
<1>2. behind' \subseteq behind \intersect conns' /\ awaiting' \subseteq awaiting \intersect conns'
  BY <1>1 DEF HubInv, WorkersOK
<1>3. \A k \in behind' : ~Owes(worker[w], k)
  BY <1>1 DEF Owes
<1>4. \A k \in awaiting' : ~OwesStart(worker[w], k)
  BY <1>1 DEF OwesStart
<1> QED
  BY <1>1, <1>2, <1>3, <1>4, ReturnKeeps

\* The invariant and the removal of the connections that a broadcast could not write to.
LEMMA FinishCastKeeps ==
    ASSUME HubInv, NEW w \in Workers, FinishCast(w)
    PROVE  HubInv' /\ ReadyKept
<1>1. /\ worker[w].pc \in {"cast", "startcast"} /\ worker[w].due = {}
      /\ ReturnClosing(w, worker[w].failed)
      /\ conns' = conns \ worker[w].failed
      /\ behind' = behind \ worker[w].failed /\ awaiting' = awaiting \ worker[w].failed
      /\ ready' = ready
  BY DEF FinishCast, Unlist
<1>2. behind' \subseteq behind \intersect conns' /\ awaiting' \subseteq awaiting \intersect conns'
  BY <1>1 DEF HubInv, WorkersOK
<1>3. /\ \A k \in behind' : ~Owes(worker[w], k)
      /\ \A k \in awaiting' : ~OwesStart(worker[w], k)
  BY <1>1 DEF Owes, OwesStart
<1> QED
  BY <1>1, <1>2, <1>3, ReturnKeeps

\* The invariant and one write of a broadcast.
LEMMA DeliverKeeps ==
    ASSUME HubInv, NEW w \in Workers, NEW t \in Conns, Deliver(w, t)
    PROVE  HubInv' /\ ReadyKept
<1>1. PICK lost \in SUBSET {t} : /\ Become(w, Wrote(worker[w], t, lost))
                                /\ Heard(w, {t} \ lost)
  BY DEF Deliver
<1>2. /\ worker[w] \in Goroutine /\ worker[w].pc \in {"cast", "startcast"}
      /\ conns' = conns /\ open' = open
  BY DEF HubInv, WorkersOK, Deliver, table
<1>3. /\ behind' \subseteq behind /\ awaiting' \subseteq awaiting
      /\ t \in behind' /\ worker[w].pc = "cast" /\ worker[w].fresh => t \in lost
      /\ t \in awaiting' /\ worker[w].pc = "startcast" => t \in lost
  BY <1>1 DEF Heard
<1> DEFINE q == Wrote(worker[w], t, lost)
<1>4. /\ q \in Goroutine /\ q.pc = worker[w].pc /\ q.due = worker[w].due \ {t}
      /\ q.failed = worker[w].failed \union lost
      /\ q.leaving = worker[w].leaving /\ q.fresh = worker[w].fresh
      /\ q.user = worker[w].user
  <2>1. lost \in SUBSET Conns
    OBVIOUS
  <2> QED
    BY <1>2, <2>1, WroteFields
<1>5. Become(w, q)
  BY <1>1
<1> HIDE DEF q
<1>6. MoveTyped(w, q)
  BY <1>2, <1>3, <1>4 DEF MoveTyped, HubInv, WorkersOK
<1>7. MoveListed(w, q)
  BY <1>2, <1>4 DEF MoveListed, Serves, HubInv, RegistryExact
<1>8. MoveOwed(w, q)
  BY <1>2, <1>3, <1>4, <1>5 DEF MoveOwed, Owes
<1>9. MoveStart(w, q)
  BY <1>2, <1>3, <1>4 DEF MoveStart, OwesStart
<1>10. MoveReady(w, q)
  BY <1>4 DEF MoveReady, Attends, Serves, Deliver
<1> QED
  BY <1>4, <1>5, <1>6, <1>7, <1>8, <1>9, <1>10, Move, MoveKeepsReady DEF HubInv

\* The invariant and the copy of the table for start_game.
LEMMA StartSnapshotKeeps ==
    ASSUME HubInv, NEW t \in Tasks, StartSnapshot(t)
    PROVE  HubInv' /\ ReadyKept
<1>1. t \in Workers /\ t \notin Conns /\ worker[t] \in Goroutine /\ worker[t].pc = "start"
  BY HubAssumption DEF HubInv, WorkersOK, Workers, StartSnapshot
<1>2. conns' = conns /\ open' = open /\ behind' = behind /\ awaiting' = awaiting
  BY DEF StartSnapshot, table, news
<1> DEFINE q == IF conns = {} THEN Idle ELSE Facing(worker[t], "startcast", conns)
<1>3. /\ q \in Goroutine /\ ~q.leaving
      /\ \/ q.pc = "idle" /\ conns = {}
         \/ q.pc = "startcast" /\ q.due = conns
  BY <1>1, IdleFields, FacingFields, Positions DEF HubInv, WorkersOK
<1>4. Become(t, q)
  BY DEF StartSnapshot
<1> HIDE DEF q
<1>5. MoveTyped(t, q)
  BY <1>1, <1>2, <1>3 DEF MoveTyped, HubInv, WorkersOK
<1>6. MoveListed(t, q)
  BY <1>1, <1>2, <1>3 DEF MoveListed, HubInv, WorkersOK
<1>7. MoveOwed(t, q) /\ MoveStart(t, q)
  BY <1>1, <1>2, <1>3, <1>4 DEF MoveOwed, MoveStart, Owes, OwesStart, HubInv, WorkersOK
<1>8. MoveReady(t, q)
  BY <1>1 DEF MoveReady, StartSnapshot
<1> QED
  BY <1>1, <1>3, <1>4, <1>5, <1>6, <1>7, <1>8, Move, MoveKeepsReady DEF HubInv

----------------------------------------------------------------------------
(* The remaining steps.                                                    *)

\* The invariant and a join that ends before its broadcast.
LEMMA JoinLookupFailsKeeps ==
    ASSUME HubInv, NEW u \in Users, JoinLookupFails(u)
    PROVE  HubInv' /\ ReadyKept
<1>1. UNCHANGED <<ready, conns, open, worker, behind, awaiting>>
  BY DEF JoinLookupFails, table, news
<1> QED
  BY <1>1 DEF HubInv, WorkersOK, RegistryExact, Owed, StartOwed, ReadyKept, Attended

\* The invariant and the end of the process.
LEMMA RestartKeeps ==
    ASSUME HubInv, Restart
    PROVE  HubInv'
<1>1. /\ worker' = [w \in Workers |-> Idle]
      /\ conns' = {} /\ open' = {} /\ behind' = {} /\ awaiting' = {}
  BY DEF Restart
<1>2. WorkersOK'
  BY <1>1, IdleFields DEF WorkersOK, Workers
<1>3. RegistryExact' /\ Owed' /\ StartOwed'
  BY <1>1 DEF RegistryExact, Owed, StartOwed
<1> QED
  BY <1>2, <1>3 DEF HubInv

\* The invariant and two writes to one connection at a time.
LEMMA CollideKeeps ==
    ASSUME HubInv, NEW v \in Workers, NEW w \in Workers, NEW t \in Conns, Collide(v, w, t)
    PROVE  HubInv' /\ (Restart \/ ReadyKept)
<1>1. worker[v] \in Goroutine /\ worker[v].pc \in {"cast", "startcast"}
  BY DEF HubInv, WorkersOK, Collide
<1>2. CASE worker[v].pc = "startcast"
  BY <1>2, RestartKeeps DEF Collide
<1>3. CASE worker[v].pc = "cast"
  <2>1. /\ conns' = conns \ {} /\ awaiting' = awaiting
        /\ behind' = behind \ (worker[v].due \union worker[v].failed)
        /\ ready' = ready
    BY <1>3 DEF Collide
  <2>2. \A k \in behind' : ~Owes(worker[v], k)
    BY <1>3, <2>1 DEF Owes
  <2>3. \A k : ~OwesStart(worker[v], k)
    BY <1>3 DEF OwesStart
  <2>4. behind' \subseteq behind \intersect conns' /\ awaiting' \subseteq awaiting \intersect conns'
    BY <2>1 DEF HubInv, WorkersOK
  <2>5. CASE v \in Conns /\ ~worker[v].leaving
    <3> DEFINE q == Teardown(worker[v].user)
    <3>1. /\ q \in Goroutine /\ q.pc = "reset" /\ q.failed = {} /\ q.leaving = TRUE
          /\ q.user = worker[v].user
      BY <1>1, TeardownFields, GoroutineFields
    <3>2. Become(v, q) /\ open' = open
      BY <1>3, <2>5 DEF Collide
    <3> HIDE DEF q
    <3>3. MoveTyped(v, q)
      BY <2>1, <2>4, <2>5, <3>1, <3>2, HubAssumption DEF MoveTyped, HubInv, WorkersOK
    <3>4. MoveListed(v, q)
      BY <1>3, <2>1, <2>5, <3>1, <3>2
      DEF MoveListed, Serves, HubInv, RegistryExact
    <3>5. MoveOwed(v, q) /\ MoveStart(v, q)
      BY <2>1, <2>2, <2>3, <3>2 DEF MoveOwed, MoveStart
    <3>6. MoveReady(v, q)
      BY <1>3, <2>1, <3>1 DEF MoveReady, Attends, Serves
    <3> QED
      BY <3>1, <3>2, <3>3, <3>4, <3>5, <3>6, Move, MoveKeepsReady DEF HubInv
  <2>6. CASE ~(v \in Conns /\ ~worker[v].leaving)
    <3>1. ReturnClosing(v, {})
      BY <1>3, <2>6 DEF Collide, Return
    <3> QED
      BY <1>3, <2>1, <2>2, <2>3, <2>4, <3>1, ReturnKeeps
  <2> QED
    BY <2>5, <2>6
<1> QED
  BY <1>1, <1>2, <1>3

\* Every step keeps the invariant, and makes nobody ready and unattended.
LEMMA HubInvKept ==
    ASSUME HubInv, [Next]_vars
    PROVE  HubInv' /\ (Restart \/ (\E k \in Conns : ResetFails(k)) \/ ReadyKept)
<1>1. ASSUME NEW u \in Users, NEW n \in Caps, Create(u, n)
      PROVE  HubInv' /\ (Restart \/ (\E j \in Conns : ResetFails(j)) \/ ReadyKept)
  BY <1>1 DEF Create, table, news, HubInv, WorkersOK, RegistryExact,
     Owed, StartOwed, ReadyKept, Attended
<1>2. ASSUME NEW u \in Users, NEW t \in Tasks, Join(t, u)
      PROVE  HubInv' /\ (Restart \/ (\E j \in Conns : ResetFails(j)) \/ ReadyKept)
  BY <1>2, JoinKeeps
<1>3. ASSUME NEW u \in Users, NEW t \in Tasks, Leave(t, u)
      PROVE  HubInv' /\ (Restart \/ (\E j \in Conns : ResetFails(j)) \/ ReadyKept)
  BY <1>3, LeaveKeeps
<1>4. ASSUME NEW u \in Users, JoinLookupFails(u)
      PROVE  HubInv' /\ (Restart \/ (\E j \in Conns : ResetFails(j)) \/ ReadyKept)
  BY <1>4, JoinLookupFailsKeeps
<1>5. ASSUME NEW u \in Users, NEW k \in Conns, Connect(k, u)
      PROVE  HubInv' /\ (Restart \/ (\E j \in Conns : ResetFails(j)) \/ ReadyKept)
  BY <1>5, ConnectKeeps
<1>6. ASSUME NEW t \in Tasks, Start(t)
      PROVE  HubInv' /\ (Restart \/ (\E j \in Conns : ResetFails(j)) \/ ReadyKept)
  BY <1>6, StartKeeps
<1>7. ASSUME NEW k \in Conns, ReadyMessage(k) \/ UpdateFails(k)
      PROVE  HubInv' /\ (Restart \/ (\E j \in Conns : ResetFails(j)) \/ ReadyKept)
  BY <1>7, ReadyMessageKeeps, UpdateFailsKeeps
<1>8. ASSUME NEW k \in Conns, NEW b \in BOOLEAN, UpdateUserReady(k, b)
      PROVE  HubInv' /\ (Restart \/ (\E j \in Conns : ResetFails(j)) \/ ReadyKept)
  BY <1>8, UpdateUserReadyKeeps
<1>9. ASSUME NEW w \in Workers, Snapshot(w)
      PROVE  HubInv' /\ (Restart \/ (\E j \in Conns : ResetFails(j)) \/ ReadyKept)
  BY <1>9, SnapshotKeeps
<1>10. ASSUME NEW w \in Workers, Lookup(w)
      PROVE  HubInv' /\ (Restart \/ (\E j \in Conns : ResetFails(j)) \/ ReadyKept)
  BY <1>10, LookupKeeps
<1>11. ASSUME NEW w \in Workers, LookupFails(w)
      PROVE  HubInv' /\ (Restart \/ (\E j \in Conns : ResetFails(j)) \/ ReadyKept)
  BY <1>11, LookupFailsKeeps
<1>12. ASSUME NEW w \in Workers, FinishCast(w)
      PROVE  HubInv' /\ (Restart \/ (\E j \in Conns : ResetFails(j)) \/ ReadyKept)
  BY <1>12, FinishCastKeeps
<1>13. ASSUME NEW w \in Workers, NEW t \in Conns, Deliver(w, t)
      PROVE  HubInv' /\ (Restart \/ (\E j \in Conns : ResetFails(j)) \/ ReadyKept)
  BY <1>13, DeliverKeeps
<1>14. ASSUME NEW t \in Tasks, Kick(t)
      PROVE  HubInv' /\ (Restart \/ (\E j \in Conns : ResetFails(j)) \/ ReadyKept)
  BY <1>14, KickKeeps
<1>15. ASSUME NEW t \in Tasks, StartSnapshot(t)
      PROVE  HubInv' /\ (Restart \/ (\E j \in Conns : ResetFails(j)) \/ ReadyKept)
  BY <1>15, StartSnapshotKeeps
<1>16. ASSUME NEW k \in Conns, Register(k)
      PROVE  HubInv' /\ (Restart \/ (\E j \in Conns : ResetFails(j)) \/ ReadyKept)
  BY <1>16, RegisterKeeps
<1>17. ASSUME NEW k \in Conns, Detect(k)
      PROVE  HubInv' /\ (Restart \/ (\E j \in Conns : ResetFails(j)) \/ ReadyKept)
  BY <1>17, DetectKeeps
<1>18. ASSUME NEW k \in Conns, Reset(k)
      PROVE  HubInv' /\ (Restart \/ (\E j \in Conns : ResetFails(j)) \/ ReadyKept)
  BY <1>18, ResetKeeps
<1>19. ASSUME NEW k \in Conns, ResetFails(k)
      PROVE  HubInv' /\ (Restart \/ (\E j \in Conns : ResetFails(j)) \/ ReadyKept)
  BY <1>19, ResetFailsKeeps
<1>20. ASSUME NEW k \in Conns, Unregister(k)
      PROVE  HubInv' /\ (Restart \/ (\E j \in Conns : ResetFails(j)) \/ ReadyKept)
  BY <1>20, UnregisterKeeps
<1>21. ASSUME NEW v \in Workers, NEW w \in Workers, NEW t \in Conns, Collide(v, w, t)
      PROVE  HubInv' /\ (Restart \/ (\E j \in Conns : ResetFails(j)) \/ ReadyKept)
  BY <1>21, CollideKeeps
<1>22. ASSUME Restart
      PROVE  HubInv' /\ (Restart \/ (\E j \in Conns : ResetFails(j)) \/ ReadyKept)
  BY <1>22, RestartKeeps
<1>23. ASSUME UNCHANGED vars
      PROVE  HubInv' /\ (Restart \/ (\E j \in Conns : ResetFails(j)) \/ ReadyKept)
  BY <1>23 DEF vars, table, news, HubInv, WorkersOK, RegistryExact,
     Owed, StartOwed, ReadyKept, Attended
<1> QED
  BY <1>1, <1>2, <1>3, <1>4, <1>5, <1>6, <1>7, <1>8, <1>9, <1>10, <1>11, <1>12,
     <1>13, <1>14, <1>15, <1>16, <1>17, <1>18, <1>19, <1>20, <1>21, <1>22, <1>23
  DEF Next, Work

----------------------------------------------------------------------------
(* The theorems.                                                           *)

\* It holds at the start.
LEMMA HubInvInit ==
    ASSUME Init
    PROVE  HubInv
<1>1. WorkersOK
  BY IdleFields DEF Init, WorkersOK, Workers
<1> QED
  BY <1>1, IdleFields DEF Init, HubInv, RegistryExact, Owed, StartOwed, Workers

\* It always holds.
LEMMA HubInvAlways == Spec => []HubInv
<1>1. Init => HubInv
  BY HubInvInit
<1>2. HubInv /\ [Next]_vars => HubInv'
  BY HubInvKept
<1> QED
  BY <1>1, <1>2, PTL DEF Spec

\* The table holds exactly the connections that are served, for any users,
\* connections and requests, with or without panics and restarts.
THEOREM TableCorrect == Spec => []RegistryExact
<1>1. HubInv => RegistryExact
  BY DEF HubInv
<1> QED
  BY <1>1, HubInvAlways, PTL

\* When the hub has come to rest, every connection of the table has been sent
\* the room as it is.
THEOREM BroadcastsReach == Spec => []EveryoneTold
<1>1. HubInv => EveryoneTold
  BY DEF HubInv, Owed, Owes, EveryoneTold, Quiet, Workers
<1> QED
  BY <1>1, HubInvAlways, PTL

\* When the hub has come to rest, every connection of the table that was there
\* when a game started has been sent its start_game.
THEOREM StartsReach == Spec => []StartHeard
<1>1. HubInv => StartHeard
  BY DEF HubInv, StartOwed, OwesStart, StartHeard, Quiet, Workers
<1> QED
  BY <1>1, HubInvAlways, PTL

\* Only a restart or a failed update leaves a user ready without a connection.
THEOREM ReadyCorrect == Spec => ReadyNeedsConnection
<1>1. HubInv /\ [Next]_vars =>
          [Restart \/ (\E k \in Conns : ResetFails(k)) \/ ReadyKept]_vars
  BY HubInvKept
<1> QED
  BY <1>1, HubInvAlways, PTL DEF Spec, ReadyNeedsConnection

----------------------------------------------------------------------------
(* The room in the hub.                                                    *)

RoomFacts == INSTANCE RoomPromiseProofs WITH RoomCodes <- {Code}

\* Nothing the hub does changes the room other than as RoomPromise has it.
LEMMA RoomSteps ==
    ASSUME [Next]_vars
    PROVE  [Room!Next]_room
<1>1. ASSUME NEW u \in Users, NEW n \in Caps, Create(u, n) PROVE Room!Next
  BY <1>1 DEF Create, Room!Next
<1>2. ASSUME NEW u \in Users, NEW t \in Tasks, Join(t, u) PROVE Room!Next
  BY <1>2 DEF Join, Room!Next
<1>3. ASSUME NEW u \in Users, JoinLookupFails(u) PROVE Room!Next
  BY <1>3 DEF JoinLookupFails, Room!Next
<1>4. ASSUME NEW u \in Users, NEW t \in Tasks, Leave(t, u) PROVE Room!Next
  BY <1>4 DEF Leave, Room!Next
<1>5. ASSUME NEW t \in Tasks, Start(t) PROVE Room!Next
  BY <1>5 DEF Start, Room!Next
<1>6. ASSUME NEW u \in Users, NEW k \in Conns, Connect(k, u) PROVE UNCHANGED room
  BY <1>6 DEF Connect
<1>7. ASSUME NEW k \in Conns, ReadyMessage(k) PROVE UNCHANGED room
  BY <1>7 DEF ReadyMessage
<1>8. ASSUME NEW w \in Workers, Work(w) PROVE UNCHANGED room
  BY <1>8 DEF Work, Snapshot, Lookup, LookupFails, FinishCast, Deliver, Kick, StartSnapshot,
     Register, UpdateUserReady, UpdateFails, Detect, Reset, ResetFails, Unregister
<1>9. ASSUME NEW v \in Workers, NEW w \in Workers, NEW t \in Conns, Collide(v, w, t)
      PROVE  UNCHANGED room
  BY <1>9 DEF Collide, Restart
<1>10. Restart => UNCHANGED room
  BY DEF Restart
<1>11. UNCHANGED vars => UNCHANGED room
  BY DEF vars
<1> QED
  BY <1>1, <1>2, <1>3, <1>4, <1>5, <1>6, <1>7, <1>8, <1>9, <1>10, <1>11 DEF Next

\* So the room is always as promised.
LEMMA RoomAlways == Spec => [](Room!TypeOK /\ Room!NobodyInside)
<1>1. RoomFacts!CapsPositive
  BY HubAssumption DEF RoomFacts!CapsPositive
<1>2. RoomFacts!Spec => [](RoomFacts!TypeOK /\ RoomFacts!HostIsFirst /\ RoomFacts!NobodyInside
          /\ RoomFacts!WithinCap /\ RoomFacts!LaunchedOnce)
  BY <1>1, RoomFacts!PromiseCorrect
<1>3. Init => RoomFacts!Init
  BY DEF Init, Room!Init, RoomFacts!Init
<1>4. [Next]_vars => [RoomFacts!Next]_(RoomFacts!promiseVars)
  BY RoomSteps DEF room, RoomFacts!promiseVars, Room!Next, RoomFacts!Next,
     Room!Open, Room!Enter, Room!Exit, Room!ExitLast, Room!Launch, Room!Present, Room!StepOut,
     RoomFacts!Open, RoomFacts!Enter, RoomFacts!Exit, RoomFacts!ExitLast, RoomFacts!Launch,
     RoomFacts!Present, RoomFacts!StepOut
<1>5. RoomFacts!TypeOK /\ RoomFacts!NobodyInside => Room!TypeOK /\ Room!NobodyInside
  BY DEF RoomFacts!TypeOK, RoomFacts!NobodyInside, Room!TypeOK, Room!NobodyInside
<1> QED
  BY <1>2, <1>3, <1>4, <1>5, PTL DEF Spec, RoomFacts!Spec

----------------------------------------------------------------------------
(* Only members are ready.                                                 *)

\* The members are the players in line.
LEMMA MembersLine ==
    /\ Members = RoomFacts!Line(line[Code])
    /\ Members' = RoomFacts!Line(line'[Code])
  BY DEF Members, Room!Present, RoomFacts!Line

\* A change of the room loses no member but one who leaves.
LEMMA MembersStay ==
    ASSUME Room!TypeOK, NEW u \in Users
    PROVE  /\ Room!Enter(u, Code) => Members \subseteq Members'
           /\ Room!Exit(u, Code) \/ Room!ExitLast(u, Code) => Members \ {u} \subseteq Members'
<1>1. line[Code] \in Seq(Users) /\ DOMAIN line = {Code}
  BY DEF Room!TypeOK
<1>2. ASSUME Room!Enter(u, Code) PROVE Members \subseteq Members'
  <2>1. line'[Code] = Append(line[Code], u)
    BY <1>1, <1>2 DEF Room!Enter
  <2> QED
    BY <1>1, <2>1, MembersLine, RoomFacts!OneMoreInLine
<1>3. ASSUME Room!Exit(u, Code) PROVE Members \ {u} \subseteq Members'
  <2>1. line'[Code] = RoomFacts!StepOut(line[Code], u)
    BY <1>1, <1>3 DEF Room!Exit, Room!StepOut, RoomFacts!StepOut
  <2>2. u \in RoomFacts!Line(line[Code])
    BY <1>3, MembersLine DEF Room!Exit, Members
  <2> QED
    BY <1>1, <2>1, <2>2, MembersLine, RoomFacts!OneLessInLine
<1>4. ASSUME Room!ExitLast(u, Code) PROVE Members \ {u} \subseteq Members'
  <2>1. line[Code] = <<u>>
    BY <1>4 DEF Room!ExitLast
  <2>2. Members = {u}
    BY <2>1, MembersLine, RoomFacts!OneInLine
  <2> QED
    BY <2>2
<1> QED
  BY <1>2, <1>3, <1>4

\* Every step leaves only members ready.
LEMMA ReadyStayMembers ==
    ASSUME Room!TypeOK, Room!NobodyInside, ready \subseteq Members, [Next]_vars
    PROVE  ready' \subseteq Members'
<1>1. UNCHANGED line => Members' = Members
  BY DEF Members, Room!Present
<1>2. ASSUME NEW u \in Users, NEW n \in Caps, Create(u, n) PROVE ready' \subseteq Members'
  <2>1. line[Code] = <<>> /\ ready' = ready
    BY <1>2 DEF Create, Room!Open, Room!NobodyInside
  <2>2. Members = {}
    BY <2>1 DEF Members, Room!Present
  <2> QED
    BY <2>1, <2>2
<1>3. ASSUME NEW u \in Users, Room!Enter(u, Code), UNCHANGED ready PROVE ready' \subseteq Members'
  BY <1>3, MembersStay
<1>4. ASSUME NEW u \in Users, NEW t \in Tasks, Join(t, u) PROVE ready' \subseteq Members'
  BY <1>3, <1>4 DEF Join
<1>5. ASSUME NEW u \in Users, JoinLookupFails(u) PROVE ready' \subseteq Members'
  BY <1>3, <1>5 DEF JoinLookupFails
<1>6. ASSUME NEW u \in Users, NEW t \in Tasks, Leave(t, u) PROVE ready' \subseteq Members'
  BY <1>6, MembersStay DEF Leave
<1>7. ASSUME NEW t \in Tasks, Start(t) PROVE ready' \subseteq Members'
  BY <1>1, <1>7 DEF Start, Room!Launch
<1>8. ASSUME NEW u \in Users, NEW k \in Conns, Connect(k, u) PROVE ready' \subseteq Members'
  BY <1>1, <1>8 DEF Connect, room
<1>9. ASSUME NEW k \in Conns, ReadyMessage(k) PROVE ready' \subseteq Members'
  BY <1>1, <1>9 DEF ReadyMessage, room
<1>10. ASSUME NEW k \in Conns, NEW b \in BOOLEAN, UpdateUserReady(k, b)
       PROVE  ready' \subseteq Members'
  BY <1>1, <1>10 DEF UpdateUserReady, room
<1>11. ASSUME NEW w \in Workers, Work(w) PROVE ready' \subseteq Members'
  <2>1. CASE w \in Conns /\ \E b \in BOOLEAN : UpdateUserReady(w, b)
    BY <1>10, <2>1
  <2>2. CASE ~(w \in Conns /\ \E b \in BOOLEAN : UpdateUserReady(w, b))
    <3>1. UNCHANGED line /\ ready' \subseteq ready
      BY <1>11, <2>2 DEF Work, Snapshot, Lookup, LookupFails, FinishCast, Deliver, Kick,
         StartSnapshot, Register, UpdateFails, Detect, Reset, ResetFails, Unregister, room
    <3> QED
      BY <1>1, <3>1
  <2> QED
    BY <2>1, <2>2
<1>12. ASSUME NEW v \in Workers, NEW w \in Workers, NEW t \in Conns, Collide(v, w, t)
       PROVE  ready' \subseteq Members'
  BY <1>1, <1>12 DEF Collide, Restart, room
<1>13. Restart \/ UNCHANGED vars => ready' \subseteq Members'
  BY <1>1 DEF Restart, vars, room
<1> QED
  BY <1>2, <1>4, <1>5, <1>6, <1>7, <1>8, <1>9, <1>10, <1>11, <1>12, <1>13 DEF Next

\* The variables have their types and only members are ready, although ready
\* messages and teardowns of users who have left go on.
THEOREM TypesCorrect == Spec => []TypeOK
<1>1. Init => ready \subseteq Members
  BY DEF Init
<1>2. Room!TypeOK /\ Room!NobodyInside /\ ready \subseteq Members /\ [Next]_vars
          => (ready \subseteq Members)'
  BY ReadyStayMembers
<1>3. Room!TypeOK /\ ready \subseteq Members /\ HubInv => TypeOK
  BY DEF TypeOK, HubInv
<1> QED
  BY <1>1, <1>2, <1>3, RoomAlways, HubInvAlways, PTL DEF Spec
=============================================================================
