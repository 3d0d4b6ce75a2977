------------------------ MODULE BlackjackTableProofs ------------------------
(* Theorems about BlackjackTable.                                          *)
EXTENDS BlackjackTable, TLAPS

----------------------------------------------------------------------------
(* What the operators that make accounts, copies and handlers return.      *)

\* An account nobody has bet with.
LEMMA FreshFields ==
    /\ Fresh \in AccountType
    /\ Fresh.bet = 0 /\ Fresh.confirmed = FALSE /\ Fresh.total_chips = InitialChips
  BY DEF Fresh, AccountType, InitialChips

\* The account of the dealer: it has no bet and counts as confirmed.
LEMMA DealersAccount ==
    LET a == [Fresh EXCEPT !.bet = 0, !.confirmed = TRUE] IN
    /\ a \in AccountType
    /\ a.bet = 0 /\ a.confirmed = TRUE /\ a.total_chips = InitialChips
<1> DEFINE b == [Fresh EXCEPT !.bet = 0]
<1>1. b \in AccountType /\ b.bet = 0 /\ b.total_chips = InitialChips
  BY FreshFields DEF AccountType
<1> HIDE DEF b
<1> DEFINE a == [b EXCEPT !.confirmed = TRUE]
<1>2. a \in AccountType /\ a.bet = 0 /\ a.confirmed = TRUE /\ a.total_chips = InitialChips
  BY <1>1 DEF AccountType
<1> QED
  BY <1>2 DEF b

\* The accounts before anybody sits down are conserved.
LEMMA NoAccounts ==
    /\ NoBetState \in BetStateType
    /\ \A u \in Users : NoBetState.account[u] = Fresh
    /\ Conserved(NoBetState.account)
  BY FreshFields DEF NoBetState, BetStateType, Conserved, InitialChips

\* The copy that a broadcast takes is of the accounts as they are.
LEMMA CopyFields ==
    ASSUME seated \in SUBSET Users, account \in [Users -> AccountType]
    PROVE  BetState \in BetStateType /\ BetState.account = account
  BY DEF BetState, BetStateType

Positions == {"free", "enter", "order", "notify", "cast", "read", "dead"}

\* A handler made from scratch has its position and user and nothing else.
LEMMA HandlerFields ==
    ASSUME NEW p \in Positions, NEW u \in Users \union {NoUser}
    PROVE  /\ Handler(p, u) \in HandlerType
           /\ Handler(p, u).pc = p /\ Handler(p, u).user = u
           /\ Handler(p, u).users = {} /\ Handler(p, u).state = NoBetState
           /\ Handler(p, u).due = {} /\ Handler(p, u).sent = {}
           /\ Handler(p, u).failed = {} /\ Handler(p, u).ghosts = {}
  BY NoAccounts DEF Handler, HandlerType, Positions

\* The handler of a free connection.
LEMMA FreeFields ==
    /\ Free \in HandlerType /\ Free.pc = "free" /\ Free.state = NoBetState
    /\ Free.sent = {} /\ Free.failed = {}
  BY NoAccounts DEF Free, Handler, HandlerType

\* The fields of a handler are of their types.
LEMMA HandlerTypeFields ==
    ASSUME NEW h \in HandlerType
    PROVE  /\ h.pc \in Positions /\ h.user \in Users \union {NoUser}
           /\ h.users \in SUBSET Users /\ h.state \in BetStateType
           /\ h.due \in SUBSET Conns /\ h.sent \in SUBSET Conns
           /\ h.failed \in SUBSET Conns /\ h.ghosts \in SUBSET Conns
  BY DEF HandlerType, Positions

----------------------------------------------------------------------------
(* The inductive invariant.                                                *)

\* Who has not sat down has a fresh account.
OthersFresh == \A u \in Users \ seated : account[u] = Fresh

\* A handler about to register has read somebody's row.
EntersWithUsers == \A k \in Conns : handler[k].pc = "enter" => handler[k].users # {}

\* A broadcast removes connections whose client has left and nobody else's, and
\* to one whose handler had panicked before it began it cannot write.
WalksOK ==
    \A k \in Conns :
        /\ handler[k].failed \subseteq handler[k].sent
        /\ handler[k].failed \intersect open = {}
        /\ handler[k].pc = "cast" =>
               /\ handler[k].ghosts \subseteq handler[k].due
               /\ \A t \in handler[k].ghosts :
                      /\ handler[t].pc \in {"dead", "free"}
                      /\ t \in handler[k].sent => t \in handler[k].failed

TableInv ==
    /\ TypeOK
    /\ ChipsConserved
    /\ DealerNeverBets
    /\ ServedAreWalked
    /\ OthersFresh
    /\ EntersWithUsers
    /\ WalksOK

\* What the invariant says of the table, of one handler, and of one view.
TableOK ==
    /\ seated \in SUBSET Users
    /\ account \in [Users -> AccountType]
    /\ dealer \in Users \union {NoUser}
    /\ Conserved(account)
    /\ DealerNeverBets
    /\ OthersFresh

HandlerOK(k, h) ==
    /\ h \in HandlerType
    /\ h.pc \notin {"free", "dead"} => h.user \in Users
    /\ Conserved(h.state.account)
    /\ h.pc = "enter" => h.users # {}

ViewOK(v) == v \in BetStateType /\ Conserved(v.account)

ConnsOK == conns \in SUBSET Conns /\ open \in SUBSET Conns

\* TypeOK and the invariants, part by part.
LEMMA Parts ==
    TableInv <=>
        /\ TableOK
        /\ ConnsOK /\ ServedAreWalked /\ WalksOK
        /\ DOMAIN handler = Conns /\ handler = [k \in Conns |-> handler[k]]
        /\ \A k \in Conns : HandlerOK(k, handler[k])
        /\ DOMAIN view = Conns /\ view = [k \in Conns |-> view[k]]
        /\ \A k \in Conns : ViewOK(view[k])
<1>1. handler \in [Conns -> HandlerType] <=>
          /\ DOMAIN handler = Conns /\ handler = [k \in Conns |-> handler[k]]
          /\ \A k \in Conns : handler[k] \in HandlerType
  OBVIOUS
<1>2. view \in [Conns -> BetStateType] <=>
          /\ DOMAIN view = Conns /\ view = [k \in Conns |-> view[k]]
          /\ \A k \in Conns : view[k] \in BetStateType
  OBVIOUS
<1> QED
  BY <1>1, <1>2 DEF TableInv, TypeOK, ChipsConserved, TableOK, HandlerOK, ViewOK, ConnsOK,
     EntersWithUsers
----------------------------------------------------------------------------
(* Steps.                                                                  *)

\* A step of one handler keeps what every other handler satisfies.
LEMMA OneHandler ==
    ASSUME TableInv, NEW k \in Conns, NEW q, HandlerOK(k, q),
           handler' = [handler EXCEPT ![k] = q],
           TableOK', ConnsOK', ServedAreWalked', WalksOK',
           view' \in [Conns -> BetStateType], \A j \in Conns : Conserved(view'[j].account)
    PROVE  TableInv'
<1>1. /\ handler \in [Conns -> HandlerType] /\ q \in HandlerType
      /\ \A j \in Conns : HandlerOK(j, handler[j])
  BY Parts DEF HandlerOK
<1>2. /\ handler' \in [Conns -> HandlerType] /\ handler'[k] = q
      /\ \A j \in Conns \ {k} : handler'[j] = handler[j]
  BY <1>1
<1>3. \A j \in Conns : HandlerOK(j, handler'[j])
  BY <1>1, <1>2 DEF HandlerOK
<1>4. /\ \A j \in Conns : handler'[j].pc \notin {"free", "dead"} => handler'[j].user \in Users
      /\ \A j \in Conns : Conserved(handler'[j].state.account)
      /\ EntersWithUsers'
  BY <1>3 DEF HandlerOK, EntersWithUsers
<1>5. ChipsConserved'
  BY <1>4 DEF ChipsConserved, TableOK, Conserved
<1> QED
  BY <1>2, <1>4, <1>5 DEF TableInv, TypeOK, TableOK, ConnsOK

\* What the invariant says that steps need.
LEMMA Known ==
    ASSUME TableInv
    PROVE  /\ TableOK /\ ConnsOK /\ ServedAreWalked /\ WalksOK
           /\ handler \in [Conns -> HandlerType]
           /\ \A j \in Conns : HandlerOK(j, handler[j])
           /\ view \in [Conns -> BetStateType]
           /\ \A j \in Conns : Conserved(view[j].account)
  BY Parts DEF TableInv, TypeOK, ViewOK

\* A table that does not change stays right.
LEMMA TableStays ==
    ASSUME TableInv, UNCHANGED table
    PROVE  TableOK'
  BY Known DEF table, TableOK, Conserved, DealerNeverBets, OthersFresh

\* Only positions, connections and clients decide whom a broadcast reaches.
LEMMA WalkedStep ==
    ASSUME TableInv, NEW k \in Conns, NEW q, handler' = [handler EXCEPT ![k] = q],
           \A j \in Conns \ {k} :
               /\ j \in open' => j \in open
               /\ j \in conns' => j \in conns
               /\ j \in conns /\ j \in open' => j \in conns',
           k \in open' /\ q.pc \in {"order", "notify", "cast", "read"} => k \in conns',
           k \in conns' => q.pc \in {"order", "notify", "cast", "read", "dead"}
    PROVE  ServedAreWalked'
<1>1. handler'[k] = q /\ \A j \in Conns \ {k} : handler'[j] = handler[j]
  BY Known
<1> QED
  BY <1>1, Known DEF ServedAreWalked

\* A walk may lose a client it has not written to, and no connection comes back
\* that a walk has still to do with.
LEMMA WalksStep ==
    ASSUME TableInv, NEW k \in Conns, NEW q \in HandlerType,
           handler' = [handler EXCEPT ![k] = q],
           \/ /\ open' \subseteq open
              /\ handler[k].pc \in {"dead", "free"} => q.pc \in {"dead", "free"}
           \/ /\ open' = open \union {k}
              /\ \A j \in Conns : k \notin handler[j].due \union handler[j].sent,
           q.failed \subseteq q.sent, q.failed \intersect open = {},
           k \in q.failed => open' \subseteq open,
           q.pc = "cast" =>
               /\ q.ghosts \subseteq q.due
               /\ \A t \in q.ghosts :
                      /\ handler[t].pc \in {"dead", "free"} /\ t # k
                      /\ t \in q.sent => t \in q.failed
    PROVE  WalksOK'
<1>1. handler'[k] = q /\ \A j \in Conns \ {k} : handler'[j] = handler[j]
  BY Known
<1>2. \A j \in Conns : handler[j].ghosts \subseteq Conns /\ handler[j].failed \subseteq Conns
  BY Known, HandlerTypeFields
<1>3. q.ghosts \subseteq Conns
  BY HandlerTypeFields
<1>4. ASSUME NEW j \in Conns \ {k}
      PROVE  /\ handler[j].failed \subseteq handler[j].sent
             /\ handler[j].failed \intersect open' = {}
             /\ handler[j].pc = "cast" =>
                    /\ handler[j].ghosts \subseteq handler[j].due
                    /\ \A t \in handler[j].ghosts :
                           /\ handler'[t].pc \in {"dead", "free"}
                           /\ t \in handler[j].sent => t \in handler[j].failed
  <2>1. /\ handler[j].failed \subseteq handler[j].sent
        /\ handler[j].failed \intersect open = {}
        /\ handler[j].pc = "cast" =>
               /\ handler[j].ghosts \subseteq handler[j].due
               /\ \A t \in handler[j].ghosts :
                      /\ handler[t].pc \in {"dead", "free"}
                      /\ t \in handler[j].sent => t \in handler[j].failed
    BY Known DEF WalksOK
  <2>2. handler[j].failed \intersect open' = {}
    BY <2>1
  <2>3. ASSUME handler[j].pc = "cast", NEW t \in handler[j].ghosts
        PROVE  handler'[t].pc \in {"dead", "free"}
    BY <1>1, <1>2, <2>1, <2>3
  <2> QED
    BY <2>1, <2>2, <2>3
<1>5. /\ q.failed \intersect open' = {}
      /\ q.pc = "cast" => \A t \in q.ghosts : handler'[t].pc \in {"dead", "free"}
  BY <1>1, <1>3
<1> QED
  BY <1>1, <1>4, <1>5 DEF WalksOK

\* In particular when the handler that moves walks no more and no client comes.
LEMMA WalksOver ==
    ASSUME TableInv, NEW k \in Conns, NEW q \in HandlerType,
           handler' = [handler EXCEPT ![k] = q], open' \subseteq open,
           handler[k].pc \in {"dead", "free"} => q.pc \in {"dead", "free"},
           q.failed = {}, q.pc # "cast"
    PROVE  WalksOK'
  BY WalksStep

\* A handler that goes on to one of the positions of a registered connection.
LEMMA GoesOn ==
    ASSUME TableInv, NEW k \in Conns, NEW p \in {"order", "notify", "read"},
           handler[k].pc \notin {"free", "dead"}
    PROVE  /\ HandlerOK(k, Handler(p, handler[k].user))
           /\ Handler(p, handler[k].user).pc = p
           /\ Handler(p, handler[k].user).failed = {}
<1>1. handler[k].user \in Users /\ p \in Positions
  BY Known DEF HandlerOK, Positions
<1>2. /\ Handler(p, handler[k].user) \in HandlerType
      /\ Handler(p, handler[k].user).pc = p
      /\ Handler(p, handler[k].user).user = handler[k].user
      /\ Handler(p, handler[k].user).state = NoBetState
      /\ Handler(p, handler[k].user).failed = {}
  BY <1>1, HandlerFields
<1> QED
  BY <1>1, <1>2, NoAccounts DEF HandlerOK

\* A client that is lost shows nothing, which is right.
LEMMA LoseKeeps ==
    ASSUME TableInv, NEW k \in Conns, Lose(k)
    PROVE  /\ open' \subseteq open
           /\ view' \in [Conns -> BetStateType]
           /\ \A j \in Conns : Conserved(view'[j].account)
<1>1. view' = [view EXCEPT ![k] = NoBetState] /\ open' = open \ {k}
  BY DEF Lose
<1> QED
  BY <1>1, Known, NoAccounts

\* Connect.
LEMMA ConnectStep ==
    ASSUME TableInv, NEW k \in Conns, NEW u \in Users, NEW users \in (SUBSET Users) \ {{}},
           Connect(k, u, users)
    PROVE  TableInv'
<1> DEFINE q == [Handler("enter", u) EXCEPT !.users = users]
<1>1. /\ handler' = [handler EXCEPT ![k] = q] /\ open' = open \union {k}
      /\ UNCHANGED <<table, conns, view>> /\ k \notin conns
      /\ \A j \in Conns : k \notin handler[j].due \union handler[j].sent
  BY DEF Connect, Unused
<1>2. /\ Handler("enter", u) \in HandlerType
      /\ Handler("enter", u).pc = "enter" /\ Handler("enter", u).user = u
      /\ Handler("enter", u).state = NoBetState /\ Handler("enter", u).failed = {}
  BY HandlerFields DEF Positions
<1>3. /\ q \in HandlerType /\ q.pc = "enter" /\ q.user = u /\ q.users = users
      /\ q.state = NoBetState /\ q.failed = {}
  BY <1>2 DEF HandlerType
<1>4. HandlerOK(k, q)
  BY <1>3, NoAccounts DEF HandlerOK
<1> HIDE DEF q
<1>5. ServedAreWalked'
  BY <1>1, <1>3, WalkedStep
<1>6. TableOK' /\ ConnsOK'
  BY <1>1, TableStays, Known DEF ConnsOK
<1>7. WalksOK'
  BY <1>1, <1>3, WalksStep
<1> QED
  BY <1>1, <1>4, <1>5, <1>6, <1>7, OneHandler, Known

\* Enter: the first to sit down find only fresh accounts.
LEMMA EnterStep ==
    ASSUME TableInv, NEW k \in Conns, Enter(k)
    PROVE  TableInv'
<1>1. /\ handler[k].pc = "enter" /\ seated' = seated \union handler[k].users
      /\ EnsureDealerAssigned(seated') /\ conns' = conns \union {k}
      /\ handler' = [handler EXCEPT ![k] = Handler("order", handler[k].user)]
      /\ UNCHANGED <<open, view>>
  BY DEF Enter, Goto
<1>2. /\ HandlerOK(k, handler[k]) /\ handler[k].users \in SUBSET Users
      /\ handler[k].users # {} /\ TableOK
  BY <1>1, Known DEF HandlerOK, HandlerType
<1>3. /\ HandlerOK(k, Handler("order", handler[k].user))
      /\ Handler("order", handler[k].user).pc = "order"
      /\ Handler("order", handler[k].user).failed = {}
  BY <1>1, GoesOn
<1>4. ServedAreWalked'
  BY <1>1, <1>3, WalkedStep
<1>5. TableOK'
  <2>1. CASE dealer # NoUser
    <3>1. dealer' = dealer /\ account' = account /\ seated \subseteq seated'
          /\ seated' \in SUBSET Users
      BY <1>1, <1>2, <2>1 DEF EnsureDealerAssigned, TableOK
    <3> QED
      BY <1>2, <2>1, <3>1 DEF TableOK, Conserved, DealerNeverBets, OthersFresh
  <2>2. CASE dealer = NoUser
    <3>1. PICK d \in seated' :
              /\ dealer' = d
              /\ account' = [account EXCEPT ![d].bet = 0, ![d].confirmed = TRUE]
      BY <1>1, <2>2 DEF EnsureDealerAssigned
    <3>2. /\ seated = {} /\ seated' \in SUBSET Users /\ d \in Users /\ d # NoUser
          /\ account \in [Users -> AccountType]
      BY <1>1, <1>2, <2>2, <3>1, TableAssumption DEF TableOK, DealerNeverBets
    <3>3. \A u \in Users : account[u] = Fresh
      BY <1>2, <3>2 DEF TableOK, OthersFresh
    <3>4. account' = [account EXCEPT ![d] = [account[d] EXCEPT !.bet = 0, !.confirmed = TRUE]]
      BY <3>1, <3>2
    <3>5. /\ account'[d] = [Fresh EXCEPT !.bet = 0, !.confirmed = TRUE]
          /\ \A u \in Users \ {d} : account'[u] = Fresh
      BY <3>2, <3>3, <3>4
    <3>6. /\ account'[d] \in AccountType
          /\ account'[d].bet = 0 /\ account'[d].confirmed
          /\ account'[d].total_chips = InitialChips
      BY <3>5, DealersAccount
    <3>7. account' \in [Users -> AccountType]
      BY <3>2, <3>4, <3>6
    <3>8. \A u \in Users : /\ account'[u].bet = 0
                           /\ account'[u].total_chips = InitialChips
      BY <3>5, <3>6, FreshFields
    <3>10. Conserved(account')
      BY <3>8 DEF Conserved, InitialChips
    <3>9. DealerNeverBets' /\ OthersFresh'
      BY <3>1, <3>2, <3>5, <3>6 DEF DealerNeverBets, OthersFresh
    <3> QED
      BY <3>1, <3>2, <3>7, <3>9, <3>10 DEF TableOK, Conserved
  <2> QED
    BY <2>1, <2>2
<1>6. ConnsOK'
  BY <1>1, Known DEF ConnsOK
<1>7. WalksOK'
  BY <1>1, <1>3, WalksOver DEF HandlerOK
<1> QED
  BY <1>1, <1>3, <1>4, <1>5, <1>6, <1>7, OneHandler, Known

\* OrderSent.
LEMMA OrderSentStep ==
    ASSUME TableInv, NEW k \in Conns, OrderSent(k)
    PROVE  TableInv'
<1>1. /\ handler[k].pc = "order"
      /\ handler' = [handler EXCEPT ![k] = Handler("notify", handler[k].user)]
      /\ UNCHANGED <<table, conns, open, view>>
  BY DEF OrderSent, Goto
<1>2. /\ HandlerOK(k, Handler("notify", handler[k].user))
      /\ Handler("notify", handler[k].user).pc = "notify"
      /\ Handler("notify", handler[k].user).failed = {}
  BY <1>1, GoesOn
<1>3. k \in open => k \in conns
  BY <1>1, Known DEF ServedAreWalked
<1>4. ServedAreWalked'
  BY <1>1, <1>2, <1>3, WalkedStep
<1>5. TableOK' /\ ConnsOK'
  BY <1>1, TableStays, Known DEF ConnsOK
<1>6. WalksOK'
  BY <1>1, <1>2, WalksOver DEF HandlerOK
<1> QED
  BY <1>1, <1>2, <1>4, <1>5, <1>6, OneHandler, Known

\* TakeSnapshot.
LEMMA TakeSnapshotStep ==
    ASSUME TableInv, NEW k \in Conns, TakeSnapshot(k)
    PROVE  TableInv'
<1> DEFINE q == [Handler("cast", handler[k].user) EXCEPT
                    !.state = BetState, !.due = conns, !.ghosts = Ghosts]
<1>1. /\ handler[k].pc = "notify" /\ handler' = [handler EXCEPT ![k] = q]
      /\ UNCHANGED <<table, conns, open, view>>
  BY DEF TakeSnapshot
<1>2. handler[k].user \in Users /\ TableOK /\ conns \in SUBSET Conns
  BY <1>1, Known DEF HandlerOK, ConnsOK
<1>3. /\ Handler("cast", handler[k].user) \in HandlerType
      /\ Handler("cast", handler[k].user).pc = "cast"
      /\ Handler("cast", handler[k].user).user = handler[k].user
      /\ Handler("cast", handler[k].user).sent = {} /\ Handler("cast", handler[k].user).failed = {}
  BY <1>2, HandlerFields DEF Positions
<1>4. BetState \in BetStateType /\ Conserved(BetState.account)
  BY <1>2, CopyFields DEF TableOK
<1>5. q \in HandlerType /\ q.pc = "cast" /\ q.user = handler[k].user /\ q.state = BetState
      /\ q.sent = {} /\ q.failed = {} /\ q.due = conns /\ q.ghosts = Ghosts
  <2>1. Ghosts \in SUBSET Conns
    BY <1>2 DEF Ghosts
  <2> QED
    BY <1>2, <1>3, <1>4, <2>1 DEF HandlerType
<1>6. HandlerOK(k, q)
  BY <1>2, <1>4, <1>5 DEF HandlerOK
<1> HIDE DEF q
<1>7. k \in open => k \in conns
  BY <1>1, Known DEF ServedAreWalked
<1>8. k \in conns => q.pc \in {"order", "notify", "cast", "read", "dead"}
  BY <1>5
<1>9. ServedAreWalked'
  BY <1>1, <1>7, <1>8, WalkedStep
<1>10. TableOK' /\ ConnsOK'
  BY <1>1, TableStays, Known DEF ConnsOK
<1>11. \A t \in Ghosts : t \in conns /\ handler[t].pc = "dead" /\ t # k
  BY <1>1 DEF Ghosts
<1>12. WalksOK'
  BY <1>1, <1>5, <1>11, WalksStep
<1> QED
  BY <1>1, <1>6, <1>9, <1>10, <1>12, OneHandler, Known

\* Deliver.
LEMMA DeliverStep ==
    ASSUME TableInv, NEW k \in Conns, NEW t \in Conns, Deliver(k, t)
    PROVE  TableInv'
<1> PICK lost \in SUBSET {t} :
        /\ t \in open => lost = {}
        /\ handler[t].pc = "dead" => lost = {t}
        /\ handler' = [handler EXCEPT ![k] = Wrote(handler[k], t, lost)]
  BY DEF Deliver
<1> DEFINE sent == handler[k].sent \union {t}
           failed == handler[k].failed \union lost
           q == Wrote(handler[k], t, lost)
<1>1. /\ handler[k].pc = "cast" /\ handler' = [handler EXCEPT ![k] = q] /\ t \in conns
      /\ view' = IF t \in open THEN [view EXCEPT ![t] = handler[k].state] ELSE view
      /\ UNCHANGED <<table, conns, open>>
  BY DEF Deliver, Reaches
<1>2. HandlerOK(k, handler[k]) /\ handler[k] \in HandlerType
  BY Known DEF HandlerOK
<1>3. sent \in SUBSET Conns /\ failed \in SUBSET Conns
  BY <1>2, HandlerTypeFields
<1>4. /\ q \in HandlerType /\ q.pc = "cast" /\ q.user = handler[k].user
      /\ q.state = handler[k].state /\ q.sent = sent /\ q.failed = failed
      /\ q.due = handler[k].due /\ q.ghosts = handler[k].ghosts
  BY <1>1, <1>2, <1>3 DEF HandlerType, Wrote
<1> HIDE DEF sent, failed
<1>5. HandlerOK(k, q)
  BY <1>1, <1>2, <1>4 DEF HandlerOK
<1>6. handler[k].state \in BetStateType /\ Conserved(handler[k].state.account)
  BY <1>2, HandlerTypeFields DEF HandlerOK
<1> HIDE DEF q
<1>7. view' \in [Conns -> BetStateType] /\ \A j \in Conns : Conserved(view'[j].account)
  BY <1>1, <1>6, Known
<1>8. k \in open => k \in conns
  BY <1>1, Known DEF ServedAreWalked
<1>9. ServedAreWalked'
  BY <1>1, <1>4, <1>8, WalkedStep
<1>10. TableOK' /\ ConnsOK'
  BY <1>1, TableStays, Known DEF ConnsOK
<1>11. WalksOK'
  <2>1. /\ handler[k].failed \subseteq handler[k].sent /\ handler[k].failed \intersect open = {}
        /\ handler[k].ghosts \subseteq handler[k].due
        /\ \A x \in handler[k].ghosts :
               /\ handler[x].pc \in {"dead", "free"}
               /\ x \in handler[k].sent => x \in handler[k].failed
    BY <1>1, Known DEF WalksOK
  <2>2. failed \subseteq sent /\ failed \intersect open = {}
    BY <2>1 DEF sent, failed
  <2>3. handler[t].pc # "free"
    BY <1>1, Known DEF ServedAreWalked
  <2>4. ASSUME NEW x \in handler[k].ghosts
        PROVE  /\ handler[x].pc \in {"dead", "free"} /\ x # k
               /\ x \in sent => x \in failed
    <3>1. x = t => x \in failed
      BY <2>1, <2>3 DEF failed
    <3> QED
      BY <1>1, <2>1, <3>1 DEF sent, failed
  <2> QED
    BY <1>1, <1>4, <2>1, <2>2, <2>4, WalksStep
<1> QED
  BY <1>1, <1>5, <1>7, <1>9, <1>10, <1>11, OneHandler

\* FinishBroadcast: only connections without a client are removed.
LEMMA FinishStep ==
    ASSUME TableInv, NEW k \in Conns, FinishBroadcast(k)
    PROVE  TableInv'
<1>1. /\ handler[k].pc = "cast" /\ conns' = conns \ handler[k].failed
      /\ handler' = [handler EXCEPT ![k] = Handler("read", handler[k].user)]
      /\ UNCHANGED <<table, open, view>>
  BY DEF FinishBroadcast, Goto
<1>2. /\ HandlerOK(k, Handler("read", handler[k].user))
      /\ Handler("read", handler[k].user).pc = "read"
      /\ Handler("read", handler[k].user).failed = {}
  BY <1>1, GoesOn
<1>3. handler[k].failed \intersect open = {}
  BY Known DEF WalksOK
<1>4. k \in open => k \in conns'
  BY <1>1, <1>3, Known DEF ServedAreWalked
<1>5. ServedAreWalked'
  BY <1>1, <1>2, <1>3, <1>4, WalkedStep
<1>6. TableOK' /\ ConnsOK'
  BY <1>1, TableStays, Known DEF ConnsOK
<1>7. WalksOK'
  BY <1>1, <1>2, WalksOver DEF HandlerOK
<1> QED
  BY <1>1, <1>2, <1>5, <1>6, <1>7, OneHandler, Known

\* ConcurrentWrite: the connection that panics loses its client, not its place
\* in the map.
LEMMA ConcurrentWriteStep ==
    ASSUME TableInv, NEW k \in Conns, NEW t \in Conns, NEW victim \in Conns,
           ConcurrentWrite(k, t, victim)
    PROVE  TableInv'
<1> DEFINE q == Handler("dead", NoUser)
<1>1. /\ handler' = [handler EXCEPT ![victim] = q] /\ Lose(victim)
      /\ UNCHANGED <<table, conns>>
  BY DEF ConcurrentWrite
<1>2. q \in HandlerType /\ q.pc = "dead" /\ q.state = NoBetState /\ q.failed = {}
  BY HandlerFields DEF Positions
<1>3. HandlerOK(victim, q)
  BY <1>2, NoAccounts DEF HandlerOK
<1> HIDE DEF q
<1>4. /\ open' \subseteq open /\ victim \notin open' /\ view' \in [Conns -> BetStateType]
      /\ \A j \in Conns : Conserved(view'[j].account)
  BY <1>1, LoseKeeps DEF Lose
<1>5. ServedAreWalked'
  BY <1>1, <1>2, <1>4, WalkedStep
<1>6. TableOK' /\ ConnsOK'
  BY <1>1, <1>4, TableStays, Known DEF ConnsOK
<1>7. WalksOK'
  BY <1>1, <1>2, <1>4, WalksOver
<1> QED
  BY <1>1, <1>3, <1>4, <1>5, <1>6, <1>7, OneHandler

\* Bet: what the stake gains the chips lose, and no stranger or dealer bets.
LEMMA BetStep ==
    ASSUME TableInv, NEW k \in Conns, NEW bet \in Bets, NEW confirm \in BOOLEAN,
           Bet(k, bet, confirm)
    PROVE  TableInv'
<1> DEFINE u == handler[k].user
           a == [bet |-> bet, confirmed |-> confirm,
                 total_chips |-> account[u].total_chips - (bet - account[u].bet)]
<1>1. /\ handler[k].pc = "read" /\ k \in open /\ u \in seated /\ u # dealer /\ bet >= 0
      /\ bet - account[u].bet <= account[u].total_chips
      /\ account' = [account EXCEPT ![u] = a]
      /\ handler' = [handler EXCEPT ![k] = Handler("notify", u)]
      /\ UNCHANGED <<seated, dealer, conns, open, view>>
  BY DEF Bet, Goto
<1>2. /\ HandlerOK(k, Handler("notify", u)) /\ Handler("notify", u).pc = "notify"
      /\ Handler("notify", u).failed = {}
  BY <1>1, GoesOn
<1> HIDE DEF u
<1>3. TableOK /\ u \in Users /\ account \in [Users -> AccountType] /\ bet \in Int
  BY <1>1, Known, TableAssumption DEF TableOK
<1>4. /\ account[u].bet \in Int /\ account[u].total_chips \in Int
      /\ account[u].bet + account[u].total_chips = InitialChips
  BY <1>3 DEF AccountType, TableOK, Conserved
<1>5. a \in AccountType
  BY <1>3, <1>4 DEF AccountType
<1>6. a.bet >= 0 /\ a.total_chips >= 0 /\ a.bet + a.total_chips = InitialChips
  BY <1>1, <1>3, <1>4 DEF InitialChips
<1> HIDE DEF a
<1>7. /\ account' \in [Users -> AccountType] /\ account'[u] = a
      /\ \A x \in Users \ {u} : account'[x] = account[x]
  BY <1>1, <1>3, <1>5
<1>8. Conserved(account')
  BY <1>3, <1>6, <1>7 DEF TableOK, Conserved
<1>9. DealerNeverBets' /\ OthersFresh'
  <2>1. seated \in SUBSET Users /\ DealerNeverBets /\ OthersFresh
    BY <1>3 DEF TableOK
  <2> QED
    BY <1>1, <1>7, <2>1 DEF DealerNeverBets, OthersFresh
<1>10. TableOK'
  BY <1>1, <1>3, <1>7, <1>8, <1>9 DEF TableOK, Conserved
<1>11. k \in conns
  BY <1>1, Known DEF ServedAreWalked
<1>12. ServedAreWalked'
  BY <1>1, <1>2, <1>11, WalkedStep
<1>13. ConnsOK'
  BY <1>1, Known DEF ConnsOK
<1>14. WalksOK'
  BY <1>1, <1>2, WalksOver DEF HandlerOK
<1> QED
  BY <1>1, <1>2, <1>10, <1>12, <1>13, <1>14, OneHandler, Known

\* HangUp: no handler moves.
LEMMA HangUpStep ==
    ASSUME TableInv, NEW k \in Conns, HangUp(k)
    PROVE  TableInv'
<1>1. Lose(k) /\ UNCHANGED <<table, conns, handler>>
  BY DEF HangUp
<1>2. /\ open' \subseteq open /\ view' \in [Conns -> BetStateType]
      /\ \A j \in Conns : Conserved(view'[j].account)
  BY <1>1, LoseKeeps
<1>3. handler' = [handler EXCEPT ![k] = handler[k]]
  BY <1>1, Known
<1>4. ServedAreWalked'
  BY <1>1, <1>2, Known DEF ServedAreWalked
<1>5. TableOK' /\ ConnsOK' /\ HandlerOK(k, handler[k])
  BY <1>1, <1>2, TableStays, Known DEF ConnsOK
<1>6. WalksOK'
  BY <1>1, <1>2, Known DEF WalksOK
<1> QED
  BY <1>2, <1>3, <1>4, <1>5, <1>6, OneHandler

\* Close and Forget: a connection that no map names is free.
LEMMA FreeStep ==
    ASSUME TableInv, NEW k \in Conns, handler' = [handler EXCEPT ![k] = Free],
           k \notin open \/ handler[k].pc = "dead", conns' = conns \ {k},
           UNCHANGED <<table, open, view>>
    PROVE  TableInv'
<1>1. HandlerOK(k, Free) /\ Free.pc = "free" /\ Free.failed = {}
  BY FreeFields, NoAccounts DEF HandlerOK
<1>2. ServedAreWalked'
  BY <1>1, WalkedStep
<1>3. TableOK' /\ ConnsOK'
  BY TableStays, Known DEF ConnsOK
<1>4. WalksOK'
  BY <1>1, WalksOver DEF HandlerOK
<1> QED
  BY <1>1, <1>2, <1>3, <1>4, OneHandler, Known

\* Init, and Restart, which returns to it.
LEMMA TableInit == Init => TableInv
<1> SUFFICES ASSUME Init PROVE TableInv
  OBVIOUS
<1>1. TableOK
  BY NoAccounts, FreshFields DEF Init, TableOK, DealerNeverBets, OthersFresh, NoBetState
<1>2. ConnsOK /\ ServedAreWalked /\ DOMAIN handler = Conns /\ DOMAIN view = Conns
  BY FreeFields DEF Init, ConnsOK, ServedAreWalked
<1>3. \A j \in Conns : HandlerOK(j, handler[j])
  BY FreeFields, NoAccounts DEF Init, HandlerOK
<1>4. \A j \in Conns : ViewOK(view[j])
  BY NoAccounts DEF Init, ViewOK
<1>5. handler = [k \in Conns |-> handler[k]] /\ view = [k \in Conns |-> view[k]]
  BY DEF Init
<1>6. WalksOK
  BY FreeFields DEF Init, WalksOK
<1> QED
  BY <1>1, <1>2, <1>3, <1>4, <1>5, <1>6, Parts

\* A step that ends in an initial state.
LEMMA TableInitNext == Init' => TableInv'
  BY TableInit, PTL

\* Every step of Next keeps the invariant.
LEMMA TableStep == TableInv /\ [Next]_vars => TableInv'
<1> SUFFICES ASSUME TableInv, [Next]_vars PROVE TableInv'
  OBVIOUS
<1>1. CASE UNCHANGED vars
  BY <1>1 DEF vars, TableInv, TypeOK, ChipsConserved, Conserved, DealerNeverBets, ServedAreWalked,
     OthersFresh, EntersWithUsers, WalksOK
<1>2. ASSUME NEW k \in Conns, NEW u \in Users, NEW users \in (SUBSET Users) \ {{}},
             Connect(k, u, users)
      PROVE  TableInv'
  BY <1>2, ConnectStep
<1>3. ASSUME NEW k \in Conns, Enter(k) \/ OrderSent(k) \/ TakeSnapshot(k)
      PROVE  TableInv'
  BY <1>3, EnterStep, OrderSentStep, TakeSnapshotStep
<1>4. ASSUME NEW k \in Conns, NEW t \in Conns, Deliver(k, t)
      PROVE  TableInv'
  BY <1>4, DeliverStep
<1>5. ASSUME NEW k \in Conns, FinishBroadcast(k)
      PROVE  TableInv'
  BY <1>5, FinishStep
<1>6. ASSUME NEW k \in Conns, NEW t \in Conns, NEW victim \in Conns, ConcurrentWrite(k, t, victim)
      PROVE  TableInv'
  BY <1>6, ConcurrentWriteStep
<1>7. ASSUME NEW k \in Conns, NEW bet \in Bets, NEW confirm \in BOOLEAN, Bet(k, bet, confirm)
      PROVE  TableInv'
  BY <1>7, BetStep
<1>8. ASSUME NEW k \in Conns, HangUp(k)
      PROVE  TableInv'
  BY <1>8, HangUpStep
<1>9. ASSUME NEW k \in Conns, Close(k)
      PROVE  TableInv'
  BY <1>9, FreeStep DEF Close
<1>10. ASSUME NEW k \in Conns, Forget(k)
       PROVE  TableInv'
  <2>1. conns' = conns \ {k}
    BY <1>10 DEF Forget
  <2> QED
    BY <1>10, <2>1, FreeStep DEF Forget
<1>11. CASE Restart
  <2>1. Init'
    BY <1>11 DEF Restart, Init, NoBetState
  <2> QED
    BY <2>1, TableInitNext
<1> QED
  BY <1>1, <1>2, <1>3, <1>4, <1>5, <1>6, <1>7, <1>8, <1>9, <1>10, <1>11 DEF Next

\* The invariant holds of every reachable state.
LEMMA TableAlways == Spec => []TableInv
  BY TableInit, TableStep, PTL DEF Spec

\* Only its own FinishBroadcast takes a handler from its walk to its receive loop.
LEMMA OnlyFinishEnds ==
    ASSUME TableInv, Next, NEW k \in Conns, handler[k].pc = "cast", handler'[k].pc = "read"
    PROVE  FinishBroadcast(k)
<1>1. handler \in [Conns -> HandlerType]
  BY Known
<1>2. ASSUME NEW j \in Conns, NEW q, handler' = [handler EXCEPT ![j] = q]
      PROVE  j = k /\ q.pc = "read"
  BY <1>1, <1>2
<1>3. ASSUME NEW u \in Users, NEW users \in (SUBSET Users) \ {{}}, NEW j \in Conns
      PROVE  ~Connect(j, u, users)
  <2>1. j = k => ~Connect(j, u, users)
    BY DEF Connect, Unused
  <2>2. Connect(j, u, users) => j = k
    BY <1>2 DEF Connect
  <2> QED
    BY <2>1, <2>2
<1>4. ASSUME NEW j \in Conns
      PROVE  ~(Enter(j) \/ OrderSent(j) \/ TakeSnapshot(j) \/ Close(j) \/ Forget(j))
  BY <1>2 DEF Enter, OrderSent, TakeSnapshot, Close, Forget, Goto
<1>5. ASSUME NEW j \in Conns, NEW bet \in Bets, NEW confirm \in BOOLEAN
      PROVE  ~Bet(j, bet, confirm)
  BY <1>2 DEF Bet, Goto
<1>6. ASSUME NEW j \in Conns, NEW t \in Conns
      PROVE  ~Deliver(j, t)
  <2> SUFFICES ASSUME Deliver(j, t) PROVE FALSE
    OBVIOUS
  <2>1. PICK lost : handler' = [handler EXCEPT ![j] = Wrote(handler[j], t, lost)]
    BY DEF Deliver
  <2>2. handler'[k].pc = handler[k].pc
    BY <1>1, <2>1 DEF HandlerType, Wrote
  <2> QED
    BY <2>2
<1>7. ASSUME NEW j \in Conns, NEW t \in Conns, NEW victim \in Conns
      PROVE  ~ConcurrentWrite(j, t, victim)
  <2>1. Handler("dead", NoUser).pc = "dead"
    BY DEF Handler
  <2> QED
    BY <1>2, <2>1 DEF ConcurrentWrite
<1>8. ASSUME NEW j \in Conns PROVE ~HangUp(j)
  BY DEF HangUp
<1>9. ~Restart
  BY FreeFields DEF Restart
<1>10. ASSUME NEW j \in Conns, FinishBroadcast(j) PROVE j = k
  BY <1>2, <1>10 DEF FinishBroadcast, Goto
<1> QED
  BY <1>3, <1>4, <1>5, <1>6, <1>7, <1>8, <1>9, <1>10 DEF Next

----------------------------------------------------------------------------
(* Theorems.                                                               *)

\* The variables have their types, and a handler at work knows its user.
THEOREM TypesCorrect == Spec => []TypeOK
  BY TableAlways, PTL DEF TableInv

\* Whoever comes, goes, panics or is written to at the same time: a broadcast
\* walks every served connection whose client is there, and besides them only
\* registered ones, of clients that left or of handlers that panicked.
THEOREM FanOutCorrect == Spec => []ServedAreWalked
  BY TableAlways, PTL DEF TableInv

\* A connection whose handler panicked before a broadcast is gone from the map
\* after it.
THEOREM GhostsCorrect == Spec => GhostsDropped
<1>1. TableInv /\ [Next]_vars =>
          [\A k \in Conns : handler[k].pc = "cast" /\ handler'[k].pc = "read" =>
               handler[k].ghosts \intersect conns' = {}]_vars
  <2> SUFFICES ASSUME TableInv, Next, NEW k \in Conns, handler[k].pc = "cast",
                      handler'[k].pc = "read"
               PROVE  handler[k].ghosts \intersect conns' = {}
    BY DEF vars
  <2>1. FinishBroadcast(k)
    BY OnlyFinishEnds
  <2>2. /\ conns' = conns \ handler[k].failed
        /\ handler[k].due \intersect conns \subseteq handler[k].sent
    BY <2>1 DEF FinishBroadcast
  <2> QED
    BY <2>2, Known DEF WalksOK
<1> QED
  BY <1>1, TableAlways, PTL DEF Spec, GhostsDropped

\* For any amounts clients send: chips are neither made nor lost nor negative,
\* in the server and in every copy of its state.
THEOREM ChipsCorrect == Spec => []ChipsConserved
  BY TableAlways, PTL DEF TableInv

\* The one dealer of a table has no bet, whoever connects or bets meanwhile.
THEOREM DealerCorrect == Spec => []DealerNeverBets
  BY TableAlways, PTL DEF TableInv

\* A step of Next, from where the invariant holds, changes an account only by
\* a bet of its player.
LEMMA AccountsStep ==
    ASSUME TableInv, Next
    PROVE  \/ seated' = {}
           \/ /\ seated \subseteq seated'
              /\ dealer # NoUser => dealer' = dealer
              /\ \A u \in seated : account'[u] # account[u] =>
                     \E k \in Conns : /\ handler[k].user = u
                                      /\ handler[k].pc = "read" /\ handler'[k].pc = "notify"
<1>1. CASE UNCHANGED table
  BY <1>1 DEF table
<1>2. ASSUME NEW k \in Conns, Enter(k)
      PROVE  /\ seated \subseteq seated'
             /\ dealer # NoUser => dealer' = dealer
             /\ dealer # NoUser => account' = account
             /\ dealer = NoUser => seated = {}
  BY <1>2, Known DEF Enter, EnsureDealerAssigned, TableOK, DealerNeverBets
<1>3. ASSUME NEW k \in Conns, NEW bet \in Bets, NEW confirm \in BOOLEAN, Bet(k, bet, confirm)
      PROVE  /\ seated' = seated /\ dealer' = dealer /\ handler[k].pc = "read"
             /\ \A u \in Users \ {handler[k].user} : account'[u] = account[u]
             /\ handler'[k].pc = "notify"
  <2>1. handler[k].pc = "read" /\ handler' = [handler EXCEPT ![k] = Handler("notify", handler[k].user)]
    BY <1>3 DEF Bet, Goto
  <2>2. handler'[k].pc = "notify"
    BY <2>1, GoesOn, Known
  <2> QED
    BY <1>3, <2>2, Known DEF Bet, TableOK
<1>4. CASE Restart
  BY <1>4 DEF Restart
<1>5. \/ UNCHANGED table
      \/ \E k \in Conns : Enter(k)
      \/ \E k \in Conns, bet \in Bets, confirm \in BOOLEAN : Bet(k, bet, confirm)
      \/ Restart
  BY DEF Next, Connect, OrderSent, TakeSnapshot, Deliver, FinishBroadcast, ConcurrentWrite,
     HangUp, Close, Forget
<1>6. seated \in SUBSET Users
  BY Known DEF TableOK
<1> QED
  BY <1>1, <1>2, <1>3, <1>4, <1>5, <1>6

\* Only a bet from a connection of that player changes a seated player's
\* account, and the dealer stays the dealer, until the process restarts.
THEOREM AccountsCorrect == Spec => AccountsSurviveReconnects
<1>1. TableInv /\ [Next]_vars =>
          [\/ seated' = {}
           \/ /\ seated \subseteq seated'
              /\ dealer # NoUser => dealer' = dealer
              /\ \A u \in seated : account'[u] # account[u] =>
                     \E k \in Conns : /\ handler[k].user = u
                                      /\ handler[k].pc = "read" /\ handler'[k].pc = "notify"]_vars
  BY AccountsStep
<1> QED
  BY <1>1, TableAlways, PTL DEF Spec, AccountsSurviveReconnects

----------------------------------------------------------------------------
(* Refinement.                                                             *)

\* The table as BettingPromise reads it off the accounts.
Stakes == [u \in Users |-> account[u].bet]
Purses == [u \in Users |-> account[u].total_chips]
Settled == {u \in Users : account[u].confirmed}

\* A registration seats players; the first one finds a table without accounts,
\* so that making a player the dealer takes no stake away.
LEMMA EnterSitsDown ==
    ASSUME TableInv, NEW k \in Conns, Enter(k), NEW players, players = handler[k].users
    PROVE  /\ players \in (SUBSET Users) \ {{}}
           /\ Promise!SitDown(players)
<1>1. /\ handler[k].pc = "enter" /\ seated' = seated \union players
      /\ EnsureDealerAssigned(seated')
  BY DEF Enter
<1>2. players \in SUBSET Users /\ players # {} /\ TableOK
  BY <1>1, Known DEF HandlerOK, HandlerType
<1>3. CASE dealer # NoUser
  <2>1. dealer' = dealer /\ account' = account
    BY <1>1, <1>3 DEF EnsureDealerAssigned
  <2> QED
    BY <1>1, <1>2, <1>3, <2>1 DEF Promise!SitDown
<1>4. CASE dealer = NoUser
  <2>1. PICK d \in seated' :
            /\ dealer' = d
            /\ account' = [account EXCEPT ![d].bet = 0, ![d].confirmed = TRUE]
    BY <1>1, <1>4 DEF EnsureDealerAssigned
  <2>2. /\ seated = {} /\ d \in Users /\ account \in [Users -> AccountType]
    BY <1>1, <1>2, <1>4, <2>1 DEF TableOK, DealerNeverBets
  <2>3. \A u \in Users : account[u] = Fresh
    BY <1>2, <2>2 DEF TableOK, OthersFresh
  <2>4. account' = [account EXCEPT ![d] = [account[d] EXCEPT !.bet = 0, !.confirmed = TRUE]]
    BY <2>1, <2>2
  <2>5. /\ account'[d] = [Fresh EXCEPT !.bet = 0, !.confirmed = TRUE]
        /\ \A u \in Users \ {d} : account'[u] = account[u]
    BY <2>2, <2>3, <2>4
  <2>6. /\ account'[d].bet = 0 /\ account'[d].confirmed = TRUE
        /\ account'[d].total_chips = InitialChips
    BY <2>5, DealersAccount
  <2>7. \A u \in Users : /\ account'[u].bet = account[u].bet
                         /\ account'[u].total_chips = account[u].total_chips
                         /\ account'[u].confirmed <=> account[u].confirmed \/ u = d
    BY <2>3, <2>5, <2>6, FreshFields
  <2>8. Stakes' = Stakes /\ Purses' = Purses
    BY <2>7 DEF Stakes, Purses
  <2>9. Settled' = Settled \union {d}
    BY <2>2, <2>7 DEF Settled
  <2>10. dealer' \in seated' /\ Settled' = Settled \union {dealer'}
    BY <2>1, <2>9
  <2>11. seated' = seated \union players
    BY <1>1
  <2> QED
    BY <1>2, <1>4, <2>8, <2>10, <2>11 DEF Promise!SitDown, Stakes, Purses, Settled
<1> QED
  BY <1>2, <1>3, <1>4

\* A bet replaces the player's stake by another that the buy-in allows: the
\* difference is at most the chips left exactly if the new bet is at most all.
LEMMA BetStakes ==
    ASSUME TableInv, NEW k \in Conns, NEW bet \in Bets, NEW confirm \in BOOLEAN,
           Bet(k, bet, confirm), NEW u, u = handler[k].user
    PROVE  u \in Users /\ Promise!Stake(u)
<1> DEFINE a == [bet |-> bet, confirmed |-> confirm,
                 total_chips |-> account[u].total_chips - (bet - account[u].bet)]
<1>1. /\ u \in seated /\ u # dealer /\ bet >= 0
      /\ bet - account[u].bet <= account[u].total_chips
      /\ account' = [account EXCEPT ![u] = a]
      /\ UNCHANGED <<seated, dealer>>
  BY DEF Bet
<1>2. TableOK /\ u \in Users /\ account \in [Users -> AccountType] /\ bet \in Int
  BY <1>1, Known, TableAssumption DEF TableOK
<1>3. /\ account[u].bet \in Int /\ account[u].total_chips \in Int
      /\ account[u].bet + account[u].total_chips = InitialChips
  BY <1>2 DEF AccountType, TableOK, Conserved
<1>4. /\ a.bet = bet /\ a.confirmed = confirm /\ a.total_chips = InitialChips - bet
      /\ bet \in 0..InitialChips
  BY <1>1, <1>2, <1>3 DEF InitialChips
<1> HIDE DEF a
<1>5. account'[u] = a /\ \A x \in Users \ {u} : account'[x] = account[x]
  BY <1>1, <1>2
<1>6. Stakes'[u] = bet /\ Stakes' = [Stakes EXCEPT ![u] = bet]
  BY <1>2, <1>4, <1>5 DEF Stakes
<1>7. Purses' = [Purses EXCEPT ![u] = InitialChips - bet]
  BY <1>2, <1>4, <1>5 DEF Purses
<1>8. Settled' \in {Settled \union {u}, Settled \ {u}}
  <2>1. \A x \in Users : account'[x].confirmed <=> IF x = u THEN confirm ELSE account[x].confirmed
    BY <1>4, <1>5
  <2>2. confirm => Settled' = Settled \union {u}
    BY <1>2, <2>1 DEF Settled
  <2>3. ~confirm => Settled' = Settled \ {u}
    BY <1>2, <2>1 DEF Settled
  <2> QED
    BY <2>2, <2>3
<1> QED
  BY <1>1, <1>2, <1>4, <1>6, <1>7, <1>8 DEF Promise!Stake, Stakes, Purses, Settled

\* Every step of a handler is one change of the promised table, or none.
LEMMA TableMaps ==
    ASSUME TableInv, [Next]_vars
    PROVE  [Promise!Next]_(Promise!promiseVars)
<1>1. CASE UNCHANGED table
  BY <1>1 DEF table, Promise!promiseVars
<1>2. ASSUME NEW k \in Conns, Enter(k) PROVE Promise!Next
  <2>1. PICK players : players = handler[k].users
    OBVIOUS
  <2> QED
    BY <1>2, <2>1, EnterSitsDown DEF Promise!Next
<1>3. ASSUME NEW k \in Conns, NEW bet \in Bets, NEW confirm \in BOOLEAN, Bet(k, bet, confirm)
      PROVE  Promise!Next
  <2>1. PICK u : u = handler[k].user
    OBVIOUS
  <2> QED
    BY <1>3, <2>1, BetStakes DEF Promise!Next
<1>4. CASE Restart
  <2>1. /\ seated' = {} /\ dealer' = NoUser
        /\ \A u \in Users : account'[u] = Fresh
    BY <1>4, NoAccounts DEF Restart
  <2>2. Promise!Clear
    BY <2>1, FreshFields DEF Promise!Clear, Promise!NewTable
  <2> QED
    BY <2>2 DEF Promise!Next
<1>5. \/ UNCHANGED table
      \/ \E k \in Conns : Enter(k)
      \/ \E k \in Conns, bet \in Bets, confirm \in BOOLEAN : Bet(k, bet, confirm)
      \/ Restart
  BY DEF Next, Connect, OrderSent, TakeSnapshot, Deliver, FinishBroadcast, ConcurrentWrite,
     HangUp, Close, Forget, vars, table
<1> QED
  BY <1>1, <1>2, <1>3, <1>4, <1>5

\* For any players, connections and amounts: the server keeps BettingPromise.
THEOREM BettingPromiseKept == Spec => KeepsBettingPromise
<1>1. Init => Promise!Init
  <2> SUFFICES ASSUME Init PROVE Promise!Init
    OBVIOUS
  <2>1. seated = {} /\ dealer = NoUser /\ \A u \in Users : account[u] = Fresh
    BY NoAccounts DEF Init
  <2> QED
    BY <2>1, FreshFields DEF Promise!Init, Promise!NewTable
<1>2. TableInv /\ [Next]_vars => [Promise!Next]_(Promise!promiseVars)
  BY TableMaps
<1> QED
  BY <1>1, <1>2, TableAlways, PTL DEF Spec, KeepsBettingPromise, Promise!Spec
=============================================================================
