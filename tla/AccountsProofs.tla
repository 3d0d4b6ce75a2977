--------------------------- MODULE AccountsProofs ---------------------------
(* Theorems about Accounts.                                                *)
EXTENDS Accounts, SequenceTheorems, TLAPS

UserRow == [name : Names, password : Passwords \union {NoPassword}]

Positions ==
    {"idle", "user", "settings", "tips", "main_settings", "main_tips", "main_reply"}

RequestRow ==
    [pc : Positions, name : Names \union {""}, by : Passwords \union {NoPassword},
     id : Ids \union {0}, token : Ids \union {0}, volume : Volumes, chips : Int]

----------------------------------------------------------------------------
(* What the operators that make rows and requests return.                  *)

\* A new request has its position and nothing else.
LEMMA RequestFields ==
    ASSUME NEW p \in Positions
    PROVE  /\ Request(p) \in RequestRow
           /\ Request(p).pc = p /\ Request(p).by = NoPassword
           /\ Request(p).id = 0 /\ Request(p).token = 0
  BY AccountsAssumption DEF Request, RequestRow

\* A free slot.
LEMMA IdleFields == Idle \in RequestRow /\ Idle.pc = "idle"
  BY AccountsAssumption DEF Idle, Request, RequestRow, Positions

\* The fields of a request are of their types.
LEMMA RequestRowFields ==
    ASSUME NEW q \in RequestRow
    PROVE  /\ q.pc \in Positions /\ q.name \in Names \union {""}
           /\ q.by \in Passwords \union {NoPassword}
           /\ q.id \in Ids \union {0} /\ q.token \in Ids \union {0}
           /\ q.volume \in Volumes /\ q.chips \in Int
  BY DEF RequestRow

\* Ids are the places of a sequence.
LEMMA IdsPlaces ==
    ASSUME users \in Seq(UserRow)
    PROVE  /\ Len(users) \in Nat /\ Ids \subseteq Nat \ {0} /\ Len(users) + 1 \notin Ids
           /\ \A i \in Ids : users[i] \in UserRow
<1>1. Len(users) \in Nat /\ users \in [1..Len(users) -> UserRow]
  BY LenProperties
<1> QED
  BY <1>1 DEF Ids

----------------------------------------------------------------------------
(* The inductive invariant.                                                *)

\* The request has inserted its account and is not done with its rows.
Creating(q) == q.pc \in {"settings", "tips"}

\* A creation is the only one of its account, which has what was asked for and
\* no chips yet.
CreationsOK ==
    \A r \in Requests :
        /\ request[r].pc \in {"user", "settings", "tips"} => request[r].name \in Names
        /\ Creating(request[r]) =>
               /\ request[r].id \in Ids
               /\ users[request[r].id].name = request[r].name
               /\ users[request[r].id].password = request[r].by
               /\ request[r].id \notin DOMAIN tips
        /\ request[r].pc = "tips" => request[r].id \in DOMAIN settings
        /\ \A s \in Requests \ {r} :
               Creating(request[r]) /\ Creating(request[s]) => request[s].id # request[r].id

\* With the key, no two accounts share a name.
KeyKept ==
    indexed => \A i, j \in Ids : users[i].name = users[j].name => i = j

\* The request is reading main data, or has read them.
Reading(q) == q.pc \in {"main_settings", "main_tips", "main_reply"}

\* Main data are those of an account that is there.
ReadersKnown == \A r \in Requests : Reading(request[r]) => request[r].id \in Ids

\* An account without chips was acknowledged nothing, or too early.
NothingYet ==
    \A i \in 1..MaxAccounts : i \notin DOMAIN tips /\ i \notin early => acked[i] = 0

AccountsInv ==
    /\ TypeOK
    /\ CreationsOK
    /\ TokensEarned
    /\ KeyKept
    /\ OwnData
    /\ ReadersKnown
    /\ GuestsComplete
    /\ ChipsLedger
    /\ NothingYet

\* What TypeOK says, with the names given here.
LEMMA Types ==
    TypeOK <=>
        /\ indexed \in BOOLEAN
        /\ users \in Seq(UserRow) /\ Len(users) <= MaxAccounts
        /\ settings \in [DOMAIN settings -> Volumes] /\ DOMAIN settings \subseteq Ids
        /\ tips \in [DOMAIN tips -> Int] /\ DOMAIN tips \subseteq DOMAIN settings
        /\ tokens \subseteq [id : Ids, name : Names, by : Passwords \union {NoPassword}]
        /\ request \in [Requests -> RequestRow]
        /\ acked \in [1..MaxAccounts -> Int]
        /\ early \subseteq Ids
  BY DEF TypeOK, UserRow, RequestRow, Positions

----------------------------------------------------------------------------
(* Steps of one request.                                                   *)

\* Request r goes on as q and the others stay.
LEMMA BecomeOne ==
    ASSUME NEW R, request \in [Requests -> R], NEW r \in Requests, NEW q, Become(r, q)
    PROVE  /\ request'[r] = q
           /\ \A s \in Requests \ {r} : request'[s] = request[s]
           /\ q \in R => request' \in [Requests -> R]
  BY DEF Become

\* A step that changes one request only, and does not make it the creation of
\* an account it was not the creation of before.
LEMMA RequestMoves ==
    ASSUME AccountsInv, NEW r \in Requests, NEW q \in RequestRow, Become(r, q),
           UNCHANGED <<indexed, users, settings, tips, tokens, history>>,
           q.pc = "user" => q.name \in Names,
           Creating(q) => /\ Creating(request[r]) /\ q.id = request[r].id
                          /\ q.name = request[r].name /\ q.by = request[r].by,
           q.pc = "tips" => q.id \in DOMAIN settings,
           indexed /\ Reading(q) => q.id = q.token,
           Reading(q) => q.id \in Ids
    PROVE  AccountsInv'
<1>1. /\ request'[r] = q /\ request' \in [Requests -> RequestRow]
      /\ \A s \in Requests \ {r} : request'[s] = request[s]
  BY BecomeOne, Types DEF AccountsInv
<1>2. /\ indexed' = indexed /\ users' = users /\ settings' = settings /\ tips' = tips
      /\ tokens' = tokens /\ acked' = acked /\ early' = early
  BY DEF history
<1>3. TypeOK'
  BY <1>1, <1>2 DEF AccountsInv, TypeOK, RequestRow, Positions, Ids
<1>4. CreationsOK'
  <2> SUFFICES ASSUME NEW s \in Requests
               PROVE  /\ request'[s].pc \in {"user", "settings", "tips"} => request'[s].name \in Names
                      /\ Creating(request'[s]) =>
                             /\ request'[s].id \in Ids
                             /\ users[request'[s].id].name = request'[s].name
                             /\ users[request'[s].id].password = request'[s].by
                             /\ request'[s].id \notin DOMAIN tips
                      /\ request'[s].pc = "tips" => request'[s].id \in DOMAIN settings
                      /\ \A x \in Requests \ {s} :
                             Creating(request'[s]) /\ Creating(request'[x])
                                 => request'[x].id # request'[s].id
    BY <1>2 DEF CreationsOK, Creating, Ids
  <2>1. \A x \in Requests :
            Creating(request'[x]) => /\ Creating(request[x]) /\ request'[x].id = request[x].id
                                     /\ request'[x].name = request[x].name
                                     /\ request'[x].by = request[x].by
    BY <1>1
  <2>2. request'[s].pc = "tips" => request'[s].id \in DOMAIN settings
    BY <1>1 DEF AccountsInv, CreationsOK
  <2>3. request'[s].pc = "user" => request'[s].name \in Names
    BY <1>1 DEF AccountsInv, CreationsOK
  <2>4. Creating(request[s]) => /\ request[s].name \in Names /\ request[s].id \in Ids
                                /\ users[request[s].id].name = request[s].name
                                /\ users[request[s].id].password = request[s].by
                                /\ request[s].id \notin DOMAIN tips
    BY DEF AccountsInv, CreationsOK, Creating
  <2>5. \A x \in Requests \ {s} : Creating(request[s]) /\ Creating(request[x])
                                      => request[x].id # request[s].id
    BY DEF AccountsInv, CreationsOK
  <2> QED
    BY <2>1, <2>2, <2>3, <2>4, <2>5 DEF Creating
<1>5. OwnData' /\ ReadersKnown'
  BY <1>1, <1>2 DEF AccountsInv, OwnData, ReadersKnown, Reading, Ids
<1>6. TokensEarned' /\ KeyKept' /\ GuestsComplete' /\ ChipsLedger' /\ NothingYet'
  BY <1>2 DEF AccountsInv, TokensEarned, KeyKept, GuestsComplete, ChipsLedger, NothingYet, Ids
<1> QED
  BY <1>3, <1>4, <1>5, <1>6 DEF AccountsInv

\* The name check of a creation.
LEMMA CreateAccountKeeps ==
    ASSUME AccountsInv, NEW r \in Requests, NEW n \in Names,
           NEW p \in Passwords \union {NoPassword}, CreateAccount(r, n, p)
    PROVE  AccountsInv'
<1> DEFINE q == [Request("user") EXCEPT !.name = n, !.by = p]
<1>1. q \in RequestRow /\ q.pc = "user" /\ q.name = n
  <2>1. Request("user") \in RequestRow /\ Request("user").pc = "user"
    BY RequestFields DEF Positions
  <2> QED
    BY <2>1 DEF RequestRow
<1>2. ~Creating(q) /\ q.pc # "tips" /\ ~Reading(q)
  BY <1>1 DEF Creating, Reading
<1>3. CASE Named(n) = {}
  <2>1. Become(r, q) /\ UNCHANGED <<indexed, users, settings, tips, tokens, history>>
    BY <1>3 DEF CreateAccount
  <2> HIDE DEF q
  <2> QED
    BY <1>1, <1>2, <2>1, RequestMoves
<1>4. CASE Named(n) # {}
  <2>1. UNCHANGED vars
    BY <1>4 DEF CreateAccount, vars, history
  <2> QED
    BY <2>1 DEF vars, AccountsInv, TypeOK, CreationsOK, TokensEarned, KeyKept, OwnData, ReadersKnown,
       GuestsComplete, ChipsLedger, NothingYet, Ids
<1> QED
  BY <1>3, <1>4

\* The lookup of main data by the name in the token, which with the key is the
\* name of one account only.
LEMMA MainDataKeeps ==
    ASSUME AccountsInv, NEW r \in Requests, NEW t \in tokens, MainData(r, t)
    PROVE  AccountsInv'
<1>1. PICK i \in Named(t.name) :
          Become(r, [Request("main_settings") EXCEPT !.id = i, !.token = t.id])
  BY DEF MainData
<1> DEFINE q == [Request("main_settings") EXCEPT !.id = i, !.token = t.id]
<1>2. i \in Ids /\ users[i].name = t.name
  BY DEF Named
<1>3. t.id \in Ids /\ users[t.id].name = t.name
  BY Types DEF AccountsInv, TokensEarned
<1>4. q \in RequestRow /\ q.pc = "main_settings" /\ q.id = i /\ q.token = t.id
  <2>1. Request("main_settings") \in RequestRow /\ Request("main_settings").pc = "main_settings"
    BY RequestFields DEF Positions
  <2> QED
    BY <1>2, <1>3, <2>1 DEF RequestRow
<1>5. indexed => i = t.id
  BY <1>2, <1>3 DEF AccountsInv, KeyKept
<1>6. Become(r, q) /\ UNCHANGED <<indexed, users, settings, tips, tokens, history>>
  BY <1>1 DEF MainData
<1> HIDE DEF q
<1> QED
  BY <1>2, <1>4, <1>5, <1>6, RequestMoves DEF Creating, Reading

\* What a table has for a user, or a default, is of the table's kind.
LEMMA RowOrDefault ==
    ASSUME NEW S, NEW table, table \in [DOMAIN table -> S], NEW i, NEW x \in S
    PROVE  /\ RowOr(table, i, x) \in S
           /\ i \in DOMAIN table => RowOr(table, i, x) = table[i]
           /\ i \notin DOMAIN table => RowOr(table, i, x) = x
  BY DEF RowOr

\* The two reads of main data, the answer, and a statement that fails.
LEMMA ReadsKeep ==
    ASSUME AccountsInv, NEW r \in Requests,
           MainSettings(r) \/ MainTips(r) \/ MainReply(r) \/ Fail(r)
    PROVE  AccountsInv'
<1>1. request[r] \in RequestRow
  BY Types DEF AccountsInv
<1>2. ASSUME NEW q \in RequestRow, q.pc \in {"main_tips", "main_reply"},
             q.id = request[r].id, q.token = request[r].token, Become(r, q),
             Reading(request[r]), UNCHANGED <<indexed, users, settings, tips, tokens, history>>
      PROVE  AccountsInv'
  <2>1. Reading(q) /\ ~Creating(q) /\ q.pc # "user" /\ q.pc # "tips"
    BY <1>2 DEF Reading, Creating
  <2>2. (indexed => q.id = q.token) /\ q.id \in Ids
    BY <1>2 DEF AccountsInv, OwnData, ReadersKnown, Reading
  <2> QED
    BY <1>2, <2>1, <2>2, RequestMoves
<1>3. CASE MainSettings(r)
  <2> DEFINE v == RowOr(settings, request[r].id, DefaultVolume)
             q == [request[r] EXCEPT !.pc = "main_tips", !.volume = v]
  <2>1. v \in Volumes
    BY RowOrDefault, Types, AccountsAssumption DEF AccountsInv
  <2>2. /\ Become(r, q) /\ Reading(request[r])
        /\ UNCHANGED <<indexed, users, settings, tips, tokens, history>>
    BY <1>3 DEF MainSettings, Reading
  <2> HIDE DEF v
  <2>3. /\ q \in RequestRow /\ q.pc = "main_tips"
        /\ q.id = request[r].id /\ q.token = request[r].token
    BY <1>1, <2>1 DEF RequestRow, Positions
  <2> QED
    BY <1>2, <2>2, <2>3
<1>4. CASE MainTips(r)
  <2> DEFINE c == RowOr(tips, request[r].id, InitialTips)
             q == [request[r] EXCEPT !.pc = "main_reply", !.chips = c]
  <2>1. c \in Int
    BY RowOrDefault, Types DEF AccountsInv, InitialTips
  <2>2. /\ Become(r, q) /\ Reading(request[r])
        /\ UNCHANGED <<indexed, users, settings, tips, tokens, history>>
    BY <1>4 DEF MainTips, Reading
  <2> HIDE DEF c
  <2>3. /\ q \in RequestRow /\ q.pc = "main_reply"
        /\ q.id = request[r].id /\ q.token = request[r].token
    BY <1>1, <2>1 DEF RequestRow, Positions
  <2> QED
    BY <1>2, <2>2, <2>3
<1>5. CASE MainReply(r) \/ Fail(r)
  <2>1. Become(r, Idle) /\ UNCHANGED <<indexed, users, settings, tips, tokens, history>>
    BY <1>5 DEF MainReply, Fail
  <2> QED
    BY <2>1, IdleFields, RequestMoves DEF Creating, Reading
<1> QED
  BY <1>3, <1>4, <1>5

----------------------------------------------------------------------------
(* The inserts of a creation.                                              *)

\* The row of users: a new id, which nothing refers to yet.
LEMMA InsertUserKeeps ==
    ASSUME AccountsInv, NEW r \in Requests, InsertUser(r)
    PROVE  AccountsInv'
<1> DEFINE new == Len(users) + 1
           row == [name |-> request[r].name, password |-> request[r].by]
           q == [request[r] EXCEPT !.pc = "settings", !.id = new]
<1>1. /\ request[r] \in RequestRow /\ request[r].pc = "user" /\ request[r].name \in Names
      /\ request[r].by \in Passwords \union {NoPassword}
  BY Types, RequestRowFields DEF AccountsInv, CreationsOK, InsertUser
<1>2. row \in UserRow /\ row.name = request[r].name /\ row.password = request[r].by
  BY <1>1 DEF UserRow
<1>3. users \in Seq(UserRow) /\ Len(users) \in Nat /\ new \notin Ids /\ Len(users) < MaxAccounts
  BY Types, IdsPlaces DEF AccountsInv, InsertUser
<1>4. users' = Append(users, row)
  BY DEF InsertUser
<1>5. /\ users' \in Seq(UserRow) /\ Len(users') = new
      /\ \A i \in Ids : users'[i] = users[i]
      /\ users'[new] = row
  BY <1>2, <1>3, <1>4, AppendProperties DEF Ids
<1>6. Ids' = Ids \union {new}
  BY <1>3, <1>5 DEF Ids
<1>7. /\ q.pc = "settings" /\ q.id = new /\ q.name = request[r].name /\ q.by = request[r].by
      /\ q.token = request[r].token
  BY <1>1 DEF RequestRow
<1>8. q \in [pc : Positions, name : Names \union {""}, by : Passwords \union {NoPassword},
             id : Ids' \union {0}, token : Ids' \union {0}, volume : Volumes, chips : Int]
  BY <1>1, <1>6 DEF RequestRow, Positions
<1>9. /\ indexed' = indexed /\ settings' = settings /\ tips' = tips /\ tokens' = tokens
      /\ acked' = acked /\ early' = early
  BY DEF InsertUser, history
<1>10. /\ request'[r] = q
       /\ \A s \in Requests \ {r} : request'[s] = request[s]
       /\ request' \in [Requests -> RequestRow']
  <2>1. RequestRow \subseteq RequestRow' /\ q \in RequestRow'
    BY <1>6, <1>8 DEF RequestRow
  <2>2. request \in [Requests -> RequestRow'] /\ Become(r, q)
    BY <2>1, Types DEF AccountsInv, InsertUser
  <2> HIDE DEF q
  <2> QED
    BY <2>1, <2>2, BecomeOne
<1> HIDE DEF q, row
<1>11. TypeOK'
  <2>1. Len(users') <= MaxAccounts
    BY <1>3, <1>5, AccountsAssumption
  <2>2. /\ DOMAIN settings \subseteq Ids' /\ early \subseteq Ids'
        /\ tokens \subseteq [id : Ids', name : Names, by : Passwords \union {NoPassword}]
    BY <1>6, Types DEF AccountsInv
  <2> QED
    BY <1>5, <1>9, <1>10, <2>1, <2>2, Types DEF AccountsInv, TypeOK, UserRow, RequestRow, Positions
<1>12. CreationsOK'
  <2>1. \A s \in Requests \ {r} : Creating(request[s]) =>
            request[s].id \in Ids /\ request[s].id # new
    BY <1>3 DEF AccountsInv, CreationsOK
  <2>2. new \notin DOMAIN tips
    BY <1>3, Types DEF AccountsInv
  <2>3. ASSUME NEW s \in Requests \ {r}
        PROVE  /\ request[s].pc \in {"user", "settings", "tips"} => request[s].name \in Names
               /\ Creating(request[s]) =>
                      /\ request[s].id \in Ids
                      /\ users'[request[s].id].name = request[s].name
                      /\ users'[request[s].id].password = request[s].by
                      /\ request[s].id \notin DOMAIN tips
               /\ request[s].pc = "tips" => request[s].id \in DOMAIN settings
               /\ \A x \in Requests \ {s, r} :
                      Creating(request[s]) /\ Creating(request[x]) => request[x].id # request[s].id
    BY <1>5 DEF AccountsInv, CreationsOK
  <2> QED
    BY <1>1, <1>2, <1>5, <1>6, <1>7, <1>9, <1>10, <2>1, <2>2, <2>3 DEF CreationsOK, Creating
<1>13. TokensEarned'
  <2>1. \A t \in tokens : t.id \in Ids
    BY Types DEF AccountsInv
  <2> QED
    BY <1>5, <1>9, <2>1 DEF AccountsInv, TokensEarned
<1>14. KeyKept'
  <2> SUFFICES ASSUME indexed, NEW i \in Ids', NEW j \in Ids', users'[i].name = users'[j].name
               PROVE  i = j
    BY <1>9 DEF KeyKept
  <2>1. \A k \in Ids : users[k].name # request[r].name
    BY DEF InsertUser, Named
  <2> QED
    BY <1>2, <1>5, <1>6, <2>1 DEF AccountsInv, KeyKept
<1>15. OwnData' /\ ReadersKnown'
  BY <1>6, <1>7, <1>9, <1>10 DEF AccountsInv, OwnData, ReadersKnown, Reading
<1>16. GuestsComplete' /\ NothingYet'
  BY <1>9 DEF AccountsInv, GuestsComplete, NothingYet
<1>17. ChipsLedger'
  <2>1. early \subseteq Ids
    BY Types DEF AccountsInv
  <2> QED
    BY <1>5, <1>9, <2>1 DEF AccountsInv, ChipsLedger
<1> QED
  BY <1>11, <1>12, <1>13, <1>14, <1>15, <1>16, <1>17 DEF AccountsInv

\* The row of settings.
LEMMA InsertSettingsKeeps ==
    ASSUME AccountsInv, NEW r \in Requests, InsertSettings(r)
    PROVE  AccountsInv'
<1> DEFINE i == request[r].id
           q == [request[r] EXCEPT !.pc = "tips"]
<1>1. /\ request[r] \in RequestRow /\ request[r].pc = "settings" /\ Creating(request[r])
      /\ request[r].name \in Names /\ i \in Ids
  BY Types DEF AccountsInv, CreationsOK, InsertSettings, Creating
<1>2. q \in RequestRow /\ q.pc = "tips" /\ q.id = i /\ q.name = request[r].name /\ q.by = request[r].by
  BY <1>1 DEF RequestRow, Positions
<1>3. /\ settings' \in [DOMAIN settings' -> Volumes]
      /\ DOMAIN settings' = DOMAIN settings \union {i}
  <2>1. settings \in [DOMAIN settings -> Volumes] /\ settings' = WithRow(settings, i, FullVolume)
    BY Types DEF AccountsInv, InsertSettings
  <2>2. DOMAIN settings' = DOMAIN settings \union {i}
    BY <2>1 DEF WithRow
  <2>3. settings' \in [DOMAIN settings \union {i} -> Volumes]
    BY <2>1, AccountsAssumption DEF WithRow
  <2> QED
    BY <2>2, <2>3
<1>4. /\ indexed' = indexed /\ users' = users /\ tips' = tips /\ tokens' = tokens
      /\ acked' = acked /\ early' = early /\ Ids' = Ids
  BY DEF InsertSettings, history, Ids
<1>5. /\ request'[r] = q
      /\ \A s \in Requests \ {r} : request'[s] = request[s]
      /\ request' \in [Requests -> RequestRow]
  <2>1. request \in [Requests -> RequestRow] /\ Become(r, q)
    BY Types DEF AccountsInv, InsertSettings
  <2> HIDE DEF q
  <2> QED
    BY <1>2, <2>1, BecomeOne
<1> HIDE DEF q
<1>6. TypeOK'
  <2>1. DOMAIN settings' \subseteq Ids /\ DOMAIN tips \subseteq DOMAIN settings'
    BY <1>1, <1>3, Types DEF AccountsInv
  <2> QED
    BY <1>3, <1>4, <1>5, <2>1, Types DEF AccountsInv, TypeOK, UserRow, RequestRow, Positions
<1>7. CreationsOK'
  <2>1. \A s \in Requests :
            /\ request'[s].name = request[s].name /\ request'[s].by = request[s].by
            /\ request'[s].id = request[s].id
            /\ Creating(request'[s]) <=> Creating(request[s])
            /\ request'[s].pc \in {"user", "settings", "tips"} <=>
                   request[s].pc \in {"user", "settings", "tips"}
            /\ request'[s].pc = "tips" => request[s].pc = "tips" \/ s = r
    BY <1>1, <1>2, <1>5 DEF Creating
  <2> QED
    BY <1>3, <1>4, <2>1 DEF AccountsInv, CreationsOK
<1>8. OwnData' /\ ReadersKnown'
  BY <1>2, <1>4, <1>5 DEF AccountsInv, OwnData, ReadersKnown, Reading
<1>9. GuestsComplete'
  BY <1>3, <1>4 DEF AccountsInv, GuestsComplete
<1>10. TokensEarned' /\ KeyKept' /\ ChipsLedger' /\ NothingYet'
  BY <1>4 DEF AccountsInv, TokensEarned, KeyKept, ChipsLedger, NothingYet
<1> QED
  BY <1>6, <1>7, <1>8, <1>9, <1>10 DEF AccountsInv

\* The row of tips, and the token: of an account that had no chips yet.
LEMMA InsertTipsKeeps ==
    ASSUME AccountsInv, NEW r \in Requests, InsertTips(r)
    PROVE  AccountsInv'
<1> DEFINE i == request[r].id
           t == Token(i, request[r].name, request[r].by)
<1>1. /\ request[r] \in RequestRow /\ request[r].pc = "tips" /\ Creating(request[r])
      /\ request[r].name \in Names /\ i \in Ids /\ i \in DOMAIN settings /\ i \notin DOMAIN tips
      /\ users[i].name = request[r].name /\ users[i].password = request[r].by
  BY Types DEF AccountsInv, CreationsOK, InsertTips, Creating
<1>2. /\ tips' \in [DOMAIN tips' -> Int] /\ DOMAIN tips' = DOMAIN tips \union {i}
      /\ tips'[i] = InitialTips
      /\ \A j \in DOMAIN tips : tips'[j] = tips[j]
  <2>1. tips \in [DOMAIN tips -> Int] /\ tips' = WithRow(tips, i, InitialTips) /\ InitialTips \in Int
    BY Types DEF AccountsInv, InsertTips, InitialTips
  <2>2. DOMAIN tips' = DOMAIN tips \union {i}
    BY <2>1 DEF WithRow
  <2>3. tips' \in [DOMAIN tips \union {i} -> Int]
    BY <2>1 DEF WithRow
  <2>4. tips'[i] = InitialTips /\ \A j \in DOMAIN tips : tips'[j] = tips[j]
    BY <1>1, <2>1 DEF WithRow
  <2> QED
    BY <2>2, <2>3, <2>4
<1>3. /\ indexed' = indexed /\ users' = users /\ settings' = settings
      /\ tokens' = tokens \union {t}
      /\ acked' = acked /\ early' = early /\ Ids' = Ids
  BY DEF InsertTips, history, Ids
<1>4. t.id = i /\ t.name = request[r].name /\ t.by = request[r].by
  BY DEF Token
<1>5. t \in [id : Ids, name : Names, by : Passwords \union {NoPassword}]
  BY <1>1, RequestRowFields DEF Token
<1>6. /\ request'[r] = Idle
      /\ \A s \in Requests \ {r} : request'[s] = request[s]
      /\ request' \in [Requests -> RequestRow]
  BY IdleFields, BecomeOne, Types DEF AccountsInv, InsertTips
<1> HIDE DEF t
<1>7. TypeOK'
  <2>1. /\ DOMAIN tips' \subseteq DOMAIN settings
        /\ tokens' \subseteq [id : Ids, name : Names, by : Passwords \union {NoPassword}]
    BY <1>1, <1>2, <1>3, <1>5, Types DEF AccountsInv
  <2> QED
    BY <1>2, <1>3, <1>6, <2>1, Types DEF AccountsInv, TypeOK, UserRow, RequestRow, Positions
<1>8. CreationsOK'
  <2>1. \A s \in Requests \ {r} : Creating(request[s]) => request[s].id # i
    BY <1>1 DEF AccountsInv, CreationsOK
  <2>2. ~Creating(request'[r]) /\ request'[r].pc \notin {"user", "settings", "tips"}
    BY <1>6, IdleFields DEF Creating
  <2> QED
    BY <1>2, <1>3, <1>6, <2>1, <2>2 DEF AccountsInv, CreationsOK
<1>9. TokensEarned'
  BY <1>1, <1>3, <1>4 DEF AccountsInv, TokensEarned
<1>10. OwnData' /\ ReadersKnown'
  BY <1>3, <1>6, IdleFields DEF AccountsInv, OwnData, ReadersKnown, Reading
<1>11. GuestsComplete'
  BY <1>1, <1>2, <1>3, <1>4 DEF AccountsInv, GuestsComplete
<1>12. ChipsLedger'
  <2>1. i \in 1..MaxAccounts
    BY <1>1, Types, IdsPlaces, AccountsAssumption DEF AccountsInv, Ids
  <2>2. i \notin early => acked[i] = 0
    BY <1>1, <2>1 DEF AccountsInv, NothingYet
  <2>3. \A j \in DOMAIN tips' \ early : tips'[j] = InitialTips + acked[j]
    BY <1>2, <2>2 DEF AccountsInv, ChipsLedger, InitialTips
  <2> QED
    BY <1>3, <2>3 DEF AccountsInv, ChipsLedger
<1>13. KeyKept' /\ NothingYet'
  BY <1>2, <1>3 DEF AccountsInv, KeyKept, NothingYet
<1> QED
  BY <1>7, <1>8, <1>9, <1>10, <1>11, <1>12, <1>13 DEF AccountsInv

----------------------------------------------------------------------------
(* Endpoints of one statement.                                             *)

\* A login gives a token for a password, so for no guest's account.
LEMMA LoginKeeps ==
    ASSUME AccountsInv, NEW n \in Names, NEW p \in Passwords, Login(n, p)
    PROVE  AccountsInv'
<1>1. PICK i \in Named(n) :
          /\ users[i].password = p
          /\ tokens' = tokens \union {Token(i, n, p)}
          /\ UNCHANGED <<indexed, users, settings, tips, request, history>>
  BY DEF Login
<1> DEFINE t == Token(i, n, p)
<1>2. t.id = i /\ t.name = n /\ t.by = p
  BY DEF Token
<1>3. i \in Ids /\ users[i].name = n
  BY DEF Named
<1>4. t \in [id : Ids, name : Names, by : Passwords \union {NoPassword}]
  BY <1>3 DEF Token
<1>5. p # NoPassword
  BY AccountsAssumption
<1>6. /\ indexed' = indexed /\ users' = users /\ settings' = settings /\ tips' = tips
      /\ request' = request /\ acked' = acked /\ early' = early /\ tokens' = tokens \union {t}
  BY <1>1 DEF history
<1> HIDE DEF t
<1>7. TypeOK'
  BY <1>4, <1>6 DEF AccountsInv, TypeOK, Ids
<1>8. CreationsOK' /\ KeyKept' /\ OwnData' /\ ReadersKnown' /\ ChipsLedger' /\ NothingYet'
  BY <1>6 DEF AccountsInv, CreationsOK, KeyKept, OwnData, ReadersKnown, ChipsLedger, NothingYet, Ids
<1>9. TokensEarned'
  BY <1>1, <1>2, <1>3, <1>6 DEF AccountsInv, TokensEarned
<1>10. GuestsComplete'
  BY <1>2, <1>5, <1>6 DEF AccountsInv, GuestsComplete
<1> QED
  BY <1>7, <1>8, <1>9, <1>10 DEF AccountsInv

\* The update of the chips: a guest whose token is used has a row for them.
LEMMA UpdateSoloTipKeeps ==
    ASSUME AccountsInv, NEW t \in tokens, NEW d \in Diffs, UpdateSoloTip(t, d)
    PROVE  AccountsInv'
<1>1. /\ t.id \in Ids /\ t.id \in 1..MaxAccounts /\ d \in Int
      /\ t.by = NoPassword => t.id \in DOMAIN tips
      /\ users[t.id].password = t.by
  BY Types, IdsPlaces, AccountsAssumption DEF AccountsInv, TokensEarned, GuestsComplete, Ids
<1>2. /\ tips \in [DOMAIN tips -> Int] /\ acked \in [1..MaxAccounts -> Int] /\ early \subseteq Ids
  BY Types DEF AccountsInv
<1>3. /\ tips' \in [DOMAIN tips -> Int] /\ DOMAIN tips' = DOMAIN tips
      /\ t.id \in DOMAIN tips => tips'[t.id] = tips[t.id] + d
      /\ \A i \in DOMAIN tips \ {t.id} : tips'[i] = tips[i]
  <2>1. CASE t.id \in DOMAIN tips
    BY <1>1, <1>2, <2>1 DEF UpdateSoloTip
  <2>2. CASE t.id \notin DOMAIN tips
    BY <1>2, <2>2 DEF UpdateSoloTip
  <2> QED
    BY <2>1, <2>2
<1>4. /\ acked' \in [1..MaxAccounts -> Int] /\ acked'[t.id] = acked[t.id] + d
      /\ \A i \in 1..MaxAccounts \ {t.id} : acked'[i] = acked[i]
  BY <1>1, <1>2 DEF UpdateSoloTip
<1>5. /\ indexed' = indexed /\ users' = users /\ settings' = settings
      /\ tokens' = tokens /\ request' = request /\ Ids' = Ids
      /\ early' = IF t.id \in DOMAIN tips THEN early ELSE early \union {t.id}
  BY DEF UpdateSoloTip, Ids
<1>6. TypeOK'
  <2>1. early' \subseteq Ids /\ tips' \in [DOMAIN tips' -> Int]
    BY <1>1, <1>2, <1>3, <1>5
  <2> QED
    BY <1>3, <1>4, <1>5, <2>1, Types DEF AccountsInv, TypeOK, UserRow, RequestRow, Positions
<1>7. CreationsOK' /\ TokensEarned' /\ KeyKept' /\ OwnData' /\ ReadersKnown' /\ GuestsComplete'
  BY <1>3, <1>5 DEF AccountsInv, CreationsOK, TokensEarned, KeyKept, OwnData, ReadersKnown, GuestsComplete
<1>8. ChipsLedger'
  <2>1. ASSUME NEW i \in DOMAIN tips' \ early' PROVE tips'[i] = InitialTips + acked'[i]
    <3>1. i \in DOMAIN tips \ early /\ i \in 1..MaxAccounts
      BY <1>3, <1>5, Types, IdsPlaces, AccountsAssumption DEF AccountsInv, Ids
    <3>2. tips[i] = InitialTips + acked[i] /\ tips[i] \in Int /\ acked[i] \in Int
      BY <1>2, <3>1 DEF AccountsInv, ChipsLedger
    <3> QED
      BY <1>1, <1>3, <1>4, <3>1, <3>2 DEF InitialTips
  <2>2. ASSUME NEW i \in early' PROVE users'[i].password # NoPassword
    BY <1>1, <1>5 DEF AccountsInv, ChipsLedger
  <2> QED
    BY <2>1, <2>2 DEF ChipsLedger
<1>9. NothingYet'
  BY <1>3, <1>4, <1>5 DEF AccountsInv, NothingYet
<1> QED
  BY <1>6, <1>7, <1>8, <1>9 DEF AccountsInv

\* The update of the settings.
LEMMA UpdateUserSettingsKeeps ==
    ASSUME AccountsInv, NEW t \in tokens, NEW v \in Volumes, UpdateUserSettings(t, v)
    PROVE  AccountsInv'
<1>1. settings' \in [DOMAIN settings -> Volumes] /\ DOMAIN settings' = DOMAIN settings
  BY Types DEF AccountsInv, UpdateUserSettings
<1>2. /\ indexed' = indexed /\ users' = users /\ tips' = tips /\ tokens' = tokens
      /\ request' = request /\ acked' = acked /\ early' = early /\ Ids' = Ids
  BY DEF UpdateUserSettings, history, Ids
<1>3. TypeOK'
  BY <1>1, <1>2 DEF AccountsInv, TypeOK
<1>4. /\ CreationsOK' /\ TokensEarned' /\ KeyKept' /\ OwnData' /\ ReadersKnown' /\ GuestsComplete'
      /\ ChipsLedger' /\ NothingYet'
  BY <1>1, <1>2 DEF AccountsInv, CreationsOK, TokensEarned, KeyKept, OwnData, ReadersKnown, GuestsComplete,
     ChipsLedger, NothingYet
<1> QED
  BY <1>3, <1>4 DEF AccountsInv

----------------------------------------------------------------------------
(* The theorems.                                                           *)

\* No accounts are as they should be.
LEMMA AccountsInit ==
    ASSUME Init
    PROVE  AccountsInv
<1>1. users = <<>> /\ users \in Seq(UserRow) /\ Len(users) = 0 /\ Ids = {}
  BY EmptySeq DEF Init, Ids
<1>2. DOMAIN settings = {} /\ DOMAIN tips = {}
  BY DEF Init
<1>3. settings \in [DOMAIN settings -> Volumes] /\ tips \in [DOMAIN tips -> Int]
  BY <1>2 DEF Init
<1>4. request \in [Requests -> RequestRow] /\ \A r \in Requests : request[r].pc = "idle"
  BY IdleFields DEF Init
<1>5. TypeOK
  BY <1>1, <1>2, <1>3, <1>4, Types, AccountsAssumption DEF Init
<1> QED
  BY <1>1, <1>2, <1>4, <1>5 DEF Init, AccountsInv, CreationsOK, Creating, TokensEarned, KeyKept,
     OwnData, ReadersKnown, Reading, GuestsComplete, ChipsLedger, NothingYet

\* Every step keeps them so.
LEMMA AccountsKept ==
    ASSUME AccountsInv, [Next]_vars
    PROVE  AccountsInv'
<1>1. CASE Next
  BY <1>1, CreateAccountKeeps, InsertUserKeeps, InsertSettingsKeeps, InsertTipsKeeps,
     MainDataKeeps, ReadsKeep, LoginKeeps, UpdateSoloTipKeeps, UpdateUserSettingsKeeps DEF Next
<1>2. CASE UNCHANGED vars
  BY <1>2 DEF vars, history, AccountsInv, TypeOK, CreationsOK, TokensEarned, KeyKept, OwnData, ReadersKnown,
     GuestsComplete, ChipsLedger, NothingYet, Ids
<1> QED
  BY <1>1, <1>2

\* It always holds.
LEMMA AccountsAlways == Spec => []AccountsInv
<1>1. Init => AccountsInv
  BY AccountsInit
<1>2. AccountsInv /\ [Next]_vars => AccountsInv'
  BY AccountsKept
<1> QED
  BY <1>1, <1>2, PTL DEF Spec

\* The variables have their types, and of an account's rows the user's is there
\* before those that refer to it, whatever failed in between.
THEOREM TypesCorrect == Spec => []TypeOK
<1>1. AccountsInv => TypeOK
  BY DEF AccountsInv
<1> QED
  BY <1>1, AccountsAlways, PTL

\* However many creations, logins and updates overlap or fail, every token speaks
\* for an account of its client's own.
THEOREM TokensCorrect == Spec => []TokensEarned
<1>1. AccountsInv => TokensEarned
  BY DEF AccountsInv
<1> QED
  BY <1>1, AccountsAlways, PTL

\* Whoever holds a token of a guest has the guest's settings and chips: the token
\* is handed out after the last insert, and guests cannot log in.
THEOREM GuestsCorrect == Spec => []GuestsComplete
<1>1. AccountsInv => GuestsComplete
  BY DEF AccountsInv
<1> QED
  BY <1>1, AccountsAlways, PTL

\* If the database keeps names unique, main data are those of the token's account.
THEOREM MainDataCorrect == Spec => []OwnData
<1>1. AccountsInv => OwnData
  BY DEF AccountsInv
<1> QED
  BY <1>1, AccountsAlways, PTL

\* Only the read of the chips brings a request to its answer.
LEMMA ToReply ==
    ASSUME TypeOK, Next, NEW r \in Requests, request[r].pc = "main_tips",
           request'[r].pc = "main_reply"
    PROVE  MainTips(r)
<1>1. request \in [Requests -> RequestRow] /\ request[r] \in RequestRow
  BY Types
<1>2. ASSUME NEW s \in Requests, NEW q, Become(s, q)
      PROVE  s = r /\ q.pc = "main_reply"
  BY <1>1, <1>2, BecomeOne
<1>3. ASSUME NEW s \in Requests, NEW n \in Names, NEW p \in Passwords \union {NoPassword}
      PROVE  ~CreateAccount(s, n, p)
  <2>1. [Request("user") EXCEPT !.name = n, !.by = p].pc = "user"
    BY DEF Request
  <2> QED
    BY <1>2, <2>1 DEF CreateAccount
<1>4. ASSUME NEW s \in Requests
      PROVE  ~(InsertUser(s) \/ InsertSettings(s) \/ InsertTips(s) \/ MainSettings(s))
  BY <1>2 DEF InsertUser, InsertSettings, InsertTips, MainSettings
<1>5. ASSUME NEW s \in Requests PROVE ~(MainReply(s) \/ Fail(s))
  BY <1>2, IdleFields DEF MainReply, Fail
<1>6. ASSUME NEW s \in Requests, NEW t \in tokens PROVE ~MainData(s, t)
  <2>1. \A i : [Request("main_settings") EXCEPT !.id = i, !.token = t.id].pc = "main_settings"
    BY DEF Request
  <2> QED
    BY <1>2, <2>1 DEF MainData
<1>7. ASSUME NEW s \in Requests, MainTips(s) PROVE s = r
  BY <1>2, <1>7 DEF MainTips
<1> QED
  BY <1>3, <1>4, <1>5, <1>6, <1>7 DEF Next, Login, UpdateSoloTip, UpdateUserSettings

\* Whatever creations, updates and failures come between its reads, main data show
\* what the account began with and was acknowledged, unless too early.
THEOREM ShownCorrect == Spec => ChipsShown
<1>1. AccountsInv /\ [Next]_vars =>
          [ \A r \in Requests : request[r].pc = "main_tips" /\ request'[r].pc = "main_reply" =>
                \/ request[r].id \in early
                \/ request'[r].chips = InitialTips + acked[request[r].id] ]_vars
  <2> SUFFICES ASSUME AccountsInv, Next, NEW r \in Requests, request[r].pc = "main_tips",
                      request'[r].pc = "main_reply", request[r].id \notin early
               PROVE  request'[r].chips = InitialTips + acked[request[r].id]
    OBVIOUS
  <2> DEFINE i == request[r].id
             c == RowOr(tips, i, InitialTips)
  <2>1. MainTips(r) /\ request[r] \in RequestRow /\ request \in [Requests -> RequestRow]
    BY ToReply, Types DEF AccountsInv
  <2>2. request'[r].chips = c
    <3>1. Become(r, [request[r] EXCEPT !.pc = "main_reply", !.chips = c])
      BY <2>1 DEF MainTips
    <3>2. [request[r] EXCEPT !.pc = "main_reply", !.chips = c].chips = c
      BY <2>1 DEF RequestRow
    <3> QED
      BY <2>1, <3>1, <3>2, BecomeOne
  <2>3. i \in Ids /\ i \in 1..MaxAccounts
    <3>1. i \in Ids
      BY DEF AccountsInv, ReadersKnown, Reading
    <3> QED
      BY <3>1, Types, IdsPlaces, AccountsAssumption DEF AccountsInv, Ids
  <2>4. tips \in [DOMAIN tips -> Int] /\ InitialTips \in Int
    BY Types DEF AccountsInv, InitialTips
  <2>5. CASE i \in DOMAIN tips
    <3>1. c = tips[i]
      BY <2>4, <2>5, RowOrDefault
    <3>2. tips[i] = InitialTips + acked[i]
      BY <2>5 DEF AccountsInv, ChipsLedger
    <3> QED
      BY <2>2, <3>1, <3>2
  <2>6. CASE i \notin DOMAIN tips
    <3>1. c = InitialTips /\ acked[i] = 0
      BY <2>3, <2>4, <2>6, RowOrDefault DEF AccountsInv, NothingYet
    <3> QED
      BY <2>2, <3>1 DEF InitialTips
  <2> QED
    BY <2>5, <2>6
<1> QED
  BY <1>1, AccountsAlways, PTL DEF Spec, ChipsShown

\* No acknowledged difference is lost or applied twice, but for those that came
\* before the row was there; and no guest can send one that early.
THEOREM ChipsCorrect == Spec => []ChipsLedger
<1>1. AccountsInv => ChipsLedger
  BY DEF AccountsInv
<1> QED
  BY <1>1, AccountsAlways, PTL

----------------------------------------------------------------------------
(* What is there stays.                                                    *)

\* The settings that a creation is about to insert are not there yet.
SettingsToCome ==
    \A r \in Requests : request[r].pc = "settings" => request[r].id \notin DOMAIN settings

\* Only the insert of its user brings a creation to its settings.
LEMMA ToSettings ==
    ASSUME TypeOK, Next, NEW r \in Requests, request'[r].pc = "settings"
    PROVE  \/ request'[r] = request[r]
           \/ InsertUser(r) /\ request'[r].id = Len(users) + 1
<1>1. request \in [Requests -> RequestRow] /\ request[r] \in RequestRow
  BY Types
<1>2. ASSUME NEW s \in Requests, NEW q, Become(s, q), q.pc # "settings"
      PROVE  request'[r] = request[r]
  BY <1>1, <1>2, BecomeOne
<1>3. ASSUME NEW s \in Requests, NEW n \in Names, NEW p \in Passwords \union {NoPassword},
             CreateAccount(s, n, p)
      PROVE  request'[r] = request[r]
  <2> DEFINE q == [Request("user") EXCEPT !.name = n, !.by = p]
  <2>1. q.pc = "user"
    BY DEF Request
  <2>2. Become(s, q) \/ UNCHANGED request
    BY <1>3 DEF CreateAccount
  <2> QED
    BY <1>2, <2>1, <2>2
<1>4. ASSUME NEW s \in Requests, InsertUser(s)
      PROVE  request'[r] = request[r] \/ (s = r /\ request'[r].id = Len(users) + 1)
  <2> DEFINE q == [request[s] EXCEPT !.pc = "settings", !.id = Len(users) + 1]
  <2>1. Become(s, q) /\ request[s] \in RequestRow
    BY <1>1, <1>4 DEF InsertUser
  <2>2. q.id = Len(users) + 1
    BY <2>1 DEF RequestRow
  <2> HIDE DEF q
  <2>3. request'[s] = q /\ \A o \in Requests \ {s} : request'[o] = request[o]
    BY <1>1, <2>1, BecomeOne
  <2> QED
    BY <2>2, <2>3
<1>5. ASSUME NEW s \in Requests, InsertSettings(s) \/ MainSettings(s) \/ MainTips(s)
      PROVE  request'[r] = request[r]
  <2>1. request[s] \in RequestRow
    BY <1>1
  <2>2. \A v, c : /\ [request[s] EXCEPT !.pc = "tips"].pc = "tips"
                 /\ [request[s] EXCEPT !.pc = "main_tips", !.volume = v].pc = "main_tips"
                 /\ [request[s] EXCEPT !.pc = "main_reply", !.chips = c].pc = "main_reply"
    BY <2>1 DEF RequestRow
  <2> QED
    BY <1>2, <1>5, <2>2 DEF InsertSettings, MainSettings, MainTips
<1>6. ASSUME NEW s \in Requests, InsertTips(s) \/ MainReply(s) \/ Fail(s)
      PROVE  request'[r] = request[r]
  BY <1>2, <1>6, IdleFields DEF InsertTips, MainReply, Fail
<1>7. ASSUME NEW s \in Requests, NEW t \in tokens, MainData(s, t)
      PROVE  request'[r] = request[r]
  <2>1. PICK i : Become(s, [Request("main_settings") EXCEPT !.id = i, !.token = t.id])
    BY <1>7 DEF MainData
  <2>2. [Request("main_settings") EXCEPT !.id = i, !.token = t.id].pc = "main_settings"
    BY DEF Request
  <2> QED
    BY <1>2, <2>1, <2>2
<1> QED
  BY <1>3, <1>4, <1>5, <1>6, <1>7 DEF Next, Login, UpdateSoloTip, UpdateUserSettings

\* Which rows of settings and chips a step of Next makes or changes.
LEMMA RowsOfStep ==
    ASSUME AccountsInv, Next
    PROVE  /\ \/ settings' = settings
              \/ \E r \in Requests : InsertSettings(r) /\ settings' = WithRow(settings, request[r].id, FullVolume)
              \/ /\ request' = request /\ DOMAIN settings' = DOMAIN settings
                 /\ \E t \in tokens : \A i \in DOMAIN settings \ {t.id} : settings'[i] = settings[i]
           /\ \/ tips' = tips
              \/ \E r \in Requests : InsertTips(r) /\ tips' = WithRow(tips, request[r].id, InitialTips)
              \/ /\ request' = request /\ DOMAIN tips' = DOMAIN tips
                 /\ \E t \in tokens : \A i \in DOMAIN tips \ {t.id} : tips'[i] = tips[i]
<1>1. settings = [i \in DOMAIN settings |-> settings[i]] /\ tips = [i \in DOMAIN tips |-> tips[i]]
  BY Types DEF AccountsInv
<1>2. ASSUME NEW t \in tokens, NEW v \in Volumes, UpdateUserSettings(t, v)
      PROVE  /\ request' = request /\ tips' = tips /\ DOMAIN settings' = DOMAIN settings
             /\ \A i \in DOMAIN settings \ {t.id} : settings'[i] = settings[i]
  BY <1>1, <1>2 DEF UpdateUserSettings
<1>3. ASSUME NEW t \in tokens, NEW d \in Diffs, UpdateSoloTip(t, d)
      PROVE  /\ request' = request /\ settings' = settings /\ DOMAIN tips' = DOMAIN tips
             /\ \A i \in DOMAIN tips \ {t.id} : tips'[i] = tips[i]
  BY <1>1, <1>3 DEF UpdateSoloTip
<1>4. ASSUME NEW r \in Requests, InsertSettings(r)
      PROVE  tips' = tips /\ settings' = WithRow(settings, request[r].id, FullVolume)
  BY <1>4 DEF InsertSettings
<1>5. ASSUME NEW r \in Requests, InsertTips(r)
      PROVE  settings' = settings /\ tips' = WithRow(tips, request[r].id, InitialTips)
  BY <1>5 DEF InsertTips
<1>6. \/ settings' = settings /\ tips' = tips
      \/ \E r \in Requests : InsertSettings(r) \/ InsertTips(r)
      \/ \E t \in tokens : \/ \E d \in Diffs : UpdateSoloTip(t, d)
                           \/ \E v \in Volumes : UpdateUserSettings(t, v)
  BY DEF Next, CreateAccount, InsertUser, MainData, MainSettings, MainTips, MainReply, Fail, Login
<1> QED
  BY <1>2, <1>3, <1>4, <1>5, <1>6

\* A user's creation is the only one, and its id is new.
LEMMA SettingsToComeKept ==
    ASSUME AccountsInv, SettingsToCome, Next
    PROVE  SettingsToCome'
<1> SUFFICES ASSUME NEW r \in Requests, request'[r].pc = "settings"
             PROVE  request'[r].id \notin DOMAIN settings'
  BY DEF SettingsToCome
<1>1. /\ TypeOK /\ DOMAIN settings \subseteq Ids /\ Len(users) + 1 \notin Ids
      /\ request \in [Requests -> RequestRow]
  BY Types, IdsPlaces DEF AccountsInv
<1>2. CASE InsertUser(r) /\ request'[r].id = Len(users) + 1
  BY <1>1, <1>2 DEF InsertUser
<1>3. CASE request'[r] = request[r]
  <2>1. request[r].id \notin DOMAIN settings /\ Creating(request[r])
    BY <1>3 DEF SettingsToCome, Creating
  <2>2. ASSUME NEW s \in Requests, InsertSettings(s) PROVE request[s].id # request[r].id
    <3>1. request[s].pc = "settings" /\ Become(s, [request[s] EXCEPT !.pc = "tips"])
      BY <2>2 DEF InsertSettings
    <3>2. [request[s] EXCEPT !.pc = "tips"].pc = "tips"
      BY <1>1 DEF RequestRow
    <3>3. request'[s].pc = "tips"
      BY <1>1, <3>1, <3>2, BecomeOne
    <3>4. s # r /\ Creating(request[s])
      BY <3>1, <3>3 DEF Creating
    <3> QED
      BY <2>1, <3>4 DEF AccountsInv, CreationsOK
  <2>3. CASE DOMAIN settings' = DOMAIN settings
    BY <1>3, <2>1, <2>3
  <2>4. ASSUME NEW s \in Requests, InsertSettings(s),
               settings' = WithRow(settings, request[s].id, FullVolume)
        PROVE  request'[r].id \notin DOMAIN settings'
    <3>1. DOMAIN settings' = DOMAIN settings \union {request[s].id}
      BY <2>4 DEF WithRow
    <3> QED
      BY <1>3, <2>1, <2>2, <2>4, <3>1
  <2> QED
    BY <2>3, <2>4, RowsOfStep
<1> QED
  BY <1>1, <1>2, <1>3, ToSettings

\* Accounts that are there keep what they have but for requests of their own.
THEOREM ResetCorrect == Spec => NothingReset
<1>1. Init => SettingsToCome
  BY IdleFields DEF Init, SettingsToCome
<1>2. AccountsInv /\ SettingsToCome /\ [Next]_vars => SettingsToCome'
  <2>1. SettingsToCome /\ UNCHANGED vars => SettingsToCome'
    BY DEF vars, SettingsToCome
  <2> QED
    BY <2>1, SettingsToComeKept
<1>3. AccountsInv /\ SettingsToCome /\ [Next]_vars =>
          [ /\ \A i \in Ids : i \in Ids' /\ users'[i] = users[i]
            /\ \A i \in DOMAIN settings :
                   /\ i \in DOMAIN settings'
                   /\ settings'[i] # settings[i] => request' = request /\ \E t \in tokens : t.id = i
            /\ \A i \in DOMAIN tips :
                   /\ i \in DOMAIN tips'
                   /\ tips'[i] # tips[i] => request' = request /\ \E t \in tokens : t.id = i ]_vars
  <2> SUFFICES ASSUME AccountsInv, SettingsToCome, Next
               PROVE  /\ \A i \in Ids : i \in Ids' /\ users'[i] = users[i]
                      /\ \A i \in DOMAIN settings :
                             /\ i \in DOMAIN settings'
                             /\ settings'[i] # settings[i] =>
                                    request' = request /\ \E t \in tokens : t.id = i
                      /\ \A i \in DOMAIN tips :
                             /\ i \in DOMAIN tips'
                             /\ tips'[i] # tips[i] =>
                                    request' = request /\ \E t \in tokens : t.id = i
    OBVIOUS
  <2>1. \A i \in Ids : i \in Ids' /\ users'[i] = users[i]
    <3>1. users \in Seq(UserRow) /\ Len(users) \in Nat
      BY Types, IdsPlaces DEF AccountsInv
    <3>2. ASSUME NEW r \in Requests, InsertUser(r)
          PROVE  \A i \in Ids : i \in Ids' /\ users'[i] = users[i]
      <4>1. PICK row \in UserRow : users' = Append(users, row)
        BY <3>2, Types DEF InsertUser, AccountsInv, CreationsOK, UserRow, RequestRow
      <4>2. Len(users') = Len(users) + 1 /\ \A i \in 1..Len(users) : users'[i] = users[i]
        BY <3>1, <4>1, AppendProperties
      <4> QED
        BY <3>1, <4>2 DEF Ids
    <3>3. users' = users \/ \E r \in Requests : InsertUser(r)
      BY DEF Next, CreateAccount, InsertSettings, InsertTips, MainData, MainSettings, MainTips,
         MainReply, Fail, Login, UpdateSoloTip, UpdateUserSettings
    <3> QED
      BY <3>2, <3>3 DEF Ids
  <2>2. \A r \in Requests : /\ InsertSettings(r) => request[r].id \notin DOMAIN settings
                            /\ InsertTips(r) => request[r].id \notin DOMAIN tips
    BY DEF InsertSettings, InsertTips, SettingsToCome, AccountsInv, CreationsOK, Creating
  <2>3. ASSUME NEW i \in DOMAIN settings
        PROVE  /\ i \in DOMAIN settings'
               /\ settings'[i] # settings[i] => request' = request /\ \E t \in tokens : t.id = i
    <3>1. ASSUME NEW r \in Requests, InsertSettings(r),
                 settings' = WithRow(settings, request[r].id, FullVolume)
          PROVE  i \in DOMAIN settings' /\ settings'[i] = settings[i]
      <4>1. i # request[r].id
        BY <2>2, <3>1
      <4>2. i \in DOMAIN WithRow(settings, request[r].id, FullVolume)
        BY DEF WithRow
      <4>3. WithRow(settings, request[r].id, FullVolume)[i] = settings[i]
        BY <4>1 DEF WithRow
      <4> QED
        BY <3>1, <4>2, <4>3
    <3> QED
      BY <3>1, RowsOfStep
  <2>4. ASSUME NEW i \in DOMAIN tips
        PROVE  /\ i \in DOMAIN tips'
               /\ tips'[i] # tips[i] => request' = request /\ \E t \in tokens : t.id = i
    <3>1. ASSUME NEW r \in Requests, InsertTips(r),
                 tips' = WithRow(tips, request[r].id, InitialTips)
          PROVE  i \in DOMAIN tips' /\ tips'[i] = tips[i]
      <4>1. i # request[r].id
        BY <2>2, <3>1
      <4>2. i \in DOMAIN WithRow(tips, request[r].id, InitialTips)
        BY DEF WithRow
      <4>3. WithRow(tips, request[r].id, InitialTips)[i] = tips[i]
        BY <4>1 DEF WithRow
      <4> QED
        BY <3>1, <4>2, <4>3
    <3> QED
      BY <3>1, RowsOfStep
  <2> QED
    BY <2>1, <2>3, <2>4
<1> QED
  BY <1>1, <1>2, <1>3, AccountsAlways, PTL DEF Spec, NothingReset
=============================================================================
