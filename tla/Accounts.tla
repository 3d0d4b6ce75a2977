------------------------------ MODULE Accounts ------------------------------
(***************************************************************************)
(* The accounts of the players: their creation by one lookup and three     *)
(* inserts without a transaction, the tokens creation and login hand out,  *)
(* and the endpoints that use a token to read and change what the account  *)
(* owns.                                                                   *)
(*                                                                         *)
(* One action is one SQL statement of a request and the Go code up to the  *)
(* next one.  A request of a single statement is one action and needs no   *)
(* slot in request.                                                        *)
(***************************************************************************)
EXTENDS Integers, Sequences

CONSTANTS
    Names,        \* display names
    Passwords,    \* what a client may type as its password
    NoPassword,   \* the empty hash of an account created with auto_flg
    Volumes,      \* the sound settings
    FullVolume,   \* the settings an account begins with
    DefaultVolume,  \* the settings shown of an account that has none
    Diffs,        \* the values of chip_diff
    Requests,     \* slots for requests of several statements
    MaxAccounts,  \* bound on the rows of users
    MaxDrift      \* bound on the sum of an account's chip_diffs, either way

ASSUME AccountsAssumption ==
    /\ NoPassword \notin Passwords
    /\ FullVolume \in Volumes /\ DefaultVolume \in Volumes
    /\ Diffs \subseteq Int
    /\ MaxAccounts \in Nat /\ MaxDrift \in Nat

VARIABLES
    indexed,    \* whether users.name has a UNIQUE key; the schema is not in the code
    users,      \* the rows of users, in the order of their ids 1, 2, ...
    settings,   \* the rows of settings, by user_id
    tips,       \* solo_tip_count of the rows of tips, by user_id
    tokens,     \* the tokens handed out, with the password each was given for
    request,    \* the requests in flight
    acked,      \* history: the chip_diffs answered OK, added up by user_id
    early       \* history: the accounts whose chips were updated before they had any

vars == <<indexed, users, settings, tips, tokens, request, acked, early>>
history == <<acked, early>>

----------------------------------------------------------------------------
InitialTips == 10000

Ids == 1..Len(users)

Named(n) == {i \in Ids : users[i].name = n}

\* A table with the row x for user i.
WithRow(table, i, x) == [j \in DOMAIN table \union {i} |-> IF j = i THEN x ELSE table[j]]

\* The row of user i, or x if there is none.
RowOr(table, i, x) == IF i \in DOMAIN table THEN table[i] ELSE x

Token(i, n, p) == [id |-> i, name |-> n, by |-> p]

\* id: the account a creation has made or main data were asked for; by: the
\* password a creation asks for; token: the id in the token of a main data request;
\* volume, chips: what it has read.
Request(pc) ==
    [pc |-> pc, name |-> "", by |-> NoPassword, id |-> 0, token |-> 0,
     volume |-> DefaultVolume, chips |-> 0]

Idle == Request("idle")

Become(r, q) == request' = [request EXCEPT ![r] = q]

----------------------------------------------------------------------------
(* CreateAccountHandler.                                                   *)

\* A name in use is answered NG; a guest (auto_flg) asks for no password.
CreateAccount(r, n, p) ==
    /\ request[r] = Idle
    /\ IF Named(n) = {} THEN Become(r, [Request("user") EXCEPT !.name = n, !.by = p])
                        ELSE UNCHANGED request
    /\ UNCHANGED <<indexed, users, settings, tips, tokens, history>>

\* An insert that goes on to the chips and leaves the settings out.
InsertUserSkipsSettings(r) ==
    /\ request[r].pc = "user"
    /\ indexed => Named(request[r].name) = {}
    /\ Len(users) < MaxAccounts
    /\ users' = Append(users, [name |-> request[r].name, password |-> request[r].by])
    /\ Become(r, [request[r] EXCEPT !.pc = "tips", !.id = Len(users) + 1])
    /\ UNCHANGED <<indexed, settings, tips, tokens, history>>

\* An insert that takes a name in use for its own account (INSERT IGNORE).
InsertUserOrExisting(r) ==
    /\ request[r].pc = "user"
    /\ \/ /\ Named(request[r].name) = {}
          /\ Len(users) < MaxAccounts
          /\ users' = Append(users, [name |-> request[r].name, password |-> request[r].by])
          /\ Become(r, [request[r] EXCEPT !.pc = "settings", !.id = Len(users) + 1])
       \/ \E i \in Named(request[r].name) :
              /\ Become(r, [request[r] EXCEPT !.pc = "settings", !.id = i])
              /\ UNCHANGED users
    /\ UNCHANGED <<indexed, settings, tips, tokens, history>>

\* With the key, a name taken since the lookup makes the insert fail: see Fail.
InsertUser(r) ==
    /\ request[r].pc = "user"
    /\ indexed => Named(request[r].name) = {}
    /\ Len(users) < MaxAccounts
    /\ users' = Append(users, [name |-> request[r].name, password |-> request[r].by])
    /\ Become(r, [request[r] EXCEPT !.pc = "settings", !.id = Len(users) + 1])
    /\ UNCHANGED <<indexed, settings, tips, tokens, history>>

\* An insert of the settings that is answered with the token at once.
InsertSettingsAndReply(r) ==
    /\ request[r].pc = "settings"
    /\ settings' = WithRow(settings, request[r].id, FullVolume)
    /\ tokens' = tokens \union {Token(request[r].id, request[r].name, request[r].by)}
    /\ Become(r, Idle)
    /\ UNCHANGED <<indexed, users, tips, history>>

InsertSettings(r) ==
    /\ request[r].pc = "settings"
    /\ settings' = WithRow(settings, request[r].id, FullVolume)
    /\ Become(r, [request[r] EXCEPT !.pc = "tips"])
    /\ UNCHANGED <<indexed, users, tips, tokens, history>>

\* The last insert; the answer is OK and the token.
InsertTips(r) ==
    /\ request[r].pc = "tips"
    /\ tips' = WithRow(tips, request[r].id, InitialTips)
    /\ tokens' = tokens \union {Token(request[r].id, request[r].name, request[r].by)}
    /\ Become(r, Idle)
    /\ UNCHANGED <<indexed, users, settings, history>>

----------------------------------------------------------------------------
(* The other endpoints.                                                    *)

\* LoginHandler: of several rows of the name the query may return any.
Login(n, p) ==
    \E i \in Named(n) :
        /\ users[i].password # NoPassword
        /\ users[i].password = p
        /\ tokens' = tokens \union {Token(i, n, p)}
        /\ UNCHANGED <<indexed, users, settings, tips, request, history>>

\* Main data of whichever account comes first.
MainDataOfAnyone(r, t) ==
    /\ request[r] = Idle
    /\ \E i \in Ids : Become(r, [Request("main_settings") EXCEPT !.id = i, !.token = t.id])
    /\ UNCHANGED <<indexed, users, settings, tips, tokens, history>>

\* GetMainDataHandler goes by the name in the token, not by its id.
MainData(r, t) ==
    /\ request[r] = Idle
    /\ \E i \in Named(t.name) :
           Become(r, [Request("main_settings") EXCEPT !.id = i, !.token = t.id])
    /\ UNCHANGED <<indexed, users, settings, tips, tokens, history>>

\* It reads the settings and then the chips, with defaults for missing rows; the
\* creation of the account may be between its inserts.
MainSettings(r) ==
    /\ request[r].pc = "main_settings"
    /\ Become(r, [request[r] EXCEPT
           !.pc = "main_tips", !.volume = RowOr(settings, request[r].id, DefaultVolume)])
    /\ UNCHANGED <<indexed, users, settings, tips, tokens, history>>

\* A read that takes a missing row for no chips.
MainTipsWithoutDefault(r) ==
    /\ request[r].pc = "main_tips"
    /\ Become(r, [request[r] EXCEPT
           !.pc = "main_reply", !.chips = RowOr(tips, request[r].id, 0)])
    /\ UNCHANGED <<indexed, users, settings, tips, tokens, history>>

MainTips(r) ==
    /\ request[r].pc = "main_tips"
    /\ Become(r, [request[r] EXCEPT
           !.pc = "main_reply", !.chips = RowOr(tips, request[r].id, InitialTips)])
    /\ UNCHANGED <<indexed, users, settings, tips, tokens, history>>

\* The answer: OK, the settings and the chips.
MainReply(r) ==
    /\ request[r].pc = "main_reply"
    /\ Become(r, Idle)
    /\ UNCHANGED <<indexed, users, settings, tips, tokens, history>>

\* An update that sets the chips instead of adding to them.
UpdateSoloTipAbsolute(t, d) ==
    /\ acked[t.id] + d \in -MaxDrift..MaxDrift
    /\ tips' = IF t.id \in DOMAIN tips THEN [tips EXCEPT ![t.id] = InitialTips + d] ELSE tips
    /\ acked' = [acked EXCEPT ![t.id] = @ + d]
    /\ early' = IF t.id \in DOMAIN tips THEN early ELSE early \union {t.id}
    /\ UNCHANGED <<indexed, users, settings, tokens, request>>

\* One UPDATE, answered OK whether or not there is a row.
UpdateSoloTip(t, d) ==
    /\ acked[t.id] + d \in -MaxDrift..MaxDrift
    /\ tips' = IF t.id \in DOMAIN tips THEN [tips EXCEPT ![t.id] = @ + d] ELSE tips
    /\ acked' = [acked EXCEPT ![t.id] = @ + d]
    /\ early' = IF t.id \in DOMAIN tips THEN early ELSE early \union {t.id}
    /\ UNCHANGED <<indexed, users, settings, tokens, request>>

UpdateUserSettings(t, v) ==
    /\ t.id \in DOMAIN settings
    /\ settings' = [settings EXCEPT ![t.id] = v]
    /\ UNCHANGED <<indexed, users, tips, tokens, request, history>>

\* A statement fails: the request ends, and what it has inserted stays.
Fail(r) ==
    /\ request[r] # Idle
    /\ Become(r, Idle)
    /\ UNCHANGED <<indexed, users, settings, tips, tokens, history>>

----------------------------------------------------------------------------
Init ==
    /\ indexed \in BOOLEAN
    /\ users = <<>>
    /\ settings = [i \in {} |-> FullVolume]
    /\ tips = [i \in {} |-> InitialTips]
    /\ tokens = {}
    /\ request = [r \in Requests |-> Idle]
    /\ acked = [i \in 1..MaxAccounts |-> 0]
    /\ early = {}

Next ==
    \/ \E r \in Requests :
           \/ \E n \in Names, p \in Passwords \union {NoPassword} : CreateAccount(r, n, p)
           \/ InsertUser(r) \/ InsertSettings(r) \/ InsertTips(r)
           \/ \E t \in tokens : MainData(r, t)
           \/ MainSettings(r) \/ MainTips(r) \/ MainReply(r) \/ Fail(r)
    \/ \E n \in Names, p \in Passwords : Login(n, p)
    \/ \E t \in tokens :
           \/ \E d \in Diffs : UpdateSoloTip(t, d)
           \/ \E v \in Volumes : UpdateUserSettings(t, v)

Spec == Init /\ [][Next]_vars

----------------------------------------------------------------------------
(* Correctness.                                                            *)

\* The variables have their types, and rows appear in the order of the inserts:
\* chips only with settings, settings only of an account (create_account.go:92-127).
TypeOK ==
    /\ indexed \in BOOLEAN
    /\ users \in Seq([name : Names, password : Passwords \union {NoPassword}])
    /\ Len(users) <= MaxAccounts
    /\ settings \in [DOMAIN settings -> Volumes] /\ DOMAIN settings \subseteq Ids
    /\ tips \in [DOMAIN tips -> Int] /\ DOMAIN tips \subseteq DOMAIN settings
    /\ tokens \subseteq [id : Ids, name : Names, by : Passwords \union {NoPassword}]
    /\ request \in [Requests ->
           [pc : {"idle", "user", "settings", "tips",
                  "main_settings", "main_tips", "main_reply"},
            name : Names \union {""}, by : Passwords \union {NoPassword},
            id : Ids \union {0}, token : Ids \union {0}, volume : Volumes, chips : Int]]
    /\ acked \in [1..MaxAccounts -> Int]
    /\ early \subseteq Ids

\* A token speaks for an account that has its name and that was created with, or
\* logged in to by, the password it was asked for with, even if two creations race
\* for one name; two guests of one name have no password to tell them apart
\* (create_account.go:63-108, login.go:58-92).
TokensEarned ==
    \A t \in tokens : users[t.id].name = t.name /\ users[t.id].password = t.by

\* With the UNIQUE key, main data are those of the token's account although they
\* are looked up by name (maindata.go:37-44); without it they need not be.
OwnData ==
    indexed => \A r \in Requests :
        request[r].pc \in {"main_settings", "main_tips", "main_reply"} =>
            request[r].id = request[r].token

\* A guest cannot log in, so whoever holds a token of a guest was answered OK
\* and has its settings and chips (create_account.go:110-147, login.go:70-74).
GuestsComplete ==
    \A t \in tokens : t.by = NoPassword => t.id \in DOMAIN settings \intersect DOMAIN tips

\* An account owns what it began with and every difference its clients were
\* told was applied, unless one was acknowledged before the row was there; and
\* that does not happen to guests (updatesolotip.go:36-50).  Of an account that was
\* acknowledged one too early this says nothing: what it was told is lost.
ChipsLedger ==
    /\ \A i \in DOMAIN tips \ early : tips[i] = InitialTips + acked[i]
    /\ \A i \in early : users[i].password # NoPassword

\* Main data show the chips that an account began with and was acknowledged since,
\* whether or not its creation has got to the row, for the default is what the
\* creation inserts; except for an account acknowledged too early (maindata.go:66-78,
\* create_account.go:120-123, updatesolotip.go:36-50).
ChipsShown ==
    [][ \A r \in Requests : request[r].pc = "main_tips" /\ request'[r].pc = "main_reply" =>
            \/ request[r].id \in early
            \/ request'[r].chips = InitialTips + acked[request[r].id] ]_vars

\* No creation, whatever it races with or where it stops, touches an account that
\* is there: a row of users stays as it was inserted, and settings and chips that
\* are there do not change in a step of a creation, nor before a token of their
\* account has been handed out (create_account.go:77-127, updatesolotip.go:36-50,
\* user_setting.go:46-62).
NothingReset ==
    [][ /\ \A i \in Ids : i \in Ids' /\ users'[i] = users[i]
        /\ \A i \in DOMAIN settings :
               /\ i \in DOMAIN settings'
               /\ settings'[i] # settings[i] => request' = request /\ \E t \in tokens : t.id = i
        /\ \A i \in DOMAIN tips :
               /\ i \in DOMAIN tips'
               /\ tips'[i] # tips[i] => request' = request /\ \E t \in tokens : t.id = i ]_vars
=============================================================================
