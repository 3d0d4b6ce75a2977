---------------------------- MODULE RoomPromise ----------------------------
(***************************************************************************)
(* What the room endpoints promise their clients when requests do not      *)
(* overlap: each answered request is one atomic change of one room, whose  *)
(* players stand in line in the order they came in, the host first.        *)
(***************************************************************************)
EXTENDS Naturals, Sequences

CONSTANTS
    Users, RoomCodes, NoUser,
    Caps   \* the limits a room may be opened with, all positive

VARIABLES
    phase,     \* "absent", "waiting", "playing" or "closed"
    line,      \* the players of the room, longest-staying first
    host,      \* who may start the game
    cap,       \* the most players the room takes
    launches   \* how many games the room has started

promiseVars == <<phase, line, host, cap, launches>>

Present(c) == {line[c][i] : i \in 1..Len(line[c])}

\* The line when player u steps out of it.
StepOut(s, u) ==
    LET i == CHOOSE j \in 1..Len(s) : s[j] = u
    IN  [j \in 1..(Len(s) - 1) |-> IF j < i THEN s[j] ELSE s[j + 1]]

Open(u, c, n) ==
    /\ phase[c] = "absent"
    /\ phase' = [phase EXCEPT ![c] = "waiting"]
    /\ line' = [line EXCEPT ![c] = <<u>>]
    /\ host' = [host EXCEPT ![c] = u]
    /\ cap' = [cap EXCEPT ![c] = n]
    /\ UNCHANGED launches

Enter(u, c) ==
    /\ phase[c] = "waiting"
    /\ u \notin Present(c)
    /\ Len(line[c]) < cap[c]
    /\ line' = [line EXCEPT ![c] = Append(@, u)]
    /\ UNCHANGED <<phase, host, cap, launches>>

\* The last player to go closes the room.
ExitLast(u, c) ==
    /\ line[c] = <<u>>
    /\ line' = [line EXCEPT ![c] = <<>>]
    /\ phase' = [phase EXCEPT ![c] = "closed"]
    /\ UNCHANGED <<host, cap, launches>>

\* A host who goes hands over to the player who has been there longest.
Exit(u, c) ==
    /\ u \in Present(c)
    /\ Len(line[c]) > 1
    /\ line' = [line EXCEPT ![c] = StepOut(@, u)]
    /\ host' = [host EXCEPT ![c] = IF u = @ THEN line'[c][1] ELSE @]
    /\ UNCHANGED <<phase, cap, launches>>

Launch(c) ==
    /\ phase[c] = "waiting"
    /\ host[c] \in Present(c)
    /\ phase' = [phase EXCEPT ![c] = "playing"]
    /\ launches' = [launches EXCEPT ![c] = @ + 1]
    /\ UNCHANGED <<line, host, cap>>

Init ==
    /\ phase = [c \in RoomCodes |-> "absent"]
    /\ line = [c \in RoomCodes |-> <<>>]
    /\ host = [c \in RoomCodes |-> NoUser]
    /\ cap = [c \in RoomCodes |-> 0]
    /\ launches = [c \in RoomCodes |-> 0]

Next == \E c \in RoomCodes :
    \/ \E u \in Users, n \in Caps : Open(u, c, n)
    \/ \E u \in Users : Enter(u, c) \/ ExitLast(u, c) \/ Exit(u, c)
    \/ Launch(c)

Spec == Init /\ [][Next]_promiseVars

----------------------------------------------------------------------------
\* The variables have their types.
TypeOK ==
    /\ phase \in [RoomCodes -> {"absent", "waiting", "playing", "closed"}]
    /\ line \in [RoomCodes -> Seq(Users)]
    /\ host \in [RoomCodes -> Users \union {NoUser}]
    /\ cap \in [RoomCodes -> Nat]
    /\ launches \in [RoomCodes -> Nat]

\* An open room has players and its host is the one who has been there longest.
HostIsFirst ==
    \A c \in RoomCodes : phase[c] \in {"waiting", "playing"} =>
        line[c] # <<>> /\ host[c] = line[c][1]

\* A room nobody opened, or that was closed, is empty.
NobodyInside ==
    \A c \in RoomCodes : phase[c] \in {"absent", "closed"} => line[c] = <<>>

\* No room ever holds more players than it takes.
WithinCap == \A c \in RoomCodes : Len(line[c]) <= cap[c]

\* A room in play was started exactly once, and no room is started twice.
LaunchedOnce ==
    \A c \in RoomCodes :
        /\ launches[c] <= 1
        /\ phase[c] \in {"absent", "waiting"} => launches[c] = 0
        /\ phase[c] = "playing" => launches[c] = 1
=============================================================================
