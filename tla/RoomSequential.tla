--------------------------- MODULE RoomSequential ---------------------------
(***************************************************************************)
(* RoomService when the requests to one room do not overlap, while those   *)
(* to different rooms do: the handlers implement RoomPromise.  The rooms   *)
(* table is phase, host and cap, the rows of room_users are the line,      *)
(* games counts the launches.                                              *)
(***************************************************************************)
EXTENDS RoomService

\* No room has two requests in flight.
Apart ==
    \A r, s \in Requests :
        request[r].pc # "idle" /\ request[s].pc # "idle" /\ request[r].code = request[s].code
            => r = s

\* The behaviours in which the clients of a room wait for each other's answers.
\* The server does not make them wait, and nothing else of it is changed.
SerialSpec == Init /\ [][Next /\ Apart']_vars

Promise == INSTANCE RoomPromise WITH
    Caps <- {Capacity(n) : n \in MaxPlayersAsked},
    phase <- [c \in RoomCodes |-> rooms[c].status],
    line <- room_users,
    host <- [c \in RoomCodes |-> rooms[c].owner_id],
    cap <- [c \in RoomCodes |-> rooms[c].max_players],
    launches <- games

\* Every statement of a handler is one change the promise allows, or none.
ImplementsPromise == Promise!Spec

\* What the promise guarantees of a room, read off the tables: an open room
\* has players and the longest-staying one owns it, a closed one is empty, no
\* room is over its limit, none is started twice.
SequentialSafety ==
    Promise!HostIsFirst /\ Promise!NobodyInside /\ Promise!WithinCap /\ Promise!LaunchedOnce
=============================================================================
