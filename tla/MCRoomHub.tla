----------------------------- MODULE MCRoomHub -----------------------------
(* RoomHub for TLC.                                                        *)
EXTENDS RoomHub, TLC

\* Users and connections are interchangeable.
Symmetry == Permutations(Users) \union Permutations(Conns)
=============================================================================
