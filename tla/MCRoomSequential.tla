-------------------------- MODULE MCRoomSequential --------------------------
(* An instance of RoomSequential for TLC, with safety properties only.     *)
EXTENDS RoomSequential, TLC

\* The values of max_players: below the boundary of the default, on it, above it.
Asked == {-1, 0, 1}

\* No action and no property names a user, a room or a slot, so each may be renamed.
Symmetry ==
    Permutations(Users) \union Permutations(RoomCodes) \union Permutations(Requests)
=============================================================================
