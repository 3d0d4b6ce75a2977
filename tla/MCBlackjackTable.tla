-------------------------- MODULE MCBlackjackTable --------------------------
(* Instances of BlackjackTable for TLC.                                    *)
EXTENDS BlackjackTable, TLC

\* Amounts a player can afford, one beyond the chips, one negative.
MCBets == {-100, 0, 600, 1000, 1200}

\* No action names a user or a connection; the properties are all safety.
Symmetry == Permutations(Users) \union Permutations(Conns)

\* The behaviours in which no two writes meet on one connection.
CalmSpec == Init /\ [][Next /\ \A k \in Conns : handler'[k].pc # "dead"]_vars
=============================================================================
