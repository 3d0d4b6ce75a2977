----------------------------- MODULE MCAccounts -----------------------------
(* Accounts for TLC.                                                       *)
EXTENDS Accounts, TLC

\* A round lost and a round won.
OneRound == {-5000, 5000}

\* Names, passwords and requests are interchangeable.
Symmetry == Permutations(Names) \union Permutations(Passwords) \union Permutations(Requests)
=============================================================================
