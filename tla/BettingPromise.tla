--------------------------- MODULE BettingPromise ---------------------------
(***************************************************************************)
(* What a blackjack table promises its players, whatever their connections *)
(* do: everybody sits down with the same purse, one of them is the banker, *)
(* and a stake is always paid out of that purse and nothing else.          *)
(***************************************************************************)
EXTENDS Integers

CONSTANTS
    Users, NoUser,
    BuyIn   \* what every player sits down with

VARIABLES
    seats,     \* the players at the table
    banker,    \* the player who does not bet
    stake,     \* what each player has bet
    purse,     \* what each player has left
    settled    \* the players who have confirmed their stake

promiseVars == <<seats, banker, stake, purse, settled>>

\* Players sit down; the first time, one of them becomes the banker for good.
SitDown(players) ==
    /\ seats' = seats \union players
    /\ \/ banker # NoUser /\ UNCHANGED <<banker, settled>>
       \/ banker = NoUser /\ banker' \in seats' /\ settled' = settled \union {banker'}
    /\ UNCHANGED <<stake, purse>>

\* A player at the table stakes what the buy-in allows, in place of the stake
\* before, and the purse is what is left of the buy-in.
Stake(u) ==
    /\ u \in seats
    /\ u # banker
    /\ stake'[u] \in 0..BuyIn
    /\ stake' = [stake EXCEPT ![u] = stake'[u]]
    /\ purse' = [purse EXCEPT ![u] = BuyIn - stake'[u]]
    /\ settled' \in {settled \union {u}, settled \ {u}}
    /\ UNCHANGED <<seats, banker>>

NewTable ==
    /\ seats = {}
    /\ banker = NoUser
    /\ stake = [u \in Users |-> 0]
    /\ purse = [u \in Users |-> BuyIn]
    /\ settled = {}

\* The table is lost and laid anew.
Clear == NewTable'

Init == NewTable

Next ==
    \/ \E players \in (SUBSET Users) \ {{}} : SitDown(players)
    \/ \E u \in Users : Stake(u)
    \/ Clear

Spec == Init /\ [][Next]_promiseVars
=============================================================================
