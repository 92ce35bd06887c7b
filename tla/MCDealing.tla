----------------------------- MODULE MCDealing -----------------------------
(* The instances of Dealing that TLC checks.                               *)
EXTENDS Dealing

North == 0
West  == 3

\* Three cards for one player, and a card asked for twice.
MCRequests == {<<North, 1>>, <<North, 8>>, <<North, 5>>, <<West, 5>>}
=============================================================================
