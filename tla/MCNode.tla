------------------------------- MODULE MCNode -------------------------------
(***************************************************************************)
(* Instances of Node for TLC: two nodes; on the first an agent that moves  *)
(* there and back and one that stays, on the second none.                  *)
(***************************************************************************)
EXTENDS Node, TLC

CONSTANTS n1, n2, mover, stayer, d1

MCLoaded == n1 :> <<mover, stayer>> @@ n2 :> <<>>
MCFirstShards == [a \in Agents |-> [d \in Designations |-> IF a = mover THEN "ser" ELSE "none"]]
MCMoves == mover :> 2 @@ stayer :> 0
MCEdits == mover :> 1 @@ stayer :> 0
MCControls == n1 :> 1 @@ n2 :> 0

=============================================================================
