-------------------------- MODULE MCWebSocketPylon --------------------------
(***************************************************************************)
(* Instances of WebSocketPylon for TLC: two nodes, an agent that sends two *)
(* waves and one that answers with none.                                   *)
(***************************************************************************)
EXTENDS WebSocketPylon, TLC

CONSTANTS p1, p2, sender, mover

MCHome == sender :> p1 @@ mover :> p2
MCQuota == sender :> 2 @@ mover :> 0
MCMoves == sender :> 0 @@ mover :> 2

=============================================================================
