---------------------------- MODULE MCLocalPylon ----------------------------
(***************************************************************************)
(* Instances of LocalPylon for TLC: two inboxes answer to the same name,   *)
(* like an agent that has moved away and the one that comes back.          *)
(***************************************************************************)
EXTENDS LocalPylon, TLC

CONSTANTS s1, s2, agentA, inbox1, inbox2

MCNameOf == inbox1 :> agentA @@ inbox2 :> agentA
MCQuota == s1 :> 2 @@ s2 :> 1

=============================================================================
