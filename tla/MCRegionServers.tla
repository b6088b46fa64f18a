-------------------------- MODULE MCRegionServers --------------------------
(***************************************************************************)
(* Instances of RegionServers for TLC: agent mover starts on a node of     *)
(* region s1 and moves, agent peer stays where it is.                      *)
(***************************************************************************)
EXTENDS RegionServers, TLC

CONSTANTS s1, s2, s3, n1, n2, n3, mover, peer

MCRegion3 == n1 :> s1 @@ n2 :> s2 @@ n3 :> s3   \* three regions
MCRegion2 == n1 :> s1 @@ n2 :> s2 @@ n3 :> s2   \* two nodes in region s2

MCOriginFar == mover :> n1 @@ peer :> n2    \* peer in another region
MCOriginNear == mover :> n1 @@ peer :> n1   \* peer in the home region of mover

=============================================================================
