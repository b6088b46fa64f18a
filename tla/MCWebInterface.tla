--------------------------- MODULE MCWebInterface ---------------------------
(***************************************************************************)
(* Instances of WebInterface for TLC: lines of two panels and five plain   *)
(* entities, so that a removal goes through three lines.                   *)
(***************************************************************************)
EXTENDS WebInterface

CONSTANTS a, ab, c, d, f, g, p1, p2

MCLonger == [n \in Entities |-> IF n = a THEN {a, ab} \cap Entities ELSE {n}]

=============================================================================
