----------------------------- MODULE MCSwitchPair -----------------------------
(* An instance of SwitchPair: one player can change the selection, to a       *)
(* Pokemon that evolves by trade or from it.                                  *)
EXTENDS SwitchPair

CONSTANTS a, b, a1, a2, b1

OneChoice == [s \in Sides |-> IF s = a THEN {a1, a2} ELSE {b1}]
\* Each player selects twice; one can change the selection once.
OneChange == [s \in Sides |-> IF s = a THEN 3 ELSE 2]
=============================================================================
