------------------------------ MODULE MCSaveSlots ------------------------------
(* An instance of SaveSlots: two records of a species whose first personality *)
(* is remembered, and one that needs the National Pokedex.                    *)
EXTENDS SaveSlots, TLC

CONSTANTS u1, u2, f1, unown, foreign

SpeciesOf == (u1 :> unown) @@ (u2 :> unown) @@ (f1 :> foreign)

\* The box across two sections is filled and emptied, the others are filled.
SomePlays == {<<1, u1>>, <<1, None>>, <<0, u2>>, <<2, f1>>}
=============================================================================
