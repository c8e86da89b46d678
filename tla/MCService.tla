------------------------------ MODULE MCService ------------------------------
(* Small instances of Service for TLC. *)
EXTENDS Service

CONSTANTS t1, t2, s1, m1, m2

\* One save with two selectable slots; the second Pokemon cannot be imported
\* into the second slot, so import_blocked is reached.
MCEligible == {<<s1, 1>>, <<s1, 2>>}
MCImportable == (MCEligible \X Mons) \ {<<<<s1, 2>>, m2>>}
=============================================================================
