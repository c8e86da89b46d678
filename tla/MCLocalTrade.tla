---------------------------- MODULE MCLocalTrade ----------------------------
(* Small instances of LocalTrade for TLC. *)
EXTENDS LocalTrade, TLC

CONSTANTS t1, t2, v1, v2, m1, m2

\* Chain: results can be traded on, so a second trade starts from the first's.
MCChainEligible == Saves \X {1}
MCChainImportable == MCChainEligible \X Mons

\* Faults: a save without a tradeable Pokemon is refused by prepare(), and one
\* of the two Pokemon cannot be imported.
MCFaultsEligible == {<<v1, 1>>}
MCFaultsImportable == {<<<<v1, 1>>, m1>>}

\* Live: a crash of the bridge or a call without an answer, not both; a call whose
\* answer was lost counts before the application gives it up.
Unanswered == giveUps + (IF wait # None /\ ~\E r \in net : Awaited(r) THEN 1 ELSE 0)

MCLiveSpec == Init /\ [][Next /\ crashes' + Unanswered' <= 1]_vars /\ Fairness
=============================================================================
