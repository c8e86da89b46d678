----------------------------- MODULE MCPeerRelay -----------------------------
(* A room of one 3DS bridge, with two bridges that claim the other role.    *)
EXTENDS PeerRelay

CONSTANTS a, b, c

MCRole == [x \in Bridges |-> IF x = a THEN "first" ELSE "second"]

\* A late request, a crash or a relay restart, with a third identity that exchanges
\* once, which is enough to be answered and to pin; or a write that fails, and a crash.
Bounded ==
    /\ giveUps + crashes + expiries <= 1
    /\ sequence[c] <= 1
    /\ failures = 1 => giveUps + expiries + sequence[c] = 0
=============================================================================
