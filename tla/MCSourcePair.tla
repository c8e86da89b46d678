----------------------------- MODULE MCSourcePair -----------------------------
(* Instances of SourcePair: saves that take any offer, and one that does not. *)
EXTENDS SourcePair

CONSTANTS t1, t2, t3

AnyOffer == Offers \X Offers

\* One pair of trades in which b's save takes a's offer and not the reverse.
OneWay == AnyOffer \ {<<Offer("a", t2), Offer("b", t2)>>}

\* A cancellation or an acknowledgement handled once more, not both.
MCNext == Next /\ cancels' + late' <= 1

MCSpec == Init /\ [][MCNext]_vars /\ Fairness
=============================================================================
