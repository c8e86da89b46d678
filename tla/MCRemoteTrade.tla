---------------------------- MODULE MCRemoteTrade ----------------------------
(* Instances of RemoteTrade: a save that takes one of two Pokemon. *)
EXTENDS RemoteTrade

CONSTANTS t1, t2, m1, m2

\* The 3DS save has room for m1 only.
OnlyFirst == Trades \X {m1}
=============================================================================
