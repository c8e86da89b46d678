-------------------------- MODULE MCSaveReplacement --------------------------
(* Small instances of SaveReplacement for TLC. *)
EXTENDS SaveReplacement

CONSTANTS t1, t2, v1, v2
=============================================================================
