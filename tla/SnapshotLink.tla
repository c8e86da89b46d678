---------------------------- MODULE SnapshotLink ----------------------------
(***************************************************************************)
(* What a pair of remote bridges may rely on: each end keeps a value that  *)
(* it changes, the other end holds an earlier or the current value of it,  *)
(* and what it holds only ever moves forward.  Values may be skipped.      *)
(*                                                                         *)
(* log[e] is what end e published since the value the other end holds:     *)
(* the first element is that value, the last one the current value.        *)
(***************************************************************************)
EXTENDS Naturals, Sequences

CONSTANTS Ends, Values, Initial

VARIABLE log

Init == log = [e \in Ends |-> <<Initial>>]

Publish(e, value) == log' = [log EXCEPT ![e] = Append(@, value)]

\* The other end of e comes to hold the k-th value.
LearnAt(e, k) == log' = [log EXCEPT ![e] = SubSeq(@, k, Len(@))]

Learn(e) == \E k \in 2 .. Len(log[e]) : LearnAt(e, k)

\* Each end moves on its own; one step may publish several values, and be learned
\* of at the same time.
Moves(e) ==
    \/ UNCHANGED log[e]
    \/ LET old == log[e]  new == log'[e] IN
       /\ new \in Seq(Values)
       /\ \E k \in 1 .. Len(old) :
             /\ Len(new) > Len(old) - k
             /\ \A i \in k .. Len(old) : new[i - k + 1] = old[i]

Next == \A e \in Ends : Moves(e)

Spec == Init /\ [][Next]_log

Current(e) == log[e][Len(log[e])]
Held(e) == Head(log[e])
=============================================================================
