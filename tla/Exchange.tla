------------------------------ MODULE Exchange ------------------------------
(***************************************************************************)
(* What a bridge promises about exchanges, whatever carries them out: one  *)
(* exchange at a time may be undecided, a console's Pokemon leaves it at   *)
(* most once and only inside that exchange, a save is released to the 3DS  *)
(* only after the console traded, and an exchange is called off only if it *)
(* did not.                                                                *)
(***************************************************************************)
CONSTANT Trades

VARIABLES
    phase,   \* phase[t]: where exchange t stands
    given    \* given[t]: the console completed exchange t

vars == <<phase, given>>

TypeOK ==
    /\ phase \in [Trades -> {"open", "pending", "released", "void"}]
    /\ given \in [Trades -> BOOLEAN]

Init ==
    /\ phase = [t \in Trades |-> "open"]
    /\ given = [t \in Trades |-> FALSE]

Pending == {t \in Trades : phase[t] = "pending"}

Begin(t) ==
    /\ phase[t] = "open"
    /\ Pending = {}
    /\ phase' = [phase EXCEPT ![t] = "pending"]
    /\ UNCHANGED given

Give(t) ==
    /\ phase[t] = "pending"
    /\ ~given[t]
    /\ given' = [given EXCEPT ![t] = TRUE]
    /\ UNCHANGED phase

Release(t) ==
    /\ phase[t] = "pending"
    /\ given[t]
    /\ phase' = [phase EXCEPT ![t] = "released"]
    /\ UNCHANGED given

Void(t) ==
    /\ phase[t] \in {"open", "pending"}
    /\ ~given[t]
    /\ phase' = [phase EXCEPT ![t] = "void"]
    /\ UNCHANGED given

Next == \E t \in Trades : Begin(t) \/ Give(t) \/ Release(t) \/ Void(t)

Spec == Init /\ [][Next]_vars
=============================================================================
