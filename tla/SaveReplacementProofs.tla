------------------------ MODULE SaveReplacementProofs ------------------------
(***************************************************************************)
(* Proofs about SaveReplacement, for any sets of trades and saves and any  *)
(* number of power losses, failed writes and games played in between.  The *)
(* argument: a save leaves its place only in the trade the record names,   *)
(* after its backup and its replacement are complete, and a trade that was *)
(* placed keeps the file it moved aside, which forbids placing it again.   *)
(***************************************************************************)
EXTENDS SaveReplacement, TLAPS

USE ReplacementAssumption

\* Every file is whole and no trade is under way.
LEMMA InitInv == Init => IInv
<1> SUFFICES ASSUME Init PROVE IInv
    OBVIOUS
<1>1. TypeOK
  <2>1. source \in Contents \cup {None, Torn} /\ existed \in BOOLEAN
      BY DEF Init, Contents
  <2>2. /\ losses \in 0 .. MaxLosses /\ faults \in 0 .. MaxFaults /\ plays \in 0 .. MaxPlays
        /\ installs \in [Trades -> Nat]
      BY DEF Init
  <2> QED
      BY <2>1, <2>2 DEF Init, TypeOK
<1>2. NeverTorn /\ PlacedOnce /\ FilesInv
    BY DEF Init, NeverTorn, PlacedOnce, FilesInv
<1>3. AppInv
    BY DEF Init, AppInv
<1> QED
    BY <1>1, <1>2, <1>3 DEF IInv

-----------------------------------------------------------------------------
(* main() *)

\* Opening, closing and selecting change no file.
LEMMA HomeInv ==
    ASSUME IInv, Open \/ Quit \/ Resume \/ \E t \in Trades : Select(t)
    PROVE  IInv'
<1> USE DEF IInv, TypeOK, NeverTorn, PlacedOnce, FilesInv, AppInv, Contents, Goto, files, budget
<1>1. CASE Open \/ Quit \/ Resume
    BY <1>1 DEF Open, Quit, Resume
<1>2. ASSUME NEW t \in Trades, Select(t) PROVE IInv'
    BY <1>2 DEF Select
<1> QED
    BY <1>1, <1>2

\* The backup is complete before the record is written, and the record is
\* written aside.
LEMMA RecordInv ==
    ASSUME IInv, WriteBackup \/ WriteRecord \/ RenameRecord
    PROVE  IInv'
<1> USE DEF IInv, TypeOK, NeverTorn, PlacedOnce, FilesInv, AppInv, Contents, Goto, budget
<1>1. CASE WriteBackup
    BY <1>1 DEF WriteBackup
<1>2. CASE WriteRecord
    BY <1>2 DEF WriteRecord
<1>3. CASE RenameRecord
    BY <1>3 DEF RenameRecord
<1> QED
    BY <1>1, <1>2, <1>3

-----------------------------------------------------------------------------
(* recover() and apply_result() *)

\* A trade that was dropped or is placed has not left the save missing.
LEMMA ForgetInv ==
    ASSUME IInv, Drop \/ Acknowledge \/ AcknowledgeFails \/ Clear
    PROVE  IInv'
<1> USE DEF IInv, TypeOK, NeverTorn, PlacedOnce, FilesInv, AppInv, Contents, Goto, files, budget
<1>1. CASE Drop
    BY <1>1 DEF Drop
<1>2. CASE Acknowledge
    BY <1>2 DEF Acknowledge
<1>3. CASE AcknowledgeFails
    BY <1>3 DEF AcknowledgeFails
<1>4. CASE Clear
    BY <1>4 DEF Clear
<1> QED
    BY <1>1, <1>2, <1>3, <1>4

\* A replacement is begun, or resumed, only where it can be completed.
LEMMA BeginInv == ASSUME IInv, BeginApply PROVE IInv'
<1> USE DEF IInv, TypeOK, Goto, files, budget
<1>1. /\ app = "recover" /\ record = trade /\ trade \in Trades
      /\ original[trade] \in Contents /\ outcome[trade] = "ready"
      /\ existed' = (source # None)
      /\ UNCHANGED <<source, old, temp, backup, record, fresh, original, trade, outcome, installs>>
    BY DEF BeginApply, AppInv
<1>2. CASE app' = "temp"
  <2>1. Replaceable(trade)
      BY <1>2 DEF BeginApply
  <2>2. IF existed' THEN source = original[trade] /\ old[trade] = None
        ELSE source = None /\ old[trade] = original[trade]
      BY <1>1, <2>1 DEF Replaceable, Contents
  <2>3. installs[trade] = 0
    <3>1. installs[trade] \in Nat
        BY <1>1
    <3> QED
        BY <1>1, <2>2, <3>1 DEF FilesInv
  <2>4. AppInv'
      BY <1>1, <1>2, <2>2, <2>3 DEF AppInv
  <2> QED
      BY <2>4 DEF BeginApply, NeverTorn, PlacedOnce, FilesInv, Contents
<1>3. CASE app' = "acknowledge"
  <2>1. source = trade
      BY <1>3 DEF BeginApply
  <2>2. AppInv'
      BY <1>1, <1>3, <2>1 DEF AppInv
  <2> QED
      BY <2>2 DEF BeginApply, NeverTorn, PlacedOnce, FilesInv, Contents
<1>4. CASE app' = "home"
  <2>1. AppInv'
      BY <1>1, <1>4 DEF AppInv
  <2> QED
      BY <2>1 DEF BeginApply, NeverTorn, PlacedOnce, FilesInv, Contents
<1> QED
    BY <1>2, <1>3, <1>4 DEF BeginApply

\* Each file operation of a replacement prepares the next.
LEMMA ApplyInv ==
    ASSUME IInv, WriteTemp \/ Preserve \/ Install \/ Verify
    PROVE  IInv'
<1> USE DEF IInv, TypeOK, NeverTorn, PlacedOnce, FilesInv, AppInv, Contents, Goto, files, budget
<1>1. CASE WriteTemp
    BY <1>1 DEF WriteTemp
<1>2. CASE Preserve
    BY <1>2 DEF Preserve
<1>3. CASE Install
    BY <1>3 DEF Install
<1>4. CASE Verify
    BY <1>4 DEF Verify
<1> QED
    BY <1>1, <1>2, <1>3, <1>4

-----------------------------------------------------------------------------
(* Failures, the player and the bridge *)

\* A write that stops half way tears a backup without a record, a record that is
\* not in place, or a replacement that is not.
LEMMA FailureInv ==
    ASSUME IInv, StorageFails \/ PowerLoss
    PROVE  IInv'
<1> USE DEF IInv, TypeOK, NeverTorn, PlacedOnce, FilesInv, AppInv, Contents, Goto
<1>1. PICK torn \in BOOLEAN : HalfWritten(torn)
    BY DEF StorageFails, PowerLoss
<1>2. app' \in {"off", "home"}
    BY DEF StorageFails, PowerLoss, AfterFailure
<1>3. /\ UNCHANGED <<source, old, record, original, trade, existed, outcome, installs>>
      /\ app # "off"
    BY DEF StorageFails, PowerLoss
<1>4. /\ backup' \in [Trades -> Contents \cup {None, Torn}]
      /\ fresh' \in Trades \cup {None, Torn}
      /\ temp' \in [Trades -> Contents \cup {None, Torn}]
    BY <1>1 DEF HalfWritten
<1>5. losses' \in 0 .. MaxLosses /\ faults' \in 0 .. MaxFaults /\ plays' = plays
    BY DEF StorageFails, PowerLoss
<1>6. \A t \in Trades : backup'[t] = backup[t] \/ (t = trade /\ app = "backup")
    BY <1>1 DEF HalfWritten
<1>7. FilesInv'
    BY <1>3, <1>6
<1>8. AppInv'
    BY <1>2, <1>3
<1> QED
    BY <1>2, <1>3, <1>4, <1>5, <1>7, <1>8

\* The game and the player change the save only while the application is
\* closed; the bridge's word on a trade does not change.
LEMMA OutsideInv ==
    ASSUME IInv, Play \/ \E t \in Trades : Decide(t)
    PROVE  IInv'
<1> USE DEF IInv, TypeOK, NeverTorn, PlacedOnce, FilesInv, AppInv, Contents, files, budget
<1>1. CASE Play
    BY <1>1 DEF Play
<1>2. ASSUME NEW t \in Trades, Decide(t) PROVE IInv'
    BY <1>2 DEF Decide
<1> QED
    BY <1>1, <1>2

-----------------------------------------------------------------------------

\* Every step preserves the invariant.
LEMMA StepInv == IInv /\ [Next]_vars => IInv'
<1> SUFFICES ASSUME IInv, [Next]_vars PROVE IInv'
    OBVIOUS
<1>1. CASE UNCHANGED vars
    BY <1>1 DEF vars, IInv, TypeOK, NeverTorn, PlacedOnce, FilesInv, AppInv, Contents
<1> QED
    BY <1>1, HomeInv, RecordInv, ForgetInv, BeginInv, ApplyInv, FailureInv, OutsideInv
       DEF Next, NewTrade, Replace

\* FilesInv and AppInv hold in every reachable state of the card and the application,
\* whatever the numbers of power losses, failed writes and plays.
THEOREM Inductive == Spec => []IInv
BY InitInv, StepInv, PTL DEF Spec

\* The save and the record are never partly written.
THEOREM Whole == Spec => []NeverTorn
<1>1. IInv => NeverTorn
    BY DEF IInv
<1> QED
    BY Inductive, <1>1, PTL

\* apply_result() places the result of a trade at most once.
THEOREM Once == Spec => []PlacedOnce
<1>1. IInv => PlacedOnce
    BY DEF IInv
<1> QED
    BY Inductive, <1>1, PTL

\* A save that is missing is where the pending record's trade moved it.
THEOREM Recoverable == Spec => []MissingIsRecoverable
<1>1. IInv => MissingIsRecoverable
    BY DEF IInv, FilesInv, MissingIsRecoverable
<1> QED
    BY Inductive, <1>1, PTL

\* No step of the application destroys the last copy of a save.
LEMMA StepKept == IInv /\ [Next]_vars => [app # "off" => Kept \subseteq Kept']_vars
<1> SUFFICES ASSUME IInv, Next, app # "off", NEW save \in Kept PROVE save \in Kept'
    OBVIOUS
<1> USE DEF IInv, TypeOK, Contents
<1>0. save \in Contents /\ save # None /\ save # Torn
    BY DEF Kept
<1>1. ASSUME UNCHANGED <<source, old, backup>> PROVE save \in Kept'
    BY <1>1 DEF Kept
<1>2. CASE Open \/ Quit \/ Resume \/ Drop \/ AcknowledgeFails \/ WriteRecord \/ RenameRecord
             \/ BeginApply \/ WriteTemp \/ Verify \/ Acknowledge \/ Clear
    BY <1>1, <1>2 DEF Open, Quit, Resume, Drop, AcknowledgeFails, WriteRecord, RenameRecord,
       BeginApply, WriteTemp, Verify, Acknowledge, Clear, files
<1>3. CASE \E t \in Trades : Select(t) \/ Decide(t)
    BY <1>1, <1>3 DEF Select, Decide, files
<1>4. ASSUME UNCHANGED <<source, old>>, backup[trade] \in {None, Torn},
             \A t \in Trades : t # trade => backup'[t] = backup[t]
      PROVE  save \in Kept'
    BY <1>0, <1>4 DEF Kept
<1>5. CASE WriteBackup
    BY <1>4, <1>5 DEF WriteBackup, AppInv
<1>6. CASE StorageFails \/ PowerLoss
  <2>1. UNCHANGED <<source, old>>
      BY <1>6 DEF StorageFails, PowerLoss
  <2>2. PICK torn \in BOOLEAN : HalfWritten(torn)
      BY <1>6 DEF StorageFails, PowerLoss
  <2>3. CASE app = "backup"
      BY <1>4, <2>1, <2>2, <2>3 DEF HalfWritten, AppInv
  <2>4. CASE app # "backup"
      BY <1>1, <2>1, <2>2, <2>4 DEF HalfWritten
  <2> QED
      BY <2>3, <2>4
<1>7. CASE Preserve
  <2>1. /\ trade \in Trades /\ old[trade] = None
        /\ old' = [old EXCEPT ![trade] = source] /\ UNCHANGED backup
      BY <1>7 DEF Preserve, AppInv
  <2>2. old'[trade] = source /\ \A t \in Trades : t # trade => old'[t] = old[t]
      BY <2>1
  <2> QED
      BY <1>0, <2>1, <2>2 DEF Kept
<1>8. CASE Install
    BY <1>0, <1>8 DEF Install, AppInv, Kept
<1>9. CASE Play
    BY <1>9 DEF Play
<1> QED
    BY <1>2, <1>3, <1>5, <1>6, <1>7, <1>8, <1>9 DEF Next, NewTrade, Replace

\* "No overwrite": only the player, with the application closed, can lose a save.
THEOREM NothingLost == Spec => NoOverwrite
BY Inductive, StepKept, PTL DEF Spec, NoOverwrite

\* The record outlives every failure until its trade is refused, cancelled or placed.
LEMMA StepRecord ==
    IInv /\ [Next]_vars =>
        [\A t \in Trades : record = t /\ record' # t =>
             outcome[t] \in {"rejected", "cancelled"} \/ source = t]_vars
<1> SUFFICES ASSUME IInv, Next, NEW t \in Trades, record = t, record' # t
             PROVE  outcome[t] \in {"rejected", "cancelled"} \/ source = t
    OBVIOUS
<1> USE DEF IInv, TypeOK, AppInv
<1>1. Drop \/ Clear \/ RenameRecord
    BY DEF Next, NewTrade, Replace, Open, Quit, Select, WriteBackup, WriteRecord, Resume,
       BeginApply, WriteTemp, Preserve, Install, Verify, Acknowledge, AcknowledgeFails,
       StorageFails, PowerLoss, Play, Decide, files
<1>2. CASE Drop
    BY <1>2 DEF Drop
<1>3. CASE Clear
    BY <1>3 DEF Clear
<1>4. CASE RenameRecord
    BY <1>4 DEF RenameRecord
<1> QED
    BY <1>1, <1>2, <1>3, <1>4

\* The record is given up only for a trade that was refused, cancelled or placed.
THEOREM RecordSurvives == Spec => RecordKept
BY Inductive, StepRecord, PTL DEF Spec, RecordKept
=============================================================================
