--------------------------- MODULE SaveReplacement ---------------------------
(***************************************************************************)
(* The files of the 3DS application: the selected save, the backup and the *)
(* pending record it makes before a trade, and the replacement of the save *)
(* by the bridge's result.  Each file operation of main() and of           *)
(* apply_result() is one step; the power can go between any two and in the *)
(* middle of a write, and the player can use the save while the            *)
(* application is closed.                                                  *)
(*                                                                         *)
(* A file's content is what its hash tells apart: a version the game wrote, *)
(* the result of a trade (named by the trade), a torn write, or no file.   *)
(* What the bridge decided about a trade is `outcome`; rename is atomic.   *)
(***************************************************************************)
EXTENDS Naturals

CONSTANTS
    Trades,     \* transaction identifiers, also naming the results
    Versions,   \* saves written by the game
    None, Torn, \* no file; a partly written one
    MaxLosses,  \* bound: power losses in a behaviour
    MaxFaults,  \* bound: failed writes and renames in a behaviour
    MaxPlays    \* bound: times the player changes the save

ASSUME ReplacementAssumption ==
    /\ Trades \cap Versions = {}
    /\ None \notin Trades \cup Versions
    /\ Torn \notin Trades \cup Versions \cup {None}
    /\ MaxLosses \in Nat /\ MaxFaults \in Nat /\ MaxPlays \in Nat

VARIABLES
    source,    \* the save the player selected
    old,       \* old[t]: <path>.trade-old-<t>
    temp,      \* temp[t]: <path>.trade-new-<t>
    backup,    \* backup[t]: backup-<t>.sav
    record,    \* pending.txt, as the trade it names
    fresh,     \* pending.txt.new
    original,  \* original[t]: original_hash of the record of t
    app,       \* where the application stands
    trade,     \* the trade it is working on
    existed,   \* apply_result's `exists`
    outcome,   \* outcome[t]: what the bridge says of t
    installs,  \* installs[t]: times the result of t became the save
    losses, faults, plays

files == <<source, old, temp, backup, record, fresh>>
vars  == <<source, old, temp, backup, record, fresh, original, app, trade,
           existed, outcome, installs, losses, faults, plays>>
budget == <<losses, faults, plays>>

Contents == Versions \cup Trades

TypeOK ==
    /\ source \in Contents \cup {None, Torn}
    /\ old \in [Trades -> Contents \cup {None, Torn}]
    /\ temp \in [Trades -> Contents \cup {None, Torn}]
    /\ backup \in [Trades -> Contents \cup {None, Torn}]
    /\ record \in Trades \cup {None, Torn}
    /\ fresh \in Trades \cup {None, Torn}
    /\ original \in [Trades -> Contents \cup {None}]
    /\ app \in {"off", "home", "backup", "record", "rename", "recover",
                "temp", "preserve", "install", "verify", "acknowledge", "clear"}
    /\ trade \in Trades \cup {None}
    /\ existed \in BOOLEAN
    /\ outcome \in [Trades -> {"unknown", "rejected", "cancelled", "ready"}]
    /\ installs \in [Trades -> Nat]
    /\ losses \in 0 .. MaxLosses /\ faults \in 0 .. MaxFaults
    /\ plays \in 0 .. MaxPlays

Init ==
    /\ source \in Versions
    /\ old = [t \in Trades |-> None]
    /\ temp = [t \in Trades |-> None]
    /\ backup = [t \in Trades |-> None]
    /\ record = None
    /\ fresh = None
    /\ original = [t \in Trades |-> None]
    /\ app = "off"
    /\ trade = None
    /\ existed = FALSE
    /\ outcome = [t \in Trades |-> "unknown"]
    /\ installs = [t \in Trades |-> 0]
    /\ losses = 0 /\ faults = 0 /\ plays = 0

Goto(place) == app' = place

-----------------------------------------------------------------------------
(* main(): a new trade, or the one the record names *)

Open ==
    /\ app = "off"
    /\ Goto("home")
    /\ trade' = None
    /\ UNCHANGED <<files, original, existed, outcome, installs, budget>>

Quit ==
    /\ app \in {"home", "recover"}
    /\ Goto("off")
    /\ UNCHANGED <<files, original, trade, existed, outcome, installs, budget>>

\* The save is read, uploaded and a Pokemon selected; the identifier is fresh.
Select(t) ==
    /\ app = "home"
    /\ record = None
    /\ source \in Contents
    /\ original[t] = None
    /\ original' = [original EXCEPT ![t] = source]
    /\ trade' = t
    /\ Goto("backup")
    /\ UNCHANGED <<files, existed, outcome, installs, budget>>

WriteBackup_Skipped ==
    /\ app = "backup"
    /\ Goto("record")
    /\ UNCHANGED <<files, original, trade, existed, outcome, installs, budget>>

WriteBackup ==
    /\ app = "backup"
    /\ backup' = [backup EXCEPT ![trade] = original[trade]]
    /\ Goto("record")
    /\ UNCHANGED <<source, old, temp, record, fresh, original, trade, existed,
                   outcome, installs, budget>>

\* store_pending(): the new record is written aside, then renamed.
WriteRecord ==
    /\ app = "record"
    /\ fresh' = trade
    /\ Goto("rename")
    /\ UNCHANGED <<source, old, temp, backup, record, original, trade, existed,
                   outcome, installs, budget>>

RenameRecord ==
    /\ app = "rename"
    /\ record' = fresh
    /\ fresh' = None
    /\ Goto("recover")
    /\ UNCHANGED <<source, old, temp, backup, original, trade, existed,
                   outcome, installs, budget>>

Resume ==
    /\ app = "home"
    /\ record \in Trades
    /\ trade' = record
    /\ Goto("recover")
    /\ UNCHANGED <<files, original, existed, outcome, installs, budget>>

-----------------------------------------------------------------------------
(* recover() *)

Drop_AnyAnswer ==
    /\ app = "recover"
    /\ outcome[trade] # "ready"
    /\ record' = None
    /\ Goto("home")
    /\ UNCHANGED <<source, old, temp, backup, fresh, original, trade, existed,
                   outcome, installs, budget>>

\* Cancelled by the operator, or refused by prepare before anything started.
Drop ==
    /\ app = "recover"
    /\ outcome[trade] \in {"cancelled", "rejected"}
    /\ record' = None
    /\ Goto("home")
    /\ UNCHANGED <<source, old, temp, backup, fresh, original, trade, existed,
                   outcome, installs, budget>>

Replaceable_IgnoresOld(t) ==
    \/ source = original[t]
    \/ source = None /\ old[t] = original[t]
Replaceable_AnySave(t) ==
    \/ source \in Contents
    \/ source = None /\ old[t] = original[t]
Replaceable_NoResume(t) == source = original[t] /\ old[t] = None

\* The save is the one that was selected and no earlier replacement moved it
\* aside; or an interrupted one did, and it is there.
Replaceable(t) ==
    \/ source = original[t] /\ old[t] = None
    \/ source = None /\ old[t] = original[t]

BackupIntact(t) == backup[t] = original[t]

BeginApply_AckFirst ==
    /\ app = "recover"
    /\ outcome[trade] = "ready"
    /\ existed' = (source # None)
    /\ Goto(IF BackupIntact(trade) THEN "acknowledge" ELSE "home")
    /\ UNCHANGED <<files, original, trade, outcome, installs, budget>>

\* apply_result() up to its first write.
BeginApply ==
    /\ app = "recover"
    /\ outcome[trade] = "ready"
    /\ existed' = (source # None)
    /\ Goto(IF ~BackupIntact(trade) THEN "home"
            ELSE IF source = trade THEN "acknowledge"
            ELSE IF Replaceable(trade) THEN "temp" ELSE "home")
    /\ UNCHANGED <<files, original, trade, outcome, installs, budget>>

WriteTemp ==
    /\ app = "temp"
    /\ temp' = [temp EXCEPT ![trade] = trade]
    /\ Goto(IF existed THEN "preserve" ELSE "install")
    /\ UNCHANGED <<source, old, backup, record, fresh, original, trade, existed,
                   outcome, installs, budget>>

Preserve_Deletes ==
    /\ app = "preserve"
    /\ source' = None
    /\ Goto("install")
    /\ UNCHANGED <<old, temp, backup, record, fresh, original, trade, existed,
                   outcome, installs, budget>>

Preserve ==
    /\ app = "preserve"
    /\ old' = [old EXCEPT ![trade] = source]
    /\ source' = None
    /\ Goto("install")
    /\ UNCHANGED <<temp, backup, record, fresh, original, trade, existed,
                   outcome, installs, budget>>

Install ==
    /\ app = "install"
    /\ source' = temp[trade]
    /\ temp' = [temp EXCEPT ![trade] = None]
    /\ installs' = [installs EXCEPT ![trade] = @ + 1]
    /\ Goto("verify")
    /\ UNCHANGED <<old, backup, record, fresh, original, trade, existed,
                   outcome, budget>>

Verify ==
    /\ app = "verify"
    /\ Goto(IF source = trade THEN "acknowledge" ELSE "home")
    /\ UNCHANGED <<files, original, trade, existed, outcome, installs, budget>>

\* POST applied; without an answer the record stays for the next time.
Acknowledge ==
    /\ app = "acknowledge"
    /\ Goto("clear")
    /\ UNCHANGED <<files, original, trade, existed, outcome, installs, budget>>

AcknowledgeFails ==
    /\ app = "acknowledge"
    /\ faults < MaxFaults
    /\ faults' = faults + 1
    /\ Goto("home")
    /\ UNCHANGED <<files, original, trade, existed, outcome, installs, losses, plays>>

Clear ==
    /\ app = "clear"
    /\ record' = None
    /\ Goto("home")
    /\ UNCHANGED <<source, old, temp, backup, fresh, original, trade, existed,
                   outcome, installs, budget>>

-----------------------------------------------------------------------------
(* Failures *)

AfterFailure_Unverified(place) == IF place = "temp" THEN "install" ELSE "home"

\* Where a failed write or rename leaves the application: main() ends when
\* the record could not be stored, and goes back home otherwise.
AfterFailure(place) == IF place \in {"record", "rename"} THEN "off" ELSE "home"

\* What the file being written holds when a write stops half way.
HalfWritten(torn) ==
    /\ backup' = IF torn /\ app = "backup" THEN [backup EXCEPT ![trade] = Torn] ELSE backup
    /\ fresh'  = IF torn /\ app = "record" THEN Torn ELSE fresh
    /\ temp'   = IF torn /\ app = "temp" THEN [temp EXCEPT ![trade] = Torn] ELSE temp

StorageFails ==
    /\ app \in {"backup", "record", "rename", "temp", "preserve", "install", "clear"}
    /\ faults < MaxFaults
    /\ faults' = faults + 1
    /\ Goto(AfterFailure(app))
    /\ \E torn \in BOOLEAN : HalfWritten(torn)
    /\ UNCHANGED <<source, old, record, original, trade, existed, outcome,
                   installs, losses, plays>>

PowerLoss ==
    /\ app # "off"
    /\ losses < MaxLosses
    /\ losses' = losses + 1
    /\ Goto("off")
    /\ \E torn \in BOOLEAN : HalfWritten(torn)
    /\ UNCHANGED <<source, old, record, original, trade, existed, outcome,
                   installs, faults, plays>>

-----------------------------------------------------------------------------
(* The player, with the application closed, and the bridge *)

\* The game saves (a new game if it finds no file), or the player puts a
\* backup back.
Play ==
    /\ app = "off"
    /\ plays < MaxPlays
    /\ plays' = plays + 1
    /\ \/ \E v \in Versions : source' = v
       \/ \E t \in Trades : backup[t] \in Contents /\ source' = backup[t]
    /\ UNCHANGED <<old, temp, backup, record, fresh, original, app, trade,
                   existed, outcome, installs, losses, faults>>

Decide(t) ==
    /\ record = t
    /\ outcome[t] = "unknown"
    /\ \E o \in {"rejected", "cancelled", "ready"} : outcome' = [outcome EXCEPT ![t] = o]
    /\ UNCHANGED <<files, original, app, trade, existed, installs, budget>>

-----------------------------------------------------------------------------

NewTrade == (\E t \in Trades : Select(t)) \/ WriteBackup \/ WriteRecord \/ RenameRecord

Replace == BeginApply \/ WriteTemp \/ Preserve \/ Install \/ Verify
              \/ Acknowledge \/ Clear

Next ==
    \/ Open \/ Quit \/ NewTrade \/ Resume \/ Drop \/ Replace
    \/ AcknowledgeFails \/ StorageFails \/ PowerLoss \/ Play
    \/ \E t \in Trades : Decide(t)

\* The player opens the application and resumes the trade its record names,
\* and the application then runs; quitting over and over is not ruled out by
\* WF, so resuming and replacing are taken again whenever possible.
Fairness ==
    /\ WF_vars(Open) /\ SF_vars(Resume)
    /\ SF_vars(Drop) /\ SF_vars(BeginApply)
    /\ WF_vars(WriteTemp \/ Preserve \/ Install \/ Verify \/ Acknowledge \/ Clear)

Spec == Init /\ [][Next]_vars

FairSpec == Spec /\ Fairness

-----------------------------------------------------------------------------
(* Properties *)

\* Neither the save nor the pending record is ever a partial write, wherever
\* the power goes: both are replaced only by rename.
NeverTorn == source # Torn /\ record # Torn

\* If the save is missing, the record still names the trade that moved it
\* aside and the moved file is the original, so the next start completes it.
MissingIsRecoverable ==
    source = None =>
        /\ record \in Trades
        /\ old[record] = original[record]
        /\ backup[record] = original[record]

\* Saves that exist somewhere.
Kept == ({source} \cup {old[t] : t \in Trades} \cup {backup[t] : t \in Trades})
            \cap Contents

\* "No overwrite": no step of the application or of a power loss destroys the
\* last copy of any save, the player's later progress included.
NoOverwrite == [][app # "off" => Kept \subseteq Kept']_vars

\* One trade replaces the save once: putting the backup back after the trade
\* was placed does not make recovery place it again.
PlacedOnce == \A t \in Trades : installs[t] <= 1

\* The record is given up only for a trade that was refused, cancelled or is
\* in the save: until then it survives every failure.
RecordKept ==
    [][\A t \in Trades : record = t /\ record' # t =>
          outcome[t] \in {"rejected", "cancelled"} \/ source = t]_vars

\* The player touched the save of trade t after selecting it.
Touched(t) ==
    \/ source \notin {None, t, original[t]}
    \/ source = original[t] /\ old[t] # None

\* A result the bridge released ends up in the save, through power losses and
\* failed writes, unless the player changed that save in between.
Places ==
    \A t \in Trades :
        record = t /\ outcome[t] = "ready" ~> source = t \/ Touched(t)

-----------------------------------------------------------------------------
(* The inductive invariant *)

\* What the files say, wherever the application stands: a record names a trade
\* whose backup is complete, and a save that is missing was moved aside by the
\* trade of the record, whose result is released and not placed yet.
FilesInv ==
    /\ \A t \in Trades : original[t] = None => backup[t] = None
    /\ \A t \in Trades : installs[t] > 0 => old[t] # None
    /\ record \in Trades => original[record] \in Contents /\ backup[record] = original[record]
    /\ source = None => /\ record \in Trades
                        /\ old[record] = original[record]
                        /\ installs[record] = 0 /\ outcome[record] = "ready"

\* What the application relies on from one file operation to the next.
AppInv ==
    /\ app \notin {"off", "home"} => trade \in Trades /\ original[trade] \in Contents
    /\ app \in {"backup", "record", "rename"} => record = None
    /\ app = "backup" => backup[trade] = None
    /\ app \in {"record", "rename"} => backup[trade] = original[trade]
    /\ app = "rename" => fresh = trade
    /\ app \in {"recover", "temp", "preserve", "install", "verify", "acknowledge", "clear"}
          => record = trade
    /\ app \in {"temp", "preserve", "install"} => outcome[trade] = "ready" /\ installs[trade] = 0
    /\ app = "preserve" \/ (app = "temp" /\ existed) =>
          source = original[trade] /\ old[trade] = None
    /\ app = "install" \/ (app = "temp" /\ ~existed) =>
          source = None /\ old[trade] = original[trade]
    /\ app \in {"preserve", "install"} => temp[trade] = trade
    /\ app \in {"acknowledge", "clear"} => source = trade

\* These are inductive; MissingIsRecoverable and the action properties follow.
IInv == TypeOK /\ NeverTorn /\ PlacedOnce /\ FilesInv /\ AppInv
=============================================================================
