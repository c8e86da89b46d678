------------------------------ MODULE SaveSlots ------------------------------
(***************************************************************************)
(* The save file of the game as save.py reads and rewrites it: two slots   *)
(* of sectors, each sector with the number of its section, a checksum and  *)
(* the counter of the save it belongs to.  The game and Save.replace() in  *)
(* turn write a complete next save over the slot not in use; which slot is *)
(* in use is told by the counters, which wrap.                             *)
(*                                                                         *)
(* Four sections stand for fourteen: the small and the large save block,   *)
(* and two sections of storage, the second Pokemon of three lying across   *)
(* them.  A Pokemon's checksum fails when its halves do not belong         *)
(* together.  The bridge's result becomes the file in one step here, and   *)
(* only if the file is still the one it was made from: see SaveReplacement.*)
(* The game itself is external: it saves, and may lose power in a save.    *)
(***************************************************************************)
EXTENDS Integers, Sequences, FiniteSets

CONSTANTS
    Mons,        \* Pokemon records
    Species,     \* Species[m]: Pokedex number of m
    Remembered,  \* species the game keeps the first one's personality of
    Foreign,     \* species that need the National Pokedex
    Barred,      \* records check_tradeable() or evolution_target() refuses
    Plays,       \* <<box, Pokemon or None>> the game changes
    None,
    Wrap,       \* counters are below Wrap, 2^32 in the code
    StatCap,     \* the trade counter stops here
    MaxSaves,    \* bound: saves after the first
    MaxFaults    \* bound: saves that lose power, sectors that go bad

Dex == {Species[m] : m \in Mons}

ASSUME SlotsAssumption ==
    /\ None \notin Mons /\ Remembered \subseteq Dex /\ Foreign \subseteq Dex
    /\ Barred \subseteq Mons /\ Plays \subseteq (0 .. 2) \X (Mons \cup {None})
    /\ Wrap \in Nat /\ Wrap > 3 /\ Wrap % 2 = 0
    /\ StatCap \in Nat /\ MaxSaves \in Nat /\ MaxFaults \in Nat
    /\ None \notin 0 .. 1 /\ None \notin [of : [mon : Mons, reset : BOOLEAN], half : 1 .. 2]

VARIABLES
    file,      \* file[p][n]: the n-th sector of slot p
    saves,     \* saves begun so far, complete or not
    faults,
    trade      \* the last replacement and the game before it; None after the next
               \* save of the game or fault

vars == <<file, saves, faults, trade>>

Slots == 0 .. 1
Sectors == 0 .. 3
Sections == 0 .. 3   \* small, large, storage, storage
Boxes == 0 .. 2
WordsPerSection == 3

\* A Pokemon in storage; trading sets its friendship to 70.
Stored == [mon : Mons, reset : BOOLEAN]
Word == [of : Stored, half : 1 .. 2] \cup {None}

Small == [owned : SUBSET Dex, seen : SUBSET Dex, first : [Remembered -> Mons \cup {None}],
          national : BOOLEAN]
Large == [seen : SUBSET Dex, trades : 0 .. StatCap]

\* number is the save a sector was written by; the code cannot see it.
Sector(section, counter, payload, number) ==
    [section |-> section, counter |-> counter, payload |-> payload, good |-> TRUE,
     number |-> number]

-----------------------------------------------------------------------------
(* Save.__init__ *)

Uniform(slot) == Cardinality({slot[n].counter : n \in Sectors}) = 1

\* _read_slot: every section once, every checksum right, one counter; the tests for the
\* layout of the supported games are left out, they tell no two saves of one apart.
Complete(slot) ==
    /\ {slot[n].section : n \in Sectors} = Sections
    /\ \A n \in Sectors : slot[n].good
    /\ Uniform(slot)

Counter(slot) == slot[0].counter
SectorOf(slot, section) == CHOOSE n \in Sectors : slot[n].section = section
Payload(slot, section) == slot[SectorOf(slot, section)].payload

Difference_Plain(f) == Counter(f[1]) - Counter(f[0])
Difference(f) == (Counter(f[1]) - Counter(f[0])) % Wrap

\* The slot in use, or None: no complete slot, or counters that do not tell.
Chosen(f) ==
    CASE ~Complete(f[0]) /\ ~Complete(f[1]) -> None
      [] Complete(f[0]) /\ ~Complete(f[1]) -> 0
      [] ~Complete(f[0]) /\ Complete(f[1]) -> 1
      [] OTHER ->
           CASE Difference(f) = 0 ->
                  IF \A i \in Sections : Payload(f[0], i) = Payload(f[1], i) THEN 0 ELSE None
             [] Difference(f) = Wrap \div 2 -> None
             [] Difference(f) > Wrap \div 2 -> 0
             [] OTHER -> 1

SmallOf(f) == Payload(f[Chosen(f)], 0)
LargeOf(f) == Payload(f[Chosen(f)], 1)
Storage(f) == Payload(f[Chosen(f)], 2) \o Payload(f[Chosen(f)], 3)

\* pokemon(): None where its checksum, or an empty slot, raises.
Pokemon(storage, i) ==
    LET one == storage[2 * i + 1]  two == storage[2 * i + 2] IN
    IF one # None /\ two # None /\ one.of = two.of /\ one.half = 1 /\ two.half = 2
    THEN one.of ELSE None

\* The game a file holds.
Game(f) ==
    [box |-> [i \in Boxes |-> Pokemon(Storage(f), i)], owned |-> SmallOf(f).owned,
     seen |-> <<SmallOf(f).seen, LargeOf(f).seen>>, first |-> SmallOf(f).first,
     national |-> SmallOf(f).national, trades |-> LargeOf(f).trades]

-----------------------------------------------------------------------------
(* Save.replace *)

Written(storage, i, stored) ==
    [storage EXCEPT ![2 * i + 1] = [of |-> stored, half |-> 1],
                    ![2 * i + 2] = [of |-> stored, half |-> 2]]

\* The part of the storage that belongs to a section.
Part(storage, section) ==
    SubSeq(storage, (section - 2) * WordsPerSection + 1, (section - 1) * WordsPerSection)

NewSmall_AfterBit(small, m) ==
    [small EXCEPT !.owned = @ \cup {Species[m]}, !.seen = @ \cup {Species[m]}]

\* The personality is kept if the species was not owned before this trade.
NewSmall(small, m) ==
    [small EXCEPT !.owned = @ \cup {Species[m]}, !.seen = @ \cup {Species[m]},
                  !.first = IF Species[m] \in Remembered \ small.owned
                            THEN [@ EXCEPT ![Species[m]] = m] ELSE @]

NewLarge(large, m) ==
    [large EXCEPT !.seen = @ \cup {Species[m]},
                  !.trades = IF @ + 1 > StatCap THEN StatCap ELSE @ + 1]

NewPayload(f, i, m, section) ==
    CASE section = 0 -> NewSmall(SmallOf(f), m)
      [] section = 1 -> NewLarge(LargeOf(f), m)
      [] OTHER -> Part(Written(Storage(f), i, [mon |-> m, reset |-> TRUE]), section)

Destination_InPlace(f) == Chosen(f)
Destination(f) == 1 - Chosen(f)

\* A complete next save, its sectors in the order of the one it is made from.
Replaced(f, i, m) ==
    LET from == f[Chosen(f)] IN
    [f EXCEPT ![Destination(f)] =
        [n \in Sectors |->
            Sector(from[n].section, (from[n].counter + 1) % Wrap,
                   NewPayload(f, i, m, from[n].section), saves + 1)]]

\* The selected Pokemon is there: it was read from this very file.
Accepts(f, i, m) ==
    /\ Chosen(f) # None
    /\ Pokemon(Storage(f), i) # None
    /\ m \notin Barred
    /\ Species[m] \in Foreign => SmallOf(f).national

\* The read-back of the new file: it can be loaded and holds the Pokemon.
ReadBack(f, i, m) ==
    Chosen(f) # None /\ Pokemon(Storage(f), i) = [mon |-> m, reset |-> TRUE]

Replace(i, m) ==
    LET result == Replaced(file, i, m) IN
    /\ saves < MaxSaves
    /\ Accepts(file, i, m)
    /\ file' = IF ReadBack(result, i, m) THEN result ELSE file
    /\ saves' = saves + 1
    /\ trade' = [before |-> Game(file), box |-> i, mon |-> m]
    /\ UNCHANGED faults

-----------------------------------------------------------------------------
(* The game, external *)

\* A Pokemon comes into a box, or a box is emptied; then the player saves.
\* Sections move on by one sector in each save.
Played(f, i, m) ==
    LET from  == f[Chosen(f)]
        old   == Storage(f)
        words == IF m = None THEN [old EXCEPT ![2 * i + 1] = None, ![2 * i + 2] = None]
                 ELSE Written(old, i, [mon |-> m, reset |-> FALSE])
        small == IF m = None THEN SmallOf(f) ELSE NewSmall(SmallOf(f), m)
        large == IF m = None THEN LargeOf(f) ELSE [LargeOf(f) EXCEPT !.seen = @ \cup {Species[m]}]
        payload(section) ==
            CASE section = 0 -> small [] section = 1 -> large [] OTHER -> Part(words, section)
    IN [n \in Sectors |-> LET section == from[(n + 1) % 4].section IN
           Sector(section, (from[n].counter + 1) % Wrap, payload(section), saves + 1)]

\* A slot when power is lost after `done` sectors, or while the next one is written.
Interrupted(old, new, done, within) ==
    [n \in Sectors |-> CASE n < done -> new[n]
                         [] n = done -> [old[n] EXCEPT !.good = @ /\ ~within]
                         [] OTHER    -> old[n]]

\* The game writes the slot not in use; with all four sectors done the save is complete.
GameSaves(i, m, done, within) ==
    /\ saves < MaxSaves
    /\ Chosen(file) # None
    /\ done < 4 => faults < MaxFaults
    /\ faults' = IF done < 4 THEN faults + 1 ELSE faults
    /\ file' = [file EXCEPT ![1 - Chosen(file)] =
                   Interrupted(@, Played(file, i, m), done, within)]
    /\ saves' = saves + 1
    /\ trade' = None

GoesBad(p, n) ==
    /\ faults < MaxFaults
    /\ faults' = faults + 1
    /\ file' = [file EXCEPT ![p][n].good = FALSE]
    /\ trade' = None
    /\ UNCHANGED saves

NewGame(national) ==
    [section \in Sections |->
        CASE section = 0 -> [owned |-> {}, seen |-> {}, national |-> national,
                             first |-> [d \in Remembered |-> None]]
          [] section = 1 -> [seen |-> {}, trades |-> 0]
          [] OTHER -> [w \in 1 .. WordsPerSection |-> None]]

\* A first save; the other slot was never written.
Init ==
    /\ \E counter \in 0 .. Wrap - 1, national \in BOOLEAN :
          file = [p \in Slots |-> [n \in Sectors |->
                    [Sector(n, counter, NewGame(national)[n], 0) EXCEPT !.good = (p = 0)]]]
    /\ saves = 0 /\ faults = 0
    /\ trade = None

Next ==
    \/ \E i \in Boxes, m \in Mons : Replace(i, m)
    \/ \E play \in Plays, done \in 0 .. 4, within \in BOOLEAN :
          GameSaves(play[1], play[2], done, within)
    \/ \E p \in Slots, n \in Sectors : GoesBad(p, n)

Spec == Init /\ [][Next]_vars

-----------------------------------------------------------------------------
(* Properties *)

PayloadType(section) ==
    CASE section = 0 -> Small [] section = 1 -> Large [] OTHER -> [1 .. WordsPerSection -> Word]

IsSector(x) ==
    /\ x = [section |-> x.section, counter |-> x.counter, payload |-> x.payload,
             good |-> x.good, number |-> x.number]
    /\ x.section \in Sections /\ x.counter \in 0 .. Wrap - 1
    /\ x.good \in BOOLEAN /\ x.number \in 0 .. MaxSaves
    /\ x.payload \in PayloadType(x.section)

IsFile(f) ==
    /\ f = [p \in Slots |-> [n \in Sectors |-> f[p][n]]]
    /\ \A p \in Slots, n \in Sectors : IsSector(f[p][n])

TypeOK == IsFile(file) /\ saves \in 0 .. MaxSaves /\ faults \in 0 .. MaxFaults

\* Slots that really hold one whole save, and the one that was written last.
IsWhole(slot) ==
    /\ \A n \in Sectors : slot[n].good
    /\ Cardinality({slot[n].number : n \in Sectors}) = 1
Whole == {p \in Slots : IsWhole(file[p])}
Last == CHOOSE p \in Whole : \A q \in Whole : file[q][0].number <= file[p][0].number

\* Save() takes the last save that was written completely, never a mixture of two,
\* and refuses only a file without one: across wrapping counters, interrupted
\* saves, saves of the game and replacements in any order.
TakesLastWhole == Chosen(file) = IF Whole = {} THEN None ELSE Last

\* What a trade is to the player: one box, the Pokedex, the trade counter.
Traded(game, i, m) ==
    [box |-> [game.box EXCEPT ![i] = [mon |-> m, reset |-> TRUE]],
     owned |-> game.owned \cup {Species[m]},
     seen |-> <<game.seen[1] \cup {Species[m]}, game.seen[2] \cup {Species[m]}>>,
     first |-> [d \in Remembered |->
                  IF d = Species[m] /\ d \notin game.owned THEN m ELSE game.first[d]],
     national |-> game.national,
     trades |-> IF game.trades < StatCap THEN game.trades + 1 ELSE game.trades]

\* A replacement that is not refused passes its read-back, and the file then
\* loads as the same game with that one trade made: nothing else is lost.
TradesOnly ==
    trade # None => Game(file) = Traded(trade.before, trade.box, trade.mon)

\* "retain the previous slot": if the replacement turns out damaged, the file
\* still loads as the game before the trade.
OldIsFallback ==
    trade # None =>
        LET damaged == [file EXCEPT ![Chosen(file)][0].good = FALSE] IN
        Chosen(damaged) # None /\ Game(damaged) = trade.before

-----------------------------------------------------------------------------
(* The inductive invariant *)

\* A sector belongs to a save that was begun.
NumberInv == \A p \in Slots, n \in Sectors : file[p][n].number <= saves

\* What Save() takes for a whole save is one, and it misses none.
SlotInv == \A p \in Slots : p \in Whole <=> Complete(file[p])

\* Of two whole saves the later has the next counter.
PairInv ==
    \A p, q \in Whole : p # q =>
        \/ /\ file[q][0].number < file[p][0].number
           /\ Counter(file[p]) = (Counter(file[q]) + 1) % Wrap
        \/ /\ file[p][0].number < file[q][0].number
           /\ Counter(file[q]) = (Counter(file[p]) + 1) % Wrap

\* Before the first fault there is a whole save, and beside it another or nothing.
Undamaged ==
    \E p \in Whole : 1 - p \in Whole \/ \A n \in Sectors : ~file[1 - p][n].good

LastInv ==
    /\ faults <= 1 => SlotInv /\ PairInv
    /\ faults = 0 => Undamaged

IInv == TypeOK /\ NumberInv /\ LastInv /\ TradesOnly /\ OldIsFallback
=============================================================================
