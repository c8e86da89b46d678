--------------------------- MODULE SaveSlotsProofs ---------------------------
(***************************************************************************)
(* Proofs about SaveSlots, for any records, any range of the counters and  *)
(* any number of saves and of faults.  A replacement is followed from the  *)
(* payloads it writes to the game that is read back.  That the slot in use *)
(* is the last save relies on what the slots hold until a second fault:    *)
(* whole saves with consecutive counters, or what no reader takes for one. *)
(***************************************************************************)
EXTENDS SaveSlots, TLAPS, FiniteSetTheorems, SequenceTheorems

USE SlotsAssumption

-----------------------------------------------------------------------------
(* Counters *)

\* A counter is its own remainder, its successor differs by one, and half the
\* range lies between one and minus one.
LEMMA Wrapping ==
    /\ \A c \in 0 .. Wrap - 1 : (c + 1) % Wrap \in 0 .. Wrap - 1
    /\ \A c \in 0 .. Wrap - 1 : (((c + 1) % Wrap) - c) % Wrap = 1
    /\ \A c \in 0 .. Wrap - 1 : (c - ((c + 1) % Wrap)) % Wrap = Wrap - 1
    /\ Wrap \div 2 \in Nat /\ 1 < Wrap \div 2 /\ Wrap \div 2 < Wrap - 1
<1>1. \A x \in 0 .. Wrap - 1 : x % Wrap = x
    OBVIOUS
<1>2. Wrap % Wrap = 0
    OBVIOUS
<1>3. (1 - Wrap) % Wrap = 1
    OBVIOUS
<1>4. (-1) % Wrap = Wrap - 1
    OBVIOUS
<1>5. Wrap \div 2 \in Nat /\ 1 < Wrap \div 2 /\ Wrap \div 2 < Wrap - 1
    OBVIOUS
<1>6. ASSUME NEW c \in 0 .. Wrap - 1
      PROVE  /\ (c + 1) % Wrap \in 0 .. Wrap - 1
             /\ (((c + 1) % Wrap) - c) % Wrap = 1
             /\ (c - ((c + 1) % Wrap)) % Wrap = Wrap - 1
  <2>1. ASSUME c + 1 < Wrap
        PROVE  /\ (c + 1) % Wrap = c + 1 /\ (c + 1) - c = 1 /\ c - (c + 1) = -1
               /\ 1 % Wrap = 1
      BY <1>1, <2>1
  <2>2. ASSUME c + 1 = Wrap
        PROVE  (c + 1) % Wrap = 0 /\ 0 - c = 1 - Wrap /\ c - 0 = Wrap - 1
               /\ (Wrap - 1) % Wrap = Wrap - 1
      BY <1>1, <1>2, <2>2
  <2>3. c + 1 < Wrap \/ c + 1 = Wrap
      OBVIOUS
  <2>4. CASE c + 1 < Wrap
      BY <2>1, <2>4, <1>4
  <2>5. CASE c + 1 = Wrap
      BY <2>2, <2>5, <1>3
  <2> QED
      BY <2>3, <2>4, <2>5
<1> QED
    BY <1>5, <1>6

\* Two saves on, a counter is not back where it was.
LEMMA Twice ==
    ASSUME NEW c \in 0 .. Wrap - 1
    PROVE  (((c + 1) % Wrap) + 1) % Wrap # c
<1>1. \A x \in 0 .. Wrap - 1 : x % Wrap = x
    OBVIOUS
<1>2. Wrap % Wrap = 0
    OBVIOUS
<1>3. CASE c + 2 < Wrap
  <2>1. (c + 1) % Wrap = c + 1 /\ ((c + 1) + 1) % Wrap = c + 2
      BY <1>1, <1>3
  <2> QED
      BY <2>1
<1>4. CASE c + 2 = Wrap
  <2>1. (c + 1) % Wrap = c + 1 /\ ((c + 1) + 1) % Wrap = 0
      BY <1>1, <1>2, <1>4
  <2> QED
      BY <1>4, <2>1
<1>5. CASE c + 1 = Wrap
  <2>1. (c + 1) % Wrap = 0 /\ (0 + 1) % Wrap = 1
      BY <1>1, <1>2, <1>5
  <2> QED
      BY <1>5, <2>1
<1> QED
    BY <1>3, <1>4, <1>5

-----------------------------------------------------------------------------
(* Slots *)

\* The counters, or the numbers, of four sectors are one value or they are not.
LEMMA OneValue ==
    ASSUME NEW slot
    PROVE  /\ Cardinality({slot[n].counter : n \in Sectors}) = 1
                <=> \A n \in Sectors : slot[n].counter = slot[0].counter
           /\ Cardinality({slot[n].number : n \in Sectors}) = 1
                <=> \A n \in Sectors : slot[n].number = slot[0].number
<1>1. ASSUME NEW a, NEW b, NEW c, NEW d
      PROVE  Cardinality({a, b, c, d}) = 1 <=> b = a /\ c = a /\ d = a
  <2>1. IsFiniteSet({a} \cup {b}) /\ IsFiniteSet({c} \cup {d})
      BY FS_Singleton, FS_Union
  <2>2. IsFiniteSet(({a} \cup {b}) \cup ({c} \cup {d}))
      BY <2>1, FS_Union
  <2>3. {a, b, c, d} = ({a} \cup {b}) \cup ({c} \cup {d})
      OBVIOUS
  <2>4. Cardinality({a, b, c, d}) = 1 <=> \E x : {a, b, c, d} = {x}
      BY <2>2, <2>3, FS_Singleton
  <2>5. ASSUME NEW x, {a, b, c, d} = {x}
        PROVE  b = a /\ c = a /\ d = a
    <3>1. \A y \in {a, b, c, d} : y = x
        BY <2>5
    <3> QED
        BY <3>1
  <2>6. b = a /\ c = a /\ d = a => {a, b, c, d} = {a}
      OBVIOUS
  <2> QED
      BY <2>4, <2>5, <2>6
<1>2. /\ {slot[n].counter : n \in Sectors}
           = {slot[0].counter, slot[1].counter, slot[2].counter, slot[3].counter}
      /\ {slot[n].number : n \in Sectors}
           = {slot[0].number, slot[1].number, slot[2].number, slot[3].number}
    BY DEF Sectors
<1>3. /\ (\A n \in Sectors : slot[n].counter = slot[0].counter)
           <=> /\ slot[1].counter = slot[0].counter /\ slot[2].counter = slot[0].counter
               /\ slot[3].counter = slot[0].counter
      /\ (\A n \in Sectors : slot[n].number = slot[0].number)
           <=> /\ slot[1].number = slot[0].number /\ slot[2].number = slot[0].number
               /\ slot[3].number = slot[0].number
    BY DEF Sectors
<1>4. Cardinality({slot[n].counter : n \in Sectors}) = 1
         <=> /\ slot[1].counter = slot[0].counter /\ slot[2].counter = slot[0].counter
             /\ slot[3].counter = slot[0].counter
  <2>1. {slot[n].counter : n \in Sectors}
           = {slot[0].counter, slot[1].counter, slot[2].counter, slot[3].counter}
      BY <1>2
  <2>2. PICK a, b, c, d : /\ a = slot[0].counter /\ b = slot[1].counter
                          /\ c = slot[2].counter /\ d = slot[3].counter
      OBVIOUS
  <2>3. Cardinality({a, b, c, d}) = 1 <=> b = a /\ c = a /\ d = a
      BY <1>1
  <2> QED
      BY <2>1, <2>2, <2>3
<1>5. Cardinality({slot[n].number : n \in Sectors}) = 1
         <=> /\ slot[1].number = slot[0].number /\ slot[2].number = slot[0].number
             /\ slot[3].number = slot[0].number
  <2>1. {slot[n].number : n \in Sectors}
           = {slot[0].number, slot[1].number, slot[2].number, slot[3].number}
      BY <1>2
  <2>2. PICK a, b, c, d : /\ a = slot[0].number /\ b = slot[1].number
                          /\ c = slot[2].number /\ d = slot[3].number
      OBVIOUS
  <2>3. Cardinality({a, b, c, d}) = 1 <=> b = a /\ c = a /\ d = a
      BY <1>1
  <2> QED
      BY <2>1, <2>2, <2>3
<1> QED
    BY <1>3, <1>4, <1>5

\* A complete slot has a sector for every section, and one counter.
LEMMA CompleteSlot ==
    ASSUME NEW slot, Complete(slot)
    PROVE  /\ \A s \in Sections : /\ SectorOf(slot, s) \in Sectors
                                  /\ slot[SectorOf(slot, s)].section = s
           /\ \A n \in Sectors : slot[n].counter = slot[0].counter
<1>1. ASSUME NEW s \in Sections
      PROVE  SectorOf(slot, s) \in Sectors /\ slot[SectorOf(slot, s)].section = s
  <2>1. \E n \in Sectors : slot[n].section = s
      BY DEF Complete
  <2> QED
      BY <2>1 DEF SectorOf
<1>2. \A n \in Sectors : slot[n].counter = slot[0].counter
    BY OneValue DEF Complete, Uniform
<1> QED
    BY <1>1, <1>2

\* A slot whose sectors carry all sections, are whole and share a counter is complete.
LEMMA MakeComplete ==
    ASSUME NEW slot, NEW c,
           {slot[n].section : n \in Sectors} = Sections,
           \A n \in Sectors : slot[n].good /\ slot[n].counter = c
    PROVE  Complete(slot)
<1>1. \A n \in Sectors : slot[n].counter = slot[0].counter
    BY DEF Sectors
<1> QED
    BY <1>1, OneValue DEF Complete, Uniform

\* The slot in use is complete.
LEMMA ChosenSlot ==
    ASSUME NEW f, Chosen(f) # None
    PROVE  Chosen(f) \in Slots /\ Complete(f[Chosen(f)])
BY DEF Chosen, Slots

\* What the slot in use holds.
LEMMA ChosenTyped ==
    ASSUME NEW f, IsFile(f), Chosen(f) # None
    PROVE  /\ SmallOf(f) \in Small /\ LargeOf(f) \in Large
           /\ Payload(f[Chosen(f)], 2) \in [1 .. 3 -> Word]
           /\ Payload(f[Chosen(f)], 3) \in [1 .. 3 -> Word]
<1> DEFINE slot == f[Chosen(f)]
<1>1. Chosen(f) \in Slots /\ Complete(slot)
    BY ChosenSlot
<1>2. ASSUME NEW s \in Sections
      PROVE  Payload(slot, s) \in PayloadType(s)
  <2>1. SectorOf(slot, s) \in Sectors /\ slot[SectorOf(slot, s)].section = s
      BY <1>1, CompleteSlot
  <2>2. IsSector(slot[SectorOf(slot, s)])
      BY <1>1, <2>1 DEF IsFile
  <2> QED
      BY <2>1, <2>2 DEF IsSector, Payload
<1>3. Payload(slot, 0) \in Small /\ Payload(slot, 1) \in Large
    BY <1>2 DEF PayloadType, Sections
<1>4. Payload(slot, 2) \in [1 .. 3 -> Word] /\ Payload(slot, 3) \in [1 .. 3 -> Word]
    BY <1>2 DEF PayloadType, Sections, WordsPerSection
<1> QED
    BY <1>3, <1>4 DEF SmallOf, LargeOf

-----------------------------------------------------------------------------
(* Storage *)

\* A function on 1 .. n is a sequence of length n.
LEMMA Sequenced ==
    ASSUME NEW n \in Nat, NEW s \in [1 .. n -> Word]
    PROVE  s \in Seq(Word) /\ Len(s) = n
<1>1. \E k \in Nat : s \in [1 .. k -> Word]
    OBVIOUS
<1>2. s \in Seq(Word)
    BY <1>1
<1>3. DOMAIN s = 1 .. n
    OBVIOUS
<1> QED
    BY <1>2, <1>3, LenProperties

\* Two sections of storage are six words.
LEMMA Joined ==
    ASSUME NEW a \in [1 .. 3 -> Word], NEW b \in [1 .. 3 -> Word]
    PROVE  /\ a \o b \in [1 .. 6 -> Word]
           /\ \A k \in 1 .. 6 : (a \o b)[k] = IF k <= 3 THEN a[k] ELSE b[k - 3]
<1>1. a \in Seq(Word) /\ Len(a) = 3 /\ b \in Seq(Word) /\ Len(b) = 3
    BY Sequenced
<1>2. Len(a) + Len(b) = 6
    BY <1>1
<1>3. a \o b \in Seq(Word) /\ Len(a \o b) = Len(a) + Len(b)
    BY <1>1, ConcatProperties, Zenon
<1>4. \A k \in 1 .. Len(a) + Len(b) :
         (a \o b)[k] = IF k <= Len(a) THEN a[k] ELSE b[k - Len(a)]
  <2>1. a \in Seq(Word) /\ b \in Seq(Word)
      BY <1>1
  <2> QED
      BY <2>1, ConcatProperties, Zenon
<1>5. a \o b \in [1 .. 6 -> Word]
  <2>1. Len(a \o b) = 6
      BY <1>2, <1>3, Zenon
  <2> QED
      BY <2>1, <1>3, LenProperties
<1>6. ASSUME NEW k \in 1 .. 6
      PROVE  (a \o b)[k] = IF k <= 3 THEN a[k] ELSE b[k - 3]
  <2>1. (a \o b)[k] = IF k <= Len(a) THEN a[k] ELSE b[k - Len(a)]
      BY <1>2, <1>4, Zenon
  <2> QED
      BY <2>1, <1>1, Zenon
<1> QED
    BY <1>5, <1>6

\* Divided between the two sections and joined again, storage is what it was.
LEMMA Divided ==
    ASSUME NEW w \in [1 .. 6 -> Word]
    PROVE  /\ Part(w, 2) \in [1 .. 3 -> Word] /\ Part(w, 3) \in [1 .. 3 -> Word]
           /\ Part(w, 2) \o Part(w, 3) = w
<1>1. Part(w, 2) = SubSeq(w, 1, 3) /\ Part(w, 3) = SubSeq(w, 4, 6)
    BY DEF Part, WordsPerSection
<1>2. SubSeq(w, 1, 3) \in Seq(Word) /\ SubSeq(w, 4, 6) \in Seq(Word)
  <2>1. \A k \in 1 .. 6 : w[k] \in Word
      OBVIOUS
  <2>2. \A k \in 1 .. 3 : w[k] \in Word
      BY <2>1
  <2>3. \A k \in 4 .. 6 : w[k] \in Word
      BY <2>1
  <2> QED
      BY <2>2, <2>3, SubSeqProperties
<1>3. /\ Part(w, 2) \in [1 .. 3 -> Word]
      /\ \A k \in 1 .. 3 : Part(w, 2)[k] = w[k]
  <2>1. Part(w, 2) \in Seq(Word)
      BY <1>1, <1>2
  <2>2. Len(Part(w, 2)) = 3
      BY <1>1
  <2>3. Part(w, 2) \in [1 .. 3 -> Word]
      BY <2>1, <2>2, LenProperties
  <2> QED
      BY <2>3, <1>1
<1>4. /\ Part(w, 3) \in [1 .. 3 -> Word]
      /\ \A k \in 1 .. 3 : Part(w, 3)[k] = w[k + 3]
  <2>1. Part(w, 3) \in Seq(Word)
      BY <1>1, <1>2
  <2>2. Len(Part(w, 3)) = 3
      BY <1>1
  <2>3. Part(w, 3) \in [1 .. 3 -> Word]
      BY <2>1, <2>2, LenProperties
  <2> QED
      BY <2>3, <1>1
<1>5. /\ Part(w, 2) \o Part(w, 3) \in [1 .. 6 -> Word]
      /\ \A k \in 1 .. 6 : (Part(w, 2) \o Part(w, 3))[k]
                              = IF k <= 3 THEN Part(w, 2)[k] ELSE Part(w, 3)[k - 3]
    BY <1>3, <1>4, Joined
<1>6. \A k \in 1 .. 6 : (Part(w, 2) \o Part(w, 3))[k] = w[k]
  <2> TAKE k \in 1 .. 6
  <2>1. CASE k <= 3
      BY <2>1, <1>3, <1>5
  <2>2. CASE k > 3
    <3>1. k - 3 \in 1 .. 3 /\ (k - 3) + 3 = k /\ ~(k <= 3)
        BY <2>2
    <3>2. (Part(w, 2) \o Part(w, 3))[k] = Part(w, 3)[k - 3]
        BY <3>1, <1>5, Zenon
    <3>3. Part(w, 3)[k - 3] = w[(k - 3) + 3]
        BY <3>1, <1>4, Zenon
    <3> QED
        BY <3>1, <3>2, <3>3, Zenon
  <2>3. k <= 3 \/ k > 3
      OBVIOUS
  <2> QED
      BY <2>1, <2>2, <2>3
<1> QED
    BY <1>3, <1>4, <1>5, <1>6

\* A record written to a box is read from it, and the other boxes read as before.
LEMMA WrittenBox ==
    ASSUME NEW w \in [1 .. 6 -> Word], NEW i \in Boxes, NEW x \in Stored
    PROVE  /\ Written(w, i, x) \in [1 .. 6 -> Word]
           /\ Pokemon(Written(w, i, x), i) = x
           /\ \A j \in Boxes \ {i} : Pokemon(Written(w, i, x), j) = Pokemon(w, j)
<1> DEFINE one == [of |-> x, half |-> 1]
           two == [of |-> x, half |-> 2]
           v == Written(w, i, x)
<1>1. one \in Word /\ two \in Word /\ one # None /\ two # None
    BY DEF Word, Stored
<1>2. 2 * i + 1 \in 1 .. 6 /\ 2 * i + 2 \in 1 .. 6 /\ 2 * i + 1 # 2 * i + 2
    BY DEF Boxes
<1>3. v = [w EXCEPT ![2 * i + 1] = one, ![2 * i + 2] = two]
    BY DEF Written
<1>4. v \in [1 .. 6 -> Word] /\ v[2 * i + 1] = one /\ v[2 * i + 2] = two
    BY <1>1, <1>2, <1>3
<1>5. Pokemon(v, i) = x
    BY <1>1, <1>4 DEF Pokemon
<1>6. ASSUME NEW j \in Boxes \ {i}
      PROVE  Pokemon(v, j) = Pokemon(w, j)
  <2>1. /\ 2 * j + 1 \in 1 .. 6 /\ 2 * j + 2 \in 1 .. 6
        /\ 2 * j + 1 # 2 * i + 1 /\ 2 * j + 1 # 2 * i + 2
        /\ 2 * j + 2 # 2 * i + 1 /\ 2 * j + 2 # 2 * i + 2
      BY DEF Boxes
  <2>2. v[2 * j + 1] = w[2 * j + 1] /\ v[2 * j + 2] = w[2 * j + 2]
      BY <1>3, <2>1
  <2> QED
      BY <2>2 DEF Pokemon
<1> QED
    BY <1>4, <1>5, <1>6

\* What the storage of a file is, and the game it holds.
LEMMA StorageTyped ==
    ASSUME NEW f, IsFile(f), Chosen(f) # None
    PROVE  Storage(f) \in [1 .. 6 -> Word]
BY ChosenTyped, Joined DEF Storage

-----------------------------------------------------------------------------
(* Save.replace *)

\* The sections a replacement writes have their types.
LEMMA NewPayloadTyped ==
    ASSUME NEW f, IsFile(f), Chosen(f) # None, NEW i \in Boxes, NEW m \in Mons,
           NEW s \in Sections
    PROVE  NewPayload(f, i, m, s) \in PayloadType(s)
<1>1. SmallOf(f) \in Small /\ LargeOf(f) \in Large /\ Storage(f) \in [1 .. 6 -> Word]
    BY ChosenTyped, StorageTyped
<1>2. Species[m] \in Dex
    BY DEF Dex
<1>3. ASSUME NEW small \in Small PROVE NewSmall(small, m) \in Small
    BY <1>2 DEF Small, NewSmall
<1>4. ASSUME NEW large \in Large PROVE NewLarge(large, m) \in Large
  <2>1. (IF large.trades + 1 > StatCap THEN StatCap ELSE large.trades + 1) \in 0 .. StatCap
      BY DEF Large
  <2>2. large.seen \cup {Species[m]} \in SUBSET Dex
      BY <1>2 DEF Large
  <2> QED
      BY <2>1, <2>2 DEF Large, NewLarge
<1>5. [mon |-> m, reset |-> TRUE] \in Stored
    BY DEF Stored
<1>6. Written(Storage(f), i, [mon |-> m, reset |-> TRUE]) \in [1 .. 6 -> Word]
    BY <1>1, <1>5, WrittenBox
<1>7. \A p \in {2, 3} : Part(Written(Storage(f), i, [mon |-> m, reset |-> TRUE]), p)
                           \in [1 .. 3 -> Word]
    BY <1>6, Divided
<1>8. CASE s = 0
    BY <1>8, <1>1, <1>3 DEF NewPayload, PayloadType
<1>9. CASE s = 1
    BY <1>9, <1>1, <1>4 DEF NewPayload, PayloadType
<1>10. CASE s \in {2, 3}
    BY <1>10, <1>7 DEF NewPayload, PayloadType, WordsPerSection
<1> QED
    BY <1>8, <1>9, <1>10 DEF Sections

\* The replaced file: the old slot stays, the new one is complete, has the next counter
\* and a sector for each new section.
LEMMA ReplacedSlots ==
    ASSUME TypeOK, saves < MaxSaves, Chosen(file) # None, NEW i \in Boxes, NEW m \in Mons,
           NEW g, g = Replaced(file, i, m)
    PROVE  LET from == Chosen(file)  to == 1 - Chosen(file) IN
           /\ IsFile(g)
           /\ from \in Slots /\ to \in Slots /\ to # from
           /\ g[from] = file[from]
           /\ Complete(g[from]) /\ Complete(g[to])
           /\ Counter(g[from]) \in 0 .. Wrap - 1
           /\ Counter(g[to]) = (Counter(g[from]) + 1) % Wrap
           /\ \A n \in Sectors : g[to][n].number = saves + 1
           /\ \A s \in Sections : Payload(g[to], s) = NewPayload(file, i, m, s)
<1> DEFINE from == Chosen(file)
           to == 1 - Chosen(file)
           old == file[from]
           new == [n \in Sectors |->
                     Sector(old[n].section, (old[n].counter + 1) % Wrap,
                            NewPayload(file, i, m, old[n].section), saves + 1)]
<1>1. from \in Slots /\ to \in Slots /\ to # from /\ Complete(old)
    BY ChosenSlot DEF Slots
<1>2. g = [file EXCEPT ![to] = new]
    BY DEF Replaced, Destination
<1>3. IsFile(file) /\ DOMAIN file = Slots /\ saves + 1 \in 0 .. MaxSaves
    BY DEF TypeOK, IsFile
<1>4. g[from] = old /\ g[to] = new /\ g = [p \in Slots |-> g[p]]
  <2> HIDE DEF new, old
  <2>1. file = [p \in Slots |-> file[p]]
      BY <1>3 DEF IsFile
  <2>2. g[to] = new /\ g[from] = file[from]
      BY <1>1, <1>2, <1>3
  <2>3. g = [p \in Slots |-> g[p]]
      BY <1>2, <2>1
  <2> QED
      BY <2>2, <2>3 DEF old
<1>5. ASSUME NEW n \in Sectors
      PROVE  /\ IsSector(new[n]) /\ new[n].section = old[n].section /\ new[n].good
             /\ new[n].counter = (old[0].counter + 1) % Wrap
             /\ new[n].payload = NewPayload(file, i, m, new[n].section)
             /\ new[n].number = saves + 1
             /\ old[n].section \in Sections /\ old[0].counter \in 0 .. Wrap - 1
  <2>1. IsSector(old[n]) /\ IsSector(old[0])
      BY <1>1, <1>3 DEF IsFile, Sectors
  <2>2. old[n].section \in Sections /\ old[0].counter \in 0 .. Wrap - 1
      BY <2>1 DEF IsSector
  <2>3. old[n].counter = old[0].counter
      BY <1>1, CompleteSlot
  <2>4. NewPayload(file, i, m, old[n].section) \in PayloadType(old[n].section)
      BY <1>3, <2>2, NewPayloadTyped
  <2>5. new[n] = Sector(old[n].section, (old[0].counter + 1) % Wrap,
                        NewPayload(file, i, m, old[n].section), saves + 1)
      BY <2>3
  <2>6. (old[0].counter + 1) % Wrap \in 0 .. Wrap - 1
      BY <2>2, Wrapping
  <2> HIDE DEF new, old
  <2>7. IsSector(new[n])
      BY <1>3, <2>2, <2>4, <2>5, <2>6 DEF IsSector, Sector
  <2> QED
      BY <2>2, <2>5, <2>7 DEF Sector
<1>6. Complete(g[to])
  <2>1. {new[n].section : n \in Sectors} = {old[n].section : n \in Sectors}
      BY <1>5
  <2>2. {new[n].section : n \in Sectors} = Sections
      BY <1>1, <2>1 DEF Complete
  <2>3. \A n \in Sectors : new[n].good /\ new[n].counter = (old[0].counter + 1) % Wrap
      BY <1>5
  <2> HIDE DEF new, old
  <2>4. Complete(new)
      BY <2>2, <2>3, MakeComplete
  <2> QED
      BY <1>4, <2>4
<1>7. ASSUME NEW s \in Sections
      PROVE  Payload(g[to], s) = NewPayload(file, i, m, s)
  <2>1. SectorOf(new, s) \in Sectors /\ new[SectorOf(new, s)].section = s
      BY <1>4, <1>6, CompleteSlot
  <2> HIDE DEF new, old
  <2> QED
      BY <1>4, <1>5, <2>1 DEF Payload
<1>8. IsFile(g)
  <2>1. \A p \in Slots, n \in Sectors : IsSector(g[p][n])
    <3>1. \A n \in Sectors : IsSector(old[n])
        BY <1>1, <1>3 DEF IsFile
    <3> HIDE DEF new, old
    <3> QED
        BY <1>1, <1>4, <1>5, <3>1 DEF Slots
  <2>2. g = [p \in Slots |-> [n \in Sectors |-> g[p][n]]]
    <3>1. old = [n \in Sectors |-> old[n]] /\ new = [n \in Sectors |-> new[n]]
        BY <1>1, <1>3 DEF IsFile
    <3> HIDE DEF new, old
    <3>2. \A p \in Slots : g[p] = [n \in Sectors |-> g[p][n]]
        BY <1>1, <1>4, <3>1 DEF Slots
    <3> QED
        BY <1>4, <3>2
  <2> QED
      BY <2>1, <2>2 DEF IsFile
<1>9. Counter(g[from]) \in 0 .. Wrap - 1 /\ Counter(g[to]) = (Counter(g[from]) + 1) % Wrap
  <2> HIDE DEF new, old
  <2> QED
      BY <1>4, <1>5 DEF Counter, Sectors
<1>10. \A n \in Sectors : g[to][n].number = saves + 1
    BY <1>4, <1>5
<1> QED
    BY <1>1, <1>4, <1>6, <1>7, <1>8, <1>9, <1>10

\* It is the new slot that the replaced file is read from.
LEMMA ReplacedChosen ==
    ASSUME TypeOK, saves < MaxSaves, Chosen(file) # None, NEW i \in Boxes, NEW m \in Mons,
           NEW g, g = Replaced(file, i, m)
    PROVE  Chosen(g) = 1 - Chosen(file)
<1> DEFINE c == Counter(g[Chosen(file)])
<1>1. /\ Chosen(file) \in Slots /\ Complete(g[Chosen(file)]) /\ Complete(g[1 - Chosen(file)])
      /\ c \in 0 .. Wrap - 1
      /\ Counter(g[1 - Chosen(file)]) = (c + 1) % Wrap
    BY ReplacedSlots
<1>2. Complete(g[0]) /\ Complete(g[1])
    BY <1>1 DEF Slots
<1>3. CASE Chosen(file) = 0
  <2>1. Difference(g) = 1
      BY <1>1, <1>3, Wrapping DEF Difference
  <2> QED
      BY <1>2, <1>3, <2>1, Wrapping DEF Chosen
<1>4. CASE Chosen(file) = 1
  <2>1. Difference(g) = Wrap - 1
      BY <1>1, <1>4, Wrapping DEF Difference
  <2> QED
      BY <1>2, <1>4, <2>1, Wrapping DEF Chosen
<1> QED
    BY <1>1, <1>3, <1>4 DEF Slots

\* The storage read back is the one with the Pokemon written to its box.
LEMMA ReplacedContents ==
    ASSUME TypeOK, saves < MaxSaves, Chosen(file) # None, NEW i \in Boxes, NEW m \in Mons,
           NEW g, g = Replaced(file, i, m)
    PROVE  /\ SmallOf(g) = NewSmall(SmallOf(file), m)
           /\ LargeOf(g) = NewLarge(LargeOf(file), m)
           /\ Pokemon(Storage(g), i) = [mon |-> m, reset |-> TRUE]
           /\ \A j \in Boxes \ {i} : Pokemon(Storage(g), j) = Pokemon(Storage(file), j)
<1> DEFINE stored == [mon |-> m, reset |-> TRUE]
           w == Written(Storage(file), i, stored)
<1>1. \A s \in Sections : Payload(g[Chosen(g)], s) = NewPayload(file, i, m, s)
    BY ReplacedSlots, ReplacedChosen
<1>2. SmallOf(g) = NewSmall(SmallOf(file), m) /\ LargeOf(g) = NewLarge(LargeOf(file), m)
    BY <1>1 DEF SmallOf, LargeOf, NewPayload, Sections
<1>3. Storage(file) \in [1 .. 6 -> Word] /\ stored \in Stored
    BY StorageTyped DEF TypeOK, Stored
<1>4. Storage(g) = Part(w, 2) \o Part(w, 3)
  <2>1. \A s \in {2, 3} : Payload(g[Chosen(g)], s) = Part(w, s)
      BY <1>1 DEF NewPayload, Sections
  <2> QED
      BY <2>1 DEF Storage
<1> HIDE DEF w, stored
<1>5. w \in [1 .. 6 -> Word]
    BY <1>3, WrittenBox DEF w
<1>6. Storage(g) = w
    BY <1>4, <1>5, Divided
<1>7. Pokemon(w, i) = stored /\ \A j \in Boxes \ {i} : Pokemon(w, j) = Pokemon(Storage(file), j)
    BY <1>3, WrittenBox DEF w
<1> QED
    BY <1>2, <1>6, <1>7 DEF stored

\* A replaced file passes its read-back, holds the game with the one trade made, and
\* holds the game before it when the new slot is damaged.
LEMMA ReplacedGame ==
    ASSUME TypeOK, saves < MaxSaves, Chosen(file) # None, NEW i \in Boxes, NEW m \in Mons,
           NEW g, g = Replaced(file, i, m)
    PROVE  /\ ReadBack(g, i, m)
           /\ Game(g) = Traded(Game(file), i, m)
           /\ LET damaged == [g EXCEPT ![Chosen(g)][0].good = FALSE] IN
              Chosen(damaged) # None /\ Game(damaged) = Game(file)
<1>1. /\ SmallOf(g) = NewSmall(SmallOf(file), m)
      /\ LargeOf(g) = NewLarge(LargeOf(file), m)
      /\ Pokemon(Storage(g), i) = [mon |-> m, reset |-> TRUE]
      /\ \A j \in Boxes \ {i} : Pokemon(Storage(g), j) = Pokemon(Storage(file), j)
    BY ReplacedContents
<1>2. /\ IsFile(g) /\ Chosen(file) \in Slots /\ 1 - Chosen(file) \in Slots
      /\ 1 - Chosen(file) # Chosen(file)
      /\ g[Chosen(file)] = file[Chosen(file)] /\ Complete(g[Chosen(file)])
    BY ReplacedSlots
<1>3. Chosen(g) = 1 - Chosen(file)
    BY ReplacedChosen
<1>4. ReadBack(g, i, m)
    BY <1>1, <1>2, <1>3 DEF ReadBack, Slots
<1>5. Game(g) = Traded(Game(file), i, m)
  <2>1. SmallOf(file) \in Small /\ LargeOf(file) \in Large
      BY ChosenTyped DEF TypeOK
  <2> DEFINE old == Game(file)
  <2>2. [j \in Boxes |-> Pokemon(Storage(g), j)]
           = [[j \in Boxes |-> Pokemon(Storage(file), j)] EXCEPT ![i] = [mon |-> m, reset |-> TRUE]]
      BY <1>1
  <2>3. SmallOf(g).first = [d \in Remembered |->
                              IF d = Species[m] /\ d \notin SmallOf(file).owned
                              THEN m ELSE SmallOf(file).first[d]]
    <3>1. SmallOf(file).first \in [Remembered -> Mons \cup {None}]
        BY <2>1 DEF Small
    <3>2. SmallOf(g).first = IF Species[m] \in Remembered \ SmallOf(file).owned
                             THEN [SmallOf(file).first EXCEPT ![Species[m]] = m]
                             ELSE SmallOf(file).first
        BY <1>1, <2>1 DEF NewSmall, Small
    <3> QED
        BY <3>1, <3>2
  <2>4. /\ SmallOf(g).owned = SmallOf(file).owned \cup {Species[m]}
        /\ SmallOf(g).seen = SmallOf(file).seen \cup {Species[m]}
        /\ SmallOf(g).national = SmallOf(file).national
      BY <1>1, <2>1 DEF NewSmall, Small
  <2>5. LargeOf(g).seen = LargeOf(file).seen \cup {Species[m]}
      BY <1>1, <2>1 DEF NewLarge, Large
  <2>6. LargeOf(g).trades = IF LargeOf(file).trades < StatCap THEN LargeOf(file).trades + 1
                            ELSE LargeOf(file).trades
    <3>1. LargeOf(file).trades \in 0 .. StatCap
        BY <2>1 DEF Large
    <3>2. LargeOf(g).trades = IF LargeOf(file).trades + 1 > StatCap THEN StatCap
                              ELSE LargeOf(file).trades + 1
        BY <1>1, <2>1 DEF NewLarge, Large
    <3> QED
        BY <3>1, <3>2
  <2>7. /\ old.box = [j \in Boxes |-> Pokemon(Storage(file), j)]
        /\ old.owned = SmallOf(file).owned
        /\ old.seen[1] = SmallOf(file).seen /\ old.seen[2] = LargeOf(file).seen
        /\ old.first = SmallOf(file).first /\ old.national = SmallOf(file).national
        /\ old.trades = LargeOf(file).trades
      BY DEF Game
  <2> HIDE DEF old
  <2>8. Game(g) = Traded(old, i, m)
      BY <2>2, <2>3, <2>4, <2>5, <2>6, <2>7 DEF Game, Traded
  <2> QED
      BY <2>8 DEF old
<1>6. ASSUME NEW damaged, damaged = [g EXCEPT ![Chosen(g)][0].good = FALSE]
      PROVE  Chosen(damaged) # None /\ Game(damaged) = Game(file)
  <2>1. g = [p \in Slots |-> [n \in Sectors |-> g[p][n]]]
      BY <1>2 DEF IsFile
  <2>2. damaged[Chosen(file)] = file[Chosen(file)]
      BY <1>2, <1>3, <1>6, <2>1
  <2>3. ~Complete(damaged[1 - Chosen(file)])
    <3>1. 0 \in DOMAIN g[1 - Chosen(file)] /\ 1 - Chosen(file) \in DOMAIN g
        BY <1>2, <2>1 DEF Sectors
    <3>2. IsSector(g[1 - Chosen(file)][0])
        BY <1>2 DEF IsFile, Sectors
    <3>3. damaged[1 - Chosen(file)][0] = [g[1 - Chosen(file)][0] EXCEPT !.good = FALSE]
        BY <1>3, <1>6, <3>1
    <3>4. damaged[1 - Chosen(file)][0].good = FALSE
        BY <3>2, <3>3 DEF IsSector
    <3> QED
        BY <3>4 DEF Complete, Sectors
  <2>4. Chosen(damaged) = Chosen(file)
      BY <1>2, <2>2, <2>3 DEF Chosen, Slots
  <2>5. Chosen(damaged) # None
      BY <2>4
  <2>6. /\ SmallOf(damaged) = SmallOf(file) /\ LargeOf(damaged) = LargeOf(file)
        /\ Storage(damaged) = Storage(file)
      BY <2>2, <2>4 DEF SmallOf, LargeOf, Storage
  <2> QED
      BY <2>5, <2>6 DEF Game
<1> QED
    BY <1>4, <1>5, <1>6

-----------------------------------------------------------------------------
(* The slot that was written last *)

\* A slot is one whole save when its sectors are good and carry one number.
LEMMA WholeSlot ==
    ASSUME NEW slot
    PROVE  IsWhole(slot) <=> /\ \A n \in Sectors : slot[n].good
                             /\ \A n \in Sectors : slot[n].number = slot[0].number
BY OneValue DEF IsWhole

\* Slots whose sectors agree in all but their data are whole together, and complete together.
LEMMA SameSlot ==
    ASSUME NEW slot, NEW other,
           \A n \in Sectors : /\ slot[n].section = other[n].section
                              /\ slot[n].counter = other[n].counter
                              /\ slot[n].number = other[n].number
                              /\ slot[n].good <=> other[n].good
    PROVE  (IsWhole(slot) <=> IsWhole(other)) /\ (Complete(slot) <=> Complete(other))
<1>1. 0 \in Sectors
    BY DEF Sectors
<1>2. IsWhole(slot) <=> IsWhole(other)
    BY <1>1, WholeSlot
<1>3. {slot[n].section : n \in Sectors} = {other[n].section : n \in Sectors}
    OBVIOUS
<1>4. {slot[n].counter : n \in Sectors} = {other[n].counter : n \in Sectors}
    OBVIOUS
<1> QED
    BY <1>2, <1>3, <1>4 DEF Complete, Uniform

\* The counters tell which of two whole saves is the later one.
LEMMA LastChosen ==
    ASSUME TypeOK, SlotInv, PairInv
    PROVE  TakesLastWhole
<1>1. \A p \in Slots : p \in Whole <=> Complete(file[p])
    BY DEF SlotInv
<1>2. 0 \in Slots /\ 1 \in Slots /\ Whole \subseteq Slots /\ Slots = {0, 1}
    BY DEF Slots, Whole
<1>3. \A p \in Slots : Counter(file[p]) \in 0 .. Wrap - 1 /\ file[p][0].number \in Nat
  <2> TAKE p \in Slots
  <2>1. IsSector(file[p][0])
      BY DEF TypeOK, IsFile, Sectors
  <2> QED
      BY <2>1 DEF IsSector, Counter
<1>4. ASSUME NEW p \in Whole, \A q \in Whole : file[q][0].number <= file[p][0].number,
             \A q \in Whole : q # p => file[q][0].number < file[p][0].number
      PROVE  Last = p
  <2>1. \A r \in Whole : (\A q \in Whole : file[q][0].number <= file[r][0].number) => r = p
      BY <1>2, <1>3, <1>4
  <2> QED
      BY <1>4, <2>1 DEF Last
<1>5. CASE 0 \notin Whole /\ 1 \notin Whole
  <2>1. Whole = {}
      BY <1>2, <1>5
  <2> QED
      BY <1>1, <1>2, <1>5, <2>1 DEF TakesLastWhole, Chosen
<1>6. CASE 0 \in Whole /\ 1 \notin Whole
  <2>1. Last = 0
      BY <1>2, <1>3, <1>4, <1>6
  <2>2. Chosen(file) = 0
      BY <1>1, <1>2, <1>6 DEF Chosen
  <2> QED
      BY <1>6, <2>1, <2>2 DEF TakesLastWhole
<1>7. CASE 0 \notin Whole /\ 1 \in Whole
  <2>1. Last = 1
      BY <1>2, <1>3, <1>4, <1>7
  <2>2. Chosen(file) = 1
      BY <1>1, <1>2, <1>7 DEF Chosen
  <2> QED
      BY <1>7, <2>1, <2>2 DEF TakesLastWhole
<1>8. CASE 0 \in Whole /\ 1 \in Whole
  <2>1. Complete(file[0]) /\ Complete(file[1])
      BY <1>1, <1>2, <1>8
  <2>2. CASE file[0][0].number < file[1][0].number
    <3>1. Counter(file[1]) = (Counter(file[0]) + 1) % Wrap
        BY <1>3, <1>2, <1>8, <2>2 DEF PairInv
    <3>2. Difference(file) = 1
        BY <1>2, <1>3, <3>1, Wrapping DEF Difference
    <3>3. Chosen(file) = 1
        BY <2>1, <3>2, Wrapping DEF Chosen
    <3>4. \A q \in Whole : /\ file[q][0].number <= file[1][0].number
                           /\ q # 1 => file[q][0].number < file[1][0].number
        BY <1>2, <1>3, <2>2
    <3>5. Last = 1
        BY <1>4, <1>8, <3>4
    <3> QED
        BY <1>8, <3>3, <3>5 DEF TakesLastWhole
  <2>3. CASE file[1][0].number < file[0][0].number
    <3>1. Counter(file[0]) = (Counter(file[1]) + 1) % Wrap
        BY <1>3, <1>2, <1>8, <2>3 DEF PairInv
    <3>2. Difference(file) = Wrap - 1
        BY <1>2, <1>3, <3>1, Wrapping DEF Difference
    <3>3. Chosen(file) = 0
        BY <2>1, <3>2, Wrapping DEF Chosen
    <3>4. \A q \in Whole : /\ file[q][0].number <= file[0][0].number
                           /\ q # 0 => file[q][0].number < file[0][0].number
        BY <1>2, <1>3, <2>3
    <3>5. Last = 0
        BY <1>4, <1>8, <3>4
    <3> QED
        BY <1>8, <3>3, <3>5 DEF TakesLastWhole
  <2> QED
      BY <1>8, <2>2, <2>3 DEF PairInv
<1> QED
    BY <1>5, <1>6, <1>7, <1>8

\* A slot written whole over the one not in use: there are now two whole saves.
LEMMA NewSave ==
    ASSUME TypeOK, NumberInv, faults <= 1 => SlotInv, NEW from, from = Chosen(file),
           from # None, NEW to, to = 1 - from, file'[from] = file[from], faults' = faults,
           saves' = saves + 1, Complete(file'[to]),
           \A n \in Sectors : file'[to][n].number = saves + 1,
           Counter(file'[to]) = (Counter(file[from]) + 1) % Wrap
    PROVE  NumberInv' /\ LastInv'
<1>1. from \in Slots /\ to \in Slots /\ Slots = {from, to} /\ from # to /\ Complete(file[from])
    BY ChosenSlot DEF Slots
<1>2. saves \in Nat /\ \A n \in Sectors : file[from][n].number \in Nat /\ file[from][n].number <= saves
  <2>1. \A n \in Sectors : IsSector(file[from][n]) /\ file[from][n].number <= saves
      BY <1>1 DEF TypeOK, NumberInv, IsFile
  <2>2. ASSUME NEW n \in Sectors
        PROVE  file[from][n].number \in Nat
    <3>1. IsSector(file[from][n])
        BY <2>1
    <3> QED
        BY <3>1 DEF IsSector
  <2>3. saves \in Nat
      BY DEF TypeOK
  <2> QED
      BY <2>1, <2>2, <2>3
<1>3. NumberInv'
    BY <1>1, <1>2 DEF NumberInv
<1>4. IsWhole(file'[to])
    BY WholeSlot DEF Complete, Sectors
<1>5. ASSUME faults <= 1
      PROVE  SlotInv' /\ PairInv' /\ Undamaged'
  <2>1. IsWhole(file[from])
      BY <1>1, <1>5 DEF SlotInv, Whole
  <2>2. Whole' = {from, to}
      BY <1>1, <1>4, <2>1 DEF Whole
  <2>3. SlotInv'
      BY <1>1, <2>2 DEF SlotInv
  <2>4. file[from][0].number < saves + 1 /\ file'[to][0].number = saves + 1
      BY <1>2 DEF Sectors
  <2>5. PairInv'
      BY <1>1, <2>2, <2>4 DEF PairInv
  <2>6. Undamaged'
      BY <1>1, <2>2 DEF Undamaged, Slots
  <2> QED
      BY <2>3, <2>5, <2>6
<1>6. faults \in Nat
    BY DEF TypeOK
<1> QED
    BY <1>3, <1>5, <1>6 DEF LastInv
-----------------------------------------------------------------------------
(* The invariant *)

LEMMA InitInv == Init => IInv
<1> SUFFICES ASSUME Init PROVE IInv
    OBVIOUS
<1>1. trade = None /\ saves \in 0 .. MaxSaves /\ faults \in 0 .. MaxFaults /\ MaxSaves \in Nat
    BY DEF Init
<1>2. IsFile(file)
  <2>1. PICK counter \in 0 .. Wrap - 1, national \in BOOLEAN :
            file = [p \in Slots |-> [n \in Sectors |->
                     [Sector(n, counter, NewGame(national)[n], 0) EXCEPT !.good = (p = 0)]]]
      BY DEF Init
  <2>2. ASSUME NEW n \in Sectors
        PROVE  NewGame(national)[n] \in PayloadType(n)
    <3>1. CASE n = 0
        BY <3>1 DEF NewGame, PayloadType, Small, Sections
    <3>2. CASE n = 1
        BY <3>2 DEF NewGame, PayloadType, Large, Sections
    <3>3. CASE n \in {2, 3}
        BY <3>3 DEF NewGame, PayloadType, Word, Sections
    <3> QED
        BY <3>1, <3>2, <3>3 DEF Sectors
  <2>3. ASSUME NEW p \in Slots, NEW n \in Sectors
        PROVE  IsSector(file[p][n])
    <3>1. file[p][n] = [section |-> n, counter |-> counter, payload |-> NewGame(national)[n],
                        good |-> (p = 0), number |-> 0]
        BY <2>1 DEF Sector
    <3> QED
        BY <2>2, <3>1 DEF IsSector, Sectors, Sections
  <2> QED
      BY <2>1, <2>3 DEF IsFile
<1>3. NumberInv /\ LastInv
  <2>1. PICK counter \in 0 .. Wrap - 1, national \in BOOLEAN :
            file = [p \in Slots |-> [n \in Sectors |->
                     [Sector(n, counter, NewGame(national)[n], 0) EXCEPT !.good = (p = 0)]]]
      BY DEF Init
  <2>2. ASSUME NEW p \in Slots, NEW n \in Sectors
        PROVE  /\ file[p][n].section = n /\ file[p][n].counter = counter
               /\ file[p][n].number = 0
               /\ p = 0 => file[p][n].good
               /\ p = 1 => ~file[p][n].good
    <3>1. file[p][n] = [Sector(n, counter, NewGame(national)[n], 0) EXCEPT !.good = (p = 0)]
        BY <2>1
    <3>2. file[p][n] = [section |-> n, counter |-> counter, payload |-> NewGame(national)[n],
                        good |-> (p = 0), number |-> 0]
        BY <3>1 DEF Sector
    <3>3. file[p][n].good = (p = 0)
        BY <3>2
    <3>4. p = 1 => ~(p = 0)
        OBVIOUS
    <3>5. file[p][n].section = n /\ file[p][n].counter = counter /\ file[p][n].number = 0
        BY <3>2
    <3> QED
        BY <3>3, <3>4, <3>5, Zenon
  <2>3. 0 \in Slots /\ 1 \in Slots /\ Slots = {0, 1} /\ 0 \in Sectors
      BY DEF Slots, Sectors
  <2>4. Complete(file[0]) /\ ~Complete(file[1])
    <3>1. {file[0][n].section : n \in Sectors} = Sections
        BY <2>2, <2>3 DEF Sectors, Sections
    <3>2. \A n \in Sectors : file[0][n].good /\ file[0][n].counter = counter
        BY <2>2, <2>3
    <3>3. ~file[1][0].good
        BY <2>2, <2>3
    <3> QED
        BY <2>3, <3>1, <3>2, <3>3, MakeComplete DEF Complete
  <2>5. IsWhole(file[0]) /\ ~IsWhole(file[1])
      BY <2>2, <2>3, WholeSlot
  <2>6. Whole = {0}
      BY <2>3, <2>5 DEF Whole
  <2>7. SlotInv /\ PairInv
      BY <2>3, <2>4, <2>6 DEF SlotInv, PairInv
  <2>8. Undamaged
    <3>1. 0 \in Whole /\ 1 - 0 = 1 /\ \A n \in Sectors : ~file[1][n].good
        BY <2>2, <2>3, <2>6
    <3> QED
        BY <3>1 DEF Undamaged
  <2>9. NumberInv
      BY <1>1, <2>2 DEF NumberInv
  <2> QED
      BY <2>7, <2>8, <2>9 DEF LastInv
<1> QED
    BY <1>1, <1>2, <1>3 DEF IInv, TypeOK, TradesOnly, OldIsFallback

\* A replacement.
LEMMA ReplaceInv ==
    ASSUME IInv, NEW i \in Boxes, NEW m \in Mons, Replace(i, m)
    PROVE  IInv'
<1>1. PICK g : g = Replaced(file, i, m)
    OBVIOUS
<1>2. TypeOK /\ saves < MaxSaves /\ Chosen(file) # None
    BY DEF IInv, Replace, Accepts
<1>3. /\ ReadBack(g, i, m)
      /\ Game(g) = Traded(Game(file), i, m)
      /\ LET damaged == [g EXCEPT ![Chosen(g)][0].good = FALSE] IN
         Chosen(damaged) # None /\ Game(damaged) = Game(file)
      /\ IsFile(g)
    BY <1>1, <1>2, ReplacedGame, ReplacedSlots
<1>4. file' = g
    BY <1>1, <1>3 DEF Replace
<1>5. trade'.before = Game(file) /\ trade'.box = i /\ trade'.mon = m
    BY DEF Replace
<1>6. TypeOK'
    BY <1>2, <1>3, <1>4 DEF TypeOK, Replace
<1>7. TradesOnly'
    BY <1>3, <1>4, <1>5 DEF TradesOnly
<1>8. OldIsFallback'
    BY <1>3, <1>4, <1>5 DEF OldIsFallback
<1>9. NumberInv' /\ LastInv'
  <2>1. /\ g[Chosen(file)] = file[Chosen(file)] /\ Complete(g[1 - Chosen(file)])
        /\ \A n \in Sectors : g[1 - Chosen(file)][n].number = saves + 1
        /\ Counter(g[1 - Chosen(file)]) = (Counter(g[Chosen(file)]) + 1) % Wrap
      BY <1>1, <1>2, ReplacedSlots
  <2>2. faults' = faults /\ saves' = saves + 1 /\ NumberInv /\ (faults <= 1 => SlotInv)
      BY DEF IInv, LastInv, Replace
  <2> QED
      BY <1>2, <1>4, <2>1, <2>2, NewSave
<1> QED
    BY <1>6, <1>7, <1>8, <1>9 DEF IInv

\* What a save of the game writes has its types.
LEMMA PlayedTyped ==
    ASSUME TypeOK, saves < MaxSaves, Chosen(file) # None,
           NEW i \in Boxes, NEW m \in Mons \cup {None}, NEW n \in Sectors
    PROVE  IsSector(Played(file, i, m)[n])
<1> DEFINE from == file[Chosen(file)]
           old == Storage(file)
           words == IF m = None THEN [old EXCEPT ![2 * i + 1] = None, ![2 * i + 2] = None]
                    ELSE Written(old, i, [mon |-> m, reset |-> FALSE])
           small == IF m = None THEN SmallOf(file) ELSE NewSmall(SmallOf(file), m)
           large == IF m = None THEN LargeOf(file)
                    ELSE [LargeOf(file) EXCEPT !.seen = @ \cup {Species[m]}]
           payload(section) == CASE section = 0 -> small [] section = 1 -> large
                                 [] OTHER -> Part(words, section)
           section == from[(n + 1) % 4].section
<1>1. SmallOf(file) \in Small /\ LargeOf(file) \in Large /\ old \in [1 .. 6 -> Word]
    BY ChosenTyped, StorageTyped DEF TypeOK
<1>2. words \in [1 .. 6 -> Word]
  <2>1. CASE m = None
    <3>1. None \in Word /\ 2 * i + 1 \in 1 .. 6 /\ 2 * i + 2 \in 1 .. 6
        BY DEF Word, Boxes
    <3> HIDE DEF old
    <3> QED
        BY <2>1, <3>1, <1>1
  <2>2. CASE m # None
    <3>1. [mon |-> m, reset |-> FALSE] \in Stored
        BY <2>2 DEF Stored
    <3> HIDE DEF old
    <3> QED
        BY <2>2, <3>1, <1>1, WrittenBox
  <2> QED
      BY <2>1, <2>2
<1>3. m # None => Species[m] \in Dex
    BY DEF Dex
<1>4. small \in Small
    BY <1>1, <1>3 DEF Small, NewSmall
<1>5. large \in Large
    BY <1>1, <1>3 DEF Large
<1>6. Part(words, 2) \in [1 .. 3 -> Word] /\ Part(words, 3) \in [1 .. 3 -> Word]
  <2> HIDE DEF words
  <2> QED
      BY <1>2, Divided
<1>7. section \in Sections /\ from[n].counter \in 0 .. Wrap - 1
  <2>1. (n + 1) % 4 \in Sectors /\ Chosen(file) \in Slots
      BY ChosenSlot DEF Sectors
  <2>2. IsSector(from[n]) /\ IsSector(from[(n + 1) % 4])
      BY <2>1 DEF TypeOK, IsFile
  <2> QED
      BY <2>2 DEF IsSector
<1>8. payload(section) \in PayloadType(section)
  <2> HIDE DEF words, small, large, section
  <2>1. CASE section = 0
      BY <2>1, <1>4 DEF PayloadType
  <2>2. CASE section = 1
      BY <2>2, <1>5 DEF PayloadType
  <2>3. CASE section \in {2, 3}
      BY <2>3, <1>6 DEF PayloadType, WordsPerSection
  <2> QED
      BY <1>7, <2>1, <2>2, <2>3 DEF Sections
<1>9. (from[n].counter + 1) % Wrap \in 0 .. Wrap - 1 /\ saves + 1 \in 0 .. MaxSaves
    BY <1>7, Wrapping DEF TypeOK
<1>10. Played(file, i, m)[n]
          = Sector(section, (from[n].counter + 1) % Wrap, payload(section), saves + 1)
    BY DEF Played
<1> HIDE DEF payload, section, from
<1> QED
    BY <1>7, <1>8, <1>9, <1>10 DEF IsSector, Sector

\* A save of the game that is not interrupted is complete and has the next counter.
LEMMA PlayedComplete ==
    ASSUME TypeOK, Chosen(file) # None, NEW i, NEW m
    PROVE  LET new == Played(file, i, m) IN
           /\ Complete(new)
           /\ \A n \in Sectors : /\ new[n].number = saves + 1 /\ new[n].good
                                 /\ new[n].counter = (Counter(file[Chosen(file)]) + 1) % Wrap
<1> DEFINE from == file[Chosen(file)]
           new == Played(file, i, m)
<1>1. Complete(from)
    BY ChosenSlot
<1>2. \A n \in Sectors : from[n].counter = Counter(from)
    BY <1>1, CompleteSlot DEF Counter
<1>3. ASSUME NEW n \in Sectors
      PROVE  /\ new[n].section = from[(n + 1) % 4].section /\ new[n].good
             /\ new[n].counter = (from[n].counter + 1) % Wrap /\ new[n].number = saves + 1
    BY DEF Played, Sector
<1> HIDE DEF new, from
<1>4. {new[n].section : n \in Sectors} = {from[n].section : n \in Sectors}
  <2>1. (0 + 1) % 4 = 1 /\ (1 + 1) % 4 = 2 /\ (2 + 1) % 4 = 3 /\ (3 + 1) % 4 = 0
      OBVIOUS
  <2>2. Sectors = {0, 1, 2, 3}
      BY DEF Sectors
  <2>3. /\ new[0].section = from[1].section /\ new[1].section = from[2].section
        /\ new[2].section = from[3].section /\ new[3].section = from[0].section
      BY <1>3, <2>1, <2>2
  <2> QED
      BY <2>2, <2>3
<1>5. \A n \in Sectors : new[n].good /\ new[n].counter = (Counter(from) + 1) % Wrap
    BY <1>2, <1>3
<1>6. {new[n].section : n \in Sectors} = Sections
    BY <1>1, <1>4 DEF Complete
<1>7. Complete(new)
    BY <1>5, <1>6, MakeComplete
<1> QED
    BY <1>3, <1>5, <1>7 DEF new, from

\* A save that loses power leaves the slot it was writing neither whole nor complete,
\* or with the sectors it had.
LEMMA InterruptedSlot ==
    ASSUME TypeOK, NumberInv, LastInv, faults = 0, Chosen(file) # None,
           NEW i, NEW m, NEW done \in 0 .. 3, NEW within \in BOOLEAN,
           NEW to, to = 1 - Chosen(file),
           NEW slot, slot = Interrupted(file[to], Played(file, i, m), done, within)
    PROVE  /\ IsWhole(slot) <=> Complete(slot)
           /\ IsWhole(slot) => \A n \in Sectors : /\ slot[n].number = file[to][n].number
                                                 /\ slot[n].counter = file[to][n].counter
           /\ IsWhole(slot) => IsWhole(file[to])
<1> DEFINE old == file[to]
           new == Played(file, i, m)
           from == Chosen(file)
<1>1. /\ from \in Slots /\ to \in Slots /\ from # to /\ Slots = {from, to}
      /\ Complete(file[from])
    BY ChosenSlot DEF Slots
<1>2. \A n \in Sectors : /\ new[n].number = saves + 1 /\ new[n].good
                         /\ new[n].counter = (Counter(file[from]) + 1) % Wrap
    BY PlayedComplete
<1>3. \A n \in Sectors : IsSector(old[n]) /\ old[n].number <= saves
    BY <1>1 DEF TypeOK, IsFile, NumberInv
<1>4. ASSUME NEW n \in Sectors
      PROVE  slot[n] = IF n < done THEN new[n]
                       ELSE IF n = done THEN [old[n] EXCEPT !.good = @ /\ ~within] ELSE old[n]
  <2> HIDE DEF new, old
  <2>1. slot = Interrupted(old, new, done, within)
      BY DEF new, old
  <2> QED
      BY <2>1 DEF Interrupted, Sectors
<1> HIDE DEF new, old
<1>5. ASSUME NEW n \in Sectors, ~(n < done)
      PROVE  /\ slot[n].section = old[n].section /\ slot[n].counter = old[n].counter
             /\ slot[n].number = old[n].number
             /\ slot[n].good => old[n].good
             /\ ~(n = done /\ within) => slot[n].good = old[n].good
             /\ n = done /\ within => ~slot[n].good
  <2>1. CASE n = done
    <3>1. slot[n] = [old[n] EXCEPT !.good = @ /\ ~within]
        BY <1>4, <1>5, <2>1
    <3> QED
        BY <1>3, <2>1, <3>1 DEF IsSector
  <2>2. CASE n # done
      BY <1>4, <1>5, <2>2
  <2> QED
      BY <2>1, <2>2
<1>6. 0 \in Sectors /\ 3 \in Sectors /\ done \in Sectors
    BY DEF Sectors
<1>7. CASE done = 0
  <2>1. \A n \in Sectors : ~(n < done)
      BY <1>7 DEF Sectors
  <2>2. CASE within
    <3>1. ~slot[done].good
        BY <1>5, <1>6, <2>1, <2>2
    <3> QED
        BY <1>6, <3>1 DEF IsWhole, Complete
  <2>3. CASE ~within
    <3>1. \A n \in Sectors : /\ slot[n].section = old[n].section
                             /\ slot[n].counter = old[n].counter
                             /\ slot[n].number = old[n].number
                             /\ slot[n].good <=> old[n].good
        BY <1>5, <2>1, <2>3
    <3>2. (IsWhole(slot) <=> IsWhole(old)) /\ (Complete(slot) <=> Complete(old))
        BY <3>1, SameSlot
    <3>3. IsWhole(old) <=> Complete(old)
        BY <1>1 DEF LastInv, SlotInv, Whole, old
    <3> QED
        BY <3>1, <3>2, <3>3 DEF old
  <2> QED
      BY <2>2, <2>3
<1>8. CASE done # 0
  <2>1. /\ 0 < done /\ ~(3 < done)
        /\ slot[0] = new[0] /\ slot[3].number = old[3].number
        /\ slot[3].counter = old[3].counter /\ (slot[3].good => old[3].good)
    <3>1. 0 < done /\ ~(3 < done)
        BY <1>8
    <3> QED
        BY <3>1, <1>4, <1>5, <1>6
  <2>2. ~IsWhole(slot)
    <3>1. slot[0].number = saves + 1 /\ slot[3].number <= saves /\ slot[3].number \in Nat
      <4>1. IsSector(old[3]) /\ old[3].number <= saves
          BY <1>3, <1>6
      <4>2. old[3].number \in Nat
          BY <4>1 DEF IsSector
      <4> QED
          BY <1>2, <1>6, <2>1, <4>1, <4>2
    <3>2. slot[3].number # slot[0].number
        BY <3>1 DEF TypeOK
    <3> QED
        BY <1>6, <3>2, WholeSlot
  <2>3. from \in Whole
      BY <1>1 DEF LastInv, SlotInv
  <2>4. TakesLastWhole
      BY LastChosen DEF LastInv
  <2>5. to \in Whole \/ \A n \in Sectors : ~old[n].good
    <3>1. PICK p \in Whole : 1 - p \in Whole \/ \A n \in Sectors : ~file[1 - p][n].good
        BY DEF LastInv, Undamaged
    <3>2. p \in Slots /\ 1 - from = to /\ 1 - to = from
        BY <1>1, <3>1 DEF Whole, Slots
    <3>3. p = from \/ p = to
        BY <1>1, <3>2
    <3> QED
        BY <3>1, <3>2, <3>3 DEF old
  <2>6. CASE \A n \in Sectors : ~old[n].good
    <3>1. ~slot[3].good
        BY <1>6, <2>1, <2>6
    <3> QED
        BY <1>6, <2>2, <3>1 DEF Complete
  <2>7. CASE to \in Whole
    <3>1. from = Last /\ file[to][0].number <= file[from][0].number
      <4>1. from = Last
          BY <2>7, <2>4 DEF TakesLastWhole
      <4>2. \E p \in Whole : \A q \in Whole : file[q][0].number <= file[p][0].number
        <5>1. \A p \in Slots : file[p][0].number \in Nat
          <6> TAKE p \in Slots
          <6>1. IsSector(file[p][0])
              BY <1>6 DEF TypeOK, IsFile
          <6> QED
              BY <6>1 DEF IsSector
        <5>2. Whole = {from, to}
            BY <1>1, <2>3, <2>7 DEF Whole
        <5>3. file[from][0].number <= file[to][0].number \/ file[to][0].number <= file[from][0].number
            BY <1>1, <5>1
        <5> QED
            BY <1>1, <5>1, <5>2, <5>3
      <4>3. \A q \in Whole : file[q][0].number <= file[Last][0].number
          BY <4>2 DEF Last
      <4> QED
          BY <2>7, <4>1, <4>3
    <3>2. ~(file[from][0].number < file[to][0].number)
      <4>1. IsSector(file[from][0]) /\ IsSector(file[to][0])
          BY <1>1, <1>6 DEF TypeOK, IsFile
      <4> QED
          BY <3>1, <4>1 DEF IsSector
    <3>3. Counter(file[from]) = (Counter(file[to]) + 1) % Wrap
        BY <1>1, <2>3, <2>7, <3>2 DEF LastInv, PairInv
    <3>4. Counter(file[to]) \in 0 .. Wrap - 1
        BY <1>3, <1>6 DEF Counter, old, IsSector
    <3>5. slot[0].counter # Counter(file[to])
        BY <1>2, <1>6, <2>1, <3>3, <3>4, Twice
    <3>6. Complete(file[to])
        BY <1>1, <2>7 DEF LastInv, SlotInv
    <3>7. slot[3].counter = Counter(file[to])
        BY <1>6, <2>1, <3>6, CompleteSlot DEF Counter, old
    <3>8. ~Complete(slot)
        BY <1>6, <3>5, <3>7, CompleteSlot
    <3> QED
        BY <2>2, <3>8
  <2> QED
      BY <2>5, <2>6, <2>7
<1> QED
    BY <1>7, <1>8

\* A sector may lose its checksum and is a sector still.
LEMMA Dimmed ==
    ASSUME NEW x, IsSector(x)
    PROVE  /\ IsSector([x EXCEPT !.good = FALSE])
           /\ \A b \in BOOLEAN : IsSector([x EXCEPT !.good = @ /\ ~b])
<1>1. ASSUME NEW b \in BOOLEAN
      PROVE  IsSector([x EXCEPT !.good = b])
  <2>1. [x EXCEPT !.good = b] = [section |-> x.section, counter |-> x.counter,
                                 payload |-> x.payload, good |-> b, number |-> x.number]
      BY DEF IsSector
  <2> QED
      BY <2>1 DEF IsSector
<1>2. FALSE \in BOOLEAN /\ \A b \in BOOLEAN : (x.good /\ ~b) \in BOOLEAN
    OBVIOUS
<1>3. \A b \in BOOLEAN : IsSector([x EXCEPT !.good = x.good /\ ~b])
    BY <1>1, <1>2
<1> QED
    BY <1>1, <1>3

\* A save of the game, complete or not.
LEMMA GameSavesInv ==
    ASSUME IInv, NEW play \in Plays, NEW done \in 0 .. 4, NEW within \in BOOLEAN,
           GameSaves(play[1], play[2], done, within)
    PROVE  IInv'
<1> DEFINE to == 1 - Chosen(file)
           new == Played(file, play[1], play[2])
           slot == Interrupted(file[to], new, done, within)
<1>1. TypeOK /\ saves < MaxSaves /\ Chosen(file) # None /\ Chosen(file) \in Slots
    BY ChosenSlot DEF IInv, GameSaves
<1>2. to \in Slots /\ play[1] \in Boxes /\ play[2] \in Mons \cup {None}
    BY <1>1 DEF Slots, Boxes
<1>3. \A p \in Slots : file[p] = [n \in Sectors |-> file[p][n]]
    BY <1>1 DEF TypeOK, IsFile
<1>4. file' = [file EXCEPT ![to] = slot]
    BY DEF GameSaves
<1>5. ASSUME NEW n \in Sectors
      PROVE  IsSector(slot[n])
  <2>1. IsSector(new[n]) /\ IsSector(file[to][n])
      BY <1>1, <1>2, PlayedTyped DEF TypeOK, IsFile
  <2>2. IsSector([file[to][n] EXCEPT !.good = @ /\ ~within])
      BY <2>1, Dimmed
  <2> HIDE DEF new, to
  <2> QED
      BY <2>1, <2>2 DEF Interrupted
<1>6. \A p \in Slots : file'[p] = IF p = to THEN slot ELSE file[p]
    BY <1>1, <1>2, <1>4 DEF TypeOK, IsFile
<1>7. file' = [p \in Slots |-> file'[p]]
    BY <1>1, <1>4 DEF TypeOK, IsFile
<1>8. IsFile(file')
  <2>1. slot = [n \in Sectors |-> slot[n]]
      BY DEF Interrupted
  <2> HIDE DEF slot, to
  <2>2. \A p \in Slots : file'[p] = [n \in Sectors |-> file'[p][n]]
      BY <1>3, <1>6, <2>1
  <2>3. \A p \in Slots, n \in Sectors : IsSector(file'[p][n])
      BY <1>1, <1>5, <1>6 DEF TypeOK, IsFile
  <2>4. file' = [p \in Slots |-> [n \in Sectors |-> file'[p][n]]]
      BY <1>7, <2>2
  <2> QED
      BY <2>3, <2>4 DEF IsFile
<1>9. /\ saves' \in 0 .. MaxSaves /\ faults' \in 0 .. MaxFaults
      /\ trade' = None
  <2>1. saves \in 0 .. MaxSaves /\ faults \in 0 .. MaxFaults
      BY <1>1 DEF TypeOK
  <2>2. saves' = saves + 1 /\ trade' = None /\ (done < 4 => faults < MaxFaults)
      BY DEF GameSaves
  <2>3. faults' = faults \/ (faults' = faults + 1 /\ faults < MaxFaults)
      BY <2>2 DEF GameSaves
  <2> QED
      BY <1>1, <2>1, <2>2, <2>3
<1>10. file'[to] = slot /\ file'[Chosen(file)] = file[Chosen(file)]
    BY <1>1, <1>2, <1>6 DEF Slots
<1>11. saves' = saves + 1
    BY DEF GameSaves
<1>12. NumberInv /\ LastInv
    BY DEF IInv
<1>13. CASE done = 4
  <2>1. \A n \in Sectors : slot[n] = new[n]
      BY <1>13 DEF Interrupted, Sectors
  <2>2. /\ Complete(new)
        /\ \A n \in Sectors : /\ new[n].number = saves + 1 /\ new[n].good
                              /\ new[n].counter = (Counter(file[Chosen(file)]) + 1) % Wrap
      BY <1>1, PlayedComplete
  <2> HIDE DEF slot, new
  <2>3. Complete(slot)
      BY <2>1, <2>2, SameSlot
  <2>4. /\ \A n \in Sectors : slot[n].number = saves + 1
        /\ Counter(slot) = (Counter(file[Chosen(file)]) + 1) % Wrap
      BY <2>1, <2>2 DEF Counter, Sectors
  <2>5. faults' = faults
      BY <1>13 DEF GameSaves
  <2>6. faults <= 1 => SlotInv
      BY <1>12 DEF LastInv
  <2>7. NumberInv' /\ LastInv'
    <3>1. PICK from : from = Chosen(file)
        OBVIOUS
    <3> QED
        BY <1>1, <1>10, <1>11, <1>12, <2>3, <2>4, <2>5, <2>6, <3>1, NewSave
  <2> QED
      BY <1>8, <1>9, <2>7 DEF IInv, TypeOK, TradesOnly, OldIsFallback
<1>14. CASE done \in 0 .. 3
  <2>1. faults' = faults + 1 /\ faults \in Nat /\ saves \in Nat
      BY <1>1, <1>14 DEF GameSaves, TypeOK
  <2>2. NumberInv'
    <3>1. \A n \in Sectors : slot[n].number <= saves + 1
      <4> TAKE n \in Sectors
      <4>1. new[n].number = saves + 1 /\ IsSector(file[to][n]) /\ file[to][n].number <= saves
        <5>1. new[n].number = saves + 1
            BY <1>1, PlayedComplete
        <5>2. IsSector(file[to][n]) /\ file[to][n].number <= saves
            BY <1>1, <1>2, <1>12 DEF TypeOK, IsFile, NumberInv
        <5> QED
            BY <5>1, <5>2
      <4>2. [file[to][n] EXCEPT !.good = @ /\ ~within].number = file[to][n].number
          BY <4>1 DEF IsSector
      <4>3. file[to][n].number \in Nat
          BY <4>1 DEF IsSector
      <4> HIDE DEF new, to
      <4> QED
          BY <2>1, <4>1, <4>2, <4>3 DEF Interrupted
    <3>2. \A n \in Sectors : file[Chosen(file)][n].number <= saves + 1
      <4> TAKE n \in Sectors
      <4>1. IsSector(file[Chosen(file)][n]) /\ file[Chosen(file)][n].number <= saves
          BY <1>1, <1>12 DEF TypeOK, IsFile, NumberInv
      <4> QED
          BY <2>1, <4>1 DEF IsSector
    <3> QED
        BY <1>6, <1>1, <1>10, <1>11, <3>1, <3>2 DEF NumberInv, Slots
  <2>3. ASSUME faults = 0
        PROVE  SlotInv' /\ PairInv'
    <3>1. /\ IsWhole(slot) <=> Complete(slot)
          /\ IsWhole(slot) => \A n \in Sectors : /\ slot[n].number = file[to][n].number
                                                /\ slot[n].counter = file[to][n].counter
          /\ IsWhole(slot) => IsWhole(file[to])
        BY <1>1, <1>12, <1>14, <2>3, InterruptedSlot
    <3> HIDE DEF slot, new
    <3>2. SlotInv /\ PairInv
        BY <1>12, <2>3 DEF LastInv
    <3>3. /\ \A p \in Slots : p \in Whole' <=> IsWhole(file'[p])
          /\ \A p \in Slots : p \in Whole <=> IsWhole(file[p])
          /\ Whole' \subseteq Slots /\ Whole \subseteq Slots
        BY DEF Whole
    <3>4. Slots = {Chosen(file), to}
        BY <1>1 DEF Slots
    <3>5. SlotInv'
        BY <1>10, <3>1, <3>2, <3>3, <3>4 DEF SlotInv
    <3>6. \A p \in Whole' : /\ p \in Whole /\ file'[p][0].number = file[p][0].number
                            /\ Counter(file'[p]) = Counter(file[p])
        BY <1>10, <3>1, <3>3, <3>4 DEF Counter, Sectors
    <3>7. PairInv'
        BY <3>2, <3>6 DEF PairInv
    <3> QED
        BY <3>5, <3>7
  <2>4. LastInv'
      BY <2>1, <2>3 DEF LastInv
  <2> QED
      BY <1>8, <1>9, <2>2, <2>4 DEF IInv, TypeOK, TradesOnly, OldIsFallback
<1> QED
    BY <1>13, <1>14

\* A sector goes bad.
LEMMA GoesBadInv ==
    ASSUME IInv, NEW p \in Slots, NEW n \in Sectors, GoesBad(p, n)
    PROVE  IInv'
<1>1. TypeOK /\ file' = [file EXCEPT ![p][n].good = FALSE]
    BY DEF IInv, GoesBad
<1>2. /\ file = [q \in Slots |-> [k \in Sectors |-> file[q][k]]]
      /\ \A q \in Slots, k \in Sectors : IsSector(file[q][k])
    BY <1>1 DEF TypeOK, IsFile
<1>3. \A q \in Slots : file[q] = [k \in Sectors |-> file[q][k]]
    BY <1>2
<1>4. IsSector([file[p][n] EXCEPT !.good = FALSE])
    BY <1>2, Dimmed
<1>5. file' = [q \in Slots |-> [k \in Sectors |->
                 IF q = p /\ k = n THEN [file[p][n] EXCEPT !.good = FALSE] ELSE file[q][k]]]
    BY <1>1, <1>2
<1>6. IsFile(file')
    BY <1>2, <1>4, <1>5 DEF IsFile
<1>7. saves' \in 0 .. MaxSaves /\ faults' \in 0 .. MaxFaults /\ trade' = None
    BY <1>1 DEF GoesBad, TypeOK
<1>8. \A q \in Slots, k \in Sectors :
          /\ file'[q][k].number = file[q][k].number /\ file'[q][k].counter = file[q][k].counter
          /\ q # p => file'[q] = file[q]
  <2>1. \A q \in Slots : q # p => file'[q] = file[q]
      BY <1>1, <1>2
  <2>2. \A q \in Slots, k \in Sectors :
            file'[q][k] = IF q = p /\ k = n THEN [file[p][n] EXCEPT !.good = FALSE] ELSE file[q][k]
      BY <1>5
  <2>3. /\ [file[p][n] EXCEPT !.good = FALSE].number = file[p][n].number
        /\ [file[p][n] EXCEPT !.good = FALSE].counter = file[p][n].counter
      BY <1>2 DEF IsSector
  <2> QED
      BY <2>1, <2>2, <2>3
<1>9. ~IsWhole(file'[p]) /\ ~Complete(file'[p])
  <2>1. file'[p][n] = [file[p][n] EXCEPT !.good = FALSE]
      BY <1>5
  <2>2. ~[file[p][n] EXCEPT !.good = FALSE].good
      BY <1>2 DEF IsSector
  <2>3. ~file'[p][n].good
      BY <2>1, <2>2
  <2> QED
      BY <2>3 DEF IsWhole, Complete
<1>10. NumberInv'
    BY <1>8 DEF IInv, NumberInv, GoesBad
<1>11. LastInv'
  <2>1. faults' = faults + 1 /\ faults \in Nat
      BY <1>1 DEF GoesBad, TypeOK
  <2>2. ASSUME faults = 0
        PROVE  SlotInv' /\ PairInv'
    <3>1. SlotInv
        BY <2>2 DEF IInv, LastInv
    <3>2. \A q \in Whole' : q \in Slots /\ q # p
        BY <1>9 DEF Whole
    <3>3. SlotInv'
        BY <1>8, <1>9, <3>1 DEF SlotInv, Whole, Sectors
    <3>4. PairInv'
        BY <3>2 DEF PairInv, Slots
    <3> QED
        BY <3>3, <3>4
  <2> QED
      BY <2>1, <2>2 DEF LastInv
<1> QED
    BY <1>6, <1>7, <1>10, <1>11 DEF IInv, TypeOK, TradesOnly, OldIsFallback

LEMMA StepInv == IInv /\ [Next]_vars => IInv'
<1> SUFFICES ASSUME IInv, [Next]_vars PROVE IInv'
    OBVIOUS
<1>1. CASE \E i \in Boxes, m \in Mons : Replace(i, m)
    BY <1>1, ReplaceInv
<1>2. CASE \E play \in Plays, done \in 0 .. 4, within \in BOOLEAN :
               GameSaves(play[1], play[2], done, within)
    BY <1>2, GameSavesInv
<1>3. CASE \E p \in Slots, n \in Sectors : GoesBad(p, n)
    BY <1>3, GoesBadInv
<1>4. CASE UNCHANGED vars
    BY <1>4 DEF vars, IInv, TypeOK, NumberInv, LastInv, SlotInv, PairInv, Undamaged, Whole,
                TradesOnly, OldIsFallback
<1> QED
    BY <1>1, <1>2, <1>3, <1>4 DEF Next

\* The invariant holds throughout.
THEOREM Invariance == Spec => []IInv
<1> QED
    BY InitInv, StepInv, PTL DEF Spec

-----------------------------------------------------------------------------
(* The theorems *)

\* Both slots always hold well-formed sectors, the payload of each the one its
\* section has.
THEOREM Typed == Spec => []TypeOK
<1>1. IInv => TypeOK
    BY DEF IInv
<1> QED
    BY <1>1, Invariance, PTL

\* Until a second fault, be it a save that loses power or a sector that goes bad, Save()
\* takes the last save that was written completely, however often the counters wrap.
THEOREM LastTaken == Spec => [](faults <= 1 => TakesLastWhole)
<1>1. IInv => (faults <= 1 => TakesLastWhole)
    BY LastChosen DEF IInv, LastInv
<1> QED
    BY <1>1, Invariance, PTL

\* After Save.replace() the file loads as the same game with that one trade made:
\* from any game, any counter, wrapped or not, and any faults before.
THEOREM ExactlyTheTrade == Spec => []TradesOnly
<1>1. IInv => TradesOnly
    BY DEF IInv
<1> QED
    BY <1>1, Invariance, PTL

\* The slot Save.replace() leaves alone still loads as the game before the trade.
THEOREM OldSlotKept == Spec => []OldIsFallback
<1>1. IInv => OldIsFallback
    BY DEF IInv
<1> QED
    BY <1>1, Invariance, PTL
=============================================================================
