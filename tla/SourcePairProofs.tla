--------------------------- MODULE SourcePairProofs ---------------------------
(***************************************************************************)
(* Two 3DS bridges release only saves that both can take (BothValid), take *)
(* back nothing they decided, and, up to the first late acknowledgement,   *)
(* pair their trades one to one and clear the room only when both have     *)
(* applied: for any trades, saves and number of crashes and cancellations. *)
(*                                                                         *)
(* Every action but Learn is a step of one side, which changes its records *)
(* and may publish a snapshot (SideStep).  ValidFrame, and the lemmas from *)
(* RecordFrame to PartnerFrame, say what such a step has to respect for    *)
(* the invariants to hold after it; there is one lemma for each action     *)
(* that shows that it does.                                                *)
(***************************************************************************)
EXTENDS SourcePair, SequenceTheorems, TLAPS

USE PairAssumption

LEMMA Two ==
    \A s \in Sides : /\ Other(s) \in Sides /\ Other(s) # s /\ Other(Other(s)) = s
                     /\ Sides = {s, Other(s)}
BY DEF Other, Sides

\* A pair is the same from both sides, and each side's incoming offer is the other's.
LEMMA PairFacts ==
    ASSUME NEW s \in Sides
    PROVE  /\ \A m, n \in Offers :
                 /\ Pair(s, m, n) \in Offers \X Offers /\ Pair(s, m, n) # None
                 /\ Pair(Other(s), n, m) = Pair(s, m, n)
                 /\ Incoming(s, Pair(s, m, n)) = n /\ Incoming(Other(s), Pair(s, m, n)) = m
           /\ \A p, q \in Offers \X Offers :
                 /\ Incoming(s, p) \in Offers
                 /\ Incoming(s, p) = Incoming(s, q) /\ Incoming(Other(s), p) = Incoming(Other(s), q)
                       => p = q
<1>1. \A m, n \in Offers : /\ <<m, n>>[1] = m /\ <<m, n>>[2] = n
                           /\ <<m, n>> \in Offers \X Offers /\ <<n, m>> \in Offers \X Offers
    OBVIOUS
<1>2. None \notin Offers \X Offers
    BY DEF PairAssumption
<1>3. \A p \in Offers \X Offers : p = <<p[1], p[2]>> /\ p[1] \in Offers /\ p[2] \in Offers
    OBVIOUS
<1>4. (s = "a" /\ Other(s) = "b") \/ (s = "b" /\ Other(s) = "a")
    BY DEF Sides, Other
<1>5. CASE s = "a"
    BY <1>1, <1>2, <1>3, <1>4, <1>5 DEF Pair, Incoming
<1>6. CASE s = "b"
    BY <1>1, <1>2, <1>3, <1>4, <1>6 DEF Pair, Incoming
<1> QED
    BY <1>4, <1>5, <1>6

LEMMA OfferFacts ==
    ASSUME NEW s \in Sides
    PROVE  /\ \A t \in Trades : Offer(s, t) \in Offers /\ Offer(s, t) # None
           /\ \A t, u \in Trades : Offer(s, t) = Offer(s, u) => t = u
           /\ None \notin Trades /\ None \notin Offers
BY DEF Offer, Offers, PairAssumption

-----------------------------------------------------------------------------
(* The log *)

LEMMA LogFacts ==
    ASSUME TypeOK, NEW s \in Sides
    PROVE  /\ log[s] \in Seq(Snapshot) /\ Len(log[s]) \in Nat \ {0}
           /\ History(s) \subseteq Snapshot
           /\ Mine(s) \in History(s) /\ Theirs(s) \in History(Other(s))
           /\ \A x \in History(s) : /\ Follows(s, x, x) /\ Follows(s, x, Mine(s))
                                    /\ Follows(s, Theirs(Other(s)), x)
<1>1. \A r \in Sides : log[r] \in Seq(Snapshot) /\ Len(log[r]) \in Nat \ {0}
    BY DEF TypeOK
<1>2. \A r \in Sides : /\ Head(log[r]) = log[r][1]
                       /\ 1 \in 1 .. Len(log[r]) /\ Len(log[r]) \in 1 .. Len(log[r])
    BY <1>1
<1>3. History(s) \subseteq Snapshot
    BY <1>1 DEF History
<1>4. Mine(s) = log[s][Len(log[s])] /\ Theirs(s) = log[Other(s)][1]
      /\ Theirs(Other(s)) = log[s][1]
    BY <1>2, Two DEF Mine, Theirs, L!Current, L!Held
<1>5. Mine(s) \in History(s) /\ Theirs(s) \in History(Other(s))
    BY <1>2, <1>4, Two DEF History
<1>6. ASSUME NEW x \in History(s)
      PROVE  /\ Follows(s, x, x) /\ Follows(s, x, Mine(s))
             /\ Follows(s, Theirs(Other(s)), x)
  <2>1. PICK i \in 1 .. Len(log[s]) : x = log[s][i]
      BY DEF History
  <2>2. i \in i .. Len(log[s]) /\ Len(log[s]) \in i .. Len(log[s])
        /\ i \in 1 .. Len(log[s]) /\ 1 \in 1 .. Len(log[s])
      BY <1>1, <2>1
  <2> QED
      BY <1>4, <2>1, <2>2 DEF Follows
<1> QED
    BY <1>1, <1>3, <1>5, <1>6

\* The log after a step that may publish a snapshot of s.
Published(s) ==
    /\ log' \in [Sides -> Seq(Snapshot) \ {<<>>}]
    /\ Mine(s)' \in Snapshot
    /\ History(s)' \subseteq History(s) \cup {Mine(s)'}
    /\ \A x, y : Follows(s, x, y)' => Follows(s, x, y) \/ y = Mine(s)'
    /\ \A r \in Sides \ {s} : /\ Mine(r)' = Mine(r) /\ History(r)' = History(r)
                              /\ \A x, y : Follows(r, x, y)' <=> Follows(r, x, y)
    /\ \A r \in Sides : Theirs(r)' = Theirs(r)

LEMMA QuietFacts ==
    ASSUME TypeOK, NEW s \in Sides, UNCHANGED log
    PROVE  Published(s) /\ \A r \in Sides : Mine(r)' = Mine(r)
<1>1. \A r \in Sides : /\ Mine(r)' = Mine(r) /\ History(r)' = History(r)
                       /\ Theirs(r)' = Theirs(r)
    BY DEF Mine, Theirs, History, L!Current, L!Held
<1>2. log' \in [Sides -> Seq(Snapshot) \ {<<>>}]
    BY DEF TypeOK
<1>3. Mine(s) \in Snapshot
    BY LogFacts
<1>4. \A r \in Sides : \A x, y : Follows(r, x, y)' <=> Follows(r, x, y)
    BY DEF Follows
<1>5. Mine(s)' \in Snapshot
    BY <1>1, <1>3
<1> QED
    BY <1>1, <1>2, <1>4, <1>5 DEF Published

LEMMA PutFacts ==
    ASSUME TypeOK, NEW s \in Sides, NEW snapshot \in Snapshot, Put(s, snapshot)
    PROVE  Published(s) /\ Mine(s)' = snapshot
<1>1. CASE snapshot = Mine(s)
  <2>1. UNCHANGED log
      BY <1>1 DEF Put
  <2> QED
      BY <1>1, <2>1, QuietFacts
<1>2. CASE snapshot # Mine(s)
  <2>1. log' = [log EXCEPT ![s] = Append(@, snapshot)]
      BY <1>2 DEF Put, L!Publish
  <2>2. \A r \in Sides : log[r] \in Seq(Snapshot) /\ log[r] # <<>> /\ Len(log[r]) \in Nat \ {0}
      BY DEF TypeOK
  <2>3. /\ Append(log[s], snapshot) \in Seq(Snapshot) /\ Append(log[s], snapshot) # <<>>
        /\ Len(Append(log[s], snapshot)) = Len(log[s]) + 1
        /\ Append(log[s], snapshot)[Len(log[s]) + 1] = snapshot
        /\ \A i \in 1 .. Len(log[s]) : Append(log[s], snapshot)[i] = log[s][i]
      BY <2>2
  <2>4. log'[s] = Append(log[s], snapshot) /\ \A r \in Sides \ {s} : log'[r] = log[r]
      BY <2>1 DEF TypeOK
  <2>5. log' \in [Sides -> Seq(Snapshot) \ {<<>>}]
      BY <2>1, <2>3 DEF TypeOK
  <2>6. Mine(s)' = snapshot
      BY <2>3, <2>4 DEF Mine, L!Current
  <2>7. \A i \in 1 .. Len(log'[s]) :
            \/ i \in 1 .. Len(log[s]) /\ log'[s][i] = log[s][i]
            \/ i = Len(log[s]) + 1 /\ log'[s][i] = snapshot
      BY <2>2, <2>3, <2>4
  <2>8. History(s)' \subseteq History(s) \cup {snapshot}
      BY <2>7 DEF History
  <2>9. \A x, y : Follows(s, x, y)' => Follows(s, x, y) \/ y = snapshot
    <3> SUFFICES ASSUME NEW x, NEW y, Follows(s, x, y)', y # snapshot
                 PROVE  Follows(s, x, y)
        OBVIOUS
    <3>a. PICK i \in 1 .. Len(log'[s]) : \E j \in i .. Len(log'[s]) : x = log'[s][i] /\ y = log'[s][j]
        BY DEF Follows
    <3>1. PICK j \in i .. Len(log'[s]) : x = log'[s][i] /\ y = log'[s][j]
        BY <3>a
    <3>2. j \in 1 .. Len(log'[s]) /\ i <= j /\ i \in Nat /\ j \in Nat
        BY <2>3, <2>4, <2>2
    <3>3. j \in 1 .. Len(log[s]) /\ y = log[s][j]
        BY <2>7, <3>1, <3>2
    <3>4. i \in 1 .. Len(log[s]) /\ j \in i .. Len(log[s])
        BY <2>2, <3>2, <3>3
    <3>5. x = log[s][i]
        BY <2>3, <2>4, <3>1, <3>4
    <3> QED
        BY <3>3, <3>4, <3>5 DEF Follows
  <2>10. \A r \in Sides \ {s} : /\ Mine(r)' = Mine(r) /\ History(r)' = History(r)
                                /\ \A x, y : Follows(r, x, y)' <=> Follows(r, x, y)
      BY <2>4 DEF Mine, History, Follows, L!Current
  <2>11. \A r \in Sides : Head(log'[r]) = Head(log[r])
      BY <2>2, <2>3, <2>4
  <2>12. \A r \in Sides : Theirs(r)' = Theirs(r)
      BY <2>11, Two DEF Theirs, L!Held, Other
  <2> QED
      BY <2>5, <2>6, <2>8, <2>9, <2>10, <2>12 DEF Published
<1> QED
    BY <1>1, <1>2

\* A part of a sequence up to its end.
LEMMA SuffixFacts ==
    ASSUME NEW S, NEW q \in Seq(S), NEW t, NEW k \in 2 .. Len(q), t = SubSeq(q, k, Len(q))
    PROVE  /\ t \in Seq(S) /\ Len(t) \in Nat \ {0}
           /\ Len(t) + k - 1 = Len(q)
           /\ \A i \in 1 .. Len(t) : t[i] = q[i + k - 1]
<1>1. Len(q) \in Nat /\ \A i \in k .. Len(q) : q[i] \in S
    OBVIOUS
<1>2. /\ t \in Seq(S)
      /\ Len(t) = Len(q) - k + 1
      /\ \A i \in 1 .. Len(q) - k + 1 : t[i] = q[k + i - 1]
    BY <1>1, SubSeqProperties
<1> QED
    BY <1>1, <1>2

\* What the other side has taken in came after what it held.
LEMMA LearnFacts ==
    ASSUME TypeOK, NEW s \in Sides, L!Learn(s)
    PROVE  /\ log' \in [Sides -> Seq(Snapshot) \ {<<>>}]
           /\ \A r \in Sides : /\ Mine(r)' = Mine(r) /\ History(r)' \subseteq History(r)
                               /\ \A x, y : Follows(r, x, y)' => Follows(r, x, y)
           /\ Theirs(s)' = Theirs(s)
           /\ Follows(s, Theirs(Other(s)), Theirs(Other(s))')
<1>1. PICK k \in 2 .. Len(log[s]) : log' = [log EXCEPT ![s] = SubSeq(@, k, Len(@))]
    BY DEF L!Learn, L!LearnAt
<1>2. \A r \in Sides : log[r] \in Seq(Snapshot) /\ Len(log[r]) \in Nat \ {0}
    BY DEF TypeOK
<1>3. log'[s] = SubSeq(log[s], k, Len(log[s])) /\ \A r \in Sides \ {s} : log'[r] = log[r]
    BY <1>1 DEF TypeOK
<1> DEFINE q == log[s]
           t == log'[s]
<1>4. /\ t \in Seq(Snapshot) /\ Len(t) \in Nat \ {0}
      /\ Len(t) + k - 1 = Len(q)
      /\ \A i \in 1 .. Len(t) : t[i] = q[i + k - 1]
  <2>1. q \in Seq(Snapshot) /\ k \in 2 .. Len(q) /\ t = SubSeq(q, k, Len(q))
      BY <1>2, <1>3
  <2> HIDE DEF q, t
  <2>2. t \in Seq(Snapshot) /\ Len(t) \in Nat \ {0} /\ Len(t) + k - 1 = Len(q)
      BY <2>1, SuffixFacts
  <2>3. \A i \in 1 .. Len(t) : t[i] = q[i + k - 1]
      BY <2>1, SuffixFacts
  <2> QED
      BY <2>2, <2>3
<1> HIDE DEF q, t
<1>5. \A i \in 1 .. Len(t) : i + k - 1 \in 1 .. Len(q) /\ t[i] = q[i + k - 1]
    BY <1>2, <1>4
<1>6. log' \in [Sides -> Seq(Snapshot) \ {<<>>}]
  <2>1. log'[s] # <<>> /\ log'[s] \in Seq(Snapshot)
      BY <1>4 DEF t
  <2> QED
      BY <2>1, <1>1, <1>3 DEF TypeOK
<1>7. t[Len(t)] = q[Len(q)] /\ Head(t) = q[k]
  <2>1. Len(t) \in 1 .. Len(t) /\ 1 \in 1 .. Len(t) /\ Head(t) = t[1] /\ 1 + k - 1 = k
      BY <1>4
  <2> QED
      BY <1>4, <2>1
<1>8. Mine(s)' = Mine(s)
    BY <1>7 DEF Mine, L!Current, q, t
<1>9. History(s)' \subseteq History(s)
    BY <1>5 DEF History, q, t
<1>10. \A x, y : Follows(s, x, y)' => Follows(s, x, y)
  <2> SUFFICES ASSUME NEW x, NEW y, Follows(s, x, y)'
               PROVE  Follows(s, x, y)
      OBVIOUS
  <2>1. PICK i \in 1 .. Len(t) : \E j \in i .. Len(t) : x = t[i] /\ y = t[j]
      BY DEF Follows, t
  <2>2. PICK j \in i .. Len(t) : x = t[i] /\ y = t[j]
      BY <2>1
  <2>3. j \in 1 .. Len(t)
      BY <1>4
  <2>4. x = q[i + k - 1] /\ y = q[j + k - 1] /\ i + k - 1 \in 1 .. Len(q)
      BY <1>5, <2>2, <2>3
  <2>5. j + k - 1 \in i + k - 1 .. Len(q)
      BY <1>2, <1>4, <1>5, <2>3
  <2> QED
      BY <2>4, <2>5 DEF Follows, q
<1>11. \A r \in Sides \ {s} : /\ Mine(r)' = Mine(r) /\ History(r)' = History(r)
                              /\ \A x, y : Follows(r, x, y)' <=> Follows(r, x, y)
    BY <1>3 DEF Mine, History, Follows, L!Current
<1>12. Theirs(s)' = Theirs(s)
    BY <1>3, Two DEF Theirs, L!Held
<1>13. Follows(s, Theirs(Other(s)), Theirs(Other(s))')
  <2>1. Theirs(Other(s)) = q[1] /\ Theirs(Other(s))' = q[k]
    <3>1. Head(q) = q[1]
        BY <1>2 DEF q
    <3> QED
        BY <1>7, <3>1, Two DEF Theirs, L!Held, q, t
  <2>2. 1 \in 1 .. Len(q) /\ k \in 1 .. Len(q)
      BY <1>2 DEF q
  <2> QED
      BY <2>1, <2>2 DEF Follows, q
<1> QED
    BY <1>6, <1>8, <1>9, <1>10, <1>11, <1>12, <1>13

-----------------------------------------------------------------------------
(* Steps of one side *)

\* The other side's records and handler do not change, nor does its snapshot.
SideStep(s) ==
    /\ \A r \in Sides \ {s} : st'[r] = st[r] /\ got'[r] = got[r] /\ at'[r] = at[r]
    /\ Published(s)

ValidSide(s) ==
    /\ Shape(s, Mine(s))
    /\ AtSide(s)
    /\ \A t \in Trades : st[s][t] \in Released => Valid(s, t)

LEMMA ValidFacts ==
    ASSUME ValidInv, NEW s \in Sides
    PROVE  /\ ValidSide(s) /\ Mine(s) \in Snapshot
           /\ Theirs(s) \in Snapshot /\ Shape(Other(s), Theirs(s))
<1>1. TypeOK
    BY DEF ValidInv
<1>2. Mine(s) \in History(s) /\ Theirs(s) \in History(Other(s)) /\ Other(s) \in Sides
    BY <1>1, LogFacts, Two
<1>3. Shape(s, Mine(s)) /\ Shape(Other(s), Theirs(s))
    BY <1>2 DEF ValidInv, ShapeInv
<1>4. Mine(s) \in Snapshot /\ Theirs(s) \in Snapshot
    BY <1>1, <1>2, LogFacts
<1>5. \A t \in Trades : st[s][t] \in Released => Valid(s, t)
  <2> SUFFICES ASSUME NEW t \in Trades, st[s][t] \in Released
               PROVE  Valid(s, t)
      OBVIOUS
  <2>1. <<Offer(s, t), got[s][t]>> \in Compatible /\ <<got[s][t], Offer(s, t)>> \in Compatible
      BY DEF ValidInv, BothValid
  <2>2. got[s][t] \in Offers
      BY <2>1 DEF PairAssumption
  <2> QED
      BY <2>1, <2>2 DEF Valid
<1> QED
    BY <1>3, <1>4, <1>5 DEF ValidSide, ValidInv, AtInv

LEMMA ValidFrame ==
    ASSUME ValidInv, TypeOK', NEW s \in Sides, SideStep(s), ValidSide(s)'
    PROVE  ValidInv'
<1>1. ShapeInv'
  <2> SUFFICES ASSUME NEW r \in Sides, NEW x \in History(r)'
               PROVE  Shape(r, x)
      BY DEF ShapeInv, Shape
  <2>1. CASE r = s /\ x = Mine(s)'
      BY <2>1 DEF ValidSide, Shape
  <2>2. CASE x \in History(r)
      BY <2>2 DEF ValidInv, ShapeInv
  <2> QED
      BY <2>1, <2>2 DEF SideStep, Published
<1>2. AtInv'
  <2> SUFFICES ASSUME NEW r \in Sides, r # s
               PROVE  AtSide(r)'
      BY DEF AtInv, ValidSide
  <2>1. AtSide(r) /\ Mine(r)' = Mine(r) /\ at'[r] = at[r] /\ st'[r] = st[r] /\ got'[r] = got[r]
      BY DEF ValidInv, AtInv, SideStep, Published
  <2> QED
      BY <2>1 DEF AtSide, Holds, Valid
<1>3. BothValid'
  <2> SUFFICES ASSUME NEW r \in Sides, NEW t \in Trades, st'[r][t] \in Released
               PROVE  /\ <<Offer(r, t), got'[r][t]>> \in Compatible
                      /\ <<got'[r][t], Offer(r, t)>> \in Compatible
      BY DEF BothValid
  <2>1. CASE r = s
      BY <2>1 DEF ValidSide, Valid
  <2>2. CASE r # s
      BY <2>2 DEF ValidInv, BothValid, SideStep
  <2> QED
      BY <2>1, <2>2
<1> QED
    BY <1>1, <1>2, <1>3 DEF ValidInv

\* What a step of s must keep, for the order of the two rooms.
Keeps(s) ==
    /\ \A t \in Trades : /\ st[s][t] = "applied" => st'[s][t] = "applied"
                         /\ st[s][t] \in Released => got'[s][t] = got[s][t]
    /\ Mine(s)'.reserved # Mine(s).reserved /\ Mine(s).reserved # None => Completed(s)
    /\ Mine(s)'.reserved = Mine(s).reserved =>
          /\ Mine(s).offer # None => Mine(s)'.offer = Mine(s).offer
          /\ Mine(s).validated # None /\ Incoming(s, Mine(s).validated) = Theirs(s).offer =>
                Mine(s)'.validated = Mine(s).validated /\ Mine(s)'.proposal = Mine(s).proposal
    /\ \/ Mine(s)'.validated \in {None, Mine(s).validated}
       \/ Incoming(s, Mine(s)'.validated) = Theirs(s).offer
    /\ \A t \in Trades : (st[s][t] \in Released \/ Releasing(s, t))' =>
          \/ (st[s][t] \in Released \/ Releasing(s, t)) /\ got'[s][t] = got[s][t]
          \/ /\ Matched(s) /\ Holds(s, t)' /\ Mine(s)' = Mine(s)
             /\ st[s][t] \in {"running", "uncertain"} /\ Mine(s).proposal # None

\* What the published snapshot says is in the records.
Recorded(s) ==
    /\ RecordSide(s)
    /\ Mine(s).applied => Mine(s).reserved # None /\ st[s][Mine(s).reserved] = "applied"

StepOf(s) ==
    /\ TypeOK' /\ SideStep(s) /\ ValidSide(s)' /\ Keeps(s)
    /\ Recorded(s) /\ late' = 0 => Recorded(s)'

Handling == [step : Steps, trade : Trades, cancelling : BOOLEAN]

LEMMA Types ==
    ASSUME TypeOK
    PROVE  /\ st \in [Sides -> [Trades -> States]]
           /\ said \in [Sides -> [Trades -> {None, "unreleased", "unsent"}]]
           /\ got \in [Sides -> [Trades -> Offers \cup {None}]]
           /\ at \in [Sides -> Handling \cup {None}]
           /\ crashes \in 0 .. MaxCrashes /\ cancels \in 0 .. MaxCancels /\ late \in 0 .. MaxLate
BY DEF TypeOK, Handling

LEMMA RecordFacts ==
    ASSUME TypeOK, NEW s \in Sides, NEW t \in Trades, NEW state \in States, Record(s, t, state)
    PROVE  /\ st' \in [Sides -> [Trades -> States]]
           /\ st'[s][t] = state /\ \A u \in Trades \ {t} : st'[s][u] = st[s][u]
           /\ \A r \in Sides \ {s} : st'[r] = st[r]
<1>1. st \in [Sides -> [Trades -> States]]
    BY Types
<1> QED
    BY <1>1 DEF Record

LEMMA AtFacts ==
    ASSUME TypeOK, NEW s \in Sides
    PROVE  /\ \A step \in Steps : at[s] # None /\ Goto(s, step) =>
                 /\ at' \in [Sides -> Handling \cup {None}]
                 /\ at'[s] = [at[s] EXCEPT !.step = step]
                 /\ at'[s].step = step /\ at'[s].trade = at[s].trade
                 /\ \A r \in Sides \ {s} : at'[r] = at[r]
           /\ Return(s) =>
                 /\ at' \in [Sides -> Handling \cup {None}]
                 /\ at'[s] = None
                 /\ \A r \in Sides \ {s} : at'[r] = at[r]
           /\ at[s] # None => at[s] \in Handling /\ at[s].trade \in Trades
<1>1. at \in [Sides -> Handling \cup {None}]
    BY Types
<1>2. at[s] # None => at[s] \in Handling /\ at[s].trade \in Trades
    BY <1>1 DEF Handling
<1>3. ASSUME NEW step \in Steps, at[s] # None, Goto(s, step)
      PROVE  /\ at' \in [Sides -> Handling \cup {None}]
             /\ at'[s] = [at[s] EXCEPT !.step = step]
             /\ at'[s].step = step /\ at'[s].trade = at[s].trade
             /\ \A r \in Sides \ {s} : at'[r] = at[r]
  <2>1. [at[s] EXCEPT !.step = step] \in Handling
      BY <1>2, <1>3 DEF Handling
  <2>2. at'[s] = [at[s] EXCEPT !.step = step] /\ at' \in [Sides -> Handling \cup {None}]
        /\ \A r \in Sides \ {s} : at'[r] = at[r]
      BY <1>1, <1>3, <2>1 DEF Goto
  <2>3. at'[s].step = step /\ at'[s].trade = at[s].trade
      BY <1>2, <1>3, <2>2 DEF Handling
  <2> QED
      BY <2>2, <2>3
<1>4. Return(s) => /\ at' \in [Sides -> Handling \cup {None}]
                   /\ at'[s] = None
                   /\ \A r \in Sides \ {s} : at'[r] = at[r]
    BY <1>1 DEF Return
<1> QED
    BY <1>2, <1>3, <1>4

LEMMA EnterFacts ==
    ASSUME TypeOK, NEW s \in Sides, NEW step \in Steps, NEW t \in Trades, NEW c \in BOOLEAN,
           Enter(s, step, t, c)
    PROVE  /\ at' \in [Sides -> Handling \cup {None}]
           /\ at'[s] # None => at'[s].step = step /\ at'[s].trade = t
           /\ \A r \in Sides \ {s} : at'[r] = at[r]
<1>1. at \in [Sides -> Handling \cup {None}]
    BY Types
<1> QED
    BY <1>1 DEF Enter, Handling

LEMMA SaidFacts ==
    ASSUME TypeOK, NEW s \in Sides, NEW t \in Trades, NEW claim \in {"unreleased", "unsent"},
           said' = [said EXCEPT ![s][t] = claim]
    PROVE  said' \in [Sides -> [Trades -> {None, "unreleased", "unsent"}]]
<1>1. said \in [Sides -> [Trades -> {None, "unreleased", "unsent"}]]
    BY Types
<1>2. said[s] \in [Trades -> {None, "unreleased", "unsent"}]
    BY <1>1
<1>3. [said[s] EXCEPT ![t] = claim] \in [Trades -> {None, "unreleased", "unsent"}]
    BY <1>2
<1> QED
    BY <1>1, <1>3

\* A snapshot that validated a pair names its own offer and one its save takes.
LEMMA ValidityFacts ==
    ASSUME NEW s \in Sides, NEW x \in Snapshot, Shape(s, x), x.proposal # None
    PROVE  /\ x.reserved \in Trades /\ x.offer = Offer(s, x.reserved) /\ x.offer \in Offers
           /\ x.proposal \in Offers \X Offers
           /\ x.proposal = Pair(s, x.offer, Incoming(s, x.proposal))
           /\ \E u \in Trades : Incoming(s, x.proposal) = Offer(Other(s), u)
           /\ <<x.offer, Incoming(s, x.proposal)>> \in Compatible
<1>1. PICK u \in Trades : /\ x.proposal = Pair(s, x.offer, Offer(Other(s), u))
                          /\ x.offer # None /\ <<x.offer, Offer(Other(s), u)>> \in Compatible
    BY DEF Shape
<1>2. x.reserved \in Trades /\ x.offer = Offer(s, x.reserved)
    BY <1>1 DEF Shape, Snapshot
<1>3. x.offer \in Offers /\ Offer(Other(s), u) \in Offers
    BY <1>2, OfferFacts, Two
<1>4. Incoming(s, x.proposal) = Offer(Other(s), u) /\ x.proposal \in Offers \X Offers
    BY <1>1, <1>3, PairFacts
<1> QED
    BY <1>1, <1>2, <1>3, <1>4

\* The end of a poll: the record says `state`, and the snapshot stays.
LEMMA AnswerFacts ==
    ASSUME ValidInv, NEW s \in Sides, NEW state \in {"running", "uncertain", "cancelled"},
           at[s] # None, at[s].step \in Polling, Answer(s, state),
           Published(s), Shape(s, Mine(s)'),
           got' = got, late' = late, crashes' = crashes, cancels' = cancels,
           said' \in [Sides -> [Trades -> {None, "unreleased", "unsent"}]],
           Mine(s)' \in {Mine(s), [Mine(s) EXCEPT !.validated = None]},
           Mine(s)' # Mine(s) => ~Accepts(s)
    PROVE  StepOf(s)
<1> DEFINE t == at[s].trade
<1>1. TypeOK /\ ValidSide(s)
    BY ValidFacts DEF ValidInv
<1>2. t \in Trades /\ state \in States /\ st[s][t] \in {"running", "uncertain"}
    BY <1>1, AtFacts DEF ValidSide, AtSide, States
<1>3. /\ st' \in [Sides -> [Trades -> States]]
      /\ st'[s][t] = state /\ \A u \in Trades \ {t} : st'[s][u] = st[s][u]
      /\ \A r \in Sides \ {s} : st'[r] = st[r]
    BY <1>1, <1>2, RecordFacts DEF Answer
<1>4. /\ at' \in [Sides -> Handling \cup {None}]
      /\ \A r \in Sides \ {s} : at'[r] = at[r]
      /\ \/ at'[s] = None
         \/ at'[s].step = "cancel" /\ at'[s].trade = t /\ state \in {"running", "uncertain"}
    BY <1>1, AtFacts DEF Answer, Steps
<1>5. TypeOK'
    BY <1>1, <1>3, <1>4, Types DEF TypeOK, Handling, Published
<1>6. SideStep(s)
    BY <1>3, <1>4 DEF SideStep
<1>7. ValidSide(s)'
    BY <1>1, <1>2, <1>3, <1>4 DEF ValidSide, AtSide, Polling, Valid, Released
<1>8. Mine(s) \in Snapshot /\ Mine(s).reserved = t
      /\ Mine(s)'.reserved = Mine(s).reserved /\ Mine(s)'.offer = Mine(s).offer
      /\ Mine(s)'.proposal = Mine(s).proposal /\ Mine(s)'.applied = Mine(s).applied
      /\ (Mine(s)'.validated = Mine(s).validated \/ (Mine(s)'.validated = None /\ ~Accepts(s)))
    BY <1>1, ValidFacts DEF ValidSide, AtSide, Snapshot
<1>9. Mine(s).validated # None /\ Incoming(s, Mine(s).validated) = Theirs(s).offer => Accepts(s)
  <2>1. Shape(s, Mine(s))
      BY <1>1 DEF ValidSide
  <2>2. Mine(s).validated # None => Mine(s).proposal = Mine(s).validated
      BY <2>1 DEF Shape
  <2> QED
      BY <1>8, <2>1, <2>2, ValidityFacts DEF Accepts
<1>10. Keeps(s)
  <2>1. \A u \in Trades : (st[s][u] \in Released \/ Releasing(s, u))' =>
            (st[s][u] \in Released \/ Releasing(s, u)) /\ got'[s][u] = got[s][u]
      BY <1>2, <1>3, <1>4 DEF Releasing, Released
  <2> QED
      BY <1>2, <1>3, <1>8, <1>9, <2>1 DEF Keeps
<1>11. Recorded(s) => Recorded(s)'
    BY <1>2, <1>3, <1>4, <1>8 DEF Recorded, RecordSide, Released, At
<1> QED
    BY <1>5, <1>6, <1>7, <1>10, <1>11 DEF StepOf

\* A step that leaves the results alone, and the room or clears it rightly.
LEMMA CarryFacts ==
    ASSUME ValidInv, NEW s \in Sides, TypeOK', SideStep(s), got' = got,
           Shape(s, Mine(s)'), AtSide(s)',
           \A t \in Trades : st[s][t] = "applied" => st'[s][t] = "applied",
           \A t \in Trades : (st[s][t] \in Released \/ Releasing(s, t))' =>
                                  st[s][t] \in Released \/ Releasing(s, t),
           \/ /\ Mine(s)'.reserved # Mine(s).reserved => Mine(s).reserved = None
              /\ Mine(s)'.offer = Mine(s).offer /\ Mine(s)'.validated = Mine(s).validated
              /\ Mine(s)'.proposal = Mine(s).proposal
           \/ /\ Mine(s)'.reserved # Mine(s).reserved /\ Completed(s)
              /\ Mine(s)'.validated = None,
           Recorded(s) /\ late' = 0 => Recorded(s)'
    PROVE  StepOf(s)
<1>1. \A t \in Trades : st[s][t] \in Released \/ Releasing(s, t) => Valid(s, t)
    BY ValidFacts DEF ValidSide, AtSide, Releasing
<1>2. \A t \in Trades : st'[s][t] \in Released => Valid(s, t)'
  <2>1. \A t \in Trades : Valid(s, t)' <=> Valid(s, t)
      BY DEF Valid
  <2> QED
      BY <1>1, <2>1
<1>3. ValidSide(s)'
    BY <1>2 DEF ValidSide, Shape
<1>4. Keeps(s)
    BY DEF Keeps
<1> QED
    BY <1>3, <1>4 DEF StepOf

-----------------------------------------------------------------------------
(* state() and poll() *)

LEMMA SeesCancelStep == ASSUME ValidInv, NEW s \in Sides, SeesCancel(s) PROVE StepOf(s)
<1>1. TypeOK /\ ValidSide(s)
    BY ValidFacts DEF ValidInv
<1>2. Published(s) /\ Mine(s)' = Mine(s)
    BY <1>1, QuietFacts DEF SeesCancel
<1>3. at[s] # None /\ at[s].step \in Polling /\ at[s].trade \in Trades
    BY <1>1, AtFacts DEF SeesCancel, At, Polling
<1>4. Shape(s, Mine(s)')
    BY <1>1, <1>2 DEF ValidSide
<1>5. said' \in [Sides -> [Trades -> {None, "unreleased", "unsent"}]]
  <2>1. said' \in {said, [said EXCEPT ![s][at[s].trade] = "unreleased"]}
      BY DEF SeesCancel
  <2> QED
      BY <1>1, <1>3, <2>1, Types, SaidFacts
<1>6. /\ got' = got /\ late' = late /\ crashes' = crashes /\ cancels' = cancels
      /\ Answer(s, "uncertain") \/ Answer(s, "cancelled")
    BY DEF SeesCancel
<1>7. CASE Answer(s, "uncertain")
    BY <1>2, <1>3, <1>4, <1>5, <1>6, <1>7, AnswerFacts
<1>8. CASE Answer(s, "cancelled")
    BY <1>2, <1>3, <1>4, <1>5, <1>6, <1>8, AnswerFacts
<1> QED
    BY <1>6, <1>7, <1>8

LEMMA SeesNoOfferStep == ASSUME ValidInv, NEW s \in Sides, SeesNoOffer(s) PROVE StepOf(s)
<1>1. TypeOK /\ ValidSide(s)
    BY ValidFacts DEF ValidInv
<1>2. Published(s) /\ Mine(s)' = Mine(s)
    BY <1>1, QuietFacts DEF SeesNoOffer
<1>3. at[s] # None /\ at[s].step \in Polling
    BY DEF SeesNoOffer, At, Polling
<1>4. Shape(s, Mine(s)')
    BY <1>1, <1>2 DEF ValidSide
<1> QED
    BY <1>1, <1>2, <1>3, <1>4, Types, AnswerFacts DEF SeesNoOffer

LEMMA RejectsOfferStep == ASSUME ValidInv, NEW s \in Sides, RejectsOffer(s) PROVE StepOf(s)
<1>1. TypeOK /\ ValidSide(s) /\ Mine(s) \in Snapshot
    BY ValidFacts DEF ValidInv
<1> DEFINE n == [Mine(s) EXCEPT !.validated = None]
<1>2. n \in Snapshot /\ Shape(s, n)
    BY <1>1 DEF Snapshot, ValidSide, Shape
<1>3. Published(s) /\ Mine(s)' = n
    BY <1>1, <1>2, PutFacts DEF RejectsOffer
<1>4. at[s] # None /\ at[s].step \in Polling
    BY DEF RejectsOffer, At, Polling
<1>5. Shape(s, Mine(s)') /\ Mine(s)' \in {Mine(s), n} /\ ~Accepts(s)
    BY <1>2, <1>3 DEF RejectsOffer
<1> QED
    BY <1>1, <1>3, <1>4, <1>5, Types, AnswerFacts DEF RejectsOffer

LEMMA WaitsForPeerStep == ASSUME ValidInv, NEW s \in Sides, WaitsForPeer(s) PROVE StepOf(s)
<1>1. TypeOK /\ ValidSide(s)
    BY ValidFacts DEF ValidInv
<1>2. Published(s) /\ Mine(s)' = Mine(s)
    BY <1>1, QuietFacts DEF WaitsForPeer
<1>3. at[s] # None /\ at[s].step \in Polling
    BY DEF WaitsForPeer, At, Polling
<1>4. Shape(s, Mine(s)')
    BY <1>1, <1>2 DEF ValidSide
<1> QED
    BY <1>1, <1>2, <1>3, <1>4, Types, AnswerFacts DEF WaitsForPeer

\* attach() and the start of a cancellation.
LEMMA PollFacts ==
    ASSUME ValidInv, NEW s \in Sides, NEW t \in Trades, NEW c \in BOOLEAN, Poll(s, t, c),
           cancels' \in 0 .. MaxCancels
    PROVE  StepOf(s)
<1>1. TypeOK /\ ValidSide(s) /\ Mine(s) \in Snapshot
    BY ValidFacts DEF ValidInv
<1> DEFINE n == [Mine(s) EXCEPT !.offer = Offer(s, t), !.phase = "offering"]
<1>2. n \in Snapshot /\ Shape(s, n)
  <2>1. Offer(s, t) \in Offers /\ Offer(s, t) # None /\ None \notin Trades
      BY OfferFacts
  <2>2. n \in Snapshot
      BY <1>1, <2>1 DEF Snapshot
  <2>3. Mine(s).reserved = t /\ Mine(s).offer \in {None, Offer(s, t)} /\ Shape(s, Mine(s))
      BY <1>1 DEF Poll, ValidSide
  <2>4. n.reserved = t /\ n.offer = Offer(s, t) /\ n.proposal = Mine(s).proposal
        /\ n.validated = Mine(s).validated /\ n.applied = Mine(s).applied
      BY <1>1, <2>3 DEF Snapshot
  <2>5. Mine(s).proposal # None => Mine(s).offer = n.offer
      BY <2>3, <2>4 DEF Shape
  <2>6. Shape(s, n)
      BY <2>1, <2>3, <2>4, <2>5 DEF Shape
  <2> QED
      BY <2>2, <2>6
<1>3. Published(s) /\ Mine(s)' = n
    BY <1>1, <1>2, PutFacts DEF Poll
<1>4. /\ at' \in [Sides -> Handling \cup {None}]
      /\ at'[s] # None => at'[s].step = "evaluate" /\ at'[s].trade = t
      /\ \A r \in Sides \ {s} : at'[r] = at[r]
  <2>1. "evaluate" \in Steps /\ Enter(s, "evaluate", t, c)
      BY DEF Steps, Poll
  <2> QED
      BY <1>1, <2>1, EnterFacts
<1>5. n.reserved = t /\ Mine(s).reserved = t /\ n.offer = Offer(s, t)
      /\ Mine(s).offer \in {None, n.offer} /\ n.applied = Mine(s).applied
      /\ n.proposal = Mine(s).proposal /\ n.validated = Mine(s).validated
    BY <1>1 DEF Snapshot, Poll
<1>6. st' = st /\ got' = got /\ said' = said /\ late' = late /\ crashes' = crashes
      /\ st[s][t] \in {"running", "uncertain"}
    BY DEF Poll
<1>7. TypeOK'
    BY <1>1, <1>3, <1>4, <1>6, Types DEF TypeOK, Handling, Published
<1>8. SideStep(s)
    BY <1>3, <1>4, <1>6 DEF SideStep
<1>9. ValidSide(s)'
    BY <1>1, <1>2, <1>3, <1>4, <1>5, <1>6 DEF ValidSide, AtSide, Polling, Valid, Released
<1>10. Keeps(s)
  <2>1. \A u \in Trades : (st[s][u] \in Released \/ Releasing(s, u))' =>
            (st[s][u] \in Released \/ Releasing(s, u)) /\ got'[s][u] = got[s][u]
      BY <1>4, <1>6 DEF Releasing, Released
  <2> QED
      BY <1>3, <1>5, <1>6, <2>1 DEF Keeps
<1>11. Recorded(s) => Recorded(s)'
    BY <1>3, <1>4, <1>5, <1>6 DEF Recorded, RecordSide, Released, At
<1> QED
    BY <1>7, <1>8, <1>9, <1>10, <1>11 DEF StepOf

LEMMA ValidatesStep == ASSUME ValidInv, NEW s \in Sides, Validates(s) PROVE StepOf(s)
<1> DEFINE t == at[s].trade
           pair == Pair(s, Mine(s).offer, Theirs(s).offer)
           n == [Mine(s) EXCEPT !.proposal = pair, !.validated = pair]
<1>1. TypeOK /\ ValidSide(s) /\ Mine(s) \in Snapshot
      /\ Theirs(s) \in Snapshot /\ Shape(Other(s), Theirs(s))
    BY ValidFacts DEF ValidInv
<1>2. /\ at[s] # None /\ at[s].step = "evaluate" /\ t \in Trades
      /\ st[s][t] \in {"running", "uncertain"} /\ Mine(s).reserved = t
      /\ Mine(s).offer = Offer(s, t) /\ Mine(s).offer \in Offers
    BY <1>1, AtFacts, OfferFacts DEF Validates, At, ValidSide, AtSide, Polling
<1>3. PICK u \in Trades : Theirs(s).offer = Offer(Other(s), u)
  <2>1. Theirs(s).offer = Offer(Other(s), Theirs(s).reserved)
      BY <1>1 DEF Validates, Shape
  <2>2. Theirs(s).reserved # None => Theirs(s).reserved \in Trades
      BY <1>1 DEF Snapshot
  <2>3. Theirs(s).reserved # None
      BY <1>1 DEF Validates, Shape
  <2> QED
      BY <2>1, <2>2, <2>3
<1>4. pair \in Offers \X Offers /\ pair # None /\ Incoming(s, pair) = Theirs(s).offer
    BY <1>2, <1>3, PairFacts, OfferFacts, Two
<1>5. <<Mine(s).offer, Theirs(s).offer>> \in Compatible
    BY DEF Validates, Accepts
<1> HIDE DEF pair
<1>6. /\ n \in Snapshot
      /\ n.reserved = t /\ n.offer = Mine(s).offer /\ n.proposal = pair /\ n.validated = pair
      /\ n.applied = Mine(s).applied
    BY <1>1, <1>2, <1>4 DEF Snapshot
<1>7. Shape(s, n)
  <2>1. pair = Pair(s, n.offer, Offer(Other(s), u))
      BY <1>3, <1>6 DEF pair
  <2>2. n.offer # None /\ n.reserved # None
      BY <1>2, <1>6, OfferFacts
  <2> QED
      BY <1>2, <1>3, <1>5, <1>6, <2>1, <2>2 DEF Shape
<1>8. Published(s) /\ Mine(s)' = n
  <2>1. Put(s, n)
      BY DEF Validates, pair
  <2> HIDE DEF n
  <2> QED
      BY <1>1, <1>6, <2>1, PutFacts
<1>9. /\ at' \in [Sides -> Handling \cup {None}]
      /\ at'[s].step = "match" /\ at'[s].trade = t
      /\ \A r \in Sides \ {s} : at'[r] = at[r]
  <2>1. "match" \in Steps /\ Goto(s, "match")
      BY DEF Steps, Validates
  <2> QED
      BY <1>1, <1>2, <2>1, AtFacts
<1>10. st' = st /\ got' = got /\ said' = said /\ late' = late /\ crashes' = crashes
       /\ cancels' = cancels
    BY DEF Validates
<1> HIDE DEF n
<1>11. TypeOK'
    BY <1>1, <1>8, <1>9, <1>10, Types DEF TypeOK, Handling, Published
<1>12. SideStep(s)
    BY <1>8, <1>9, <1>10 DEF SideStep
<1>13. ValidSide(s)'
    BY <1>1, <1>2, <1>4, <1>6, <1>7, <1>8, <1>9, <1>10 DEF ValidSide, AtSide, Polling, Valid, Released
<1>14. Keeps(s)
  <2>1. \A v \in Trades : (st[s][v] \in Released \/ Releasing(s, v))' =>
            (st[s][v] \in Released \/ Releasing(s, v)) /\ got'[s][v] = got[s][v]
      BY <1>9, <1>10 DEF Releasing, Released
  <2>2. Mine(s).validated # None /\ Incoming(s, Mine(s).validated) = Theirs(s).offer =>
            n.validated = Mine(s).validated /\ n.proposal = Mine(s).proposal
    <3>1. Shape(s, Mine(s))
        BY <1>1 DEF ValidSide
    <3>2. Mine(s).validated # None => Mine(s).proposal = Mine(s).validated
        BY <3>1 DEF Shape
    <3> QED
        BY <1>1, <1>6, <3>1, <3>2, ValidityFacts DEF pair
  <2> QED
      BY <1>2, <1>4, <1>6, <1>8, <1>10, <2>1, <2>2 DEF Keeps
<1>15. Recorded(s) => Recorded(s)'
    BY <1>2, <1>6, <1>8, <1>9, <1>10 DEF Recorded, RecordSide, Released, At
<1> QED
    BY <1>11, <1>12, <1>13, <1>14, <1>15 DEF StepOf

LEMMA ReceivesStep == ASSUME ValidInv, NEW s \in Sides, Receives(s) PROVE StepOf(s)
<1> DEFINE theirs == Incoming(s, Mine(s).proposal)
<1>1. TypeOK /\ ValidSide(s) /\ Mine(s) \in Snapshot
      /\ Theirs(s) \in Snapshot /\ Shape(Other(s), Theirs(s)) /\ Shape(s, Mine(s))
    BY ValidFacts DEF ValidInv, ValidSide
<1>2. at[s] # None /\ at[s].step = "match"
    BY DEF Receives, At
<1>3. PICK t \in Trades : at[s].trade = t
    BY <1>1, <1>2, AtFacts
<1>4. /\ at[s] # None /\ at[s].step = "match" /\ at[s].trade = t
      /\ st[s][t] \in {"running", "uncertain"} /\ Mine(s).reserved = t
      /\ Mine(s).offer = Offer(s, t) /\ Mine(s).offer \in Offers
      /\ Mine(s).validated = Mine(s).proposal /\ Mine(s).proposal # None
    BY <1>1, <1>2, <1>3, OfferFacts DEF ValidSide, AtSide, Polling
<1>5. theirs \in Offers /\ <<Offer(s, t), theirs>> \in Compatible
      /\ Mine(s).proposal = Pair(s, Offer(s, t), theirs)
      /\ Mine(s).proposal \in Offers \X Offers
    BY <1>1, <1>4, ValidityFacts, PairFacts
<1>6. <<theirs, Offer(s, t)>> \in Compatible
  <2>1. Theirs(s).proposal = Mine(s).proposal
      BY DEF Receives, Matched
  <2>2. /\ Theirs(s).offer \in Offers /\ Theirs(s).proposal \in Offers \X Offers
        /\ Theirs(s).proposal =
              Pair(Other(s), Theirs(s).offer, Incoming(Other(s), Theirs(s).proposal))
        /\ <<Theirs(s).offer, Incoming(Other(s), Theirs(s).proposal)>> \in Compatible
      BY <1>1, <1>4, <2>1, ValidityFacts, Two
  <2>3. Incoming(Other(s), Mine(s).proposal) = Offer(s, t)
      BY <1>4, <1>5, PairFacts
  <2>4. Theirs(s).offer = theirs
      BY <1>4, <1>5, <2>1, <2>2, <2>3, PairFacts, Two
  <2> QED
      BY <2>1, <2>2, <2>3, <2>4
<1>7. /\ at' \in [Sides -> Handling \cup {None}]
      /\ at'[s].step = "release" /\ at'[s].trade = t
      /\ \A r \in Sides \ {s} : at'[r] = at[r]
  <2>1. "release" \in Steps /\ Goto(s, "release")
      BY DEF Steps, Receives
  <2> QED
      BY <1>1, <1>4, <2>1, AtFacts
<1>8. /\ got' \in [Sides -> [Trades -> Offers \cup {None}]]
      /\ got'[s][t] = theirs /\ \A u \in Trades \ {t} : got'[s][u] = got[s][u]
      /\ \A r \in Sides \ {s} : got'[r] = got[r]
  <2>1. got' = [got EXCEPT ![s][t] = theirs]
      BY <1>4 DEF Receives
  <2> HIDE DEF theirs
  <2>2. got \in [Sides -> [Trades -> Offers \cup {None}]]
      BY <1>1, Types
  <2>3. [got[s] EXCEPT ![t] = theirs] \in [Trades -> Offers \cup {None}]
      BY <1>4, <1>5, <2>2
  <2> QED
      BY <1>4, <1>5, <2>1, <2>2, <2>3
<1>9. st' = st /\ said' = said /\ log' = log /\ late' = late /\ crashes' = crashes
      /\ cancels' = cancels
    BY DEF Receives
<1>10. Published(s) /\ Mine(s)' = Mine(s)
    BY <1>1, <1>9, QuietFacts
<1>11. TypeOK'
    BY <1>1, <1>7, <1>8, <1>9, <1>10, Types DEF TypeOK, Handling, Published
<1>12. SideStep(s)
    BY <1>7, <1>8, <1>9, <1>10 DEF SideStep
<1>13. Valid(s, t)' /\ Holds(s, t)'
    BY <1>4, <1>5, <1>6, <1>8, <1>10 DEF Valid, Holds
<1> HIDE DEF theirs
<1>14. ValidSide(s)'
  <2>1. AtSide(s)'
      BY <1>4, <1>7, <1>9, <1>10, <1>13 DEF AtSide, Polling
  <2>2. Shape(s, Mine(s))'
      BY <1>1, <1>10 DEF Shape
  <2>3. \A u \in Trades : st'[s][u] \in Released => Valid(s, u)'
      BY <1>1, <1>4, <1>8, <1>9 DEF ValidSide, Valid, Released
  <2> QED
      BY <2>1, <2>2, <2>3 DEF ValidSide
<1>15. Keeps(s)
  <2>1. \A u \in Trades : st[s][u] \in Released => got'[s][u] = got[s][u]
      BY <1>4, <1>8 DEF Released
  <2>2. \A u \in Trades : (st[s][u] \in Released \/ Releasing(s, u))' =>
            \/ st[s][u] \in Released
            \/ u = t
      BY <1>7, <1>9 DEF Releasing
  <2>3. Matched(s)
      BY DEF Receives
  <2> QED
      BY <1>4, <1>9, <1>10, <1>13, <2>1, <2>2, <2>3 DEF Keeps
<1>16. Recorded(s) => Recorded(s)'
    BY <1>4, <1>7, <1>8, <1>9, <1>10 DEF Recorded, RecordSide, Released, At, Holds
<1> QED
    BY <1>11, <1>12, <1>14, <1>15, <1>16 DEF StepOf

LEMMA ReleasesStep == ASSUME ValidInv, NEW s \in Sides, Releases(s) PROVE StepOf(s)
<1> DEFINE t == at[s].trade
           n == [Mine(s) EXCEPT !.phase = "released"]
<1>1. TypeOK /\ ValidSide(s) /\ Mine(s) \in Snapshot
    BY ValidFacts DEF ValidInv
<1>2. at[s] # None /\ at[s].step = "release"
    BY DEF Releases, At
<1>3. /\ n \in Snapshot
      /\ n.reserved = Mine(s).reserved /\ n.offer = Mine(s).offer
      /\ n.proposal = Mine(s).proposal /\ n.validated = Mine(s).validated
      /\ n.applied = Mine(s).applied
    BY <1>1 DEF Snapshot
<1>4. Published(s) /\ Mine(s)' = n
    BY <1>1, <1>3, PutFacts DEF Releases
<1> HIDE DEF n
<1>5. /\ at' \in [Sides -> Handling \cup {None}]
      /\ at'[s].step = "store" /\ at'[s].trade = t
      /\ \A r \in Sides \ {s} : at'[r] = at[r]
  <2>1. "store" \in Steps /\ Goto(s, "store")
      BY DEF Steps, Releases
  <2> QED
      BY <1>1, <1>2, <2>1, AtFacts
<1>6. st' = st /\ got' = got /\ said' = said /\ late' = late /\ crashes' = crashes
      /\ cancels' = cancels
    BY DEF Releases
<1>7. TypeOK' /\ SideStep(s)
    BY <1>1, <1>4, <1>5, <1>6, Types DEF TypeOK, Handling, Published, SideStep
<1>8. Shape(s, Mine(s)') /\ AtSide(s)'
    BY <1>1, <1>2, <1>3, <1>4, <1>5, <1>6 DEF ValidSide, Shape, AtSide, Polling, Holds, Valid
<1>9. \A u \in Trades : (st[s][u] \in Released \/ Releasing(s, u))' =>
                             st[s][u] \in Released \/ Releasing(s, u)
    BY <1>2, <1>5, <1>6 DEF Releasing
<1>10. Recorded(s) => Recorded(s)'
    BY <1>2, <1>3, <1>4, <1>5, <1>6 DEF Recorded, RecordSide, At, Holds
<1> QED
    BY <1>3, <1>4, <1>6, <1>7, <1>8, <1>9, <1>10, CarryFacts

LEMMA StoresStep == ASSUME ValidInv, NEW s \in Sides, Stores(s) PROVE StepOf(s)
<1> DEFINE t == at[s].trade
<1>1. TypeOK /\ ValidSide(s)
    BY ValidFacts DEF ValidInv
<1>2. at[s] # None /\ at[s].step = "store" /\ t \in Trades /\ Holds(s, t) /\ Valid(s, t)
    BY <1>1, AtFacts DEF Stores, At, ValidSide, AtSide
<1>3. /\ st' \in [Sides -> [Trades -> States]]
      /\ st'[s][t] = "received" /\ \A u \in Trades \ {t} : st'[s][u] = st[s][u]
      /\ \A r \in Sides \ {s} : st'[r] = st[r]
  <2>1. "received" \in States /\ Record(s, t, "received")
      BY DEF States, Stores
  <2> QED
      BY <1>1, <1>2, <2>1, RecordFacts
<1>4. /\ at' \in [Sides -> Handling \cup {None}]
      /\ at'[s].step = "confirm" /\ at'[s].trade = t
      /\ \A r \in Sides \ {s} : at'[r] = at[r]
  <2>1. "confirm" \in Steps /\ Goto(s, "confirm")
      BY DEF Steps, Stores
  <2> QED
      BY <1>1, <1>2, <2>1, AtFacts
<1>5. got' = got /\ said' = said /\ late' = late /\ crashes' = crashes
      /\ cancels' = cancels /\ log' = log
    BY DEF Stores
<1>6. Published(s) /\ Mine(s)' = Mine(s)
    BY <1>1, <1>5, QuietFacts
<1>7. st[s][t] \in {"running", "uncertain"}
    BY <1>1, <1>2 DEF ValidSide, AtSide, Polling
<1> HIDE DEF t
<1>8. TypeOK' /\ SideStep(s)
    BY <1>1, <1>3, <1>4, <1>5, <1>6, Types DEF TypeOK, Handling, Published, SideStep
<1>9. Shape(s, Mine(s)') /\ AtSide(s)'
    BY <1>1, <1>4, <1>6 DEF ValidSide, AtSide, Polling
<1>10. /\ \A u \in Trades : (st[s][u] \in Released \/ Releasing(s, u))' =>
                                 st[s][u] \in Released \/ Releasing(s, u)
       /\ \A u \in Trades : st[s][u] = "applied" => st'[s][u] = "applied"
    BY <1>2, <1>3, <1>4, <1>7 DEF Releasing, t
<1>11. Recorded(s) => Recorded(s)'
    BY <1>2, <1>3, <1>4, <1>5, <1>6, <1>7 DEF Recorded, RecordSide, At, Holds
<1> QED
    BY <1>5, <1>6, <1>8, <1>9, <1>10, <1>11, CarryFacts

-----------------------------------------------------------------------------
(* The other operations *)

LEMMA PrepareStep ==
    ASSUME ValidInv, NEW s \in Sides, NEW t \in Trades, Prepare(s, t) PROVE StepOf(s)
<1>1. TypeOK /\ ValidSide(s) /\ Mine(s).reserved \in Trades \cup {None}
    BY ValidFacts DEF ValidInv, Snapshot
<1>2. /\ st' \in [Sides -> [Trades -> States]]
      /\ st'[s][t] = "prepared" /\ \A u \in Trades \ {t} : st'[s][u] = st[s][u]
      /\ \A r \in Sides \ {s} : st'[r] = st[r]
  <2>1. "prepared" \in States /\ Record(s, t, "prepared")
      BY DEF States, Prepare
  <2> QED
      BY <1>1, <2>1, RecordFacts
<1>3. st[s][t] = "none" /\ at[s] = None /\ at' = at /\ log' = log /\ got' = got
      /\ said' = said /\ late' = late /\ crashes' = crashes /\ cancels' = cancels
    BY DEF Prepare, Idle
<1>4. Published(s) /\ Mine(s)' = Mine(s)
    BY <1>1, <1>3, QuietFacts
<1>5. TypeOK' /\ SideStep(s)
    BY <1>1, <1>2, <1>3, <1>4, Types DEF TypeOK, Handling, Published, SideStep
<1>6. Shape(s, Mine(s)') /\ AtSide(s)'
    BY <1>1, <1>3, <1>4 DEF ValidSide, AtSide
<1>7. /\ \A u \in Trades : (st[s][u] \in Released \/ Releasing(s, u))' =>
                               st[s][u] \in Released \/ Releasing(s, u)
      /\ \A u \in Trades : st[s][u] = "applied" => st'[s][u] = "applied"
    BY <1>2, <1>3 DEF Releasing, Released
<1>8. Recorded(s) => Recorded(s)'
    BY <1>1, <1>2, <1>3, <1>4 DEF Recorded, RecordSide, Released, At, Holds
<1> QED
    BY <1>3, <1>4, <1>5, <1>6, <1>7, <1>8, CarryFacts

LEMMA ConfirmStep ==
    ASSUME ValidInv, NEW s \in Sides, NEW t \in Trades, Confirm(s, t) PROVE StepOf(s)
<1>1. TypeOK /\ ValidSide(s) /\ Mine(s).reserved \in Trades \cup {None}
    BY ValidFacts DEF ValidInv, Snapshot
<1>2. /\ st' \in [Sides -> [Trades -> States]]
      /\ st'[s][t] = "ready" /\ \A u \in Trades \ {t} : st'[s][u] = st[s][u]
      /\ \A r \in Sides \ {s} : st'[r] = st[r]
  <2>1. "ready" \in States /\ Record(s, t, "ready")
      BY DEF States, Confirm
  <2> QED
      BY <1>1, <2>1, RecordFacts
<1>3. st[s][t] = "received" /\ log' = log /\ got' = got
      /\ said' = said /\ late' = late /\ crashes' = crashes /\ cancels' = cancels
    BY DEF Confirm
<1>4. Published(s) /\ Mine(s)' = Mine(s)
    BY <1>1, <1>3, QuietFacts
<1>5. /\ at' \in [Sides -> Handling \cup {None}] /\ at'[s] = None
      /\ \A r \in Sides \ {s} : at'[r] = at[r]
    BY <1>1, AtFacts DEF Confirm
<1>6. TypeOK' /\ SideStep(s)
    BY <1>1, <1>2, <1>3, <1>4, <1>5, Types DEF TypeOK, Handling, Published, SideStep
<1>7. Shape(s, Mine(s)') /\ AtSide(s)'
    BY <1>1, <1>4, <1>5 DEF ValidSide, AtSide
<1>8. /\ \A u \in Trades : (st[s][u] \in Released \/ Releasing(s, u))' =>
                               st[s][u] \in Released \/ Releasing(s, u)
      /\ \A u \in Trades : st[s][u] = "applied" => st'[s][u] = "applied"
    BY <1>2, <1>3, <1>5 DEF Releasing, Released
<1>9. Recorded(s) => Recorded(s)'
    BY <1>1, <1>2, <1>3, <1>4, <1>5 DEF Recorded, RecordSide, Released, At, Holds
<1> QED
    BY <1>3, <1>4, <1>6, <1>7, <1>8, <1>9, CarryFacts

LEMMA AppliedStep ==
    ASSUME ValidInv, NEW s \in Sides, NEW t \in Trades, Applied(s, t) PROVE StepOf(s)
<1>1. TypeOK /\ ValidSide(s)
    BY ValidFacts DEF ValidInv
<1>2. /\ st' \in [Sides -> [Trades -> States]]
      /\ st'[s][t] = "applied" /\ \A u \in Trades \ {t} : st'[s][u] = st[s][u]
      /\ \A r \in Sides \ {s} : st'[r] = st[r]
  <2>1. "applied" \in States /\ Record(s, t, "applied")
      BY DEF States, Applied
  <2> QED
      BY <1>1, <2>1, RecordFacts
<1>3. st[s][t] \in {"ready", "applied"} /\ at[s] = None /\ log' = log /\ got' = got
      /\ said' = said /\ crashes' = crashes /\ cancels' = cancels
    BY DEF Applied, Idle
<1>4. late' \in 0 .. MaxLate /\ (late' = 0 => Mine(s).reserved = t)
  <2>1. \/ Mine(s).reserved = t /\ late' = late
        \/ late < MaxLate /\ late' = late + 1
      BY DEF Applied
  <2>2. late \in 0 .. MaxLate
      BY <1>1, Types
  <2> QED
      BY <2>1, <2>2 DEF PairAssumption
<1>5. Published(s) /\ Mine(s)' = Mine(s)
    BY <1>1, <1>3, QuietFacts
<1>6. /\ at' \in [Sides -> Handling \cup {None}]
      /\ at'[s] # None => at'[s].step = "acknowledge" /\ at'[s].trade = t
      /\ \A r \in Sides \ {s} : at'[r] = at[r]
  <2>1. "acknowledge" \in Steps /\ FALSE \in BOOLEAN /\ Enter(s, "acknowledge", t, FALSE)
      BY DEF Steps, Applied
  <2> QED
      BY <1>1, <2>1, EnterFacts
<1>7. TypeOK' /\ SideStep(s)
    BY <1>1, <1>2, <1>3, <1>4, <1>5, <1>6, Types DEF TypeOK, Handling, Published, SideStep
<1>8. Shape(s, Mine(s)') /\ AtSide(s)'
    BY <1>1, <1>2, <1>5, <1>6 DEF ValidSide, AtSide, Polling
<1>9. /\ \A u \in Trades : (st[s][u] \in Released \/ Releasing(s, u))' =>
                               st[s][u] \in Released \/ Releasing(s, u)
      /\ \A u \in Trades : st[s][u] = "applied" => st'[s][u] = "applied"
    BY <1>2, <1>3, <1>6 DEF Releasing, Released
<1>10. Recorded(s) /\ late' = 0 => Recorded(s)'
    BY <1>2, <1>3, <1>4, <1>5, <1>6 DEF Recorded, RecordSide, Released, At, Holds
<1> QED
    BY <1>3, <1>5, <1>7, <1>8, <1>9, <1>10, CarryFacts

LEMMA AcknowledgesStep == ASSUME ValidInv, NEW s \in Sides, Acknowledges(s) PROVE StepOf(s)
<1> DEFINE n == [Mine(s) EXCEPT !.applied = TRUE]
<1>1. TypeOK /\ ValidSide(s) /\ Mine(s) \in Snapshot
    BY ValidFacts DEF ValidInv
<1>2. /\ at[s] # None /\ at[s].step = "acknowledge"
      /\ st[s][at[s].trade] = "applied" /\ at[s].trade \in Trades
    BY <1>1, AtFacts DEF Acknowledges, At, ValidSide, AtSide
<1>3. /\ n \in Snapshot
      /\ n.reserved = Mine(s).reserved /\ n.offer = Mine(s).offer
      /\ n.proposal = Mine(s).proposal /\ n.validated = Mine(s).validated
    BY <1>1 DEF Snapshot
<1>4. Published(s) /\ Mine(s)' = n
    BY <1>1, <1>3, PutFacts DEF Acknowledges
<1> HIDE DEF n
<1>5. /\ at' \in [Sides -> Handling \cup {None}] /\ at'[s] = None
      /\ \A r \in Sides \ {s} : at'[r] = at[r]
    BY <1>1, AtFacts DEF Acknowledges
<1>6. st' = st /\ got' = got /\ said' = said /\ late' = late /\ crashes' = crashes
      /\ cancels' = cancels
    BY DEF Acknowledges
<1>7. TypeOK' /\ SideStep(s)
    BY <1>1, <1>4, <1>5, <1>6, Types DEF TypeOK, Handling, Published, SideStep
<1>8. Shape(s, Mine(s)') /\ AtSide(s)'
    BY <1>1, <1>3, <1>4, <1>5 DEF ValidSide, Shape, AtSide
<1>9. \A u \in Trades : (st[s][u] \in Released \/ Releasing(s, u))' =>
                             st[s][u] \in Released \/ Releasing(s, u)
    BY <1>5, <1>6 DEF Releasing
<1>10. Recorded(s) => Recorded(s)'
    BY <1>2, <1>3, <1>4, <1>5, <1>6, OfferFacts DEF Recorded, RecordSide, At, Holds
<1> QED
    BY <1>3, <1>4, <1>6, <1>7, <1>8, <1>9, <1>10, CarryFacts

LEMMA CancelsStep == ASSUME ValidInv, NEW s \in Sides, Cancels(s) PROVE StepOf(s)
<1> DEFINE n == [Mine(s) EXCEPT !.cancel = TRUE]
<1>1. TypeOK /\ ValidSide(s) /\ Mine(s) \in Snapshot
    BY ValidFacts DEF ValidInv
<1>2. PICK t \in Trades : /\ at[s] # None /\ at[s].step = "cancel" /\ at[s].trade = t
                          /\ st[s][t] \in {"prepared", "running", "uncertain"}
    BY <1>1, AtFacts DEF Cancels, At, ValidSide, AtSide
<1>3. /\ n \in Snapshot
      /\ n.reserved = Mine(s).reserved /\ n.offer = Mine(s).offer
      /\ n.proposal = Mine(s).proposal /\ n.validated = Mine(s).validated
      /\ n.applied = Mine(s).applied
    BY <1>1 DEF Snapshot
<1>4. Published(s) /\ Mine(s)' = n
    BY <1>1, <1>3, PutFacts DEF Cancels
<1> HIDE DEF n
<1>5. /\ at' \in [Sides -> Handling \cup {None}]
      /\ at'[s].step = "void" /\ at'[s].trade = t
      /\ \A r \in Sides \ {s} : at'[r] = at[r]
  <2>1. "void" \in Steps /\ Goto(s, "void")
      BY DEF Steps, Cancels
  <2> QED
      BY <1>1, <1>2, <2>1, AtFacts
<1>6. st' = st /\ got' = got /\ said' = said /\ late' = late /\ crashes' = crashes
      /\ cancels' = cancels
    BY DEF Cancels
<1>7. TypeOK' /\ SideStep(s)
    BY <1>1, <1>4, <1>5, <1>6, Types DEF TypeOK, Handling, Published, SideStep
<1>8. Shape(s, Mine(s)') /\ AtSide(s)'
    BY <1>1, <1>2, <1>3, <1>4, <1>5, <1>6 DEF ValidSide, Shape, AtSide, Polling
<1>9. \A u \in Trades : (st[s][u] \in Released \/ Releasing(s, u))' =>
                             st[s][u] \in Released \/ Releasing(s, u)
    BY <1>2, <1>5, <1>6 DEF Releasing
<1>10. Recorded(s) => Recorded(s)'
    BY <1>2, <1>3, <1>4, <1>5, <1>6 DEF Recorded, RecordSide, At, Holds
<1> QED
    BY <1>3, <1>4, <1>6, <1>7, <1>8, <1>9, <1>10, CarryFacts

LEMMA VoidsStep == ASSUME ValidInv, NEW s \in Sides, Voids(s) PROVE StepOf(s)
<1>1. TypeOK /\ ValidSide(s) /\ Mine(s).reserved \in Trades \cup {None}
    BY ValidFacts DEF ValidInv, Snapshot
<1>2. PICK t \in Trades : /\ at[s] # None /\ at[s].step = "void" /\ at[s].trade = t
                          /\ st[s][t] \in {"prepared", "running", "uncertain"}
    BY <1>1, AtFacts DEF Voids, At, ValidSide, AtSide
<1>3. /\ st' \in [Sides -> [Trades -> States]]
      /\ st'[s][t] = "cancelled" /\ \A u \in Trades \ {t} : st'[s][u] = st[s][u]
      /\ \A r \in Sides \ {s} : st'[r] = st[r]
  <2>1. "cancelled" \in States /\ Record(s, t, "cancelled")
      BY <1>2 DEF States, Voids
  <2> QED
      BY <1>1, <2>1, RecordFacts
<1>4. log' = log /\ got' = got /\ late' = late /\ crashes' = crashes /\ cancels' = cancels
    BY DEF Voids
<1>5. said' \in [Sides -> [Trades -> {None, "unreleased", "unsent"}]]
  <2>1. said' = [said EXCEPT ![s][t] = "unsent"]
      BY <1>2 DEF Voids
  <2> QED
      BY <1>1, <2>1, SaidFacts
<1>6. Published(s) /\ Mine(s)' = Mine(s)
    BY <1>1, <1>4, QuietFacts
<1>7. /\ at' \in [Sides -> Handling \cup {None}] /\ at'[s] = None
      /\ \A r \in Sides \ {s} : at'[r] = at[r]
    BY <1>1, AtFacts DEF Voids
<1>8. TypeOK' /\ SideStep(s)
    BY <1>1, <1>3, <1>4, <1>5, <1>6, <1>7, Types DEF TypeOK, Handling, Published, SideStep
<1>9. Shape(s, Mine(s)') /\ AtSide(s)'
    BY <1>1, <1>6, <1>7 DEF ValidSide, AtSide
<1>10. /\ \A u \in Trades : (st[s][u] \in Released \/ Releasing(s, u))' =>
                                st[s][u] \in Released \/ Releasing(s, u)
       /\ \A u \in Trades : st[s][u] = "applied" => st'[s][u] = "applied"
    BY <1>2, <1>3, <1>7 DEF Releasing, Released
<1>11. Recorded(s) => Recorded(s)'
    BY <1>1, <1>2, <1>3, <1>4, <1>6, <1>7 DEF Recorded, RecordSide, Released, At, Holds
<1> QED
    BY <1>4, <1>6, <1>8, <1>9, <1>10, <1>11, CarryFacts

LEMMA CrashStep == ASSUME ValidInv, NEW s \in Sides, Crash(s) PROVE StepOf(s)
<1>1. TypeOK /\ ValidSide(s)
    BY ValidFacts DEF ValidInv
<1>2. /\ at' \in [Sides -> Handling \cup {None}] /\ at'[s] = None
      /\ \A r \in Sides \ {s} : at'[r] = at[r]
    BY <1>1, AtFacts DEF Crash
<1>3. st' = st /\ got' = got /\ said' = said /\ log' = log /\ late' = late
      /\ cancels' = cancels
    BY DEF Crash
<1>4. crashes' \in 0 .. MaxCrashes
  <2>1. crashes \in 0 .. MaxCrashes /\ crashes < MaxCrashes /\ crashes' = crashes + 1
      BY <1>1, Types DEF Crash
  <2> QED
      BY <2>1 DEF PairAssumption
<1>5. Published(s) /\ Mine(s)' = Mine(s)
    BY <1>1, <1>3, QuietFacts
<1>6. TypeOK' /\ SideStep(s)
    BY <1>1, <1>2, <1>3, <1>4, <1>5, Types DEF TypeOK, Handling, Published, SideStep
<1>7. Shape(s, Mine(s)') /\ AtSide(s)'
    BY <1>1, <1>2, <1>5 DEF ValidSide, AtSide
<1>8. \A u \in Trades : (st[s][u] \in Released \/ Releasing(s, u))' =>
                             st[s][u] \in Released \/ Releasing(s, u)
    BY <1>2, <1>3 DEF Releasing
<1>9. Recorded(s) => Recorded(s)'
    BY <1>2, <1>3, <1>5 DEF Recorded, RecordSide, At, Holds
<1> QED
    BY <1>3, <1>5, <1>6, <1>7, <1>8, <1>9, CarryFacts

\* reserve(): the room is the trade's, or a completed one is cleared for it.
LEMMA ReserveFacts ==
    ASSUME ValidInv, NEW s \in Sides, NEW t \in Trades, Reserve(s, t),
           Recorded(s) => st[s][t] # "applied"
    PROVE  /\ Published(s) /\ Shape(s, Mine(s)') /\ Mine(s)'.reserved = t
           /\ Recorded(s) => ~Mine(s)'.applied
           /\ \/ /\ Mine(s).reserved \in {None, t}
                 /\ Mine(s)'.offer = Mine(s).offer /\ Mine(s)'.validated = Mine(s).validated
                 /\ Mine(s)'.proposal = Mine(s).proposal
              \/ /\ Mine(s).reserved # t /\ Completed(s)
                 /\ Mine(s)'.validated = None
<1>1. TypeOK /\ ValidSide(s) /\ Mine(s) \in Snapshot /\ Shape(s, Mine(s))
    BY ValidFacts DEF ValidInv, ValidSide
<1>2. None \notin Trades
    BY OfferFacts
<1>3. CASE Mine(s).reserved \in {None, t} /\ Put(s, [Mine(s) EXCEPT !.reserved = t])
  <2> DEFINE n == [Mine(s) EXCEPT !.reserved = t]
  <2>1. /\ n \in Snapshot /\ n.reserved = t /\ n.offer = Mine(s).offer
        /\ n.proposal = Mine(s).proposal /\ n.validated = Mine(s).validated
        /\ n.applied = Mine(s).applied
      BY <1>1 DEF Snapshot
  <2>2. Shape(s, n)
      BY <1>1, <1>2, <1>3, <2>1 DEF Shape
  <2>3. Published(s) /\ Mine(s)' = n
      BY <1>1, <1>3, <2>1, PutFacts
  <2> HIDE DEF n
  <2>4. Recorded(s) => ~n.applied
      BY <1>3, <2>1 DEF Recorded
  <2> QED
      BY <1>3, <2>1, <2>2, <2>3, <2>4
<1>4. CASE /\ Mine(s).reserved \notin {None, t} /\ Completed(s)
           /\ Put(s, [Blank EXCEPT !.reserved = t])
  <2> DEFINE n == [Blank EXCEPT !.reserved = t]
  <2>1. /\ n \in Snapshot /\ n.reserved = t /\ n.offer = None
        /\ n.proposal = None /\ n.validated = None /\ n.applied = FALSE
      BY DEF Snapshot, Blank
  <2>2. Shape(s, n)
      BY <1>2, <2>1 DEF Shape
  <2>3. Published(s) /\ Mine(s)' = n
      BY <1>1, <1>4, <2>1, PutFacts
  <2> HIDE DEF n
  <2> QED
      BY <1>4, <2>1, <2>2, <2>3
<1> QED
    BY <1>3, <1>4 DEF Reserve

\* reserve() alone, interrupted before start() takes the room.
LEMMA ClearFacts ==
    ASSUME ValidInv, NEW s \in Sides, NEW t \in Trades, Clear(s, t)
    PROVE  /\ Published(s) /\ Shape(s, Mine(s)') /\ Mine(s)'.reserved = None
           /\ ~Mine(s)'.applied /\ Mine(s)'.validated = None
           /\ Mine(s).reserved # None /\ Completed(s)
<1>1. TypeOK
    BY DEF ValidInv
<1>2. /\ Blank \in Snapshot /\ Blank.reserved = None /\ Blank.offer = None
      /\ Blank.proposal = None /\ Blank.validated = None /\ Blank.applied = FALSE
    BY DEF Snapshot, Blank
<1>3. Shape(s, Blank)
    BY <1>2 DEF Shape
<1>4. Published(s) /\ Mine(s)' = Blank
    BY <1>1, <1>2, PutFacts DEF Clear
<1> QED
    BY <1>2, <1>3, <1>4 DEF Clear

LEMMA StartStep ==
    ASSUME ValidInv, NEW s \in Sides, NEW t \in Trades, Start(s, t) PROVE StepOf(s)
<1>1. TypeOK /\ ValidSide(s)
    BY ValidFacts DEF ValidInv
<1>2. /\ st' \in [Sides -> [Trades -> States]]
      /\ st'[s][t] = "running" /\ \A u \in Trades \ {t} : st'[s][u] = st[s][u]
      /\ \A r \in Sides \ {s} : st'[r] = st[r]
  <2>1. "running" \in States /\ Record(s, t, "running")
      BY DEF States, Start
  <2> QED
      BY <1>1, <2>1, RecordFacts
<1>3. st[s][t] = "prepared" /\ at[s] = None /\ at' = at /\ got' = got /\ Reserve(s, t)
      /\ said' = said /\ late' = late /\ crashes' = crashes /\ cancels' = cancels
    BY DEF Start, Idle
<1>4. /\ Published(s) /\ Shape(s, Mine(s)') /\ Mine(s)'.reserved = t
      /\ Recorded(s) => ~Mine(s)'.applied
      /\ \/ /\ Mine(s).reserved \in {None, t}
            /\ Mine(s)'.offer = Mine(s).offer /\ Mine(s)'.validated = Mine(s).validated
            /\ Mine(s)'.proposal = Mine(s).proposal
         \/ /\ Mine(s).reserved # t /\ Completed(s)
            /\ Mine(s)'.validated = None
    BY <1>3, ReserveFacts
<1>5. TypeOK' /\ SideStep(s)
    BY <1>1, <1>2, <1>3, <1>4, Types DEF TypeOK, Handling, Published, SideStep
<1>6. AtSide(s)'
    BY <1>3 DEF AtSide
<1>7. /\ \A u \in Trades : (st[s][u] \in Released \/ Releasing(s, u))' =>
                               st[s][u] \in Released \/ Releasing(s, u)
      /\ \A u \in Trades : st[s][u] = "applied" => st'[s][u] = "applied"
    BY <1>2, <1>3 DEF Releasing, Released
<1>8. Recorded(s) => Recorded(s)'
    BY <1>2, <1>3, <1>4 DEF Recorded, RecordSide, Released, At
<1> QED
    BY <1>3, <1>4, <1>5, <1>6, <1>7, <1>8, CarryFacts

LEMMA StartInterruptedStep ==
    ASSUME ValidInv, NEW s \in Sides, NEW t \in Trades, StartInterrupted(s, t) PROVE StepOf(s)
<1>1. TypeOK /\ ValidSide(s)
    BY ValidFacts DEF ValidInv
<1>2. st[s][t] = "prepared" /\ at[s] = None /\ at' = at /\ got' = got
      /\ (Reserve(s, t) \/ Clear(s, t))
      /\ st' = st /\ said' = said /\ late' = late /\ cancels' = cancels
    BY DEF StartInterrupted, Idle
<1>3. crashes' \in 0 .. MaxCrashes
  <2>1. crashes \in 0 .. MaxCrashes /\ crashes < MaxCrashes /\ crashes' = crashes + 1
      BY <1>1, Types DEF StartInterrupted
  <2> QED
      BY <2>1 DEF PairAssumption
<1>4. /\ Published(s) /\ Shape(s, Mine(s)') /\ Mine(s)'.reserved \in {t, None}
      /\ Recorded(s) => ~Mine(s)'.applied
      /\ \/ /\ Mine(s)'.reserved # Mine(s).reserved => Mine(s).reserved = None
            /\ Mine(s)'.offer = Mine(s).offer /\ Mine(s)'.validated = Mine(s).validated
            /\ Mine(s)'.proposal = Mine(s).proposal
         \/ /\ Mine(s)'.reserved # Mine(s).reserved /\ Completed(s)
            /\ Mine(s)'.validated = None
  <2>1. CASE Reserve(s, t)
      BY <1>2, <2>1, ReserveFacts
  <2>2. CASE Clear(s, t)
      BY <2>2, ClearFacts
  <2> QED
      BY <1>2, <2>1, <2>2
<1>5. TypeOK' /\ SideStep(s)
    BY <1>1, <1>2, <1>3, <1>4, Types DEF TypeOK, Handling, Published, SideStep
<1>6. AtSide(s)'
    BY <1>2 DEF AtSide
<1>7. \A u \in Trades : (st[s][u] \in Released \/ Releasing(s, u))' =>
                             st[s][u] \in Released \/ Releasing(s, u)
    BY <1>2 DEF Releasing
<1>8. Recorded(s) => Recorded(s)'
    BY <1>2, <1>4, OfferFacts DEF Recorded, RecordSide, Released, At
<1> QED
    BY <1>2, <1>4, <1>5, <1>6, <1>7, <1>8, CarryFacts

LEMMA PollStep ==
    ASSUME ValidInv, NEW s \in Sides, NEW t \in Trades, Poll(s, t, FALSE), UNCHANGED cancels
    PROVE  StepOf(s)
<1>1. cancels' \in 0 .. MaxCancels
    BY Types DEF ValidInv
<1> QED
    BY <1>1, PollFacts

LEMMA RequestCancelStep ==
    ASSUME ValidInv, NEW s \in Sides, NEW t \in Trades, RequestCancel(s, t) PROVE StepOf(s)
<1>1. TypeOK /\ ValidSide(s)
    BY ValidFacts DEF ValidInv
<1>2. cancels' \in 0 .. MaxCancels
  <2>1. cancels \in 0 .. MaxCancels /\ cancels < MaxCancels /\ cancels' = cancels + 1
      BY <1>1, Types DEF RequestCancel
  <2> QED
      BY <2>1 DEF PairAssumption
<1>3. CASE Poll(s, t, TRUE)
    BY <1>2, <1>3, PollFacts
<1>4. CASE /\ Idle(s)
           /\ st[s][t] = "prepared"
           /\ Enter(s, "cancel", t, TRUE)
           /\ UNCHANGED <<st, said, got, log, crashes, late>>
  <2>1. /\ at' \in [Sides -> Handling \cup {None}]
        /\ at'[s] # None => at'[s].step = "cancel" /\ at'[s].trade = t
        /\ \A r \in Sides \ {s} : at'[r] = at[r]
    <3>1. "cancel" \in Steps /\ TRUE \in BOOLEAN
        BY DEF Steps
    <3> QED
        BY <1>1, <1>4, <3>1, EnterFacts
  <2>2. st[s][t] = "prepared" /\ at[s] = None /\ st' = st /\ got' = got /\ said' = said
        /\ log' = log /\ late' = late /\ crashes' = crashes
      BY <1>4 DEF Idle
  <2>3. Published(s) /\ Mine(s)' = Mine(s)
      BY <1>1, <2>2, QuietFacts
  <2>4. TypeOK' /\ SideStep(s)
      BY <1>1, <1>2, <2>1, <2>2, <2>3, Types DEF TypeOK, Handling, Published, SideStep
  <2>5. Shape(s, Mine(s)') /\ AtSide(s)'
      BY <1>1, <2>1, <2>2, <2>3 DEF ValidSide, AtSide, Polling
  <2>6. \A u \in Trades : (st[s][u] \in Released \/ Releasing(s, u))' =>
                               st[s][u] \in Released \/ Releasing(s, u)
      BY <2>1, <2>2 DEF Releasing
  <2>7. Recorded(s) => Recorded(s)'
      BY <2>1, <2>2, <2>3 DEF Recorded, RecordSide, At, Holds
  <2> QED
      BY <2>2, <2>3, <2>4, <2>5, <2>6, <2>7, CarryFacts
<1> QED
    BY <1>3, <1>4 DEF RequestCancel

LEMMA LearnStep ==
    ASSUME ValidInv, NEW s \in Sides, Learn(s) PROVE ValidInv'
<1>1. TypeOK /\ L!Learn(s) /\ st' = st /\ said' = said /\ got' = got /\ at' = at
      /\ crashes' = crashes /\ cancels' = cancels /\ late' = late
    BY DEF ValidInv, Learn
<1>2. /\ log' \in [Sides -> Seq(Snapshot) \ {<<>>}]
      /\ \A r \in Sides : Mine(r)' = Mine(r) /\ History(r)' \subseteq History(r)
    BY <1>1, LearnFacts
<1>3. TypeOK'
    BY <1>1, <1>2 DEF TypeOK
<1>4. ShapeInv'
    BY <1>2 DEF ValidInv, ShapeInv, Shape
<1>5. AtInv'
    BY <1>1, <1>2 DEF ValidInv, AtInv, AtSide, Holds, Valid
<1>6. BothValid'
    BY <1>1 DEF ValidInv, BothValid
<1> QED
    BY <1>3, <1>4, <1>5, <1>6 DEF ValidInv

\* Every step is one of a side's, the arrival of a snapshot, or nothing.
LEMMA NextSteps ==
    ASSUME ValidInv, [Next]_vars
    PROVE  (\E s \in Sides : StepOf(s) \/ Learn(s)) \/ UNCHANGED vars
<1>1. SUFFICES ASSUME Next PROVE \E s \in Sides : StepOf(s) \/ Learn(s)
    OBVIOUS
<1>2. PICK s \in Sides :
          \/ Handler(s) \/ Learn(s) \/ Crash(s)
          \/ \E t \in Trades :
                \/ Prepare(s, t) \/ Start(s, t) \/ StartInterrupted(s, t)
                \/ Poll(s, t, FALSE) /\ UNCHANGED cancels
                \/ Confirm(s, t) \/ Applied(s, t) \/ RequestCancel(s, t)
    BY <1>1 DEF Next
<1>3. CASE Handler(s)
    BY <1>3, SeesCancelStep, SeesNoOfferStep, RejectsOfferStep, ValidatesStep,
       WaitsForPeerStep, ReceivesStep, ReleasesStep, StoresStep, AcknowledgesStep,
       CancelsStep, VoidsStep DEF Handler
<1>4. CASE Crash(s)
    BY <1>4, CrashStep
<1>5. ASSUME NEW t \in Trades,
             \/ Prepare(s, t) \/ Start(s, t) \/ StartInterrupted(s, t)
             \/ Poll(s, t, FALSE) /\ UNCHANGED cancels
             \/ Confirm(s, t) \/ Applied(s, t) \/ RequestCancel(s, t)
      PROVE  StepOf(s)
    BY <1>5, PrepareStep, StartStep, StartInterruptedStep, PollStep, ConfirmStep,
       AppliedStep, RequestCancelStep
<1> QED
    BY <1>2, <1>3, <1>4, <1>5

LEMMA InitValid == Init => ValidInv
<1> SUFFICES ASSUME Init PROVE ValidInv
    OBVIOUS
<1>1. Blank \in Snapshot
    BY DEF Blank, Snapshot
<1>2. log = [s \in Sides |-> <<Blank>>]
    BY DEF Init, L!Init
<1>3. \A s \in Sides : log[s] = <<Blank>> /\ Len(log[s]) = 1 /\ log[s][1] = Blank
    BY <1>2
<1>4. log \in [Sides -> Seq(Snapshot) \ {<<>>}]
    BY <1>1, <1>2
<1>5. TypeOK
    BY <1>4, PairAssumption DEF Init, TypeOK, States
<1>6. ShapeInv
  <2>1. \A s \in Sides : \A x \in History(s) : x = Blank
      BY <1>3 DEF History
  <2>2. \A s \in Sides : Shape(s, Blank)
      BY DEF Shape, Blank
  <2> QED
      BY <2>1, <2>2 DEF ShapeInv
<1>7. AtInv /\ BothValid
    BY DEF Init, AtInv, AtSide, BothValid, Released
<1> QED
    BY <1>5, <1>6, <1>7 DEF ValidInv

\* ValidInv is inductive, whatever is acknowledged late.
LEMMA StepValid == ValidInv /\ [Next]_vars => ValidInv'
<1> SUFFICES ASSUME ValidInv, [Next]_vars PROVE ValidInv'
    OBVIOUS
<1>1. CASE UNCHANGED vars
  <2>1. /\ st' = st /\ said' = said /\ got' = got /\ log' = log /\ at' = at
        /\ crashes' = crashes /\ cancels' = cancels /\ late' = late
      BY <1>1 DEF vars
  <2>2. \A r \in Sides : Mine(r)' = Mine(r) /\ History(r)' = History(r)
      BY <2>1, QuietFacts DEF ValidInv, History
  <2>3. TypeOK'
      BY <2>1 DEF ValidInv, TypeOK
  <2>4. ShapeInv' /\ BothValid'
      BY <2>1, <2>2 DEF ValidInv, ShapeInv, Shape, BothValid
  <2>5. AtInv'
      BY <2>1, <2>2 DEF ValidInv, AtInv, AtSide, Holds, Valid
  <2> QED
      BY <2>3, <2>4, <2>5 DEF ValidInv
<1>2. ASSUME NEW s \in Sides, StepOf(s) PROVE ValidInv'
    BY <1>2, ValidFrame DEF StepOf
<1>3. ASSUME NEW s \in Sides, Learn(s) PROVE ValidInv'
    BY <1>3, LearnStep
<1> QED
    BY <1>1, <1>2, <1>3, NextSteps

\* Every reachable state is of the declared types.
THEOREM Typed == Spec => []TypeOK
<1>1. ValidInv => TypeOK
    BY DEF ValidInv
<1> QED
    BY <1>1, InitValid, StepValid, PTL DEF Spec

\* poll() stores a received save only if both sides validated the same pair of offers, each
\* against its own save: also with late acknowledgements.
THEOREM ReleasesValid == Spec => []BothValid
<1>1. ValidInv => BothValid
    BY DEF ValidInv
<1> QED
    BY <1>1, InitValid, StepValid, PTL DEF Spec

-----------------------------------------------------------------------------
(* The order of the two rooms, up to the first late acknowledgement *)

LEMMA FollowsFacts ==
    ASSUME TypeOK, NEW s \in Sides, NEW x, NEW y, Follows(s, x, y)
    PROVE  x \in History(s) /\ y \in History(s)
<1>1. PICK i \in 1 .. Len(log[s]) : \E j \in i .. Len(log[s]) : x = log[s][i] /\ y = log[s][j]
    BY DEF Follows
<1>2. PICK j \in i .. Len(log[s]) : x = log[s][i] /\ y = log[s][j]
    BY <1>1
<1>3. j \in 1 .. Len(log[s])
    BY <1>1, LogFacts
<1> QED
    BY <1>1, <1>2, <1>3 DEF History

\* The room is only cleared when both sides have applied what they hold.
LEMMA ResetFacts ==
    ASSUME IInv, NEW s \in Sides, Completed(s)
    PROVE  /\ Mine(s).reserved \in Trades /\ st[s][Mine(s).reserved] = "applied"
           /\ Theirs(s).reserved \in Trades /\ st[Other(s)][Theirs(s).reserved] = "applied"
<1>1. TypeOK
    BY DEF IInv, ValidInv
<1>2. /\ Mine(s) \in History(s) /\ Theirs(s) \in History(Other(s)) /\ Other(s) \in Sides
      /\ Mine(s) \in Snapshot /\ Theirs(s) \in Snapshot
    BY <1>1, LogFacts, Two
<1>3. /\ Mine(s).reserved # None /\ st[s][Mine(s).reserved] = "applied"
      /\ Theirs(s).reserved # None /\ st[Other(s)][Theirs(s).reserved] = "applied"
    BY <1>2 DEF IInv, RecordInv, Completed
<1> QED
    BY <1>2, <1>3 DEF Snapshot

LEMMA RecordFrame ==
    ASSUME IInv, NEW s \in Sides, SideStep(s), Keeps(s), Recorded(s)'
    PROVE  RecordInv'
<1>1. TypeOK
    BY DEF IInv, ValidInv
<1>2. RecordSide(s)'
    BY DEF Recorded, RecordSide, Holds, At
<1>3. ASSUME NEW x \in History(s)', x.applied
      PROVE  x.reserved # None /\ st'[s][x.reserved] = "applied"
  <2>1. CASE x \in History(s)
    <3>1. x \in Snapshot /\ x.reserved # None /\ st[s][x.reserved] = "applied"
        BY <1>1, <1>3, <2>1, LogFacts DEF IInv, RecordInv
    <3> QED
        BY <3>1 DEF Keeps, Snapshot
  <2>2. CASE x = Mine(s)'
      BY <1>3, <2>2 DEF Recorded
  <2> QED
      BY <2>1, <2>2 DEF SideStep, Published
<1>4. ASSUME NEW r \in Sides, r # s
      PROVE  /\ RecordSide(r)'
             /\ \A x \in History(r)' :
                   x.applied => x.reserved # None /\ st'[r][x.reserved] = "applied"
  <2>1. Mine(r)' = Mine(r) /\ History(r)' = History(r) /\ st'[r] = st[r] /\ got'[r] = got[r]
        /\ at'[r] = at[r]
      BY <1>4 DEF SideStep, Published
  <2>2. /\ RecordSide(r)
        /\ \A x \in History(r) : x.applied => x.reserved # None /\ st[r][x.reserved] = "applied"
      BY DEF IInv, RecordInv
  <2> QED
      BY <2>1, <2>2 DEF RecordSide, Holds, At
<1> QED
    BY <1>2, <1>3, <1>4 DEF RecordInv, RecordSide, Holds, At

LEMMA RoomFrame ==
    ASSUME IInv, NEW s \in Sides, SideStep(s), Keeps(s)
    PROVE  RoomInv'
<1>1. TypeOK
    BY DEF IInv, ValidInv
<1> SUFFICES ASSUME NEW r \in Sides, NEW x \in History(r)', NEW y \in History(r)',
                    Follows(r, x, y)', x.reserved # None, st'[r][x.reserved] # "applied"
             PROVE  y.reserved = x.reserved /\ (x.offer # None => y.offer = x.offer)
    BY DEF RoomInv, Follows
<1>2. CASE r # s
  <2>1. Follows(r, x, y) /\ x \in History(r) /\ y \in History(r) /\ st'[r] = st[r]
      BY <1>2 DEF SideStep, Published
  <2> QED
      BY <2>1 DEF IInv, RoomInv
<1>3. CASE r = s /\ x = Mine(s)' /\ y = Mine(s)'
    BY <1>3
<1>4. CASE r = s /\ x \in History(s)
  <2>1. x \in Snapshot /\ x.reserved \in Trades /\ st[s][x.reserved] # "applied"
      BY <1>1, <1>4, LogFacts DEF Keeps, Snapshot
  <2>2. CASE Follows(s, x, y)
      BY <1>1, <1>4, <2>1, <2>2, FollowsFacts DEF IInv, RoomInv
  <2>3. CASE y = Mine(s)'
    <3>1. Mine(s) \in History(s) /\ Follows(s, x, Mine(s))
        BY <1>1, <1>4, LogFacts
    <3>2. Mine(s).reserved = x.reserved /\ (x.offer # None => Mine(s).offer = x.offer)
        BY <1>4, <2>1, <3>1 DEF IInv, RoomInv
    <3>3. Mine(s)'.reserved = Mine(s).reserved
        BY <2>1, <3>2, ResetFacts DEF Keeps
    <3> QED
        BY <2>3, <3>2, <3>3 DEF Keeps
  <2> QED
      BY <1>4, <2>2, <2>3 DEF SideStep, Published
<1>5. CASE r = s /\ x \notin History(s)
  <2>1. ~Follows(s, x, y) /\ x = Mine(s)'
      BY <1>1, <1>5, FollowsFacts DEF SideStep, Published
  <2>2. y = Mine(s)'
      BY <1>5, <2>1 DEF SideStep, Published
  <2> QED
      BY <2>1, <2>2
<1> QED
    BY <1>2, <1>4, <1>5

LEMMA FaithfulFrame ==
    ASSUME IInv, NEW s \in Sides, SideStep(s), Keeps(s)
    PROVE  FaithfulInv'
<1>1. TypeOK /\ ValidInv
    BY DEF IInv, ValidInv
<1> SUFFICES ASSUME NEW r \in Sides, NEW t \in Trades,
                    NEW x \in History(Other(r))', NEW y \in History(Other(r))',
                    Follows(Other(r), x, y)', x.validated # None,
                    Incoming(Other(r), x.validated) = Offer(r, t), st'[r][t] # "applied"
             PROVE  /\ Theirs(Other(r))'.offer = Offer(r, t)
                    /\ y.reserved = x.reserved /\ y.offer = x.offer
                    /\ y.proposal = x.proposal /\ y.validated = x.validated
    BY DEF FaithfulInv, Follows
<1>2. Theirs(Other(r))' = Theirs(Other(r)) /\ st[r][t] # "applied" /\ Other(r) \in Sides
    BY Two DEF SideStep, Published, Keeps
<1>3. ASSUME Follows(Other(r), x, y)
      PROVE  /\ Theirs(Other(r)).offer = Offer(r, t)
             /\ y.reserved = x.reserved /\ y.offer = x.offer
             /\ y.proposal = x.proposal /\ y.validated = x.validated
    BY <1>1, <1>2, <1>3, FollowsFacts DEF IInv, FaithfulInv
<1>4. CASE r = s
  <2>1. Follows(Other(r), x, y)
      BY <1>2, <1>4, Two DEF SideStep, Published
  <2> QED
      BY <1>2, <1>3, <2>1
<1>5. CASE r # s /\ Follows(Other(r), x, y)
    BY <1>2, <1>3, <1>5
<1>6. CASE r # s /\ y = Mine(s)'
  <2>1. Other(r) = s /\ Other(s) = r
      BY <1>6, Two
  <2>2. CASE x \in History(s)
    <3>1. Follows(s, x, Mine(s)) /\ Mine(s) \in History(s)
        BY <1>1, <2>2, LogFacts
    <3>2. /\ Theirs(s).offer = Offer(r, t)
          /\ Mine(s).reserved = x.reserved /\ Mine(s).offer = x.offer
          /\ Mine(s).proposal = x.proposal /\ Mine(s).validated = x.validated
        BY <1>2, <2>1, <2>2, <3>1 DEF IInv, FaithfulInv
    <3>3. Shape(s, Mine(s)) /\ Mine(s) \in Snapshot /\ Shape(r, Theirs(s)) /\ Theirs(s) \in Snapshot
        BY <1>1, <2>1, ValidFacts DEF ValidSide
    <3>4. Mine(s).proposal # None
        BY <3>2, <3>3 DEF Shape
    <3>5. Mine(s).reserved # None /\ Mine(s).offer # None
      <4>1. Mine(s).reserved \in Trades /\ Mine(s).offer \in Offers
          BY <3>3, <3>4, ValidityFacts
      <4> QED
          BY <4>1, OfferFacts
    <3>6. Mine(s)'.reserved = Mine(s).reserved
      <4>1. SUFFICES ASSUME Completed(s) PROVE FALSE
          BY <3>5 DEF Keeps
      <4>2. Theirs(s).reserved \in Trades /\ st[r][Theirs(s).reserved] = "applied"
          BY <2>1, <4>1, ResetFacts
      <4>3. Theirs(s).offer = Offer(r, Theirs(s).reserved)
          BY <3>2, <3>3, OfferFacts DEF Shape
      <4>4. Theirs(s).reserved = t
          BY <3>2, <4>2, <4>3, OfferFacts
      <4> QED
          BY <1>2, <4>2, <4>4
    <3>7. Mine(s)'.offer = Mine(s).offer /\ Mine(s)'.validated = Mine(s).validated
          /\ Mine(s)'.proposal = Mine(s).proposal
        BY <2>1, <3>2, <3>5, <3>6 DEF Keeps
    <3> QED
        BY <1>2, <1>6, <2>1, <3>2, <3>6, <3>7
  <2>3. CASE x = Mine(s)'
    <3>1. Theirs(s).offer = Offer(r, t)
      <4>1. CASE x.validated = Mine(s).validated
        <5>1. Follows(s, Mine(s), Mine(s)) /\ Mine(s) \in History(s)
            BY <1>1, LogFacts
        <5> QED
            BY <1>2, <2>1, <4>1, <5>1 DEF IInv, FaithfulInv
      <4>2. CASE Incoming(s, x.validated) = Theirs(s).offer
          BY <2>1, <4>2
      <4> QED
          BY <2>3, <4>1, <4>2 DEF Keeps
    <3> QED
        BY <1>2, <1>6, <2>1, <2>3, <3>1
  <2> QED
      BY <2>1, <2>2, <2>3 DEF SideStep, Published
<1> QED
  <2>1. r # s => Other(r) = s
      BY Two
  <2> QED
      BY <1>4, <1>5, <1>6, <2>1 DEF SideStep, Published

\* The exchange of s's trade, and what became of the other side's.
LEMMA PartnerFacts ==
    ASSUME IInv, NEW s \in Sides, NEW t \in Trades, NEW u \in Trades, Engaged(s, t, u)
    PROVE  /\ Mine(s).reserved = t /\ Mine(s).offer = Offer(s, t)
           /\ Mine(Other(s)).reserved = u /\ Theirs(s).reserved = u
           /\ Theirs(Other(s)).offer = Offer(s, t) /\ Theirs(Other(s)).reserved = t
           /\ Incoming(Other(s), Mine(Other(s)).proposal) = Offer(s, t)
           /\ Mine(Other(s)).validated = Mine(Other(s)).proposal
           /\ Mine(Other(s)).proposal # None /\ Mine(Other(s)).offer # None
           /\ st[Other(s)][u] \in Released => got[Other(s)][u] = Offer(s, t)
<1>1. TypeOK
    BY DEF IInv, ValidInv
<1>2. /\ Mine(s) \in History(s) /\ Theirs(s) \in History(Other(s))
      /\ Mine(Other(s)) \in History(Other(s)) /\ Theirs(Other(s)) \in History(s)
    BY <1>1, LogFacts, Two
<1>3. /\ Mine(s).reserved = t /\ Mine(s).offer = Offer(s, t)
      /\ Mine(Other(s)).reserved = u /\ Theirs(s).reserved = u
      /\ Theirs(Other(s)).offer = Offer(s, t) /\ Theirs(Other(s)).reserved = t
      /\ Mine(Other(s)).proposal = Pair(s, Offer(s, t), Offer(Other(s), u))
      /\ Mine(Other(s)).validated = Mine(Other(s)).proposal
      /\ Mine(Other(s)).offer = Offer(Other(s), u)
    BY <1>2 DEF Engaged
<1>4. /\ Offer(s, t) \in Offers /\ Offer(Other(s), u) \in Offers
      /\ Offer(Other(s), u) # None
    BY OfferFacts, Two
<1>5. /\ Incoming(Other(s), Mine(Other(s)).proposal) = Offer(s, t)
      /\ Mine(Other(s)).proposal # None /\ Mine(Other(s)).offer # None
    BY <1>3, <1>4, PairFacts
<1>6. st[Other(s)][u] \in Released => got[Other(s)][u] = Offer(s, t)
    BY <1>3, <1>5, Two DEF IInv, RecordInv, RecordSide, Holds
<1> QED
    BY <1>3, <1>5, <1>6

LEMMA PartnerFrame ==
    ASSUME IInv, NEW s \in Sides, SideStep(s), Keeps(s)
    PROVE  PartnerInv'
<1>1. TypeOK /\ ValidInv
    BY DEF IInv, ValidInv
<1> DEFINE o == Other(s)
<1>2. o \in Sides /\ o # s /\ Other(o) = s /\ Sides = {s, o}
    BY Two
<1>3. /\ st'[o] = st[o] /\ got'[o] = got[o] /\ at'[o] = at[o]
      /\ History(o)' = History(o)
      /\ History(s)' \subseteq History(s) \cup {Mine(s)'}
    BY <1>2 DEF SideStep, Published
<1> HIDE DEF o
<1>4. \A t, u \in Trades : Settled(s, t, u) => Settled(s, t, u)'
    BY <1>3 DEF Settled, o
<1>5. \A t, u \in Trades : Settled(o, t, u) => Settled(o, t, u)'
    BY <1>2 DEF Settled, Keeps, Released
\* s's own trade releases nothing new: the room goes on or both have applied.
<1>6. ASSUME NEW t \in Trades, NEW u \in Trades, Engaged(s, t, u)
      PROVE  Engaged(s, t, u)' \/ Settled(s, t, u)
  <2>1. /\ Mine(s).reserved = t /\ Mine(s).offer = Offer(s, t) /\ Theirs(s).reserved = u
        /\ st[o][u] \in Released => got[o][u] = Offer(s, t)
      BY <1>6, PartnerFacts DEF o
  <2>2. t # None /\ Offer(s, t) # None
      BY OfferFacts
  <2>3. CASE Completed(s)
    <3>1. st[o][u] = "applied"
        BY <2>1, <2>3, ResetFacts DEF o
    <3> QED
        BY <2>1, <3>1 DEF Settled, o, Released
  <2>4. CASE Mine(s)'.reserved = t
    <3>1. Mine(s)'.offer = Offer(s, t)
        BY <2>1, <2>2, <2>4 DEF Keeps
    <3> QED
        BY <1>3, <1>6, <2>4, <3>1 DEF Engaged, o
  <2> QED
      BY <2>1, <2>2, <2>3, <2>4 DEF Keeps
\* The other side's trade: s stays with the pair or has applied it.
<1>7. ASSUME NEW t \in Trades, NEW u \in Trades, Engaged(o, t, u)
      PROVE  Engaged(o, t, u)' \/ Settled(o, t, u)
  <2>1. /\ Mine(s).reserved = u /\ Theirs(s).offer = Offer(o, t)
        /\ Incoming(s, Mine(s).proposal) = Offer(o, t)
        /\ Mine(s).validated = Mine(s).proposal
        /\ Mine(s).proposal # None /\ Mine(s).offer # None
        /\ st[s][u] \in Released => got[s][u] = Offer(o, t)
      BY <1>2, <1>7, PartnerFacts
  <2>2. u # None
      BY OfferFacts
  <2>3. CASE Completed(s)
    <3>1. st[s][u] = "applied"
        BY <2>1, <2>3, ResetFacts
    <3> QED
        BY <1>2, <2>1, <3>1 DEF Settled, Released
  <2>4. CASE Mine(s)'.reserved = u
    <3>1. Mine(s)'.offer = Mine(s).offer /\ Mine(s)'.proposal = Mine(s).proposal
          /\ Mine(s)'.validated = Mine(s).validated
        BY <2>1, <2>4 DEF Keeps
    <3>2. Mine(s) \in History(s)
        BY <1>1, LogFacts
    <3>3. \A x \in History(o)' : x.reserved = t /\ x.offer = Offer(o, t)
        BY <1>3, <1>7 DEF Engaged
    <3>4. \A y \in History(s) :
             /\ y.reserved = u /\ y.offer = Offer(s, u)
             /\ y.proposal = Pair(o, Offer(o, t), Offer(s, u)) /\ y.validated = y.proposal
        BY <1>2, <1>7 DEF Engaged
    <3>5. \A y \in History(s)' :
             /\ y.reserved = u /\ y.offer = Offer(s, u)
             /\ y.proposal = Pair(o, Offer(o, t), Offer(s, u)) /\ y.validated = y.proposal
        BY <1>3, <2>1, <2>4, <3>1, <3>2, <3>4
    <3> QED
        BY <1>2, <3>3, <3>5 DEF Engaged
  <2> QED
      BY <2>1, <2>2, <2>3, <2>4 DEF Keeps
\* A trade that has just got its result.
<1>8. ASSUME NEW t \in Trades,
             Matched(s), Holds(s, t)', Mine(s)' = Mine(s),
             st[s][t] \in {"running", "uncertain"}, Mine(s).proposal # None
      PROVE  \E u \in Trades : got'[s][t] = Offer(o, u) /\ Engaged(s, t, u)'
  <2>1. /\ Mine(s).reserved = t /\ Mine(s).offer = Offer(s, t)
        /\ got'[s][t] = Incoming(s, Mine(s).proposal)
      BY <1>8 DEF Holds
  <2>2. /\ Shape(s, Mine(s)) /\ Mine(s) \in Snapshot
        /\ Shape(o, Theirs(s)) /\ Theirs(s) \in Snapshot
      BY <1>1, ValidFacts DEF ValidSide, o
  <2>3. PICK u \in Trades : Incoming(s, Mine(s).proposal) = Offer(o, u)
      BY <1>8, <2>2, ValidityFacts DEF o
  <2>4. Mine(s).proposal = Pair(s, Offer(s, t), Offer(o, u))
      BY <1>8, <2>1, <2>2, <2>3, ValidityFacts
  <2>5. /\ Offer(s, t) \in Offers /\ Offer(o, u) \in Offers /\ Offer(s, t) # None
        /\ t # None
      BY <1>2, OfferFacts
  <2>6. Incoming(o, Mine(s).proposal) = Offer(s, t)
      BY <2>4, <2>5, PairFacts DEF o
  <2>7. Theirs(s).proposal = Mine(s).proposal /\ Theirs(s).validated = Mine(s).proposal
      BY <1>8 DEF Matched
  <2>8. st[s][t] # "applied"
      BY <1>8
  <2>9. /\ Theirs(o).offer = Offer(s, t)
        /\ \A y \in History(o) : /\ y.reserved = Theirs(s).reserved /\ y.offer = Theirs(s).offer
                                   /\ y.proposal = Mine(s).proposal
                                   /\ y.validated = Mine(s).proposal
    <3>1. Theirs(s) \in History(o)
        BY <1>1, LogFacts DEF o
    <3>2. \A y \in History(o) : Follows(o, Theirs(s), y)
        BY <1>1, <1>2, LogFacts
    <3>3. \A y \in History(o) : /\ Theirs(o).offer = Offer(s, t)
                                 /\ y.reserved = Theirs(s).reserved /\ y.offer = Theirs(s).offer
                                 /\ y.proposal = Theirs(s).proposal
                                 /\ y.validated = Theirs(s).validated
        BY <1>8, <2>6, <2>7, <2>8, <3>1, <3>2 DEF IInv, FaithfulInv, o
    <3> QED
        BY <2>7, <3>1, <3>3
  <2>10. Theirs(s).offer = Offer(o, u) /\ Theirs(s).reserved = u
    <3>1. /\ Theirs(s).reserved \in Trades /\ Theirs(s).offer = Offer(o, Theirs(s).reserved)
          /\ Theirs(s).proposal = Pair(o, Theirs(s).offer, Incoming(o, Theirs(s).proposal))
          /\ Theirs(s).offer \in Offers
        BY <1>2, <1>8, <2>2, <2>7, ValidityFacts
    <3>2. Incoming(s, Pair(o, Theirs(s).offer, Offer(s, t))) = Theirs(s).offer
        BY <1>2, <2>5, <3>1, PairFacts
    <3>3. Theirs(s).offer = Offer(o, u)
        BY <2>3, <2>6, <2>7, <3>1, <3>2
    <3> QED
        BY <1>2, <3>1, <3>3, OfferFacts
  <2>11. \A x \in History(s) : x.reserved = t /\ x.offer = Offer(s, t)
    <3>1. /\ Theirs(o) \in History(s) /\ Theirs(o) \in Snapshot /\ Shape(s, Theirs(o))
          /\ \A x \in History(s) : Follows(s, Theirs(o), x)
        BY <1>1, <1>2, LogFacts, ValidFacts DEF o
    <3>2. Theirs(o).reserved = t
      <4>1. Theirs(o).offer = Offer(s, Theirs(o).reserved) /\ Theirs(o).reserved # None
          BY <2>5, <2>9, <3>1 DEF Shape
      <4>2. Theirs(o).reserved \in Trades
          BY <3>1, <4>1 DEF Snapshot
      <4> QED
          BY <2>9, <4>1, <4>2, OfferFacts
    <3> QED
        BY <2>5, <2>8, <2>9, <3>1, <3>2 DEF IInv, RoomInv
  <2>12. Engaged(s, t, u)'
    <3>1. \A x \in History(s)' : x.reserved = t /\ x.offer = Offer(s, t)
        BY <1>3, <1>8, <2>1, <2>11
    <3>2. \A y \in History(o)' :
             /\ y.reserved = u /\ y.offer = Offer(o, u)
             /\ y.proposal = Pair(s, Offer(s, t), Offer(o, u)) /\ y.validated = y.proposal
        BY <1>3, <2>4, <2>9, <2>10
    <3> QED
        BY <3>1, <3>2 DEF Engaged, o
  <2> QED
      BY <2>1, <2>3, <2>12
<1>9. ASSUME NEW t \in Trades, (st[s][t] \in Released \/ Releasing(s, t))'
      PROVE  \E u \in Trades : /\ got'[s][t] = Offer(o, u)
                               /\ Engaged(s, t, u)' \/ Settled(s, t, u)'
  <2>1. CASE (st[s][t] \in Released \/ Releasing(s, t)) /\ got'[s][t] = got[s][t]
    <3>1. PICK u \in Trades : /\ got[s][t] = Offer(o, u)
                              /\ Engaged(s, t, u) \/ Settled(s, t, u)
        BY <2>1 DEF IInv, PartnerInv, o
    <3> QED
        BY <1>4, <1>6, <2>1, <3>1
  <2>2. CASE /\ Matched(s) /\ Holds(s, t)' /\ Mine(s)' = Mine(s)
             /\ st[s][t] \in {"running", "uncertain"} /\ Mine(s).proposal # None
      BY <1>8, <2>2
  <2> QED
      BY <1>9, <2>1, <2>2 DEF Keeps
<1>10. ASSUME NEW t \in Trades, (st[o][t] \in Released \/ Releasing(o, t))'
       PROVE  \E u \in Trades : /\ got'[o][t] = Offer(s, u)
                                /\ Engaged(o, t, u)' \/ Settled(o, t, u)'
  <2>1. st[o][t] \in Released \/ Releasing(o, t)
      BY <1>3, <1>10 DEF Releasing
  <2>2. PICK u \in Trades : /\ got[o][t] = Offer(s, u)
                            /\ Engaged(o, t, u) \/ Settled(o, t, u)
      BY <1>2, <2>1 DEF IInv, PartnerInv
  <2> QED
      BY <1>3, <1>5, <1>7, <2>2
<1>11. ASSUME NEW r \in Sides, NEW t \in Trades, (st[r][t] \in Released \/ Releasing(r, t))'
       PROVE  \E u \in Trades : /\ got'[r][t] = Offer(Other(r), u)
                                /\ Engaged(r, t, u)' \/ Settled(r, t, u)'
  <2>1. CASE r = s
      BY <1>9, <1>11, <2>1 DEF o
  <2>2. CASE r = o
      BY <1>2, <1>10, <1>11, <2>2
  <2> QED
      BY <1>2, <2>1, <2>2
<1> QED
    BY <1>11 DEF PartnerInv

\* A snapshot arrives: what is held of s is a later part of its history.
LEMMA LearnFrame ==
    ASSUME IInv, NEW s \in Sides, Learn(s)
    PROVE  RecordInv' /\ RoomInv' /\ FaithfulInv' /\ PartnerInv' /\ late' = late
<1>1. TypeOK /\ L!Learn(s) /\ st' = st /\ got' = got /\ at' = at /\ late' = late
    BY DEF IInv, ValidInv, Learn
<1>2. /\ \A r \in Sides : /\ Mine(r)' = Mine(r) /\ History(r)' \subseteq History(r)
                            /\ \A x, y : Follows(r, x, y)' => Follows(r, x, y)
      /\ Theirs(s)' = Theirs(s)
      /\ Follows(s, Theirs(Other(s)), Theirs(Other(s))')
    BY <1>1, LearnFacts
<1>3. RecordInv'
  <2>1. \A r \in Sides : RecordSide(r)'
      BY <1>1, <1>2 DEF IInv, RecordInv, RecordSide, Holds, At
  <2>2. \A r \in Sides : \A x \in History(r)' :
            x.applied => x.reserved # None /\ st'[r][x.reserved] = "applied"
      BY <1>1, <1>2 DEF IInv, RecordInv
  <2> QED
      BY <2>1, <2>2 DEF RecordInv
<1>4. RoomInv'
    BY <1>1, <1>2 DEF IInv, RoomInv
<1>5. FaithfulInv'
  <2> SUFFICES ASSUME NEW r \in Sides, NEW t \in Trades,
                      NEW x \in History(Other(r))', NEW y \in History(Other(r))',
                      Follows(Other(r), x, y)', x.validated # None,
                      Incoming(Other(r), x.validated) = Offer(r, t), st[r][t] # "applied"
               PROVE  /\ Theirs(Other(r))'.offer = Offer(r, t)
                      /\ y.reserved = x.reserved /\ y.offer = x.offer
                      /\ y.proposal = x.proposal /\ y.validated = x.validated
      BY <1>1 DEF FaithfulInv, Follows
  <2>1. /\ Theirs(Other(r)).offer = Offer(r, t)
        /\ y.reserved = x.reserved /\ y.offer = x.offer
        /\ y.proposal = x.proposal /\ y.validated = x.validated
      BY <1>2, Two DEF IInv, FaithfulInv
  <2>2. CASE r = s
    <3>1. /\ Theirs(Other(s)) \in History(s) /\ Theirs(Other(s))' \in History(s)
          /\ Theirs(Other(s)) \in Snapshot /\ Shape(s, Theirs(Other(s)))
        BY <1>1, <1>2, FollowsFacts, LogFacts, ValidFacts, Two DEF IInv
    <3>2. Offer(s, t) # None
        BY OfferFacts
    <3>3. /\ Theirs(Other(s)).reserved \in Trades
          /\ Theirs(Other(s)).offer = Offer(s, Theirs(Other(s)).reserved)
        BY <2>1, <2>2, <3>1, <3>2 DEF Shape, Snapshot
    <3>4. Theirs(Other(s)).reserved = t /\ t # None
        BY <2>1, <2>2, <3>3, OfferFacts
    <3>5. Theirs(Other(s))'.offer = Offer(s, t)
        BY <1>2, <2>1, <2>2, <3>1, <3>2, <3>4 DEF IInv, RoomInv
    <3> QED
        BY <2>1, <2>2, <3>5
  <2>3. CASE r # s
    <3>1. Theirs(Other(r))' = Theirs(Other(r))
        BY <1>2, <2>3, Two
    <3> QED
        BY <2>1, <3>1
  <2> QED
      BY <2>2, <2>3
<1>6. PartnerInv'
  <2>1. \A r \in Sides, t, u \in Trades : Engaged(r, t, u) => Engaged(r, t, u)'
      BY <1>2, Two DEF Engaged
  <2>2. \A r \in Sides, t, u \in Trades : Settled(r, t, u) => Settled(r, t, u)'
      BY <1>1 DEF Settled
  <2>3. \A r \in Sides, t \in Trades :
            (st[r][t] \in Released \/ Releasing(r, t))' => st[r][t] \in Released \/ Releasing(r, t)
      BY <1>1 DEF Releasing
  <2> QED
      BY <1>1, <2>1, <2>2, <2>3 DEF IInv, PartnerInv
<1> QED
    BY <1>1, <1>3, <1>4, <1>5, <1>6

LEMMA InitOrder == Init => IInv
<1> SUFFICES ASSUME Init PROVE IInv
    OBVIOUS
<1>1. ValidInv /\ TypeOK
    BY InitValid DEF ValidInv
<1>2. log = [s \in Sides |-> <<Blank>>]
    BY DEF Init, L!Init
<1>3. \A s \in Sides : log[s] = <<Blank>> /\ Len(log[s]) = 1 /\ log[s][1] = Blank
    BY <1>2
<1>4. \A s \in Sides : \A x \in History(s) : x = Blank
    BY <1>3 DEF History
<1>5. \A s \in Sides : Mine(s) = Blank
    BY <1>1, <1>4, LogFacts
<1>6. /\ Blank.reserved = None /\ Blank.validated = None /\ ~Blank.applied
    BY DEF Blank
<1>7. /\ \A s \in Sides, t \in Trades : st[s][t] = "none"
      /\ \A s \in Sides : at[s] = None
      /\ late = 0
    BY DEF Init
<1>8. RecordInv
    BY <1>4, <1>6, <1>7 DEF RecordInv, RecordSide, At, Released
<1>9. RoomInv
    BY <1>4, <1>6 DEF RoomInv
<1>10. FaithfulInv
    BY <1>4, <1>6, Two DEF FaithfulInv
<1>11. PartnerInv
    BY <1>7 DEF PartnerInv, Released, Releasing
<1> QED
    BY <1>1, <1>7, <1>8, <1>9, <1>10, <1>11 DEF IInv

\* What was acknowledged late stays so.
LEMMA LateStays == TypeOK /\ [Next]_vars /\ late' = 0 => late = 0
<1> SUFFICES ASSUME TypeOK, [Next]_vars, late' = 0 PROVE late = 0
    OBVIOUS
<1>1. late \in Nat
    BY DEF TypeOK, PairAssumption
<1>2. CASE UNCHANGED vars
    BY <1>2 DEF vars
<1>3. ASSUME NEW s \in Sides, Handler(s) \/ Learn(s) \/ Crash(s)
      PROVE  late = 0
    BY <1>3 DEF Handler, Learn, Crash, SeesCancel, SeesNoOffer, RejectsOffer, Validates, WaitsForPeer,
       Receives, Releases, Stores, Acknowledges, Cancels, Voids
<1>4. ASSUME NEW s \in Sides, NEW t \in Trades,
             \/ Prepare(s, t) \/ Start(s, t) \/ StartInterrupted(s, t) \/ Confirm(s, t)
             \/ Poll(s, t, FALSE) \/ RequestCancel(s, t)
      PROVE  late = 0
    BY <1>4 DEF Prepare, Start, StartInterrupted, Confirm, Poll, RequestCancel
<1>5. ASSUME NEW s \in Sides, NEW t \in Trades, Applied(s, t)
      PROVE  late = 0
    BY <1>1, <1>5 DEF Applied
<1> QED
    BY <1>2, <1>3, <1>4, <1>5 DEF Next

LEMMA StepOrder == IInv /\ [Next]_vars /\ late' = 0 => IInv'
<1> SUFFICES ASSUME IInv, [Next]_vars, late' = 0 PROVE IInv'
    OBVIOUS
<1>1. ValidInv /\ ValidInv'
    BY StepValid DEF IInv
<1>2. late' = 0
    OBVIOUS
<1>3. CASE UNCHANGED vars
  <2>1. /\ st' = st /\ got' = got /\ log' = log /\ at' = at
      BY <1>3 DEF vars
  <2>2. \A r \in Sides : /\ Mine(r)' = Mine(r) /\ History(r)' = History(r)
                          /\ Theirs(r)' = Theirs(r)
                          /\ \A x, y : Follows(r, x, y)' <=> Follows(r, x, y)
      BY <2>1 DEF Mine, Theirs, History, Follows, L!Current, L!Held
  <2>3. RecordInv'
      BY <2>1, <2>2 DEF IInv, RecordInv, RecordSide, Holds, At
  <2>4. RoomInv'
      BY <2>1, <2>2 DEF IInv, RoomInv
  <2>5. FaithfulInv'
      BY <2>1, <2>2, Two DEF IInv, FaithfulInv
  <2>6. PartnerInv'
    <3>1. \A r \in Sides, t, u \in Trades : /\ Engaged(r, t, u) => Engaged(r, t, u)'
                                            /\ Settled(r, t, u) => Settled(r, t, u)'
        BY <2>1, <2>2, Two DEF Engaged, Settled
    <3> QED
        BY <2>1, <3>1 DEF IInv, PartnerInv, Releasing
  <2> QED
      BY <1>1, <1>2, <2>3, <2>4, <2>5, <2>6 DEF IInv
<1>4. ASSUME NEW s \in Sides, StepOf(s) PROVE IInv'
  <2>1. SideStep(s) /\ Keeps(s)
      BY <1>4 DEF StepOf
  <2>2. Recorded(s)
    <3>1. Mine(s) \in History(s)
        BY <1>1, LogFacts DEF ValidInv
    <3> QED
        BY <3>1 DEF IInv, RecordInv, Recorded
  <2>3. Recorded(s)'
      BY <1>2, <1>4, <2>2 DEF StepOf
  <2> QED
      BY <1>1, <1>2, <2>1, <2>3, RecordFrame, RoomFrame, FaithfulFrame, PartnerFrame DEF IInv
<1>5. ASSUME NEW s \in Sides, Learn(s) PROVE IInv'
    BY <1>1, <1>2, <1>5, LearnFrame DEF IInv
<1> QED
    BY <1>1, <1>3, <1>4, <1>5, NextSteps

-----------------------------------------------------------------------------
(* What follows *)

LEMMA OrderOneToOne == IInv => OneToOne
<1> SUFFICES ASSUME IInv PROVE OneToOne
    OBVIOUS
<1>1. ASSUME NEW s \in Sides, NEW t \in Trades, NEW u \in Trades,
             st[s][t] \in Released, got[s][t] = Offer(Other(s), u), ~Settled(s, t, u)
      PROVE  Engaged(s, t, u)
  <2>1. PICK v \in Trades : /\ got[s][t] = Offer(Other(s), v)
                            /\ Engaged(s, t, v) \/ Settled(s, t, v)
      BY <1>1 DEF IInv, PartnerInv
  <2>2. u = v
      BY <1>1, <2>1, OfferFacts, Two
  <2> QED
      BY <1>1, <2>1, <2>2
<1>2. ASSUME NEW s \in Sides, NEW t \in Trades, NEW u \in Trades,
             st[s][t] \in Released, got[s][t] = Offer(Other(s), u),
             st[Other(s)][u] \in Released
      PROVE  got[Other(s)][u] = Offer(s, t)
  <2>1. CASE Settled(s, t, u)
      BY <2>1 DEF Settled
  <2>2. CASE Engaged(s, t, u)
      BY <1>2, <2>2, PartnerFacts
  <2> QED
      BY <1>1, <1>2, <2>1, <2>2
<1>3. ASSUME NEW s \in Sides, NEW t \in Trades, NEW v \in Trades,
             st[s][t] \in Released, st[s][v] \in Released, got[s][v] = got[s][t]
      PROVE  v = t
  <2>1. PICK u \in Trades : got[s][t] = Offer(Other(s), u)
      BY <1>3 DEF IInv, PartnerInv
  <2>2. CASE Settled(s, t, u) \/ Settled(s, v, u)
    <3>1. st[Other(s)][u] \in Released
        BY <2>2 DEF Settled, Released
    <3>2. got[Other(s)][u] = Offer(s, t) /\ got[Other(s)][u] = Offer(s, v)
        BY <1>2, <1>3, <2>1, <3>1
    <3> QED
        BY <3>2, OfferFacts
  <2>3. CASE Engaged(s, t, u) /\ Engaged(s, v, u)
    <3>1. Mine(s).reserved = t
        BY <2>3, PartnerFacts
    <3>2. Mine(s).reserved = v
        BY <2>3, PartnerFacts
    <3> QED
        BY <3>1, <3>2
  <2> QED
      BY <1>1, <1>3, <2>1, <2>2, <2>3
<1> QED
    BY <1>2, <1>3 DEF OneToOne

LEMMA ResetApplied ==
    ASSUME IInv, [Next]_vars, NEW s \in Sides,
           Mine(s).reserved # None, Mine(s)'.reserved # Mine(s).reserved
    PROVE  LET t == Mine(s).reserved IN
           /\ st[s][t] = "applied"
           /\ \E u \in Trades : /\ got[s][t] = Offer(Other(s), u)
                                /\ st[Other(s)][u] = "applied"
<1>1. ValidInv /\ TypeOK
    BY DEF IInv, ValidInv
<1>2. Completed(s)
  <2>1. CASE UNCHANGED vars
      BY <2>1 DEF vars, Mine, L!Current
  <2>2. ASSUME NEW r \in Sides, Learn(r) PROVE FALSE
      BY <1>1, <2>2, LearnFacts DEF Learn
  <2>3. ASSUME NEW r \in Sides, StepOf(r) PROVE Completed(s)
    <3>1. CASE r = s
        BY <2>3, <3>1 DEF StepOf, Keeps
    <3>2. CASE r # s
        BY <2>3, <3>2 DEF StepOf, SideStep, Published
    <3> QED
        BY <3>1, <3>2
  <2> QED
      BY <1>1, <2>1, <2>2, <2>3, NextSteps
<1>3. PICK t \in Trades : t = Mine(s).reserved /\ st[s][t] = "applied"
    BY <1>2, ResetFacts
<1>4. PICK u \in Trades : /\ got[s][t] = Offer(Other(s), u)
                          /\ Engaged(s, t, u) \/ Settled(s, t, u)
    BY <1>3 DEF IInv, PartnerInv, Released
<1>5. CASE Engaged(s, t, u)
  <2>1. Theirs(s).reserved = u
      BY <1>5, PartnerFacts
  <2> QED
      BY <1>2, <1>3, <1>4, <2>1, ResetFacts
<1>6. CASE Settled(s, t, u)
    BY <1>3, <1>4, <1>6 DEF Settled
<1> QED
    BY <1>4, <1>5, <1>6

\* Up to the first late acknowledgement.
Punctual == ValidInv /\ (late = 0 => IInv)

LEMMA PunctualInductive == (Init => Punctual) /\ (Punctual /\ [Next]_vars => Punctual')
<1>1. Init => Punctual
    BY InitOrder, InitValid DEF Punctual
<1>2. Punctual /\ [Next]_vars => ValidInv'
    BY StepValid DEF Punctual
<1>3. Punctual /\ [Next]_vars /\ late' = 0 => IInv'
    BY StepOrder, LateStays DEF Punctual, ValidInv
<1> QED
    BY <1>1, <1>2, <1>3 DEF Punctual

\* Of two trades that released each other's Pokemon neither is paired twice, however old the
\* snapshots are that poll() decides from: as long as applied() has not handled an
\* acknowledgement once more, for a room that was done or had gone on.
THEOREM StaysPaired == Spec => []PairedUntilLate
<1>1. Punctual => PairedUntilLate
    BY OrderOneToOne DEF Punctual, PairedUntilLate
<1> QED
    BY <1>1, PunctualInductive, PTL DEF Spec

\* reserve() clears a room only when both records of its exchange say "applied": as long as
\* applied() has not handled an acknowledgement once more.
THEOREM ResetsAfterBoth == Spec => ResetUntilLate
<1>1. Punctual /\ [Next]_vars =>
        [late = 0 => \A s \in Sides : LET t == Mine(s).reserved IN
             t # None /\ Mine(s).reserved' # t =>
                /\ st[s][t] = "applied"
                /\ \E u \in Trades : /\ got[s][t] = Offer(Other(s), u)
                                     /\ st[Other(s)][u] = "applied"]_vars
    BY ResetApplied DEF Punctual
<1> QED
    BY <1>1, PunctualInductive, PTL DEF Spec, ResetUntilLate

-----------------------------------------------------------------------------
(* What is decided stays decided, also with late acknowledgements *)

StateKept(s) ==
    \A t \in Trades :
        /\ st[s][t] \in Released => st'[s][t] \in Released
        /\ st[s][t] \in {"applied", "cancelled"} => st'[s][t] = st[s][t]

LEMMA RecordMoves ==
    ASSUME ValidInv, NEW s \in Sides, NEW t \in Trades, NEW state \in States, Record(s, t, state),
           st[s][t] # "cancelled", st[s][t] \in Released => state \in Released,
           st[s][t] = "applied" => state = "applied"
    PROVE  StateKept(s)
<1>1. /\ st'[s][t] = state /\ \A u \in Trades \ {t} : st'[s][u] = st[s][u]
    BY RecordFacts DEF ValidInv
<1> QED
    BY <1>1 DEF StateKept

LEMMA HandlerKeeps ==
    ASSUME ValidInv, NEW s \in Sides, Handler(s)
    PROVE  StateKept(s)
<1>1. TypeOK /\ AtSide(s)
    BY DEF ValidInv, AtInv
<1>2. CASE UNCHANGED st
    BY <1>2 DEF StateKept
<1>3. ASSUME NEW state \in {"running", "uncertain", "cancelled"}, at[s] # None,
             at[s].step \in Polling, Answer(s, state)
      PROVE  StateKept(s)
  <2>1. at[s].trade \in Trades /\ st[s][at[s].trade] \in {"running", "uncertain"}
      BY <1>1, <1>3, AtFacts DEF AtSide
  <2>2. Record(s, at[s].trade, state) /\ state \in States
      BY <1>3 DEF Answer, States
  <2> QED
      BY <2>1, <2>2, RecordMoves DEF Released
<1>4. CASE SeesCancel(s) \/ SeesNoOffer(s) \/ RejectsOffer(s) \/ WaitsForPeer(s)
  <2>1. /\ at[s] # None /\ at[s].step \in Polling
        /\ Answer(s, "running") \/ Answer(s, "uncertain") \/ Answer(s, "cancelled")
      BY <1>4 DEF SeesCancel, SeesNoOffer, RejectsOffer, WaitsForPeer, At, Polling
  <2> QED
      BY <1>3, <2>1
<1>5. CASE Stores(s)
  <2>1. /\ at[s] # None /\ at[s].step \in Polling /\ Record(s, at[s].trade, "received")
        /\ "received" \in States /\ "received" \in Released
      BY <1>5 DEF Stores, At, Polling, States, Released
  <2>2. at[s].trade \in Trades /\ st[s][at[s].trade] \in {"running", "uncertain"}
      BY <1>1, <2>1, AtFacts DEF AtSide
  <2> QED
      BY <2>1, <2>2, RecordMoves
<1>6. CASE Voids(s)
  <2>1. /\ at[s] # None /\ at[s].step = "void" /\ Record(s, at[s].trade, "cancelled")
        /\ "cancelled" \in States
      BY <1>6 DEF Voids, At, States
  <2>2. at[s].trade \in Trades /\ st[s][at[s].trade] \in {"prepared", "running", "uncertain"}
      BY <1>1, <2>1, AtFacts DEF AtSide
  <2> QED
      BY <2>1, <2>2, RecordMoves DEF Released
<1> QED
    BY <1>2, <1>4, <1>5, <1>6
       DEF Handler, Validates, Receives, Releases, Acknowledges, Cancels

LEMMA RequestKeeps ==
    ASSUME ValidInv, NEW s \in Sides, NEW t \in Trades,
           \/ Prepare(s, t) \/ Start(s, t) \/ StartInterrupted(s, t) \/ Poll(s, t, FALSE)
           \/ Confirm(s, t) \/ Applied(s, t) \/ RequestCancel(s, t)
    PROVE  StateKept(s)
<1>1. {"prepared", "running", "ready", "applied"} \subseteq States
    BY DEF States
<1>2. CASE Prepare(s, t)
    BY <1>1, <1>2, RecordMoves DEF Prepare, Released
<1>3. CASE Start(s, t)
    BY <1>1, <1>3, RecordMoves DEF Start, Released
<1>4. CASE Confirm(s, t)
    BY <1>1, <1>4, RecordMoves DEF Confirm, Released
<1>5. CASE Applied(s, t)
    BY <1>1, <1>5, RecordMoves DEF Applied, Released
<1>6. CASE UNCHANGED st
    BY <1>6 DEF StateKept
<1> QED
    BY <1>2, <1>3, <1>4, <1>5, <1>6 DEF StartInterrupted, Poll, RequestCancel

\* A poll, a cancellation or an acknowledgement that comes late, on a room that was used
\* again, takes back no result and revives no cancelled trade.
THEOREM DecidedForGood ==
    Spec => [][\A s \in Sides, t \in Trades :
                  /\ st[s][t] \in Released =>
                        st'[s][t] \in Released /\ got'[s][t] = got[s][t]
                  /\ st[s][t] \in {"applied", "cancelled"} => st'[s][t] = st[s][t]]_vars
<1>1. ASSUME ValidInv, [Next]_vars, NEW s \in Sides
      PROVE  StateKept(s)
  <2>1. CASE UNCHANGED st
      BY <2>1 DEF StateKept
  <2>2. ASSUME NEW r \in Sides, r # s, StepOf(r)
        PROVE  StateKept(s)
      BY <2>2 DEF StepOf, SideStep, StateKept
  <2>3. ASSUME NEW r \in Sides, NEW t \in Trades,
               \/ Prepare(r, t) \/ Start(r, t) \/ StartInterrupted(r, t)
               \/ Poll(r, t, FALSE) /\ UNCHANGED cancels
               \/ Confirm(r, t) \/ Applied(r, t) \/ RequestCancel(r, t)
        PROVE  StateKept(s)
    <3>1. StepOf(r)
        BY <1>1, <2>3, PrepareStep, StartStep, StartInterruptedStep, PollStep, ConfirmStep,
           AppliedStep, RequestCancelStep
    <3> QED
        BY <1>1, <2>2, <2>3, <3>1, RequestKeeps
  <2>4. ASSUME NEW r \in Sides, Handler(r)
        PROVE  StateKept(s)
    <3>1. StepOf(r)
        BY <1>1, <2>4, SeesCancelStep, SeesNoOfferStep, RejectsOfferStep, ValidatesStep,
           WaitsForPeerStep, ReceivesStep, ReleasesStep, StoresStep, AcknowledgesStep,
           CancelsStep, VoidsStep DEF Handler
    <3> QED
        BY <1>1, <2>2, <2>4, <3>1, HandlerKeeps
  <2> QED
      BY <1>1, <2>1, <2>3, <2>4 DEF Next, vars, Learn, Crash
<1>2. ASSUME ValidInv, [Next]_vars, NEW s \in Sides, NEW t \in Trades
      PROVE  st[s][t] \in Released => got'[s][t] = got[s][t]
  <2>1. CASE got' = got
      BY <2>1
  <2>2. ASSUME NEW r \in Sides, StepOf(r)
        PROVE  st[s][t] \in Released => got'[s][t] = got[s][t]
    <3>1. CASE r = s
        BY <2>2, <3>1 DEF StepOf, Keeps
    <3>2. CASE r # s
        BY <2>2, <3>2 DEF StepOf, SideStep
    <3> QED
        BY <3>1, <3>2
  <2> QED
      BY <1>2, <2>1, <2>2, NextSteps DEF vars, Learn
<1>3. ValidInv /\ [Next]_vars =>
        [\A s \in Sides, t \in Trades :
            /\ st[s][t] \in Released =>
                  st'[s][t] \in Released /\ got'[s][t] = got[s][t]
            /\ st[s][t] \in {"applied", "cancelled"} => st'[s][t] = st[s][t]]_vars
    BY <1>1, <1>2 DEF StateKept
<1> QED
    BY <1>3, InitValid, StepValid, PTL DEF Spec
=============================================================================
