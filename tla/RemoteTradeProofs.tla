-------------------------- MODULE RemoteTradeProofs --------------------------
(***************************************************************************)
(* A 3DS bridge and a Switch bridge start one child for a trade, give only *)
(* what the save can take, and agree on what was given or cancelled: for   *)
(* any trades, offers, crashes, cancellations and late acknowledgements.   *)
(*                                                                         *)
(* A step is one of the 3DS bridge, of the Switch bridge, of the trade     *)
(* child, or the arrival of a snapshot.  There is a frame lemma for each   *)
(* kind, which says what such a step must respect, and a lemma for each    *)
(* action that shows that it does.                                         *)
(***************************************************************************)
EXTENDS RemoteTrade, SequenceTheorems, TLAPS

USE RemoteAssumption

Snapshots(e) == IF e = "source" THEN SourceSnapshot ELSE SwitchSnapshot

-----------------------------------------------------------------------------
(* The logs *)

LEMMA LogTypes ==
    ASSUME LogOK, NEW e \in Ends
    PROVE  /\ log[e] \in Seq(Snapshots(e)) /\ log[e] # <<>> /\ Len(log[e]) \in Nat \ {0}
           /\ \A i \in 1 .. Len(log[e]) : log[e][i] \in Snapshots(e)
           /\ Head(log[e]) = log[e][1]
<1>1. log[e] \in Seq(Snapshots(e)) /\ log[e] # <<>>
    BY DEF LogOK, Snapshots, Ends
<1> HIDE DEF LogOK
<1>2. Len(log[e]) \in Nat \ {0}
    BY <1>1
<1> QED
    BY <1>1, <1>2

LEMMA LogFacts ==
    ASSUME LogOK
    PROVE  /\ History("source") \subseteq SourceSnapshot /\ History("switch") \subseteq SwitchSnapshot
           /\ Ours \in History("source") /\ Remote \in History("source")
           /\ Local \in History("switch") /\ Seen \in History("switch")
           /\ \A x \in History("source") : Follows(x, x) /\ Follows(x, Ours) /\ Follows(Remote, x)
<1>1. \A e \in Ends : /\ Len(log[e]) \in Nat \ {0}
                      /\ \A i \in 1 .. Len(log[e]) : log[e][i] \in Snapshots(e)
                      /\ Head(log[e]) = log[e][1]
    BY LogTypes
<1>2. "source" \in Ends /\ "switch" \in Ends
    BY DEF Ends
<1>3. \A e \in Ends : 1 \in 1 .. Len(log[e]) /\ Len(log[e]) \in 1 .. Len(log[e])
    BY <1>1
<1>4. \A e \in Ends : /\ History(e) \subseteq Snapshots(e)
                      /\ L!Current(e) \in History(e) /\ L!Held(e) \in History(e)
    BY <1>1, <1>3 DEF History, L!Current, L!Held
<1>5. ASSUME NEW x \in History("source")
      PROVE  Follows(x, x) /\ Follows(x, Ours) /\ Follows(Remote, x)
  <2>1. PICK i \in 1 .. Len(log["source"]) : x = log["source"][i]
      BY DEF History
  <2>2. /\ i \in i .. Len(log["source"]) /\ Len(log["source"]) \in i .. Len(log["source"])
        /\ i \in 1 .. Len(log["source"])
      BY <1>1, <1>2, <2>1
  <2>3. Ours = log["source"][Len(log["source"])] /\ Remote = log["source"][1]
      BY <1>1, <1>2 DEF Ours, Remote, L!Current, L!Held
  <2> QED
      BY <1>2, <1>3, <2>1, <2>2, <2>3 DEF Follows
<1> QED
    BY <1>2, <1>4, <1>5 DEF Snapshots, Ours, Remote, Local, Seen

LEMMA FollowsFacts ==
    ASSUME LogOK, NEW x, NEW y, Follows(x, y)
    PROVE  x \in History("source") /\ y \in History("source")
<1>1. PICK i \in 1 .. Len(log["source"]) :
          \E j \in i .. Len(log["source"]) : x = log["source"][i] /\ y = log["source"][j]
    BY DEF Follows
<1>2. PICK j \in i .. Len(log["source"]) : x = log["source"][i] /\ y = log["source"][j]
    BY <1>1
<1>3. Len(log["source"]) \in Nat
    BY LogTypes DEF Ends
<1>4. j \in 1 .. Len(log["source"])
    BY <1>3
<1> QED
    BY <1>1, <1>2, <1>4 DEF History

\* The logs after a step that may publish a snapshot of the 3DS bridge, or of the other.
SourcePublished ==
    /\ LogOK'
    /\ History("source")' \subseteq History("source") \cup {Ours'}
    /\ \A x, y : Follows(x, y)' => Follows(x, y) \/ y = Ours'
    /\ Ours' \in History("source")'
    /\ Local' = Local /\ Remote' = Remote /\ Seen' = Seen
    /\ History("switch")' = History("switch")

SwitchPublished ==
    /\ LogOK'
    /\ History("switch")' \subseteq History("switch") \cup {Local'}
    /\ Local' \in History("switch")'
    /\ Ours' = Ours /\ Remote' = Remote /\ Seen' = Seen
    /\ History("source")' = History("source")
    /\ \A x, y : Follows(x, y)' <=> Follows(x, y)

LEMMA QuietFacts ==
    ASSUME LogOK, UNCHANGED log
    PROVE  SourcePublished /\ SwitchPublished /\ Ours' = Ours /\ Local' = Local
<1>1. /\ Ours' = Ours /\ Local' = Local /\ Remote' = Remote /\ Seen' = Seen
      /\ History("source")' = History("source") /\ History("switch")' = History("switch")
      /\ \A x, y : Follows(x, y)' <=> Follows(x, y)
    BY DEF Ours, Local, Remote, Seen, L!Current, L!Held, History, Follows
<1>2. LogOK'
    BY DEF LogOK
<1>3. Ours \in History("source") /\ Local \in History("switch")
    BY LogFacts
<1> QED
    BY <1>1, <1>2, <1>3 DEF SourcePublished, SwitchPublished

LEMMA PutFacts ==
    ASSUME LogOK, NEW e \in Ends, NEW n \in Snapshots(e), Put(e, n), n # L!Current(e)
    PROVE  /\ LogOK'
           /\ \A o \in Ends \ {e} : log'[o] = log[o]
           /\ L!Current(e)' = n /\ L!Held(e)' = L!Held(e)
           /\ Len(log'[e]) = Len(log[e]) + 1
           /\ \A i \in 1 .. Len(log[e]) : log'[e][i] = log[e][i]
           /\ log'[e][Len(log[e]) + 1] = n
<1>1. log' = [log EXCEPT ![e] = Append(@, n)]
    BY DEF Put, L!Publish
<1>2. log[e] \in Seq(Snapshots(e)) /\ log[e] # <<>> /\ Len(log[e]) \in Nat \ {0}
    BY LogTypes
<1> DEFINE q == Append(log[e], n)
<1>3. /\ q \in Seq(Snapshots(e)) /\ q # <<>> /\ Len(q) = Len(log[e]) + 1
      /\ q[Len(log[e]) + 1] = n /\ \A i \in 1 .. Len(log[e]) : q[i] = log[e][i]
      /\ Head(q) = Head(log[e])
    BY <1>2
<1>4. log'[e] = q /\ \A o \in Ends \ {e} : log'[o] = log[o]
    BY <1>1 DEF LogOK
<1> HIDE DEF q
<1>5. LogOK'
  <2>1. q \in Seq(SourceSnapshot \cup SwitchSnapshot)
      BY <1>3 DEF Snapshots
  <2>2. log' \in [Ends -> Seq(SourceSnapshot \cup SwitchSnapshot) \ {<<>>}]
      BY <1>1, <1>3, <2>1 DEF LogOK, q
  <2>3. log'["source"] \in Seq(SourceSnapshot) /\ log'["switch"] \in Seq(SwitchSnapshot)
    <3>1. CASE e = "source"
        BY <1>3, <1>4, <3>1 DEF LogOK, Snapshots, Ends
    <3>2. CASE e = "switch"
        BY <1>3, <1>4, <3>2 DEF LogOK, Snapshots, Ends
    <3> QED
        BY <3>1, <3>2 DEF Ends
  <2> QED
      BY <2>2, <2>3 DEF LogOK
<1> QED
    BY <1>3, <1>4, <1>5 DEF L!Current, L!Held

LEMMA SourcePuts ==
    ASSUME LogOK, NEW n \in SourceSnapshot, Put("source", n)
    PROVE  SourcePublished /\ Ours' = n
<1>1. CASE n = Ours
  <2>1. UNCHANGED log
      BY <1>1 DEF Put, Ours
  <2> QED
      BY <1>1, <2>1, QuietFacts
<1>2. CASE n # Ours
  <2>1. /\ LogOK' /\ log'["switch"] = log["switch"]
        /\ L!Current("source")' = n /\ L!Held("source")' = L!Held("source")
        /\ Len(log'["source"]) = Len(log["source"]) + 1
        /\ \A i \in 1 .. Len(log["source"]) : log'["source"][i] = log["source"][i]
        /\ log'["source"][Len(log["source"]) + 1] = n
    <3>1. "source" \in Ends /\ "switch" \in Ends \ {"source"} /\ n \in Snapshots("source")
        BY DEF Ends, Snapshots
    <3>2. n # L!Current("source")
        BY <1>2 DEF Ours
    <3> QED
        BY <3>1, <3>2, PutFacts
  <2>2. /\ Ours' = n /\ Remote' = Remote /\ Local' = Local /\ Seen' = Seen
        /\ History("switch")' = History("switch")
      BY <2>1 DEF Ours, Remote, Local, Seen, History, L!Current, L!Held
  <2>3. Len(log["source"]) \in Nat
      BY LogTypes DEF Ends
  <2>4. History("source")' \subseteq History("source") \cup {n}
    <3>1. \A i \in 1 .. Len(log["source"]) + 1 :
              i \in 1 .. Len(log["source"]) \/ i = Len(log["source"]) + 1
        BY <2>3
    <3> QED
        BY <2>1, <3>1 DEF History
  <2>5. ASSUME NEW x, NEW y, Follows(x, y)', y # n
        PROVE  Follows(x, y)
    <3>1. PICK i \in 1 .. Len(log["source"]) + 1 :
              \E j \in i .. Len(log["source"]) + 1 : x = log'["source"][i] /\ y = log'["source"][j]
        BY <2>1, <2>5 DEF Follows
    <3>2. PICK j \in i .. Len(log["source"]) + 1 : x = log'["source"][i] /\ y = log'["source"][j]
        BY <3>1
    <3>3. j # Len(log["source"]) + 1
        BY <2>1, <2>5, <3>2
    <3>4. i \in 1 .. Len(log["source"]) /\ j \in i .. Len(log["source"])
          /\ j \in 1 .. Len(log["source"])
        BY <2>3, <3>3
    <3> QED
        BY <2>1, <3>2, <3>4 DEF Follows
  <2>6. Ours' \in History("source")'
      BY <2>1, <2>2, <2>3 DEF History
  <2> QED
      BY <2>1, <2>2, <2>4, <2>5, <2>6 DEF SourcePublished
<1> QED
    BY <1>1, <1>2

LEMMA SwitchPuts ==
    ASSUME LogOK, NEW n \in SwitchSnapshot, Put("switch", n)
    PROVE  SwitchPublished /\ Local' = n
<1>1. CASE n = Local
  <2>1. UNCHANGED log
      BY <1>1 DEF Put, Local
  <2> QED
      BY <1>1, <2>1, QuietFacts
<1>2. CASE n # Local
  <2>1. /\ LogOK' /\ log'["source"] = log["source"]
        /\ L!Current("switch")' = n /\ L!Held("switch")' = L!Held("switch")
        /\ Len(log'["switch"]) = Len(log["switch"]) + 1
        /\ \A i \in 1 .. Len(log["switch"]) : log'["switch"][i] = log["switch"][i]
        /\ log'["switch"][Len(log["switch"]) + 1] = n
    <3>1. "switch" \in Ends /\ "source" \in Ends \ {"switch"} /\ n \in Snapshots("switch")
        BY DEF Ends, Snapshots
    <3>2. n # L!Current("switch")
        BY <1>2 DEF Local
    <3> QED
        BY <3>1, <3>2, PutFacts
  <2>2. /\ Local' = n /\ Remote' = Remote /\ Ours' = Ours /\ Seen' = Seen
        /\ History("source")' = History("source")
        /\ \A x, y : Follows(x, y)' <=> Follows(x, y)
      BY <2>1 DEF Ours, Remote, Local, Seen, History, Follows, L!Current, L!Held
  <2>3. Len(log["switch"]) \in Nat
      BY LogTypes DEF Ends
  <2>4. History("switch")' \subseteq History("switch") \cup {n}
    <3>1. \A i \in 1 .. Len(log["switch"]) + 1 :
              i \in 1 .. Len(log["switch"]) \/ i = Len(log["switch"]) + 1
        BY <2>3
    <3> QED
        BY <2>1, <3>1 DEF History
  <2>5. Local' \in History("switch")'
      BY <2>1, <2>2, <2>3 DEF History
  <2> QED
      BY <2>1, <2>2, <2>4, <2>5 DEF SwitchPublished
<1> QED
    BY <1>1, <1>2

\* A part of a sequence up to its end.
LEMMA SuffixFacts ==
    ASSUME NEW S, NEW q \in Seq(S), NEW t, NEW k \in 2 .. Len(q), t = SubSeq(q, k, Len(q))
    PROVE  /\ t \in Seq(S) /\ Len(t) \in Nat \ {0}
           /\ Len(t) + k - 1 = Len(q)
           /\ \A i \in 1 .. Len(t) : t[i] = q[i + k - 1]
<1>1. Len(q) \in Nat /\ \A i \in k .. Len(q) : q[i] \in S
    OBVIOUS
<1>2. /\ t \in Seq(S)
      /\ Len(t) = Len(q) - k + 1
      /\ \A i \in 1 .. Len(q) - k + 1 : t[i] = q[k + i - 1]
    BY <1>1, SubSeqProperties
<1>3. Len(q) \in Nat /\ k \in Nat /\ 2 <= k /\ k <= Len(q)
    BY <1>1
<1>4. Len(t) \in Nat \ {0} /\ Len(t) + k - 1 = Len(q)
    BY <1>2, <1>3
<1>5. ASSUME NEW i \in 1 .. Len(t) PROVE t[i] = q[i + k - 1]
  <2>1. i \in 1 .. Len(q) - k + 1 /\ k + i - 1 = i + k - 1
      BY <1>2, <1>3
  <2> QED
      BY <1>2, <2>1
<1> QED
    BY <1>2, <1>4, <1>5

\* What is held moves on to a later snapshot.
LEMMA LearnFacts ==
    ASSUME LogOK, NEW e \in Ends, L!Learn(e)
    PROVE  /\ LogOK' /\ \A o \in Ends \ {e} : log'[o] = log[o]
           /\ L!Current(e)' = L!Current(e) /\ History(e)' \subseteq History(e)
           /\ e = "source" => \A x, y : Follows(x, y)' => Follows(x, y)
<1>1. PICK k \in 2 .. Len(log[e]) : log' = [log EXCEPT ![e] = SubSeq(@, k, Len(@))]
    BY DEF L!Learn, L!LearnAt
<1>2. log[e] \in Seq(Snapshots(e)) /\ Len(log[e]) \in Nat \ {0}
    BY LogTypes
<1>3. log'[e] = SubSeq(log[e], k, Len(log[e])) /\ \A o \in Ends \ {e} : log'[o] = log[o]
    BY <1>1 DEF LogOK
<1> DEFINE q == log[e]
           t == log'[e]
<1>4. /\ t \in Seq(Snapshots(e)) /\ Len(t) \in Nat \ {0}
      /\ Len(t) + k - 1 = Len(q)
      /\ \A i \in 1 .. Len(t) : t[i] = q[i + k - 1]
  <2>1. q \in Seq(Snapshots(e)) /\ k \in 2 .. Len(q) /\ t = SubSeq(q, k, Len(q))
      BY <1>2, <1>3
  <2> HIDE DEF q, t
  <2>2. t \in Seq(Snapshots(e)) /\ Len(t) \in Nat \ {0} /\ Len(t) + k - 1 = Len(q)
      BY <2>1, SuffixFacts
  <2>3. \A i \in 1 .. Len(t) : t[i] = q[i + k - 1]
      BY <2>1, SuffixFacts
  <2> QED
      BY <2>2, <2>3
<1> HIDE DEF q, t
<1>5. \A i \in 1 .. Len(t) : i + k - 1 \in 1 .. Len(q) /\ t[i] = q[i + k - 1]
    BY <1>2, <1>4
<1>6. LogOK'
  <2>1. t # <<>> /\ t \in Seq(SourceSnapshot \cup SwitchSnapshot)
      BY <1>4 DEF Snapshots
  <2>2. log' \in [Ends -> Seq(SourceSnapshot \cup SwitchSnapshot) \ {<<>>}]
      BY <2>1, <1>1, <1>3 DEF LogOK, t
  <2>3. log'["source"] \in Seq(SourceSnapshot) /\ log'["switch"] \in Seq(SwitchSnapshot)
    <3>1. CASE e = "source"
        BY <1>3, <1>4, <3>1 DEF LogOK, Snapshots, Ends, t
    <3>2. CASE e = "switch"
        BY <1>3, <1>4, <3>2 DEF LogOK, Snapshots, Ends, t
    <3> QED
        BY <3>1, <3>2 DEF Ends
  <2> QED
      BY <2>2, <2>3 DEF LogOK
<1>7. L!Current(e)' = L!Current(e)
  <2>1. Len(t) \in 1 .. Len(t)
      BY <1>4
  <2>2. t[Len(t)] = q[Len(q)]
      BY <1>4, <2>1
  <2> QED
      BY <2>2 DEF L!Current, q, t
<1>8. History(e)' \subseteq History(e)
    BY <1>5 DEF History, q, t
<1>9. ASSUME e = "source", NEW x, NEW y, Follows(x, y)'
      PROVE  Follows(x, y)
  <2>1. PICK i \in 1 .. Len(t) : \E j \in i .. Len(t) : x = t[i] /\ y = t[j]
      BY <1>9 DEF Follows, t
  <2>2. PICK j \in i .. Len(t) : x = t[i] /\ y = t[j]
      BY <2>1
  <2>3. j \in 1 .. Len(t)
      BY <1>4
  <2>4. x = q[i + k - 1] /\ y = q[j + k - 1] /\ i + k - 1 \in 1 .. Len(q)
      BY <1>5, <2>2, <2>3
  <2>5. j + k - 1 \in i + k - 1 .. Len(q)
      BY <1>2, <1>4, <1>5, <2>3
  <2> QED
      BY <1>9, <2>4, <2>5 DEF Follows, q
<1> QED
    BY <1>3, <1>6, <1>7, <1>8, <1>9

-----------------------------------------------------------------------------
(* Steps of the 3DS bridge *)

LEMMA TypeFacts ==
    ASSUME TypeOK
    PROVE  /\ LogOK /\ None \notin Trades /\ None \notin Mons
           /\ Ours \in SourceSnapshot /\ Remote \in SourceSnapshot
           /\ Local \in SwitchSnapshot /\ Seen \in SwitchSnapshot
           /\ st \in [Trades -> States] /\ got \in [Trades -> Mons \cup {None}]
           /\ at \in [trade : Trades, cancelling : BOOLEAN] \cup {None}
           /\ at # None => at.trade \in Trades
           /\ crashes \in 0 .. MaxCrashes /\ cancels \in 0 .. MaxCancels /\ late \in 0 .. MaxLate
<1>1. LogOK
    BY DEF TypeOK
<1>2. /\ Ours \in SourceSnapshot /\ Remote \in SourceSnapshot
      /\ Local \in SwitchSnapshot /\ Seen \in SwitchSnapshot
    BY <1>1, LogFacts
<1> QED
    BY <1>1, <1>2, RemoteAssumption DEF TypeOK

LEMMA SourceTypes ==
    ASSUME TypeOK, LogOK', UNCHANGED <<worker, files, world>>,
           st' \in [Trades -> States], got' \in [Trades -> Mons \cup {None}],
           at' \in [trade : Trades, cancelling : BOOLEAN] \cup {None},
           crashes' \in 0 .. MaxCrashes, cancels' \in 0 .. MaxCancels, late' \in 0 .. MaxLate
    PROVE  TypeOK'
BY DEF TypeOK, worker, files, world

\* The room stays with its trade, is taken for one that has not begun, or keeps the
\* reservation of one that is over.
Stays ==
    /\ Ours'.reserved = Ours.reserved
    /\ Ours.trade # None => Ours'.trade = Ours.trade
    /\ Ours'.trade # Ours.trade => Blocking(Ours'.trade)
    /\ Ours.cancel => Ours'.cancel
Taken ==
    /\ Ours'.reserved \in Trades /\ ~Begun(Ours'.reserved) /\ Ours'.trade = None
    /\ Ours'.reserved # Ours.reserved
Emptied ==
    /\ Ours'.reserved = Ours.reserved /\ Ours.reserved # None /\ Over(Ours.reserved)
    /\ Ours'.trade = None
RoomStep == Stays \/ Taken \/ Emptied

\* The records do not go back.
Forward ==
    \A t \in Trades :
        /\ Begun(t) => st'[t] \notin {"none", "prepared"}
        /\ Over(t) => st'[t] \notin {"running", "uncertain", "received"}

\* What a step of the 3DS bridge must respect.
SourceStep ==
    /\ TypeOK' /\ SourceInv' /\ SourcePublished /\ UNCHANGED <<worker, files, world>>
    /\ Ours' \in SourceSnapshot
    /\ Forward
    /\ RoomStep
    /\ \A t \in Trades : st'[t] \in Resulting =>
          \/ st[t] \in Resulting /\ got'[t] = got[t]
          \/ got'[t] # None /\ console[t] = got'[t]
    /\ \A t \in Trades : st'[t] = "cancelled" =>
          st[t] = "cancelled" \/ Doomed(t) \/ ~Begun(t)

\* What is over stays over.
LEMMA ForwardFacts ==
    ASSUME TypeOK, Forward
    PROVE  /\ \A t \in Trades : Begun(t) => Begun(t)'
           /\ \A t \in Trades : Over(t) => Over(t)'
           /\ \A x \in SourceSnapshot : Cleared(x) => Cleared(x)'
<1>1. \A t \in Trades : (Begun(t) => Begun(t)') /\ (Over(t) => Over(t)')
    BY DEF Forward, Begun, Over, Blocking
<1>2. \A x \in SourceSnapshot : x.reserved # None => x.reserved \in Trades
    BY DEF SourceSnapshot
<1>3. ASSUME NEW x \in SourceSnapshot, Cleared(x) PROVE Cleared(x)'
  <2>1. PICK t \in Trades : t = x.reserved
      BY <1>2, <1>3 DEF Cleared
  <2>2. Over(t)' /\ x.trade = None /\ x.reserved # None
      BY <1>1, <1>3, <2>1 DEF Cleared
  <2> QED
      BY <2>1, <2>2 DEF Cleared
<1> QED
    BY <1>1, <1>3

\* A room of a trade that is over is not filled again.
LEMMA RoomFacts ==
    ASSUME IInv, Forward, RoomStep, Ours' \in SourceSnapshot,
           Ours'.trade \in {None, Ours'.reserved}
    PROVE  /\ Stays => (Cleared(Ours) => Ours'.trade = None)
           /\ Stays /\ Cleared(Ours) => Cleared(Ours)'
           /\ Emptied => Cleared(Ours)'
           /\ Stays /\ Ours.trade # None => Ours'.trade = Ours.trade
           /\ Ours'.reserved # Ours.reserved => Taken
<1>1. TypeOK /\ SourceShape(Ours) /\ Ours \in SourceSnapshot /\ None \notin Trades
    BY LogFacts, TypeFacts DEF IInv, SourceInv, TypeOK
<1>2. ASSUME Stays, Cleared(Ours) PROVE Ours'.trade = None /\ Cleared(Ours)'
  <2>1. PICK t \in Trades : t = Ours.reserved /\ Over(t) /\ Ours.trade = None
      BY <1>1, <1>2 DEF Cleared, SourceSnapshot
  <2>2. Over(t)' /\ Ours'.reserved = t
      BY <1>1, <1>2, <2>1, ForwardFacts DEF Stays
  <2>3. Ours'.trade = None
      BY <1>2, <2>1, <2>2 DEF Stays, Over
  <2> QED
      BY <1>1, <2>2, <2>3 DEF Cleared
<1>3. ASSUME Emptied PROVE Cleared(Ours)'
  <2>1. PICK t \in Trades : t = Ours.reserved /\ Over(t)
      BY <1>1, <1>3 DEF Emptied, SourceSnapshot
  <2>2. Over(t)' /\ Ours'.reserved = t /\ Ours'.trade = None
      BY <1>1, <1>3, <2>1, ForwardFacts DEF Emptied
  <2> QED
      BY <1>1, <2>2 DEF Cleared
<1> QED
    BY <1>2, <1>3 DEF RoomStep, Stays, Emptied

LEMMA RoomFrame ==
    ASSUME IInv, SourcePublished, RoomStep, Forward, SourceShape(Ours)', Ours' \in SourceSnapshot,
           Ours'.reserved # Ours.reserved =>
               \A x \in History("source") : x.reserved = Ours.reserved
    PROVE  /\ \A x \in History("source")' : SourceShape(x)'
           /\ \A x, y \in History("source")' : Follows(x, y)' => InOrder(x, y)'
<1>1. /\ LogOK /\ SourceInv /\ TypeOK /\ \A x \in History("source") : x \in SourceSnapshot
      /\ Ours'.trade \in {None, Ours'.reserved}
    BY LogFacts DEF IInv, TypeOK, SourceShape
<1>2. ASSUME NEW x \in History("source")'
      PROVE  SourceShape(x)'
  <2>1. CASE x \in History("source")
    <3>1. SourceShape(x) /\ x \in SourceSnapshot
        BY <1>1, <2>1 DEF SourceInv
    <3>2. x.trade # None => Begun(x.trade)'
        BY <1>1, <3>1, ForwardFacts DEF SourceShape, SourceSnapshot
    <3> QED
        BY <3>1, <3>2 DEF SourceShape
  <2>2. CASE x = Ours'
      BY <2>2 DEF SourceShape
  <2> QED
      BY <2>1, <2>2 DEF SourcePublished
<1>3. ASSUME NEW x \in History("source")', NEW y \in History("source")', Follows(x, y)'
      PROVE  InOrder(x, y)'
  <2>1. CASE Follows(x, y)
    <3>1. x \in History("source") /\ y \in History("source")
        BY <1>1, <2>1, FollowsFacts
    <3>2. InOrder(x, y) /\ (Cleared(y) => Cleared(y)')
        BY <1>1, <2>1, <3>1, ForwardFacts DEF SourceInv
    <3>3. Ours'.reserved # Ours.reserved => x.reserved = y.reserved
        BY <3>1
    <3> QED
        BY <3>2, <3>3 DEF InOrder
  <2>2. CASE x = Ours' /\ y = Ours'
      BY <2>2 DEF InOrder
  <2>3. CASE x \in History("source") /\ y = Ours'
    <3>1. InOrder(x, Ours)
        BY <1>1, <2>3, LogFacts DEF SourceInv
    <3>2. CASE Stays
      <4>1. Cleared(Ours) => Cleared(Ours)'
          BY <1>1, <3>2, RoomFacts
      <4>2. /\ Ours'.reserved = Ours.reserved
            /\ Ours.trade # None => Ours'.trade = Ours.trade
            /\ Ours.cancel => Ours'.cancel
          BY <3>2 DEF Stays
      <4>3. Cleared(y)' <=> Cleared(Ours)'
          BY <2>3 DEF Cleared
      <4> QED
          BY <2>3, <3>1, <4>1, <4>2, <4>3 DEF InOrder
    <3>3. CASE Taken
      <4>1. x.reserved = Ours.reserved /\ Ours'.reserved # Ours.reserved /\ Ours'.reserved # None
          BY <1>1, <2>3, <3>3, TypeFacts DEF Taken
      <4> QED
          BY <2>3, <4>1 DEF InOrder
    <3>4. CASE Emptied
      <4>1. Cleared(Ours)' /\ Ours'.reserved = Ours.reserved
          BY <1>1, <3>4, RoomFacts DEF Emptied
      <4>2. Cleared(y)' <=> Cleared(Ours)'
          BY <2>3 DEF Cleared
      <4> QED
          BY <2>3, <3>1, <4>1, <4>2 DEF InOrder
    <3> QED
        BY <3>2, <3>3, <3>4 DEF RoomStep
  <2> QED
    <3>1. CASE x \in History("source")
        BY <2>1, <2>3, <3>1, <1>3 DEF SourcePublished
    <3>2. CASE x \notin History("source")
      <4>1. x = Ours'
          BY <3>2 DEF SourcePublished
      <4>2. ~Follows(x, y)
          BY <1>1, <3>2, FollowsFacts
      <4> QED
          BY <1>3, <2>2, <4>1, <4>2 DEF SourcePublished
    <3> QED
        BY <3>1, <3>2
<1> QED
    BY <1>2, <1>3

\* A trade the 3DS bridge has not started is unknown on the Switch side.
LEMMA NotBegun ==
    ASSUME IInv, NEW t \in Trades, ~Begun(t)
    PROVE  /\ launches[t] = 0 /\ console[t] = None /\ session # t
           /\ Local.trade # t /\ \A x \in History("source") : x.trade # t
<1>1. LogOK /\ TypeOK /\ None \notin Trades /\ launches[t] \in Nat
    BY TypeFacts DEF IInv, TypeOK
<1>2. /\ Ours \in History("source") /\ Local \in History("switch")
      /\ \A x \in History("source") : SourceShape(x)
    BY <1>1, LogFacts DEF IInv, SourceInv
<1>3. Local.trade # t
    BY <1>1, <1>2 DEF IInv, SeenInv
<1>4. \A x \in History("source") : x.trade # t
    BY <1>1, <1>2 DEF SourceShape
<1>5. ~(launches[t] > 0)
    BY <1>3 DEF IInv, LaunchInv, Gone, Over
<1>6. console[t] = None /\ session # t
    BY <1>1, <1>5 DEF IInv, LaunchInv, ReceiptInv
<1> QED
    BY <1>1, <1>2, <1>3, <1>4, <1>5, <1>6

LEMMA SourceFrame == ASSUME IInv, SourceStep PROVE IInv'
<1>1. LogOK /\ TypeOK /\ SourceInv /\ SeenInv /\ LaunchInv
    BY DEF IInv, TypeOK
<1>2. /\ Local' = Local /\ Remote' = Remote /\ History("switch")' = History("switch")
      /\ up' = up /\ view' = view /\ radio' = radio
      /\ gate' = gate /\ decision' = decision /\ withdrawn' = withdrawn /\ receipt' = receipt
      /\ child' = child /\ session' = session /\ engine' = engine /\ console' = console
      /\ launches' = launches
    BY DEF SourceStep, SourcePublished, worker, files, world
<1>3. /\ Ours \in History("source") /\ Ours' \in History("source")'
      /\ Local \in History("switch") /\ Local \in SwitchSnapshot
      /\ Ours \in SourceSnapshot /\ None \notin Trades
      /\ \A y \in History("switch") : y \in SwitchSnapshot
      /\ \A x \in History("source") : x \in SourceSnapshot
  <2>1. Ours' \in History("source")' /\ None \notin Trades
      BY <1>1, TypeFacts DEF SourceStep, SourcePublished
  <2> QED
      BY <1>1, <2>1, LogFacts
<1>4. /\ Ours'.trade \in {None, Ours'.reserved} /\ SourceShape(Ours) /\ Ours' \in SourceSnapshot
      /\ Forward /\ RoomStep
    BY <1>1, <1>3 DEF SourceStep, SourceInv, SourceShape
<1>5. ASSUME NEW t \in Trades, Begun(t)
      PROVE  Begun(t)' /\ (Ours'.reserved = t => Ours.reserved = t)
  <2>1. Begun(t)'
      BY <1>1, <1>4, <1>5, ForwardFacts
  <2>2. Ours'.reserved = t => Ours.reserved = t
      BY <1>4, <1>5 DEF RoomStep, Stays, Taken, Emptied
  <2> QED
      BY <2>1, <2>2
\* If t still has the room, its own snapshots follow, or it is over and the room empty.
<1>6. ASSUME NEW t \in Trades, Begun(t), Ours'.reserved = t
      PROVE  /\ Ours.reserved = t /\ t # None
             /\ Stays \/ (Over(t) /\ Emptied)
    BY <1>3, <1>4, <1>5, <1>6 DEF RoomStep, Taken, Emptied
<1>7. ASSUME NEW t \in Trades, Gone(t)
      PROVE  Gone(t)'
  <2>1. Over(t)' /\ Begun(t)
      BY <1>1, <1>4, <1>7, ForwardFacts DEF Gone, Over
  <2>2. Ours'.trade # t
    <3>1. SUFFICES ASSUME Ours'.trade = t PROVE FALSE
        OBVIOUS
    <3>2. Ours'.reserved = t
        BY <1>3, <1>4, <3>1
    <3>3. Stays /\ Ours.trade # t
        BY <1>3, <1>6, <1>7, <2>1, <3>1, <3>2 DEF Gone, Emptied
    <3> QED
        BY <1>7, <3>1, <3>3 DEF Stays, Gone, Over
  <2>3. \A x \in History("source")' : x.trade # t
      BY <1>7, <2>2 DEF Gone, SourceStep, SourcePublished
  <2> QED
      BY <2>1, <2>3 DEF Gone
<1>8. SeenInv'
  <2> SUFFICES ASSUME NEW y \in History("switch"), y.trade # None
               PROVE  /\ Begun(y.trade)'
                      /\ y.trade = Ours'.reserved => \A x \in History("source")' :
                            x.trade = y.trade \/ (Cleared(x)' /\ x.reserved = y.trade)
      BY <1>2 DEF SeenInv
  <2>1. PICK t \in Trades : t = y.trade /\ Begun(t)
      BY <1>1, <1>3 DEF SeenInv, SwitchSnapshot
  <2>2. ASSUME t = Ours'.reserved, NEW x \in History("source")'
        PROVE  x.trade = t \/ (Cleared(x)' /\ x.reserved = t)
    <3>1. Ours.reserved = t /\ (Stays \/ (Over(t) /\ Emptied))
        BY <1>6, <2>1, <2>2
    <3>2. \A z \in History("source") : z.trade = t \/ (Cleared(z) /\ z.reserved = t)
        BY <1>1, <2>1, <3>1 DEF SeenInv
    <3>3. CASE x \in History("source")
        BY <1>1, <1>3, <1>4, <3>2, <3>3, ForwardFacts
    <3>4. CASE x = Ours'
      <4>1. Cleared(Ours)' => Cleared(x)' /\ x.reserved = t
          BY <2>2, <3>4 DEF Cleared
      <4>2. CASE Stays /\ Cleared(Ours)
          BY <1>4, <4>1, <4>2, RoomFacts
      <4>3. CASE Stays /\ Ours.trade = t
          BY <1>3, <3>4, <4>3 DEF Stays
      <4>4. CASE Emptied
          BY <1>4, <4>1, <4>4, RoomFacts
      <4> QED
          BY <1>3, <3>1, <3>2, <4>2, <4>3, <4>4
    <3> QED
        BY <3>3, <3>4 DEF SourceStep, SourcePublished
  <2> QED
      BY <1>5, <2>1, <2>2
<1>9. LaunchInv'
    BY <1>1, <1>2, <1>7 DEF LaunchInv
<1>10. LocalInv' /\ EngineInv' /\ AdvanceInv'
    BY <1>2 DEF IInv, LocalInv, EngineInv, AdvanceInv, Attached, Takes
<1>11. ReceiptInv'
    BY <1>2 DEF IInv, ReceiptInv
<1>12. ResultFaithful'
    BY <1>2 DEF IInv, ResultFaithful, SourceStep
<1>13. ASSUME NEW t \in Trades, Doomed(t)
       PROVE  Doomed(t)'
  <2>1. CASE Gone(t)
      BY <1>2, <1>7, <1>13, <2>1 DEF Doomed
  <2>2. CASE /\ Local.trade = t
             /\ Local.launched \/ \A x \in History("source") : x.trade = t => x.cancel
    <3>1. ASSUME \A x \in History("source") : x.trade = t => x.cancel,
                 NEW x \in History("source")', x.trade = t
          PROVE  x.cancel
      <4>1. CASE x = Ours'
        <5>1. Ours'.reserved = t
            BY <1>3, <1>4, <3>1, <4>1
        <5>2. Begun(t)
            BY <1>1, <1>3, <2>2 DEF SeenInv
        <5>3. Ours.reserved = t /\ Stays /\ t # None
            BY <1>6, <3>1, <4>1, <5>1, <5>2 DEF Emptied
        <5>4. Ours.trade = t \/ Cleared(Ours)
            BY <1>1, <1>3, <2>2, <5>3 DEF SeenInv
        <5>5. ~Cleared(Ours)
            BY <1>4, <3>1, <4>1, <5>3, RoomFacts
        <5> QED
            BY <1>3, <3>1, <4>1, <5>3, <5>4, <5>5 DEF Stays
      <4>2. CASE x \in History("source")
          BY <3>1, <4>2
      <4> QED
          BY <4>1, <4>2 DEF SourceStep, SourcePublished
    <3> QED
        BY <1>2, <1>13, <2>2, <3>1 DEF Doomed
  <2> QED
      BY <1>13, <2>1, <2>2 DEF Doomed
<1>14. ASSUME NEW t \in Trades, ~Begun(t), Over(t)'
       PROVE  Doomed(t)'
  <2>1. \A x \in History("source") : x.trade # t
      BY <1>1, <1>3, <1>14 DEF SourceInv, SourceShape
  <2>2. Ours'.trade # t
    <3>1. ~Blocking(t) /\ Ours.trade # t /\ t # None
        BY <1>3, <1>14, <2>1 DEF Begun, Blocking
    <3> QED
        BY <1>4, <3>1 DEF RoomStep, Stays, Taken, Emptied
  <2>3. Gone(t)'
      BY <1>14, <2>1, <2>2 DEF Gone, SourceStep, SourcePublished
  <2>4. console[t] = None /\ (session = t => child # "alive")
      BY <1>14, NotBegun DEF IInv
  <2> QED
      BY <1>2, <2>3, <2>4 DEF Doomed
<1>15. CancelInv'
  <2>1. \A y \in History("switch")' : y.phase = "cancelled" => y.trade # None /\ Doomed(y.trade)'
    <3> SUFFICES ASSUME NEW y \in History("switch"), y.phase = "cancelled"
                 PROVE  y.trade # None /\ Doomed(y.trade)'
        BY <1>2
    <3>1. y.trade # None /\ Doomed(y.trade) /\ y.trade \in Trades
        BY <1>3 DEF IInv, CancelInv, SwitchSnapshot
    <3> QED
        BY <1>13, <3>1
  <2>2. ASSUME NEW t \in Trades, st'[t] = "cancelled"
        PROVE  Doomed(t)'
    <3>1. CASE st[t] = "cancelled" \/ Doomed(t)
        BY <1>13, <3>1 DEF IInv, CancelInv
    <3>2. CASE ~Begun(t)
        BY <1>14, <2>2, <3>2 DEF Begun, Over, Blocking
    <3> QED
        BY <2>2, <3>1, <3>2 DEF SourceStep
  <2> QED
      BY <2>1, <2>2 DEF CancelInv
<1> QED
    BY <1>8, <1>9, <1>10, <1>11, <1>12, <1>15 DEF IInv, SourceStep

\* A snapshot that keeps the room for its trade, one that takes it for a trade that
\* has not begun, one that keeps the reservation alone, and one that speaks of its own trade.
KeepsRoom(n) ==
    /\ n.reserved = Ours.reserved
    /\ Ours.trade # None => n.trade = Ours.trade
    /\ n.trade # Ours.trade => Blocking(n.trade)
    /\ Ours.cancel => n.cancel
TakesRoom(n) ==
    /\ n.reserved \in Trades /\ ~Begun(n.reserved) /\ n.trade = None
    /\ n.reserved # Ours.reserved
    /\ \A x \in History("source") : x.reserved = Ours.reserved
EmptiesRoom(n) ==
    n.reserved = Ours.reserved /\ Ours.reserved # None /\ Over(Ours.reserved) /\ n.trade = None
Named(n) ==
    /\ n.trade \in {None, n.reserved}
    /\ n.validated # None => n.trade # None /\ <<n.trade, n.validated.mon>> \in Importable

LEMMA SourceActs ==
    ASSUME IInv, NEW n \in SourceSnapshot, Put("source", n), UNCHANGED <<worker, files, world>>,
           st' \in [Trades -> States], got' \in [Trades -> Mons \cup {None}],
           at' \in [trade : Trades, cancelling : BOOLEAN] \cup {None},
           crashes' \in 0 .. MaxCrashes, cancels' \in 0 .. MaxCancels, late' \in 0 .. MaxLate,
           KeepsRoom(n) \/ TakesRoom(n) \/ EmptiesRoom(n), Named(n), Forward,
           \A t \in Trades : st'[t] \in {"running", "uncertain", "received"} => n.reserved = t,
           at' # None => st'[at'.trade] \in {"running", "uncertain"} /\ n.trade = at'.trade,
           \A t \in Trades : st'[t] \in Resulting =>
               \/ st[t] \in Resulting /\ got'[t] = got[t]
               \/ got'[t] # None /\ console[t] = got'[t],
           \A t \in Trades : st'[t] = "cancelled" =>
               st[t] = "cancelled" \/ Doomed(t) \/ ~Begun(t)
    PROVE  IInv'
<1>1. LogOK /\ TypeOK /\ Ours \in SourceSnapshot /\ SourceShape(Ours)
    BY LogFacts DEF IInv, SourceInv, TypeOK
<1>2. SourcePublished /\ Ours' = n
    BY <1>1, SourcePuts
<1>3. TypeOK'
    BY <1>1, <1>2, SourceTypes DEF SourcePublished
<1>4. RoomStep
    BY <1>2 DEF RoomStep, Stays, Taken, Emptied, KeepsRoom, TakesRoom, EmptiesRoom
<1>5. SourceShape(Ours)'
  <2>1. n.trade # None => Begun(n.trade) /\ n.trade \in Trades
      BY <1>1 DEF KeepsRoom, TakesRoom, EmptiesRoom, SourceShape, Blocking, Begun, SourceSnapshot
  <2>2. n.trade # None => Begun(n.trade)'
      BY <1>1, <2>1, ForwardFacts
  <2> QED
      BY <1>2, <2>2 DEF SourceShape, Named
<1>6. Ours'.reserved # Ours.reserved => \A x \in History("source") : x.reserved = Ours.reserved
    BY <1>2 DEF KeepsRoom, TakesRoom, EmptiesRoom
<1>7. /\ \A x \in History("source")' : SourceShape(x)'
      /\ \A x, y \in History("source")' : Follows(x, y)' => InOrder(x, y)'
    BY <1>2, <1>4, <1>5, <1>6, RoomFrame
<1>8. \A t \in Trades : Blocking(t)' => Ours'.reserved = t
    BY <1>2 DEF Blocking
<1>9. at' # None => st'[at'.trade] \in {"running", "uncertain"} /\ Ours'.trade = at'.trade
    BY <1>2
<1>10. SourceInv'
    BY <1>7, <1>8, <1>9 DEF SourceInv
<1>11. SourceStep
    BY <1>2, <1>3, <1>4, <1>10 DEF SourceStep
<1> QED
    BY <1>11, SourceFrame

\* The snapshot in force is one that keeps the room.
LEMMA OursFacts ==
    ASSUME IInv
    PROVE  /\ TypeOK /\ Ours \in SourceSnapshot /\ None \notin Trades
           /\ KeepsRoom(Ours) /\ Named(Ours)
           /\ \A t \in Trades : st[t] \in {"running", "uncertain", "received"} => Ours.reserved = t
           /\ UNCHANGED log => Put("source", Ours)
           /\ crashes \in 0 .. MaxCrashes
<1>1. TypeOK /\ LogOK /\ Ours \in SourceSnapshot /\ None \notin Trades /\ crashes \in 0 .. MaxCrashes
    BY TypeFacts DEF IInv
<1>2. SourceShape(Ours)
    BY <1>1, LogFacts DEF IInv, SourceInv
<1>3. \A t \in Trades : Blocking(t) => Ours.reserved = t
    BY DEF IInv, SourceInv
<1> QED
    BY <1>1, <1>2, <1>3 DEF KeepsRoom, Named, SourceShape, Blocking, Put, Ours

\* A handler records a state of its trade, and publishes.
LEMMA RecordActs ==
    ASSUME IInv, NEW t \in Trades, NEW s \in States \ {"received"}, Record(t, s),
           got' = got, at' = None, UNCHANGED <<worker, files, world>>,
           crashes' \in 0 .. MaxCrashes, cancels' \in 0 .. MaxCancels, late' \in 0 .. MaxLate,
           NEW n \in SourceSnapshot, Put("source", n), Named(n),
           KeepsRoom(n) \/ TakesRoom(n) \/ EmptiesRoom(n),
           \A u \in Trades \ {t} : Blocking(u) => n.reserved = u,
           s \in {"running", "uncertain"} => n.reserved = t /\ ~Over(t),
           s \in {"none", "prepared", "cancelled"} => ~Begun(t),
           s \in {"ready", "applied"} => st[t] \in Resulting
    PROVE  IInv'
<1>1. TypeOK
    BY OursFacts
<1>2. /\ st' \in [Trades -> States] /\ st'[t] = s
      /\ \A u \in Trades \ {t} : st'[u] = st[u]
    BY <1>1 DEF Record, TypeOK
<1>3. Forward
    BY <1>2 DEF Forward, Begun, Over, Blocking, States
<1>4. \A u \in Trades : st'[u] \in {"running", "uncertain", "received"} => n.reserved = u
    BY <1>2 DEF Blocking
<1>5. \A u \in Trades : st'[u] \in Resulting => st[u] \in Resulting /\ got'[u] = got[u]
    BY <1>2 DEF Resulting, States
<1>6. \A u \in Trades : st'[u] = "cancelled" => st[u] = "cancelled" \/ ~Begun(u)
    BY <1>2
<1>7. got' \in [Trades -> Mons \cup {None}]
    BY <1>1 DEF TypeOK
<1> QED
    BY <1>2, <1>3, <1>4, <1>5, <1>6, <1>7, SourceActs

LEMMA PrepareKeeps == ASSUME IInv, NEW t \in Trades, Prepare(t) PROVE IInv'
<1>1. /\ TypeOK /\ Ours \in SourceSnapshot /\ KeepsRoom(Ours) /\ Named(Ours)
      /\ Put("source", Ours) /\ crashes \in 0 .. MaxCrashes
      /\ \A u \in Trades : Blocking(u) => Ours.reserved = u
    BY OursFacts DEF Prepare, Blocking
<1>2. /\ UNCHANGED <<worker, files, world>> /\ got' = got /\ at' = None
      /\ crashes' = crashes /\ cancels' = cancels /\ late' = late
      /\ Record(t, "prepared") /\ st[t] = "none"
    BY DEF Prepare, budget
<1>3. ~Begun(t) /\ "prepared" \in States \ {"received"}
    BY <1>2 DEF Begun, States
<1>4. cancels' \in 0 .. MaxCancels /\ late' \in 0 .. MaxLate
    BY <1>1, <1>2 DEF TypeOK
<1> QED
    BY <1>1, <1>2, <1>3, <1>4, RecordActs

\* A trade that starts takes the room, or has it already.
LEMMA ReserveFacts ==
    ASSUME IInv, NEW t \in Trades, MayStart(t), Reserve(t)
    PROVE  \E n \in SourceSnapshot :
               /\ Put("source", n) /\ Named(n) /\ n.reserved = t
               /\ KeepsRoom(n) \/ TakesRoom(n)
<1>1. /\ TypeOK /\ LogOK /\ Ours \in SourceSnapshot /\ KeepsRoom(Ours) /\ Named(Ours)
      /\ None \notin Trades /\ ~Begun(t)
    BY OursFacts DEF MayStart, Begun, TypeOK
<1>2. CASE Ours.reserved \in {None, t}
  <2> DEFINE n == [Ours EXCEPT !.reserved = t]
  <2>1. Put("source", n)
      BY <1>2 DEF Reserve
  <2>2. /\ n \in SourceSnapshot /\ n.reserved = t /\ n.trade = Ours.trade
        /\ n.validated = Ours.validated /\ n.cancel = Ours.cancel
      BY <1>1 DEF SourceSnapshot
  <2> HIDE DEF n
  <2>3. Named(n)
      BY <1>1, <1>2, <2>2 DEF Named
  <2>4. CASE Ours.reserved = None
    <3>1. Ours.trade = None
        BY <1>1, <2>4 DEF Named
    <3>2. \A x \in History("source") : x.reserved = Ours.reserved
        BY <1>1, <2>4, LogFacts DEF IInv, SourceInv, InOrder
    <3>3. TakesRoom(n)
        BY <1>1, <2>2, <2>4, <3>1, <3>2 DEF TakesRoom
    <3> QED
        BY <2>1, <2>2, <2>3, <3>3
  <2>5. CASE Ours.reserved = t
    <3>1. KeepsRoom(n)
        BY <2>2, <2>5 DEF KeepsRoom
    <3> QED
        BY <2>1, <2>2, <2>3, <3>1
  <2> QED
      BY <1>2, <2>4, <2>5
<1>3. CASE Ours.reserved \notin {None, t}
  <2> DEFINE n == [BlankSource EXCEPT !.reserved = t]
  <2>1. Put("source", n) /\ Completed
      BY <1>3 DEF Reserve
  <2>2. n \in SourceSnapshot /\ n.reserved = t /\ n.trade = None /\ n.validated = None
      BY DEF SourceSnapshot, BlankSource
  <2> HIDE DEF n
  <2>3. \A x \in History("source") : x.reserved = Ours.reserved
    <3>1. /\ Seen.trade = Ours.reserved /\ Seen \in History("switch") /\ Seen.trade # None
          /\ \A x \in History("source") : SourceShape(x)
        BY <1>1, <1>3, <2>1, LogFacts DEF Completed, IInv, SourceInv
    <3>2. \A x \in History("source") : x.trade = Seen.trade \/ x.reserved = Seen.trade
        BY <3>1 DEF IInv, SeenInv
    <3> QED
        BY <3>1, <3>2 DEF SourceShape
  <2>4. TakesRoom(n) /\ Named(n)
      BY <1>1, <1>3, <2>2, <2>3 DEF TakesRoom, Named
  <2> QED
      BY <2>1, <2>2, <2>4
<1> QED
    BY <1>2, <1>3

LEMMA StartKeeps == ASSUME IInv, NEW t \in Trades, Start(t) PROVE IInv'
<1>1. TypeOK /\ crashes \in 0 .. MaxCrashes
    BY OursFacts
<1>2. /\ UNCHANGED <<worker, files, world>> /\ got' = got /\ at' = None
      /\ crashes' = crashes /\ cancels' = cancels /\ late' = late
      /\ Record(t, "running") /\ st[t] = "prepared"
      /\ \A u \in Trades \ {t} : ~Blocking(u)
    BY DEF Start, MayStart, Blocking, budget
<1>3. PICK n \in SourceSnapshot : /\ Put("source", n) /\ Named(n) /\ n.reserved = t
                                  /\ KeepsRoom(n) \/ TakesRoom(n)
    BY ReserveFacts DEF Start
<1>4. ~Over(t) /\ "running" \in States \ {"received"}
    BY <1>2 DEF Over, Begun, States
<1>5. cancels' \in 0 .. MaxCancels /\ late' \in 0 .. MaxLate
    BY <1>1, <1>2 DEF TypeOK
<1> QED
    BY <1>1, <1>2, <1>3, <1>4, <1>5, RecordActs

LEMMA ConfirmKeeps == ASSUME IInv, NEW t \in Trades, Confirm(t) PROVE IInv'
<1>1. /\ TypeOK /\ Ours \in SourceSnapshot /\ KeepsRoom(Ours) /\ Named(Ours)
      /\ Put("source", Ours) /\ crashes \in 0 .. MaxCrashes
      /\ \A u \in Trades : Blocking(u) => Ours.reserved = u
    BY OursFacts DEF Confirm, Blocking
<1>2. /\ UNCHANGED <<worker, files, world>> /\ got' = got /\ at' = None
      /\ crashes' = crashes /\ cancels' = cancels /\ late' = late
      /\ Record(t, "ready") /\ st[t] = "received"
    BY DEF Confirm, budget
<1>3. st[t] \in Resulting /\ "ready" \in States \ {"received"}
    BY <1>2 DEF Resulting, States
<1>4. cancels' \in 0 .. MaxCancels /\ late' \in 0 .. MaxLate
    BY <1>1, <1>2 DEF TypeOK
<1> QED
    BY <1>1, <1>2, <1>3, <1>4, RecordActs

LEMMA AppliedKeeps == ASSUME IInv, NEW t \in Trades, Applied(t) PROVE IInv'
<1>1. /\ TypeOK /\ Ours \in SourceSnapshot /\ KeepsRoom(Ours) /\ Named(Ours)
      /\ crashes \in 0 .. MaxCrashes
      /\ \A u \in Trades : Blocking(u) => Ours.reserved = u
    BY OursFacts DEF Blocking
<1>2. /\ UNCHANGED <<worker, files, world>> /\ got' = got /\ at' = None
      /\ crashes' = crashes /\ cancels' = cancels /\ late' \in 0 .. MaxLate
      /\ Record(t, "applied") /\ st[t] \in {"ready", "applied"}
  <2>1. late \in 0 .. MaxLate /\ MaxLate \in Nat
      BY <1>1, RemoteAssumption DEF TypeOK
  <2> QED
      BY <2>1 DEF Applied
<1> DEFINE n == [Ours EXCEPT !.applied = TRUE]
<1>3. /\ n \in SourceSnapshot /\ n.reserved = Ours.reserved /\ n.trade = Ours.trade
      /\ n.validated = Ours.validated /\ n.cancel = Ours.cancel
    BY <1>1 DEF SourceSnapshot
<1>4. Put("source", n)
    BY DEF Applied
<1> HIDE DEF n
<1>5. KeepsRoom(n) /\ Named(n)
    BY <1>1, <1>3 DEF KeepsRoom, Named
<1>6. st[t] \in Resulting /\ "applied" \in States \ {"received"} /\ cancels' \in 0 .. MaxCancels
    BY <1>1, <1>2 DEF Resulting, States, TypeOK
<1> QED
    BY <1>1, <1>2, <1>3, <1>4, <1>5, <1>6, RecordActs

LEMMA PollKeeps ==
    ASSUME IInv, NEW t \in Trades, NEW c \in BOOLEAN, Poll(t, c), cancels' \in 0 .. MaxCancels
    PROVE  IInv'
<1>1. /\ TypeOK /\ Ours \in SourceSnapshot /\ KeepsRoom(Ours) /\ Named(Ours) /\ None \notin Trades
      /\ crashes \in 0 .. MaxCrashes
      /\ \A u \in Trades : st[u] \in {"running", "uncertain", "received"} => Ours.reserved = u
    BY OursFacts
<1>2. /\ UNCHANGED <<worker, files, world>> /\ st' = st /\ got' = got
      /\ at' = [trade |-> t, cancelling |-> c]
      /\ crashes' = crashes /\ late' = late /\ Ours.trade \in {None, t}
      /\ st[t] \in {"running", "uncertain"}
    BY DEF Poll
<1> DEFINE n == [Ours EXCEPT !.trade = t]
<1>3. /\ n \in SourceSnapshot /\ n.reserved = Ours.reserved /\ n.trade = t
      /\ n.validated = Ours.validated /\ n.cancel = Ours.cancel
    BY <1>1 DEF SourceSnapshot
<1>4. Put("source", n)
    BY DEF Poll
<1> HIDE DEF n
<1>5. KeepsRoom(n) /\ Named(n) /\ n.reserved = t
    BY <1>1, <1>2, <1>3 DEF KeepsRoom, Named, Blocking
<1>6. Forward
    BY <1>2 DEF Forward, Begun, Over, Blocking
<1>7. /\ \A u \in Trades : st'[u] \in Resulting => st[u] \in Resulting /\ got'[u] = got[u]
      /\ \A u \in Trades : st'[u] \in {"running", "uncertain", "received"} => n.reserved = u
      /\ \A u \in Trades : st'[u] = "cancelled" => st[u] = "cancelled"
    BY <1>1, <1>2, <1>3
<1>8. /\ st' \in [Trades -> States] /\ got' \in [Trades -> Mons \cup {None}]
      /\ at' \in [trade : Trades, cancelling : BOOLEAN] /\ late' \in 0 .. MaxLate
    BY <1>1, <1>2 DEF TypeOK
<1>9. st'[at'.trade] \in {"running", "uncertain"} /\ n.trade = at'.trade
    BY <1>2, <1>3
<1> QED
    BY <1>1, <1>2, <1>3, <1>4, <1>5, <1>6, <1>7, <1>8, <1>9, SourceActs

\* What a cancellation publishes, before it records anything.
LEMMA CancelFacts ==
    ASSUME IInv, Put("source", [Ours EXCEPT !.cancel = TRUE, !.approval = None])
    PROVE  \E n \in SourceSnapshot :
               Put("source", n) /\ KeepsRoom(n) /\ Named(n) /\ n.reserved = Ours.reserved
<1>1. Ours \in SourceSnapshot /\ KeepsRoom(Ours) /\ Named(Ours)
    BY OursFacts
<1> DEFINE n == [Ours EXCEPT !.cancel = TRUE, !.approval = None]
<1>2. /\ n \in SourceSnapshot /\ n.reserved = Ours.reserved /\ n.trade = Ours.trade
      /\ n.validated = Ours.validated /\ n.cancel = TRUE
    BY <1>1 DEF SourceSnapshot
<1>3. Put("source", n)
    OBVIOUS
<1> HIDE DEF n
<1>4. KeepsRoom(n) /\ Named(n)
    BY <1>1, <1>2 DEF KeepsRoom, Named
<1> QED
    BY <1>2, <1>3, <1>4

LEMMA RequestCancelKeeps == ASSUME IInv, NEW t \in Trades, RequestCancel(t) PROVE IInv'
<1>1. /\ TypeOK /\ crashes \in 0 .. MaxCrashes
      /\ \A u \in Trades : Blocking(u) => Ours.reserved = u
    BY OursFacts DEF Blocking
<1>2. cancels' \in 0 .. MaxCancels
  <2>1. cancels \in 0 .. MaxCancels /\ MaxCancels \in Nat
      BY <1>1, RemoteAssumption DEF TypeOK
  <2> QED
      BY <2>1 DEF RequestCancel
<1>3. CASE Poll(t, TRUE)
    BY <1>2, <1>3, PollKeeps
<1>4. CASE ~Poll(t, TRUE)
  <2>1. /\ UNCHANGED <<worker, files, world>> /\ got' = got /\ at' = None
        /\ crashes' = crashes /\ late' = late /\ st[t] = "prepared"
        /\ Put("source", [Ours EXCEPT !.cancel = TRUE, !.approval = None])
      BY <1>4 DEF RequestCancel
  <2>2. Record(t, "prepared") \/ Record(t, "cancelled")
      BY <1>1, <1>4, <2>1 DEF RequestCancel, Record, TypeOK
  <2>3. PICK n \in SourceSnapshot :
            Put("source", n) /\ KeepsRoom(n) /\ Named(n) /\ n.reserved = Ours.reserved
      BY <2>1, CancelFacts
  <2>4. ~Begun(t) /\ {"prepared", "cancelled"} \subseteq States \ {"received"}
      BY <2>1 DEF Begun, States
  <2>5. late' \in 0 .. MaxLate
      BY <1>1, <2>1 DEF TypeOK
  <2>6. CASE Record(t, "prepared")
      BY <1>1, <1>2, <2>1, <2>3, <2>4, <2>5, <2>6, RecordActs
  <2>7. CASE Record(t, "cancelled")
      BY <1>1, <1>2, <2>1, <2>3, <2>4, <2>5, <2>7, RecordActs
  <2> QED
      BY <2>2, <2>6, <2>7
<1> QED
    BY <1>3, <1>4

LEMMA StartInterruptedKeeps ==
    ASSUME IInv, NEW t \in Trades, StartInterrupted(t) PROVE IInv'
<1>1. TypeOK /\ crashes \in 0 .. MaxCrashes /\ Ours \in SourceSnapshot
    BY OursFacts
<1>2. /\ UNCHANGED <<worker, files, world>> /\ got' = got /\ at' = None
      /\ st' = st /\ cancels' = cancels /\ late' = late
      /\ MayStart(t) /\ st[t] = "prepared" /\ \A u \in Trades \ {t} : ~Blocking(u)
    BY DEF StartInterrupted, MayStart, Blocking, source
<1>3. crashes' \in 0 .. MaxCrashes
    BY <1>1, RemoteAssumption DEF StartInterrupted, Dies
<1>4. /\ Record(t, "prepared") /\ ~Begun(t) /\ "prepared" \in States \ {"received"}
    BY <1>1, <1>2 DEF Record, TypeOK, Begun, States
<1>5. cancels' \in 0 .. MaxCancels /\ late' \in 0 .. MaxLate
    BY <1>1, <1>2 DEF TypeOK
<1>6. \E n \in SourceSnapshot : /\ Put("source", n) /\ Named(n)
                                /\ KeepsRoom(n) \/ TakesRoom(n) \/ EmptiesRoom(n)
  <2>1. CASE Reserve(t)
      BY <1>2, <2>1, ReserveFacts
  <2>2. CASE /\ Ours.reserved \notin {None, t} /\ Completed
             /\ Put("source", [BlankSource EXCEPT !.reserved = Ours.reserved])
    <3> DEFINE n == [BlankSource EXCEPT !.reserved = Ours.reserved]
    <3>1. /\ n \in SourceSnapshot /\ n.reserved = Ours.reserved /\ n.trade = None
          /\ n.validated = None
        BY <1>1 DEF SourceSnapshot, BlankSource
    <3>2. Put("source", n)
        BY <2>2
    <3> HIDE DEF n
    <3>3. Over(Ours.reserved)
      <4>1. Seen.trade = Ours.reserved /\ Seen \in History("switch")
          BY <1>1, <2>2, LogFacts DEF Completed, TypeOK
      <4>2. Begun(Ours.reserved)
          BY <2>2, <4>1 DEF IInv, SeenInv
      <4> QED
          BY <1>1, <1>2, <2>2, <4>2 DEF Over, SourceSnapshot
    <3>4. EmptiesRoom(n) /\ Named(n)
        BY <2>2, <3>1, <3>3 DEF EmptiesRoom, Named
    <3> QED
        BY <3>1, <3>2, <3>4
  <2> QED
      BY <2>1, <2>2 DEF StartInterrupted
<1>7. PICK n \in SourceSnapshot : /\ Put("source", n) /\ Named(n)
                                  /\ KeepsRoom(n) \/ TakesRoom(n) \/ EmptiesRoom(n)
    BY <1>6
<1> QED
    BY <1>2, <1>3, <1>4, <1>5, <1>7, RecordActs

LEMMA RecordInterruptedKeeps ==
    ASSUME IInv, NEW t \in Trades, RecordInterrupted(t) PROVE IInv'
<1>1. /\ TypeOK /\ Ours \in SourceSnapshot /\ KeepsRoom(Ours) /\ Named(Ours)
      /\ crashes \in 0 .. MaxCrashes
      /\ \A u \in Trades : Blocking(u) => Ours.reserved = u
    BY OursFacts DEF Blocking
<1>2. /\ UNCHANGED <<worker, files, world>> /\ got' = got /\ at' = None /\ late' = late
    BY DEF RecordInterrupted
<1>3. crashes' \in 0 .. MaxCrashes
    BY <1>1, RemoteAssumption DEF RecordInterrupted, Dies
<1>4. late' \in 0 .. MaxLate /\ cancels \in 0 .. MaxCancels
    BY <1>1, <1>2 DEF TypeOK
<1>5. CASE st[t] = "ready" /\ Record(t, "applied") /\ UNCHANGED <<log, cancels>>
  <2>1. Put("source", Ours)
      BY <1>5, OursFacts
  <2>2. st[t] \in Resulting /\ "applied" \in States \ {"received"}
      BY <1>5 DEF Resulting, States
  <2> QED
      BY <1>1, <1>2, <1>3, <1>4, <1>5, <2>1, <2>2, RecordActs
<1>6. CASE /\ st[t] = "prepared"
           /\ cancels < MaxCancels /\ cancels' = cancels + 1
           /\ Put("source", [Ours EXCEPT !.cancel = TRUE, !.approval = None])
           /\ UNCHANGED st
  <2>1. cancels' \in 0 .. MaxCancels
      BY <1>4, <1>6, RemoteAssumption
  <2>2. Record(t, "prepared") /\ ~Begun(t) /\ "prepared" \in States \ {"received"}
      BY <1>1, <1>6 DEF Record, TypeOK, Begun, States
  <2>3. PICK n \in SourceSnapshot :
            Put("source", n) /\ KeepsRoom(n) /\ Named(n) /\ n.reserved = Ours.reserved
      BY <1>6, CancelFacts
  <2> QED
      BY <1>1, <1>2, <1>3, <1>4, <2>1, <2>2, <2>3, RecordActs
<1> QED
    BY <1>5, <1>6 DEF RecordInterrupted

\* The end of a poll: what it publishes, and the state it records.
LEMMA AnswerKeeps ==
    ASSUME IInv, at # None, NEW state \in {"running", "uncertain", "cancelled", "received"},
           NEW x \in SourceSnapshot, Answer(state, x),
           x.reserved = Ours.reserved, x.trade = Ours.trade, x.cancel = Ours.cancel,
           x.validated # None => <<Ours.trade, x.validated.mon>> \in Importable,
           got' \in [Trades -> Mons \cup {None}],
           \A t \in Trades \ {at.trade} : got'[t] = got[t],
           state = "cancelled" => Doomed(at.trade),
           state = "received" => got'[at.trade] # None /\ console[at.trade] = got'[at.trade]
    PROVE  IInv'
<1>1. /\ TypeOK /\ Ours \in SourceSnapshot /\ None \notin Trades
      /\ crashes \in 0 .. MaxCrashes
      /\ \A u \in Trades : st[u] \in {"running", "uncertain", "received"} => Ours.reserved = u
    BY OursFacts
<1>2. /\ at.trade \in Trades /\ st[at.trade] \in {"running", "uncertain"}
      /\ Ours.trade = at.trade /\ Ours.reserved = at.trade
    BY <1>1, TypeFacts DEF IInv, SourceInv
<1>3. PICK t \in Trades : t = at.trade
    BY <1>2
<1>4. /\ UNCHANGED <<worker, files, world>> /\ at' = None
      /\ crashes' = crashes /\ cancels' = cancels /\ late' = late
    BY DEF Answer, budget
<1>5. /\ st' \in [Trades -> States] /\ st'[t] = state
      /\ \A u \in Trades \ {t} : st'[u] = st[u]
    BY <1>1, <1>3 DEF Answer, Record, TypeOK, States
<1>6. \E n \in SourceSnapshot :
          /\ Put("source", n) /\ n.reserved = t /\ n.trade = t /\ (Ours.cancel => n.cancel)
          /\ n.validated = x.validated
  <2>1. CASE at.cancelling /\ state \in {"running", "uncertain"}
    <3> DEFINE n == [x EXCEPT !.cancel = TRUE, !.approval = None]
    <3>1. Put("source", n)
        BY <2>1 DEF Answer
    <3>2. /\ n \in SourceSnapshot /\ n.reserved = x.reserved /\ n.trade = x.trade
          /\ n.validated = x.validated /\ n.cancel = TRUE
        BY DEF SourceSnapshot
    <3> HIDE DEF n
    <3> QED
        BY <1>2, <1>3, <3>1, <3>2
  <2>2. CASE ~(at.cancelling /\ state \in {"running", "uncertain"})
      BY <1>2, <1>3, <2>2 DEF Answer
  <2> QED
      BY <2>1, <2>2
<1>7. PICK n \in SourceSnapshot :
          /\ Put("source", n) /\ n.reserved = t /\ n.trade = t /\ (Ours.cancel => n.cancel)
          /\ n.validated = x.validated
    BY <1>6
<1>8. KeepsRoom(n) /\ Named(n)
    BY <1>1, <1>2, <1>3, <1>7 DEF KeepsRoom, Named
<1>9. Forward
    BY <1>2, <1>3, <1>5 DEF Forward, Begun, Over, Blocking
<1>10. \A u \in Trades : st'[u] \in Resulting =>
           \/ st[u] \in Resulting /\ got'[u] = got[u]
           \/ got'[u] # None /\ console[u] = got'[u]
    BY <1>3, <1>5 DEF Resulting
<1>11. /\ \A u \in Trades : st'[u] \in {"running", "uncertain", "received"} => n.reserved = u
       /\ \A u \in Trades : st'[u] = "cancelled" => st[u] = "cancelled" \/ Doomed(u)
    BY <1>1, <1>2, <1>3, <1>5, <1>7
<1>12. cancels' \in 0 .. MaxCancels /\ late' \in 0 .. MaxLate
    BY <1>1, <1>4 DEF TypeOK
<1> QED
    BY <1>1, <1>4, <1>5, <1>7, <1>8, <1>9, <1>10, <1>11, <1>12, SourceActs

LEMMA PollFacts ==
    ASSUME IInv, at # None
    PROVE  /\ TypeOK /\ Ours \in SourceSnapshot /\ Seen \in SwitchSnapshot
           /\ got \in [Trades -> Mons \cup {None}]
           /\ Seen \in History("switch") /\ at.trade \in Trades /\ None \notin Trades
           /\ Ours.trade = at.trade
           /\ Ours.validated # None => <<Ours.trade, Ours.validated.mon>> \in Importable
<1>1. TypeOK /\ LogOK
    BY DEF IInv, TypeOK
<1>2. Seen \in History("switch")
    BY <1>1, LogFacts
<1>3. Named(Ours) /\ Ours \in SourceSnapshot
    BY OursFacts
<1>4. Ours.trade = at.trade
    BY DEF IInv, SourceInv
<1> QED
    BY <1>1, <1>2, <1>3, <1>4, TypeFacts DEF Named

LEMMA PollElsewhereKeeps == ASSUME IInv, PollElsewhere PROVE IInv'
<1>1. at # None /\ Answer("running", Ours) /\ got' = got
    BY DEF PollElsewhere
<1>2. /\ Ours \in SourceSnapshot /\ got \in [Trades -> Mons \cup {None}]
      /\ Ours.validated # None => <<Ours.trade, Ours.validated.mon>> \in Importable
    BY <1>1, PollFacts
<1> QED
    BY <1>1, <1>2, AnswerKeeps

LEMMA PollEndedKeeps == ASSUME IInv, PollEnded PROVE IInv'
<1>1. /\ at # None /\ Answer(Seen.phase, Ours) /\ got' = got
      /\ Seen.trade = at.trade /\ Seen.phase \in {"cancelled", "uncertain"}
    BY DEF PollEnded
<1>2. /\ Ours \in SourceSnapshot /\ got \in [Trades -> Mons \cup {None}]
      /\ Seen \in History("switch")
      /\ Ours.validated # None => <<Ours.trade, Ours.validated.mon>> \in Importable
    BY <1>1, PollFacts
<1>3. Seen.phase = "cancelled" => Doomed(at.trade)
    BY <1>1, <1>2 DEF IInv, CancelInv
<1> QED
    BY <1>1, <1>2, <1>3, AnswerKeeps

LEMMA JudgedFacts ==
    ASSUME IInv, at # None, Seen.proposal # None
    PROVE  /\ Judged \in SourceSnapshot /\ Judged.reserved = Ours.reserved
           /\ Judged.trade = Ours.trade /\ Judged.cancel = Ours.cancel
           /\ Judged.validated # None => <<Ours.trade, Judged.validated.mon>> \in Importable
<1>1. /\ Ours \in SourceSnapshot /\ Seen \in SwitchSnapshot /\ Ours.trade = at.trade
      /\ Ours.validated # None => <<Ours.trade, Ours.validated.mon>> \in Importable
    BY PollFacts
<1> DEFINE p == Seen.proposal
<1>2. p \in Revision
    BY <1>1 DEF SwitchSnapshot
<1> HIDE DEF p
<1>3. CASE p.mon = None
  <2>1. Judged = [Ours EXCEPT !.validated = None, !.approval = None]
      BY <1>3 DEF Judged, p
  <2> QED
      BY <1>1, <2>1 DEF SourceSnapshot
<1>4. CASE p.mon # None /\ ~Accepts(p)
  <2>1. Judged = [Ours EXCEPT !.validated = None, !.approval = None, !.rejection = p]
      BY <1>4 DEF Judged, p
  <2> QED
      BY <1>1, <1>2, <2>1 DEF SourceSnapshot
<1>5. CASE p.mon # None /\ Accepts(p) /\ Ours.validated = p
  <2>1. Judged = Ours
      BY <1>5 DEF Judged, p
  <2> QED
      BY <1>1, <2>1
<1>6. CASE p.mon # None /\ Accepts(p) /\ Ours.validated # p
  <2>1. Judged = [Ours EXCEPT !.validated = p, !.approval = p, !.rejection = None]
      BY <1>6 DEF Judged, p
  <2>2. /\ Judged \in SourceSnapshot /\ Judged.reserved = Ours.reserved
        /\ Judged.trade = Ours.trade /\ Judged.cancel = Ours.cancel /\ Judged.validated = p
      BY <1>1, <1>2, <2>1 DEF SourceSnapshot
  <2> QED
      BY <1>1, <1>6, <2>2 DEF Accepts
<1> QED
    BY <1>3, <1>4, <1>5, <1>6

\* What a receipt delivers was given.
LEMMA DeliversFacts ==
    ASSUME IInv, at # None, Seen.trade = at.trade, Delivers # {}
    PROVE  /\ Seen.receipt \in Mons /\ Seen.receipt # None
           /\ console[at.trade] = Seen.receipt /\ Delivers = {Seen.receipt}
<1>1. Seen \in History("switch") /\ at.trade \in Trades /\ None \notin Trades /\ None \notin Mons
    BY PollFacts, TypeFacts DEF IInv
<1>2. Seen.phase \in {"committed", "saved"} /\ Seen.receipt \in Mons /\ Delivers = {Seen.receipt}
    BY DEF Delivers
<1> QED
    BY <1>1, <1>2 DEF IInv, ReceiptInv

LEMMA PollOfferKeeps == ASSUME IInv, PollOffer PROVE IInv'
<1>1. at # None /\ Seen.trade = at.trade
    BY DEF PollOffer
<1>2. /\ TypeOK /\ Ours \in SourceSnapshot
      /\ got \in [Trades -> Mons \cup {None}] /\ at.trade \in Trades
      /\ Ours.validated # None => <<Ours.trade, Ours.validated.mon>> \in Importable
    BY <1>1, PollFacts
<1>3. CASE Seen.proposal = None
  <2>1. Answer("running", Ours) /\ got' = got
      BY <1>3 DEF PollOffer
  <2> QED
      BY <1>1, <1>2, <2>1, AnswerKeeps
<1>4. CASE Seen.proposal # None
  <2>1. PICK x \in SourceSnapshot :
            /\ x = Judged
            /\ x.reserved = Ours.reserved /\ x.trade = Ours.trade /\ x.cancel = Ours.cancel
            /\ x.validated # None => <<Ours.trade, x.validated.mon>> \in Importable
      BY <1>1, <1>4, JudgedFacts
  <2>2. CASE Delivers # {}
    <3>1. Answer("received", x) /\ got' = [got EXCEPT ![at.trade] = Seen.receipt]
        BY <1>4, <2>1, <2>2 DEF PollOffer
    <3>2. Seen.receipt \in Mons /\ Seen.receipt # None /\ console[at.trade] = Seen.receipt
        BY <1>1, <2>2, DeliversFacts
    <3>3. /\ got' \in [Trades -> Mons \cup {None}] /\ got'[at.trade] = Seen.receipt
          /\ \A t \in Trades \ {at.trade} : got'[t] = got[t]
        BY <1>2, <3>1, <3>2
    <3> QED
        BY <1>1, <2>1, <3>1, <3>2, <3>3, AnswerKeeps
  <2>3. CASE Delivers = {}
    <3>1. Answer("running", x) /\ got' = got
        BY <1>4, <2>1, <2>3 DEF PollOffer
    <3> QED
        BY <1>1, <1>2, <2>1, <3>1, AnswerKeeps
  <2> QED
      BY <2>2, <2>3
<1> QED
    BY <1>3, <1>4

LEMMA PollInterruptedKeeps == ASSUME IInv, PollInterrupted PROVE IInv'
<1>1. /\ TypeOK /\ Ours \in SourceSnapshot /\ KeepsRoom(Ours) /\ Named(Ours)
      /\ crashes \in 0 .. MaxCrashes
      /\ \A u \in Trades : st[u] \in {"running", "uncertain", "received"} => Ours.reserved = u
    BY OursFacts
<1>2. /\ UNCHANGED <<worker, files, world>> /\ st' = st /\ at' = None
      /\ cancels' = cancels /\ late' = late /\ at # None
    BY DEF PollInterrupted
<1>3. crashes' \in 0 .. MaxCrashes
    BY <1>1, RemoteAssumption DEF PollInterrupted, Dies
<1>4. /\ st' \in [Trades -> States] /\ cancels' \in 0 .. MaxCancels /\ late' \in 0 .. MaxLate
      /\ got \in [Trades -> Mons \cup {None}]
    BY <1>1, <1>2 DEF TypeOK
<1>5. Forward
    BY <1>2 DEF Forward, Begun, Over, Blocking
<1>6. at.trade \in Trades /\ st[at.trade] \notin Resulting /\ Ours.trade = at.trade
  <2>1. at.trade \in Trades /\ Ours.trade = at.trade
      BY <1>2, PollFacts
  <2>2. st[at.trade] \in {"running", "uncertain"}
      BY <1>2 DEF IInv, SourceInv
  <2> QED
      BY <2>1, <2>2 DEF Resulting
<1>7. /\ got' \in [Trades -> Mons \cup {None}]
      /\ \A u \in Trades \ {at.trade} : got'[u] = got[u]
  <2>1. CASE got' = got
      BY <1>4, <2>1
  <2>2. CASE got' # got
    <3>1. PICK m \in Delivers : got' = [got EXCEPT ![at.trade] = m]
        BY <2>2 DEF PollInterrupted
    <3>2. m \in Mons
        BY DEF Delivers
    <3> QED
        BY <1>4, <1>6, <3>1, <3>2
  <2> QED
      BY <2>1, <2>2
<1>8. \E n \in SourceSnapshot :
          /\ Put("source", n) /\ KeepsRoom(n) /\ Named(n) /\ n.reserved = Ours.reserved
  <2>1. CASE UNCHANGED log
      BY <1>1, <2>1, OursFacts
  <2>2. CASE Seen.proposal # None /\ Put("source", Judged)
    <3>1. PICK n \in SourceSnapshot :
              /\ n = Judged
              /\ n.reserved = Ours.reserved /\ n.trade = Ours.trade /\ n.cancel = Ours.cancel
              /\ n.validated # None => <<Ours.trade, n.validated.mon>> \in Importable
        BY <1>2, <2>2, JudgedFacts
    <3>2. KeepsRoom(n) /\ Named(n)
        BY <1>1, <1>2, <1>6, <3>1, PollFacts DEF KeepsRoom, Named
    <3> QED
        BY <2>2, <3>1, <3>2
  <2> QED
      BY <2>1, <2>2 DEF PollInterrupted
<1>9. PICK n \in SourceSnapshot :
          Put("source", n) /\ KeepsRoom(n) /\ Named(n) /\ n.reserved = Ours.reserved
    BY <1>8
<1>10. /\ \A u \in Trades : st'[u] \in Resulting => st[u] \in Resulting /\ got'[u] = got[u]
       /\ \A u \in Trades : st'[u] \in {"running", "uncertain", "received"} => n.reserved = u
       /\ \A u \in Trades : st'[u] = "cancelled" => st[u] = "cancelled"
    BY <1>1, <1>2, <1>6, <1>7, <1>9
<1> QED
    BY <1>2, <1>3, <1>4, <1>5, <1>7, <1>9, <1>10, SourceActs

-----------------------------------------------------------------------------
(* Snapshots arrive *)

LEMMA SourceLearnsKeeps == ASSUME IInv, SourceLearns PROVE IInv'
<1>1. LogOK /\ TypeOK /\ L!Learn("switch") /\ UNCHANGED <<source, worker, files, world, budget>>
    BY DEF IInv, TypeOK, SourceLearns
<1>2. /\ LogOK' /\ log'["source"] = log["source"]
      /\ L!Current("switch")' = L!Current("switch") /\ History("switch")' \subseteq History("switch")
    BY <1>1, LearnFacts DEF Ends
<1>3. /\ Local' = Local /\ Ours' = Ours /\ Remote' = Remote
      /\ History("source")' = History("source")
      /\ \A x, y : Follows(x, y)' <=> Follows(x, y)
    BY <1>2 DEF Local, Ours, Remote, L!Current, L!Held, History, Follows
<1>4. TypeOK'
    BY <1>1, <1>2 DEF TypeOK, source, worker, files, world, budget
<1>5. \A t : Gone(t)' <=> Gone(t)
    BY <1>1, <1>3 DEF Gone, Over, Begun, Blocking, source
<1>6. \A t : Doomed(t)' <=> Doomed(t)
    BY <1>1, <1>3, <1>5 DEF Doomed, world
<1>7. SourceInv'
    BY <1>1, <1>3 DEF IInv, SourceInv, source, SourceShape, InOrder, Cleared, Over, Begun, Blocking
<1>8. SeenInv'
    BY <1>1, <1>2, <1>3 DEF IInv, SeenInv, source, Cleared, Over, Begun, Blocking
<1>9. LaunchInv' /\ ReceiptInv' /\ ResultFaithful'
    BY <1>1, <1>2, <1>3, <1>5
    DEF IInv, LaunchInv, ReceiptInv, ResultFaithful, source, world
<1>10. LocalInv' /\ EngineInv' /\ AdvanceInv'
    BY <1>1, <1>3
    DEF IInv, LocalInv, EngineInv, AdvanceInv, Attached, Takes, worker, files, world
<1>11. CancelInv'
    BY <1>1, <1>2, <1>6 DEF IInv, CancelInv, source
<1> QED
    BY <1>4, <1>7, <1>8, <1>9, <1>10, <1>11 DEF IInv

LEMMA SwitchLearnsKeeps == ASSUME IInv, SwitchLearns PROVE IInv'
<1>1. /\ LogOK /\ TypeOK /\ L!Learn("source") /\ view = None
      /\ UNCHANGED <<source, worker, files, world, budget>>
    BY DEF IInv, TypeOK, SwitchLearns, Idle
<1>2. /\ LogOK' /\ log'["switch"] = log["switch"]
      /\ L!Current("source")' = L!Current("source") /\ History("source")' \subseteq History("source")
      /\ \A x, y : Follows(x, y)' => Follows(x, y)
    BY <1>1, LearnFacts DEF Ends
<1>3. /\ Local' = Local /\ Ours' = Ours /\ History("switch")' = History("switch")
    BY <1>2 DEF Local, Ours, L!Current, History
<1>4. TypeOK'
    BY <1>1, <1>2 DEF TypeOK, source, worker, files, world, budget
<1>5. \A t : Gone(t) => Gone(t)'
    BY <1>1, <1>2, <1>3 DEF Gone, Over, Begun, Blocking, source
<1>6. \A t : Doomed(t) => Doomed(t)'
    BY <1>1, <1>2, <1>3, <1>5 DEF Doomed, world
<1>7. SourceInv'
    BY <1>1, <1>2, <1>3 DEF IInv, SourceInv, source, SourceShape, InOrder, Cleared, Over, Begun, Blocking
<1>8. SeenInv'
    BY <1>1, <1>2, <1>3 DEF IInv, SeenInv, source, Cleared, Over, Begun, Blocking
<1>9. LaunchInv' /\ ReceiptInv' /\ ResultFaithful'
    BY <1>1, <1>3, <1>5 DEF IInv, LaunchInv, ReceiptInv, ResultFaithful, source, world
<1>10. LocalInv' /\ EngineInv'
    BY <1>1, <1>3 DEF IInv, LocalInv, EngineInv, Attached, Takes, worker, files, world
<1>11. AdvanceInv'
    BY <1>1, <1>3 DEF IInv, AdvanceInv, Takes, worker, files, world
<1>12. CancelInv'
    BY <1>1, <1>3, <1>6 DEF IInv, CancelInv, source
<1> QED
    BY <1>4, <1>7, <1>8, <1>9, <1>10, <1>11, <1>12 DEF IInv

-----------------------------------------------------------------------------
(* Steps on the Switch side *)

\* The Switch may have given its Pokemon in the trade of the child.
ConsoleStep ==
    \A t \in Trades :
        \/ console'[t] = console[t]
        \/ /\ t = session /\ child = "alive" /\ console[t] = None
           /\ <<t, console'[t]>> \in Importable

\* What a step of the Switch bridge or of its child must respect.
SwitchStep ==
    /\ SwitchPublished /\ UNCHANGED source
    /\ TypeOK' /\ LaunchInv' /\ LocalInv' /\ EngineInv' /\ AdvanceInv'
    /\ Local'.trade # None =>
          /\ Begun(Local'.trade)
          /\ Local'.trade = Ours.reserved => \A x \in History("source") :
                x.trade = Local'.trade \/ (Cleared(x) /\ x.reserved = Local'.trade)
    /\ Local'.phase \in {"committed", "saved"} =>
          Local'.trade # None /\ Local'.receipt # None /\ console'[Local'.trade] = Local'.receipt
    /\ Local'.phase = "cancelled" => Local'.trade # None /\ Doomed(Local.trade)'
    /\ \A t \in Trades : Doomed(t) => Doomed(t)'
    /\ \A t \in Trades : launches[t] > 0 => launches'[t] > 0
    /\ ConsoleStep

LEMMA ConsoleFacts ==
    ASSUME IInv, ConsoleStep
    PROVE  /\ \A t \in Trades : console[t] # None => console'[t] = console[t]
           /\ \A t \in Trades : console'[t] # None =>
                 launches[t] > 0 /\ <<t, console'[t]>> \in Importable
BY RemoteAssumption DEF ConsoleStep, IInv, ReceiptInv, LaunchInv

LEMMA SwitchFrame == ASSUME IInv, SwitchStep PROVE IInv'
<1>1. LogOK /\ TypeOK /\ None \notin Trades /\ None \notin Mons
    BY TypeFacts DEF IInv
<1>2. /\ st' = st /\ got' = got /\ at' = at /\ Ours' = Ours
      /\ History("source")' = History("source")
      /\ \A x, y : Follows(x, y)' <=> Follows(x, y)
      /\ \A y \in History("switch")' : y \in History("switch") \/ y = Local'
      /\ History("switch") \subseteq SwitchSnapshot
    BY <1>1, LogFacts DEF SwitchStep, SwitchPublished, source
<1>3. SourceInv'
    BY <1>2 DEF IInv, SourceInv, SourceShape, InOrder, Cleared, Over, Begun, Blocking
<1>4. SeenInv'
    BY <1>2 DEF IInv, SeenInv, SwitchStep, Cleared, Over, Begun, Blocking
<1>5. /\ \A t \in Trades : console[t] # None => console'[t] = console[t]
      /\ \A t \in Trades : console'[t] # None =>
            launches[t] > 0 /\ <<t, console'[t]>> \in Importable
    BY ConsoleFacts DEF SwitchStep
<1>6. ReceiptInv'
  <2>1. ASSUME NEW y \in History("switch"), y.phase \in {"committed", "saved"}
        PROVE  y.trade # None /\ y.receipt # None /\ console'[y.trade] = y.receipt
    <3>1. y.trade # None /\ y.receipt # None /\ console[y.trade] = y.receipt
        BY <2>1 DEF IInv, ReceiptInv
    <3>2. y.trade \in Trades
        BY <1>2, <3>1 DEF SwitchSnapshot
    <3> QED
        BY <1>5, <3>1, <3>2
  <2>2. \A t \in Trades : console'[t] # None =>
            launches'[t] > 0 /\ <<t, console'[t]>> \in Importable
      BY <1>5 DEF SwitchStep
  <2> QED
      BY <1>2, <2>1, <2>2 DEF ReceiptInv, SwitchStep
<1>7. ResultFaithful'
    BY <1>2, <1>5 DEF IInv, ResultFaithful
<1>8. CancelInv'
  <2>1. ASSUME NEW y \in History("switch")', y.phase = "cancelled"
        PROVE  y.trade # None /\ Doomed(y.trade)'
    <3>1. CASE y \in History("switch")
      <4>1. y.trade \in Trades /\ Doomed(y.trade) /\ y.trade # None
          BY <1>2, <2>1, <3>1 DEF IInv, CancelInv, SwitchSnapshot
      <4> QED
          BY <4>1 DEF SwitchStep
    <3>2. CASE y = Local'
        BY <2>1, <3>2 DEF SwitchStep
    <3> QED
        BY <1>2, <3>1, <3>2
  <2>2. \A t \in Trades : st'[t] = "cancelled" => Doomed(t)'
      BY <1>2 DEF IInv, CancelInv, SwitchStep
  <2> QED
      BY <2>1, <2>2 DEF CancelInv
<1> QED
    BY <1>3, <1>4, <1>6, <1>7, <1>8 DEF IInv, SwitchStep

\* Most steps leave the exchange with its trade and its child.
SameExchange ==
    /\ Local'.trade = Local.trade /\ Local'.launched = Local.launched
    /\ session' = session /\ launches' = launches
    /\ child' = "alive" => child = "alive"

LEMMA ExchangeActs ==
    ASSUME IInv, SwitchPublished, UNCHANGED source, SameExchange, ConsoleStep,
           TypeOK', LocalInv', EngineInv', AdvanceInv',
           Local'.phase \in {"committed", "saved"} =>
               Local.trade # None /\ Local'.receipt # None /\ console'[Local.trade] = Local'.receipt,
           Local'.phase = "cancelled" => Local.trade # None /\ Doomed(Local.trade)
    PROVE  IInv'
<1>1. LogOK /\ TypeOK /\ None \notin Trades /\ Local \in SwitchSnapshot
    BY TypeFacts DEF IInv
<1>2. Local \in History("switch")
    BY <1>1, LogFacts
<1>3. \A t : Gone(t)' <=> Gone(t)
    BY DEF Gone, Over, Begun, Blocking, source, SwitchPublished
<1>4. LaunchInv'
    BY <1>3 DEF IInv, LaunchInv, SameExchange
<1>5. ASSUME NEW t \in Trades, Doomed(t)
      PROVE  Doomed(t)'
  <2>1. console'[t] = None
      BY <1>5 DEF Doomed, ConsoleStep
  <2>2. session' = t => child' # "alive"
      BY <1>5 DEF Doomed, SameExchange
  <2>3. \/ Gone(t)'
        \/ /\ Local'.trade = t
           /\ Local'.launched \/ \A x \in History("source")' : x.trade = t => x.cancel
      BY <1>3, <1>5 DEF Doomed, SameExchange, SwitchPublished
  <2> QED
      BY <2>1, <2>2, <2>3 DEF Doomed
<1>6. Local.trade # None =>
          /\ Begun(Local.trade)
          /\ Local.trade = Ours.reserved => \A x \in History("source") :
                x.trade = Local.trade \/ (Cleared(x) /\ x.reserved = Local.trade)
    BY <1>2 DEF IInv, SeenInv
<1>7. Local'.phase = "cancelled" => Local'.trade # None /\ Doomed(Local.trade)'
  <2> SUFFICES ASSUME Local'.phase = "cancelled"
               PROVE  Local'.trade # None /\ Doomed(Local.trade)'
      OBVIOUS
  <2>1. Local.trade \in Trades /\ Doomed(Local.trade) /\ Local'.trade = Local.trade
      BY <1>1 DEF SwitchSnapshot, SameExchange
  <2>2. PICK t \in Trades : t = Local.trade
      BY <2>1
  <2> QED
      BY <1>1, <1>5, <2>1, <2>2
<1> QED
  <2>1. SwitchStep
      BY <1>4, <1>5, <1>6, <1>7 DEF SwitchStep, SameExchange
  <2> QED
      BY <2>1, SwitchFrame

\* A step that publishes nothing.
LEMMA QuietActs ==
    ASSUME IInv, UNCHANGED <<log, source, session, launches>>,
           child' = "alive" => child = "alive", ConsoleStep,
           TypeOK', LocalInv', EngineInv', AdvanceInv'
    PROVE  IInv'
<1>1. LogOK /\ TypeOK /\ None \notin Trades /\ None \notin Mons /\ Local \in SwitchSnapshot
    BY TypeFacts DEF IInv
<1>2. SwitchPublished /\ Local' = Local /\ Local \in History("switch")
    BY <1>1, QuietFacts, LogFacts
<1>3. SameExchange /\ UNCHANGED source
    BY <1>2 DEF SameExchange
<1>4. Local.phase \in {"committed", "saved"} =>
          Local.trade # None /\ Local.receipt # None /\ console'[Local.trade] = Local.receipt
  <2> SUFFICES ASSUME Local.phase \in {"committed", "saved"}
               PROVE  Local.trade # None /\ Local.receipt # None /\ console'[Local.trade] = Local.receipt
      OBVIOUS
  <2>1. Local.trade # None /\ Local.receipt # None /\ console[Local.trade] = Local.receipt
      BY <1>2 DEF IInv, ReceiptInv
  <2>2. Local.trade \in Trades
      BY <1>1, <2>1 DEF SwitchSnapshot
  <2> QED
      BY <2>1, <2>2, ConsoleFacts
<1>5. Local.phase = "cancelled" => Local.trade # None /\ Doomed(Local.trade)
    BY <1>2 DEF IInv, CancelInv
<1> QED
    BY <1>2, <1>3, <1>4, <1>5, ExchangeActs

-----------------------------------------------------------------------------
(* The trade child *)

LEMMA SwitchFacts ==
    ASSUME IInv
    PROVE  /\ TypeOK /\ LogOK /\ None \notin Trades /\ None \notin Mons
           /\ Local \in SwitchSnapshot /\ Remote \in SourceSnapshot
           /\ LaunchInv /\ LocalInv /\ EngineInv /\ AdvanceInv
           /\ Local \in History("switch")
           /\ engine \in [allowed : BOOLEAN, saved : BOOLEAN, offer : Revision \cup {None}]
           /\ child \in {"none", "alive", "dead"} /\ radio \in {"none", "trading", "finish", "cancel"}
           /\ up \in BOOLEAN /\ withdrawn \in BOOLEAN /\ offers \in 0 .. MaxOffers
           /\ session \in Trades \cup {None} /\ receipt \in Mons \cup {None}
           /\ gate \in Revision \cup {None}
           /\ console \in [Trades -> Mons \cup {None}]
           /\ Attached => session \in Trades
           /\ UNCHANGED log => LogOK' /\ Local' = Local /\ Remote' = Remote
<1>1. TypeOK /\ LogOK /\ LocalInv
    BY DEF IInv, TypeOK
<1>2. /\ None \notin Trades /\ None \notin Mons
      /\ Local \in SwitchSnapshot /\ Remote \in SourceSnapshot /\ Local \in History("switch")
    BY <1>1, TypeFacts, LogFacts
<1>3. Attached => session \in Trades
    BY <1>1, <1>2 DEF Attached, LocalInv, SwitchSnapshot
<1>4. UNCHANGED log => LogOK' /\ Local' = Local /\ Remote' = Remote
    BY <1>1, QuietFacts DEF SwitchPublished
<1>5. LaunchInv /\ LocalInv /\ EngineInv /\ AdvanceInv
    BY DEF IInv
<1> HIDE DEF LogOK
<1> QED
    BY <1>1, <1>2, <1>3, <1>4, <1>5 DEF TypeOK

\* While the child can still be told something, its exchange is the present one.
LEMMA AliveAttached ==
    ASSUME IInv, child = "alive", ~engine.saved
    PROVE  Attached
BY DEF IInv, LocalInv

LEMMA SelectKeeps == ASSUME IInv, NEW m \in Mons, Select(m) PROVE IInv'
<1> DEFINE offer == [number |-> offers + 1, mon |-> m]
<1>1. /\ child = "alive" /\ ~engine.allowed /\ offers < MaxOffers
      /\ offers' = offers + 1 /\ gate' = offer /\ engine' = [engine EXCEPT !.offer = offer]
      /\ UNCHANGED <<log, source, worker, decision, withdrawn, receipt, child, session,
                     console, launches, budget>>
    BY DEF Select, Offerable
<1>2. /\ TypeOK /\ LaunchInv /\ LocalInv /\ EngineInv /\ AdvanceInv
      /\ engine \in [allowed : BOOLEAN, saved : BOOLEAN, offer : Revision \cup {None}]
      /\ LogOK' /\ Local' = Local /\ Remote' = Remote
    BY <1>1, SwitchFacts
<1>3. offer \in Revision /\ offers + 1 \in 0 .. MaxOffers
    BY <1>1, <1>2, RemoteAssumption DEF TypeOK, Revision
<1> HIDE DEF offer
<1>4. /\ engine' \in [allowed : BOOLEAN, saved : BOOLEAN, offer : Revision \cup {None}]
      /\ engine'.allowed = engine.allowed /\ engine'.saved = engine.saved
    BY <1>1, <1>2, <1>3
<1>5. TypeOK'
    BY <1>1, <1>2, <1>3, <1>4 DEF TypeOK, source, worker, budget
<1>6. ~engine.saved /\ Attached
    BY <1>1, <1>2, AliveAttached DEF EngineInv
<1>7. LocalInv'
    BY <1>1, <1>2, <1>4, <1>6 DEF LocalInv, Attached, worker
<1>8. EngineInv'
    BY <1>1, <1>2, <1>4 DEF EngineInv, Attached, Takes
<1>9. AdvanceInv'
    BY <1>1, <1>2 DEF AdvanceInv, Takes, worker
<1>10. ConsoleStep
    BY <1>1 DEF ConsoleStep
<1> QED
    BY <1>1, <1>5, <1>7, <1>8, <1>9, <1>10, QuietActs

LEMMA WithdrawKeeps == ASSUME IInv, Withdraw PROVE IInv'
<1> DEFINE offer == [number |-> offers + 1, mon |-> None]
<1>1. /\ child = "alive" /\ ~engine.allowed /\ offers < MaxOffers
      /\ offers' = offers + 1 /\ gate' = offer /\ engine' = [engine EXCEPT !.offer = None]
      /\ withdrawn' \in {withdrawn, TRUE}
      /\ UNCHANGED <<log, source, worker, decision, receipt, child, session,
                     console, launches, budget>>
    BY DEF Withdraw, Offerable
<1>2. /\ TypeOK /\ LaunchInv /\ LocalInv /\ EngineInv /\ AdvanceInv
      /\ engine \in [allowed : BOOLEAN, saved : BOOLEAN, offer : Revision \cup {None}]
      /\ LogOK' /\ Local' = Local /\ Remote' = Remote
    BY <1>1, SwitchFacts
<1>3. offer \in Revision /\ offers + 1 \in 0 .. MaxOffers
    BY <1>1, <1>2, RemoteAssumption DEF TypeOK, Revision
<1> HIDE DEF offer
<1>4. /\ engine' \in [allowed : BOOLEAN, saved : BOOLEAN, offer : Revision \cup {None}]
      /\ engine'.allowed = engine.allowed /\ engine'.saved = engine.saved
    BY <1>1, <1>2
<1>5. TypeOK'
  <2>1. withdrawn' \in BOOLEAN
      BY <1>1, <1>2 DEF TypeOK
  <2>2. /\ offers' \in 0 .. MaxOffers /\ gate' \in Revision
        /\ UNCHANGED <<source, worker, decision, receipt, child, session, console,
                       launches, budget>>
      BY <1>1, <1>3
  <2> QED
      BY <1>2, <1>4, <2>1, <2>2 DEF TypeOK, source, worker, budget
<1>6. ~engine.saved /\ Attached
    BY <1>1, <1>2, AliveAttached DEF EngineInv
<1>7. LocalInv'
    BY <1>1, <1>2, <1>4, <1>6 DEF LocalInv, Attached, worker
<1>8. EngineInv'
    BY <1>1, <1>2, <1>4 DEF EngineInv, Attached, Takes
<1>9. AdvanceInv'
    BY <1>1, <1>2 DEF AdvanceInv, Takes, worker
<1>10. ConsoleStep
    BY <1>1 DEF ConsoleStep
<1> QED
    BY <1>1, <1>5, <1>7, <1>8, <1>9, <1>10, QuietActs

LEMMA TickKeeps == ASSUME IInv, Tick PROVE IInv'
<1>1. /\ child = "alive" /\ engine.offer # None /\ ~engine.allowed
      /\ decision # None /\ decision.revision = engine.offer /\ decision.approve
      /\ engine' = [engine EXCEPT !.allowed = TRUE]
      /\ UNCHANGED <<log, source, worker, files, child, session, offers, console,
                     launches, budget>>
    BY DEF Tick, Decided
<1>2. /\ TypeOK /\ LaunchInv /\ LocalInv /\ EngineInv /\ AdvanceInv
      /\ engine \in [allowed : BOOLEAN, saved : BOOLEAN, offer : Revision \cup {None}]
      /\ LogOK' /\ Local' = Local /\ Remote' = Remote
    BY <1>1, SwitchFacts
<1>3. /\ engine' \in [allowed : BOOLEAN, saved : BOOLEAN, offer : Revision \cup {None}]
      /\ engine'.offer = engine.offer /\ engine'.saved = engine.saved
      /\ engine'.allowed => decision.approve
    BY <1>1, <1>2
<1>4. TypeOK'
    BY <1>1, <1>2, <1>3 DEF TypeOK, source, worker, files, budget
<1>5. ~engine.saved /\ console' = console /\ receipt' = receipt
    BY <1>1, <1>2 DEF EngineInv, files
<1>6. LocalInv'
    BY <1>1, <1>2, <1>3 DEF LocalInv, Attached, worker, files
<1>7. EngineInv'
  <2>1. session # None /\ console[session] = None /\ receipt = None
      BY <1>1, <1>2, <1>5 DEF EngineInv
  <2>2. engine'.allowed => Takes(session, engine.offer) /\ Local.commit
      BY <1>1, <1>2, <1>3 DEF AdvanceInv
  <2> QED
      BY <1>1, <1>2, <1>3, <1>5, <2>1, <2>2 DEF EngineInv, Attached, Takes
<1>8. AdvanceInv'
    BY <1>1, <1>2 DEF AdvanceInv, Takes, worker, files
<1>9. ConsoleStep
    BY <1>1 DEF ConsoleStep
<1> QED
    BY <1>1, <1>4, <1>6, <1>7, <1>8, <1>9, QuietActs

LEMMA ConsoleTradesKeeps == ASSUME IInv, ConsoleTrades PROVE IInv'
<1>1. /\ child = "alive" /\ engine.allowed /\ console[session] = None
      /\ console' = [console EXCEPT ![session] = engine.offer.mon]
      /\ UNCHANGED <<log, source, worker, files, child, session, engine, offers, launches, budget>>
    BY DEF ConsoleTrades
<1>2. /\ TypeOK /\ LaunchInv /\ LocalInv /\ EngineInv /\ AdvanceInv
      /\ console \in [Trades -> Mons \cup {None}] /\ None \notin Mons
      /\ session \in Trades \cup {None}
      /\ LogOK' /\ Local' = Local /\ Remote' = Remote
    BY <1>1, SwitchFacts
<1>3. session \in Trades /\ <<session, engine.offer.mon>> \in Importable
    BY <1>1, <1>2 DEF EngineInv, Takes
<1>4. /\ console' \in [Trades -> Mons \cup {None}]
      /\ console'[session] = engine.offer.mon /\ console'[session] # None
      /\ \A t \in Trades \ {session} : console'[t] = console[t]
  <2>1. engine.offer.mon \in Mons
      BY <1>3, RemoteAssumption
  <2> QED
      BY <1>1, <1>2, <1>3, <2>1
<1>5. TypeOK'
    BY <1>1, <1>2, <1>4 DEF TypeOK, source, worker, files, budget
<1>6. LocalInv'
    BY <1>1, <1>2 DEF LocalInv, Attached, worker, files
<1>7. EngineInv'
  <2>1. receipt = None /\ ~engine.saved
      BY <1>1, <1>2 DEF EngineInv
  <2> QED
      BY <1>1, <1>2, <1>3, <1>4, <2>1 DEF EngineInv, Attached, Takes, files
<1>8. AdvanceInv'
    BY <1>1, <1>2 DEF AdvanceInv, Takes, worker, files
<1>9. ConsoleStep
    BY <1>1, <1>3, <1>4 DEF ConsoleStep
<1> QED
    BY <1>1, <1>5, <1>6, <1>7, <1>8, <1>9, QuietActs

LEMMA WriteReceiptKeeps == ASSUME IInv, WriteReceipt PROVE IInv'
<1>1. /\ child = "alive" /\ console[session] # None /\ ~engine.saved
      /\ receipt' = console[session] /\ engine' = [engine EXCEPT !.saved = TRUE]
      /\ UNCHANGED <<log, source, worker, gate, decision, withdrawn, child, session, offers,
                     console, launches, budget>>
    BY DEF WriteReceipt
<1>2. /\ TypeOK /\ LaunchInv /\ LocalInv /\ EngineInv /\ AdvanceInv
      /\ engine \in [allowed : BOOLEAN, saved : BOOLEAN, offer : Revision \cup {None}]
      /\ console \in [Trades -> Mons \cup {None}]
      /\ LogOK' /\ Local' = Local /\ Remote' = Remote /\ (Attached => session \in Trades)
    BY <1>1, SwitchFacts
<1>3. /\ engine' \in [allowed : BOOLEAN, saved : BOOLEAN, offer : Revision \cup {None}]
      /\ engine'.offer = engine.offer /\ engine'.saved = TRUE /\ engine'.allowed = engine.allowed
    BY <1>1, <1>2
<1>4. Attached /\ session \in Trades
    BY <1>1, <1>2, AliveAttached
<1>5. TypeOK'
    BY <1>1, <1>2, <1>3, <1>4 DEF TypeOK, source, worker, budget
<1>6. LocalInv'
    BY <1>1, <1>2, <1>3, <1>4 DEF LocalInv, Attached, worker
<1>7. EngineInv'
    BY <1>1, <1>2, <1>3, <1>4 DEF EngineInv, Attached, Takes
<1>8. AdvanceInv'
    BY <1>1, <1>2 DEF AdvanceInv, Takes, worker
<1>9. ConsoleStep
    BY <1>1 DEF ConsoleStep
<1> QED
    BY <1>1, <1>5, <1>6, <1>7, <1>8, <1>9, QuietActs

LEMMA ChildExitsKeeps == ASSUME IInv, ChildExits PROVE IInv'
<1>1. /\ child = "alive" /\ child' = "dead"
      /\ UNCHANGED <<log, source, worker, files, session, engine, offers, console,
                     launches, budget>>
    BY DEF ChildExits
<1>2. /\ TypeOK /\ LaunchInv /\ LocalInv /\ EngineInv /\ AdvanceInv
      /\ LogOK' /\ Local' = Local /\ Remote' = Remote
    BY <1>1, SwitchFacts
<1>3. TypeOK'
    BY <1>1, <1>2 DEF TypeOK, source, worker, files, budget
<1>4. LocalInv'
    BY <1>1, <1>2 DEF LocalInv, Attached, worker, files
<1>5. EngineInv'
    BY <1>1, <1>2 DEF EngineInv, Attached, Takes, files
<1>6. AdvanceInv'
    BY <1>1, <1>2 DEF AdvanceInv, Takes, worker, files
<1>7. ConsoleStep
    BY <1>1 DEF ConsoleStep
<1> QED
    BY <1>1, <1>3, <1>4, <1>5, <1>6, <1>7, QuietActs

-----------------------------------------------------------------------------
(* The Switch bridge *)

LEMMA ApproveKeeps == ASSUME IInv, Approve PROVE IInv'
<1>1. /\ up /\ view # None /\ view.step = "approve" /\ view' = None
      /\ decision' = [revision |-> view.proposal, approve |-> TRUE]
      /\ UNCHANGED <<log, source, up, radio, gate, withdrawn, receipt, world, budget>>
    BY DEF Approve, AtStep
<1>2. /\ TypeOK /\ LaunchInv /\ LocalInv /\ EngineInv /\ AdvanceInv
      /\ LogOK' /\ Local' = Local /\ Remote' = Remote
    BY <1>1, SwitchFacts
<1>3. Takes(session, view.proposal) /\ Local.commit
    BY <1>1, <1>2 DEF AdvanceInv
<1>4. decision' \in [revision : Revision, approve : BOOLEAN]
  <2>1. view.proposal \in Revision
      BY <1>1, <1>2, <1>3 DEF TypeOK, Takes
  <2> QED
      BY <1>1, <2>1
<1>5. TypeOK'
    BY <1>1, <1>2, <1>4 DEF TypeOK, source, world, budget
<1>6. LocalInv'
    BY <1>1, <1>2 DEF LocalInv, Attached, world
<1>7. EngineInv'
    BY <1>1, <1>2 DEF EngineInv, Attached, Takes, world
<1>8. AdvanceInv'
    BY <1>1, <1>2, <1>3 DEF AdvanceInv, Takes, world
<1>9. ConsoleStep
    BY <1>1 DEF ConsoleStep, world
<1> QED
    BY <1>1, <1>5, <1>6, <1>7, <1>8, <1>9, QuietActs DEF world

LEMMA LookKeeps == ASSUME IInv, Look PROVE IInv'
<1>1. /\ up /\ view = None /\ radio # "none" /\ Remote.trade = Local.trade
      /\ view' = [step |-> "receipt", local |-> Local, proposal |-> None]
      /\ UNCHANGED <<log, source, up, radio, files, world, budget>>
    BY DEF Look, Idle
<1>2. /\ TypeOK /\ LaunchInv /\ LocalInv /\ EngineInv /\ AdvanceInv
      /\ Local \in SwitchSnapshot /\ LogOK' /\ Local' = Local /\ Remote' = Remote
    BY <1>1, SwitchFacts
<1>3. TypeOK'
    BY <1>1, <1>2 DEF TypeOK, source, files, world, budget
<1>4. LocalInv'
    BY <1>1, <1>2 DEF LocalInv, Attached, files, world
<1>5. EngineInv'
    BY <1>1, <1>2 DEF EngineInv, Attached, Takes, files, world
<1>6. AdvanceInv'
    BY <1>1, <1>2 DEF AdvanceInv, Takes, files, world
<1>7. ConsoleStep
    BY <1>1 DEF ConsoleStep, world
<1> QED
    BY <1>1, <1>3, <1>4, <1>5, <1>6, <1>7, QuietActs DEF world

LEMMA JudgeKeeps == ASSUME IInv, Judge PROVE IInv'
<1>1. /\ up /\ radio = "trading" /\ child = "dead"
      /\ radio' = IF withdrawn /\ ~Local.commit THEN "cancel" ELSE "finish"
      /\ UNCHANGED <<log, source, up, view, files, world, budget>>
    BY DEF Judge
<1>2. /\ TypeOK /\ LaunchInv /\ LocalInv /\ EngineInv /\ AdvanceInv
      /\ LogOK' /\ Local' = Local /\ Remote' = Remote /\ (Attached => session \in Trades)
      /\ None \notin Trades
    BY <1>1, SwitchFacts
<1>3. TypeOK'
    BY <1>1, <1>2 DEF TypeOK, source, files, world, budget
<1>4. LocalInv'
    BY <1>1, <1>2 DEF LocalInv, Attached, files, world
<1>5. EngineInv'
    BY <1>1, <1>2 DEF EngineInv, Attached, Takes, files, world
<1>6. AdvanceInv'
  <2>1. radio' = "cancel" => console[session] = None
    <3>1. Attached /\ session # None
        BY <1>1, <1>2 DEF LocalInv
    <3> QED
        BY <1>1, <1>2, <3>1 DEF EngineInv
  <2> QED
      BY <1>1, <1>2, <2>1 DEF AdvanceInv, Takes, files, world
<1>7. ConsoleStep
    BY <1>1 DEF ConsoleStep, world
<1> QED
    BY <1>1, <1>3, <1>4, <1>5, <1>6, <1>7, QuietActs DEF world

LEMMA CrashKeeps == ASSUME IInv, Crash PROVE IInv'
<1>1. /\ crashes < MaxCrashes /\ crashes' = crashes + 1
      /\ up' = FALSE /\ view' = None /\ radio' = "none"
      /\ child' \in IF child = "alive" THEN {"alive", "dead"} ELSE {child}
      /\ UNCHANGED <<log, source, files, session, engine, offers, console, launches, cancels, late>>
    BY DEF Crash
<1>2. /\ TypeOK /\ LaunchInv /\ LocalInv /\ EngineInv /\ AdvanceInv
      /\ child \in {"none", "alive", "dead"}
      /\ LogOK' /\ Local' = Local /\ Remote' = Remote
    BY <1>1, SwitchFacts
<1>3. /\ child' \in {"none", "alive", "dead"} /\ (child' = "alive" => child = "alive")
      /\ child' # "none" => child # "none"
    BY <1>1, <1>2
<1>4. crashes' \in 0 .. MaxCrashes
    BY <1>1, <1>2, RemoteAssumption DEF TypeOK
<1>5. TypeOK'
  <2>1. /\ up' \in BOOLEAN /\ view' = None /\ radio' = "none"
        /\ UNCHANGED <<source, files, session, engine, offers, console, launches, cancels, late>>
      BY <1>1
  <2> QED
      BY <1>2, <1>3, <1>4, <2>1 DEF TypeOK, source, files
<1>6. LocalInv'
    BY <1>1, <1>2, <1>3 DEF LocalInv, Attached, files
<1>7. EngineInv'
    BY <1>1, <1>2, <1>3 DEF EngineInv, Attached, Takes, files
<1>8. AdvanceInv'
    BY <1>1, <1>2 DEF AdvanceInv, Takes, files
<1>9. ConsoleStep
    BY <1>1 DEF ConsoleStep
<1> QED
    BY <1>1, <1>3, <1>5, <1>6, <1>7, <1>8, <1>9, QuietActs

LEMMA PublishFacts ==
    ASSUME IInv, NEW n \in SwitchSnapshot, Put("switch", n)
    PROVE  SwitchPublished /\ LogOK' /\ Local' = n /\ Remote' = Remote
<1>1. LogOK
    BY SwitchFacts
<1> QED
    BY <1>1, SwitchPuts DEF SwitchPublished

\* A receipt on file belongs to the exchange in the snapshot.
LEMMA OnFile ==
    ASSUME IInv, receipt # None
    PROVE  /\ Attached /\ engine.saved /\ receipt \in Mons
           /\ Local.trade # None /\ console[Local.trade] = receipt
<1>1. Attached /\ engine.saved /\ receipt = console[session] /\ receipt \in Mons
    BY DEF IInv, LocalInv, EngineInv, TypeOK
<1> QED
    BY <1>1 DEF Attached, IInv, LocalInv

LEMMA FinishedFacts ==
    ASSUME IInv, Local.launched
    PROVE  /\ Finished \in SwitchSnapshot /\ Finished.trade = Local.trade
           /\ Finished.launched = Local.launched /\ Finished.commit = Local.commit
           /\ Finished.phase \in {"saved", "uncertain"}
           /\ Finished.phase = "saved" =>
                 /\ Attached /\ engine.saved /\ Local.trade # None
                 /\ Finished.receipt # None /\ console[Local.trade] = Finished.receipt
<1>1. Local \in SwitchSnapshot /\ receipt \in Mons \cup {None}
    BY SwitchFacts
<1>2. CASE receipt # None /\ Matches(Local)
  <2>1. Finished = [Local EXCEPT !.phase = "saved", !.receipt = receipt]
      BY <1>2 DEF Finished, Published
  <2>2. /\ Finished \in SwitchSnapshot /\ Finished.trade = Local.trade
        /\ Finished.launched = Local.launched /\ Finished.commit = Local.commit
        /\ Finished.phase = "saved" /\ Finished.receipt = receipt
      BY <1>1, <2>1 DEF SwitchSnapshot
  <2> QED
      BY <1>2, <2>2, OnFile
<1>3. CASE ~(receipt # None /\ Matches(Local))
  <2>1. Finished = [Local EXCEPT !.phase = "uncertain"]
      BY <1>3 DEF Finished
  <2> QED
      BY <1>1, <2>1 DEF SwitchSnapshot
<1> QED
    BY <1>2, <1>3

LEMMA PublishCommittedKeeps == ASSUME IInv, PublishCommitted PROVE IInv'
<1>1. /\ up /\ view # None /\ view.step = "receipt"
      /\ UNCHANGED <<source, up, radio, files, world, budget>>
    BY DEF PublishCommitted, AtStep
<1>2. /\ TypeOK /\ LaunchInv /\ LocalInv /\ EngineInv /\ AdvanceInv
      /\ Local \in SwitchSnapshot
      /\ view \in [step : {"receipt", "offer", "commit", "approve"}, local : SwitchSnapshot,
                   proposal : Revision \cup {None}]
    BY <1>1, SwitchFacts DEF TypeOK
<1>3. Attached /\ Remote.trade = Local.trade
    BY <1>1, <1>2 DEF LocalInv, AdvanceInv
<1>4. ConsoleStep
    BY <1>1 DEF ConsoleStep, world
<1>5. CASE receipt # None /\ Put("switch", Published("committed"))
           /\ view' = [view EXCEPT !.step = "offer", !.local = Published("committed")]
  <2> DEFINE n == Published("committed")
  <2>1. /\ receipt \in Mons /\ Local.trade # None /\ console[Local.trade] = receipt
      BY <1>5, OnFile
  <2>2. /\ n \in SwitchSnapshot /\ n.trade = Local.trade /\ n.launched = Local.launched
        /\ n.commit = Local.commit /\ n.phase = "committed" /\ n.receipt = receipt
      BY <1>2, <2>1 DEF Published, SwitchSnapshot
  <2>3. SwitchPublished /\ LogOK' /\ Local' = n /\ Remote' = Remote
      BY <1>5, <2>2, PublishFacts
  <2>4. /\ view' \in [step : {"receipt", "offer", "commit", "approve"}, local : SwitchSnapshot,
                      proposal : Revision \cup {None}]
        /\ view'.step = "offer"
      BY <1>2, <1>5, <2>2
  <2> HIDE DEF n
  <2>5. TypeOK'
      BY <1>1, <1>2, <2>3, <2>4 DEF TypeOK, source, files, world, budget
  <2>6. LocalInv'
      BY <1>1, <1>2, <1>3, <2>2, <2>3 DEF LocalInv, Attached, files, world
  <2>7. EngineInv'
      BY <1>1, <1>2, <2>2, <2>3 DEF EngineInv, Attached, Takes, files, world
  <2>8. AdvanceInv'
      BY <1>1, <1>2, <2>2, <2>3, <2>4 DEF AdvanceInv, Takes, files, world
  <2>9. SameExchange
      BY <1>1, <2>2, <2>3 DEF SameExchange, world
  <2>10. console'[Local.trade] = Local'.receipt /\ Local'.receipt # None
         /\ Local'.phase = "committed"
      BY <1>1, <1>5, <2>1, <2>2, <2>3 DEF world
  <2> QED
      BY <1>1, <1>4, <2>1, <2>3, <2>5, <2>6, <2>7, <2>8, <2>9, <2>10, ExchangeActs
<1>6. CASE UNCHANGED log /\ view' \in {None, [view EXCEPT !.step = "offer"]}
  <2>1. LogOK' /\ Local' = Local /\ Remote' = Remote
      BY <1>6, SwitchFacts
  <2>2. /\ view' \in [step : {"receipt", "offer", "commit", "approve"}, local : SwitchSnapshot,
                      proposal : Revision \cup {None}] \cup {None}
        /\ view' # None => view'.step = "offer"
      BY <1>2, <1>6
  <2>3. TypeOK'
      BY <1>1, <1>2, <2>1, <2>2 DEF TypeOK, source, files, world, budget
  <2>4. LocalInv'
      BY <1>1, <1>2, <1>3, <2>1 DEF LocalInv, Attached, files, world
  <2>5. EngineInv'
      BY <1>1, <1>2, <2>1 DEF EngineInv, Attached, Takes, files, world
  <2>6. AdvanceInv'
      BY <1>1, <1>2, <2>1, <2>2 DEF AdvanceInv, Takes, files, world
  <2> QED
      BY <1>1, <1>4, <1>6, <2>3, <2>4, <2>5, <2>6, QuietActs DEF world
<1> QED
    BY <1>5, <1>6 DEF PublishCommitted

LEMMA ReadOfferKeeps == ASSUME IInv, ReadOffer PROVE IInv'
<1>1. /\ up /\ view # None /\ view.step = "offer"
      /\ UNCHANGED <<source, up, radio, gate, withdrawn, receipt, world, budget>>
    BY DEF ReadOffer, AtStep
<1>2. /\ TypeOK /\ LaunchInv /\ LocalInv /\ EngineInv /\ AdvanceInv
      /\ Local \in SwitchSnapshot /\ Remote \in SourceSnapshot /\ gate \in Revision \cup {None}
      /\ LogOK /\ None \notin Trades
    BY SwitchFacts
<1>3. /\ view \in [step : {"receipt", "offer", "commit", "approve"}, local : SwitchSnapshot,
                   proposal : Revision \cup {None}]
      /\ decision \in [revision : Revision, approve : BOOLEAN] \cup {None}
    BY <1>1, <1>2 DEF TypeOK
<1>4. Attached /\ Remote.trade = Local.trade
    BY <1>1, <1>2 DEF LocalInv, AdvanceInv
<1>5. ConsoleStep
    BY <1>1 DEF ConsoleStep, world
<1>6. CASE Remote.applied \/ gate = None
  <2>1. UNCHANGED <<log, decision>> /\ view' = None
      BY <1>6 DEF ReadOffer
  <2>2. LogOK' /\ Local' = Local /\ Remote' = Remote
      BY <2>1, SwitchFacts
  <2>3. TypeOK'
      BY <1>1, <1>2, <2>1, <2>2 DEF TypeOK, source, world, budget
  <2>4. LocalInv'
      BY <1>1, <1>2, <1>4, <2>1, <2>2 DEF LocalInv, Attached, world
  <2>5. EngineInv'
      BY <1>1, <1>2, <2>2 DEF EngineInv, Attached, Takes, world
  <2>6. AdvanceInv'
      BY <1>1, <1>2, <2>1, <2>2 DEF AdvanceInv, Takes, world
  <2> QED
      BY <1>1, <1>5, <2>1, <2>3, <2>4, <2>5, <2>6, QuietActs DEF world
<1>7. CASE ~(Remote.applied \/ gate = None)
  <2> DEFINE p == Proposed
  <2>1. /\ IF p # view.local THEN Put("switch", p) ELSE UNCHANGED log
        /\ CASE gate.mon = None \/ p.commit -> view' = None /\ UNCHANGED decision
             [] OTHER ->
                  IF Remote.cancel \/ Remote.rejection # None
                  THEN decision' = [revision |-> gate, approve |-> FALSE] /\ view' = None
                  ELSE /\ view' = IF Validated(p)
                                  THEN [step |-> "commit", local |-> p, proposal |-> gate]
                                  ELSE None
                       /\ UNCHANGED decision
      BY <1>7 DEF ReadOffer
  <2>2. /\ p \in SwitchSnapshot
        /\ p # view.local =>
              p.trade = Local.trade /\ p.launched = Local.launched /\ p.commit = Local.commit
              /\ p.phase = "offer"
    <3>1. CASE p = view.local
        BY <1>3, <3>1
    <3>2. CASE p # view.local
      <4>1. p = [Local EXCEPT !.proposal = gate, !.approval = gate, !.phase = "offer"]
          BY <3>2 DEF Proposed
      <4> HIDE DEF p
      <4> QED
          BY <1>2, <4>1 DEF SwitchSnapshot
    <3> QED
        BY <3>1, <3>2
  <2> HIDE DEF p
  <2>3. /\ decision' \in [revision : Revision, approve : BOOLEAN] \cup {None}
        /\ decision' = decision \/ ~decision'.approve
    <3>1. \/ decision' = decision
          \/ decision' = [revision |-> gate, approve |-> FALSE]
        BY <2>1
    <3>2. [revision |-> gate, approve |-> FALSE] \in [revision : Revision, approve : BOOLEAN]
        BY <1>2, <1>7
    <3> QED
        BY <1>3, <3>1, <3>2
  <2>4. /\ view' \in [step : {"receipt", "offer", "commit", "approve"}, local : SwitchSnapshot,
                      proposal : Revision \cup {None}] \cup {None}
        /\ view' # None => view'.step = "commit" /\ view'.proposal = gate /\ Remote.validated = gate
    <3>1. \/ view' = None
          \/ view' = [step |-> "commit", local |-> p, proposal |-> gate] /\ Remote.validated = gate
        BY <2>1 DEF Validated
    <3> QED
        BY <1>2, <2>2, <3>1
  <2>5. view' # None => Takes(session, view'.proposal)
    <3>1. SourceShape(Remote)
        BY <1>2, LogFacts DEF IInv, SourceInv
    <3> QED
        BY <1>4, <1>7, <2>4, <3>1 DEF SourceShape, Takes, Attached
  <2>6. /\ SwitchPublished /\ LogOK' /\ Remote' = Remote
        /\ Local'.trade = Local.trade /\ Local'.launched = Local.launched
        /\ Local'.commit = Local.commit /\ (Local' = Local \/ Local'.phase = "offer")
    <3>1. CASE p = view.local
      <4>1. UNCHANGED log
          BY <2>1, <3>1
      <4> QED
          BY <1>2, <4>1, QuietFacts, SwitchFacts
    <3>2. CASE p # view.local
      <4>1. Put("switch", p)
          BY <2>1, <3>2
      <4>2. SwitchPublished /\ LogOK' /\ Local' = p /\ Remote' = Remote
          BY <2>2, <4>1, PublishFacts
      <4> QED
          BY <2>2, <3>2, <4>2
    <3> QED
        BY <3>1, <3>2
  <2>7. TypeOK'
      BY <1>1, <1>2, <2>3, <2>4, <2>6 DEF TypeOK, source, world, budget
  <2>8. LocalInv'
      BY <1>1, <1>2, <1>4, <2>6 DEF LocalInv, Attached, world
  <2>9. EngineInv'
      BY <1>1, <1>2, <2>6 DEF EngineInv, Attached, Takes, world
  <2>10. AdvanceInv'
      BY <1>1, <1>2, <2>3, <2>4, <2>5, <2>6 DEF AdvanceInv, Takes, world
  <2>11. SameExchange
      BY <1>1, <2>6 DEF SameExchange, world
  <2>12. /\ Local'.phase \in {"committed", "saved"} =>
              Local.trade # None /\ Local'.receipt # None /\ console'[Local.trade] = Local'.receipt
         /\ Local'.phase = "cancelled" => Local.trade # None /\ Doomed(Local.trade)
    <3>1. console' = console
        BY <1>1 DEF world
    <3>2. Local \in History("switch")
        BY SwitchFacts
    <3> QED
        BY <2>6, <3>1, <3>2 DEF IInv, ReceiptInv, CancelInv
  <2> QED
      BY <1>1, <1>5, <2>6, <2>7, <2>8, <2>9, <2>10, <2>11, <2>12, ExchangeActs
<1> QED
    BY <1>6, <1>7

LEMMA CommitKeeps == ASSUME IInv, Commit PROVE IInv'
<1> DEFINE n == [Local EXCEPT !.commit = TRUE, !.phase = "committing"]
<1>1. /\ up /\ view # None /\ view.step = "commit" /\ Put("switch", n)
      /\ view' = [view EXCEPT !.step = "approve"]
      /\ UNCHANGED <<source, up, radio, files, world, budget>>
    BY DEF Commit, AtStep
<1>2. /\ TypeOK /\ LaunchInv /\ LocalInv /\ EngineInv /\ AdvanceInv
      /\ Local \in SwitchSnapshot
    BY SwitchFacts
<1>3. view \in [step : {"receipt", "offer", "commit", "approve"}, local : SwitchSnapshot,
                proposal : Revision \cup {None}]
    BY <1>1, <1>2 DEF TypeOK
<1>4. Attached
    BY <1>1, <1>2 DEF LocalInv
<1>5. /\ n \in SwitchSnapshot /\ n.trade = Local.trade /\ n.launched = Local.launched
      /\ n.commit = TRUE /\ n.phase = "committing"
    BY <1>2 DEF SwitchSnapshot
<1>6. SwitchPublished /\ LogOK' /\ Local' = n /\ Remote' = Remote
    BY <1>1, <1>5, PublishFacts
<1> HIDE DEF n
<1>7. /\ view' \in [step : {"receipt", "offer", "commit", "approve"}, local : SwitchSnapshot,
                    proposal : Revision \cup {None}]
      /\ view'.proposal = view.proposal
    BY <1>1, <1>3
<1>8. TypeOK'
    BY <1>1, <1>2, <1>6, <1>7 DEF TypeOK, source, files, world, budget
<1>9. LocalInv'
    BY <1>1, <1>2, <1>4, <1>5, <1>6 DEF LocalInv, Attached, files, world
<1>10. EngineInv'
    BY <1>1, <1>2, <1>5, <1>6 DEF EngineInv, Attached, Takes, files, world
<1>11. AdvanceInv'
    BY <1>1, <1>2, <1>5, <1>6, <1>7 DEF AdvanceInv, Takes, files, world
<1>12. SameExchange /\ ConsoleStep
    BY <1>1, <1>5, <1>6 DEF SameExchange, ConsoleStep, world
<1>13. Local'.phase = "committing"
    BY <1>5, <1>6
<1> QED
    BY <1>1, <1>6, <1>8, <1>9, <1>10, <1>11, <1>12, <1>13, ExchangeActs

LEMMA ConcludeKeeps == ASSUME IInv, Conclude PROVE IInv'
<1>1. /\ up /\ radio \in {"cancel", "finish"} /\ radio' = "none"
      /\ UNCHANGED <<source, up, view, files, world, budget>>
    BY DEF Conclude
<1>2. /\ TypeOK /\ LaunchInv /\ LocalInv /\ EngineInv /\ AdvanceInv
      /\ Local \in SwitchSnapshot /\ Local \in History("switch")
    BY SwitchFacts
<1>3. Attached /\ Local.trade # None /\ child = "dead"
    BY <1>1, <1>2 DEF LocalInv, AdvanceInv, Attached
<1>4. \E n \in SwitchSnapshot :
          /\ Put("switch", n) /\ n.trade = Local.trade /\ n.launched = Local.launched
          /\ n.commit = Local.commit /\ n.phase \in {"saved", "uncertain", "cancelled"}
          /\ n.phase = "saved" => /\ Attached /\ engine.saved /\ Local.trade # None
                                  /\ n.receipt # None /\ console[Local.trade] = n.receipt
          /\ n.phase = "cancelled" => Doomed(Local.trade)
  <2>1. CASE radio = "cancel"
    <3> DEFINE n == [Local EXCEPT !.phase = "cancelled", !.approval = None]
    <3>1. Put("switch", n)
        BY <2>1 DEF Conclude
    <3>2. /\ n \in SwitchSnapshot /\ n.trade = Local.trade /\ n.launched = Local.launched
          /\ n.commit = Local.commit /\ n.phase = "cancelled"
        BY <1>2 DEF SwitchSnapshot
    <3> HIDE DEF n
    <3>3. Doomed(Local.trade)
        BY <1>2, <1>3, <2>1 DEF Doomed, AdvanceInv, Attached
    <3> QED
        BY <3>1, <3>2, <3>3
  <2>2. CASE radio = "finish"
    <3>1. Put("switch", Finished)
        BY <2>2 DEF Conclude
    <3>2. Local.launched
        BY <1>3 DEF Attached
    <3> QED
        BY <3>1, <3>2, FinishedFacts
  <2> QED
      BY <1>1, <2>1, <2>2
<1>5. PICK n \in SwitchSnapshot :
          /\ Put("switch", n) /\ n.trade = Local.trade /\ n.launched = Local.launched
          /\ n.commit = Local.commit /\ n.phase \in {"saved", "uncertain", "cancelled"}
          /\ n.phase = "saved" => /\ Attached /\ engine.saved /\ Local.trade # None
                                  /\ n.receipt # None /\ console[Local.trade] = n.receipt
          /\ n.phase = "cancelled" => Doomed(Local.trade)
    BY <1>4
<1>6. SwitchPublished /\ LogOK' /\ Local' = n /\ Remote' = Remote
    BY <1>5, PublishFacts
<1>7. TypeOK'
    BY <1>1, <1>2, <1>6 DEF TypeOK, source, files, world, budget
<1>8. LocalInv'
    BY <1>1, <1>2, <1>3, <1>5, <1>6 DEF LocalInv, Attached, files, world
<1>9. EngineInv'
    BY <1>1, <1>2, <1>5, <1>6 DEF EngineInv, Attached, Takes, files, world
<1>10. AdvanceInv'
    BY <1>1, <1>2, <1>5, <1>6 DEF AdvanceInv, Takes, files, world
<1>11. SameExchange /\ ConsoleStep
    BY <1>1, <1>5, <1>6 DEF SameExchange, ConsoleStep, world
<1>12. /\ Local'.phase \in {"committed", "saved"} =>
              Local.trade # None /\ Local'.receipt # None /\ console'[Local.trade] = Local'.receipt
       /\ Local'.phase = "cancelled" => Local.trade # None /\ Doomed(Local.trade)
    BY <1>1, <1>3, <1>5, <1>6 DEF world
<1> QED
    BY <1>1, <1>6, <1>7, <1>8, <1>9, <1>10, <1>11, <1>12, ExchangeActs

LEMMA RestartKeeps == ASSUME IInv, Restart PROVE IInv'
<1>1. /\ ~up /\ up' = TRUE /\ UNCHANGED <<source, view, radio, files, world, budget>>
    BY DEF Restart
<1>2. /\ TypeOK /\ LaunchInv /\ LocalInv /\ EngineInv /\ AdvanceInv
      /\ Local \in SwitchSnapshot /\ Local \in History("switch")
    BY SwitchFacts
<1>3. view = None /\ radio = "none"
    BY <1>1, <1>2 DEF AdvanceInv
<1>4. ConsoleStep
    BY <1>1 DEF ConsoleStep, world
<1>5. CASE UNCHANGED log
  <2>1. LogOK' /\ Local' = Local /\ Remote' = Remote
      BY <1>5, SwitchFacts
  <2>2. TypeOK'
      BY <1>1, <1>2, <2>1 DEF TypeOK, source, files, world, budget
  <2>3. LocalInv'
      BY <1>1, <1>2, <2>1 DEF LocalInv, Attached, files, world
  <2>4. EngineInv'
      BY <1>1, <1>2, <2>1 DEF EngineInv, Attached, Takes, files, world
  <2>5. AdvanceInv'
      BY <1>1, <1>2, <1>3, <2>1 DEF AdvanceInv, Takes, files, world
  <2> QED
      BY <1>1, <1>4, <1>5, <2>2, <2>3, <2>4, <2>5, QuietActs DEF world
<1>6. CASE Local.launched /\ Put("switch", Finished)
  <2> DEFINE n == Finished
  <2>1. /\ n \in SwitchSnapshot /\ n.trade = Local.trade /\ n.launched = Local.launched
        /\ n.commit = Local.commit /\ n.phase \in {"saved", "uncertain"}
        /\ n.phase = "saved" =>
              /\ Attached /\ engine.saved /\ Local.trade # None
              /\ n.receipt # None /\ console[Local.trade] = n.receipt
      BY <1>6, FinishedFacts
  <2>2. SwitchPublished /\ LogOK' /\ Local' = n /\ Remote' = Remote
      BY <1>6, <2>1, PublishFacts
  <2> HIDE DEF n
  <2>3. TypeOK'
      BY <1>1, <1>2, <2>2 DEF TypeOK, source, files, world, budget
  <2>4. LocalInv'
      BY <1>1, <1>2, <1>6, <2>1, <2>2 DEF LocalInv, Attached, files, world
  <2>5. EngineInv'
      BY <1>1, <1>2, <2>1, <2>2 DEF EngineInv, Attached, Takes, files, world
  <2>6. AdvanceInv'
      BY <1>1, <1>2, <1>3, <2>1, <2>2 DEF AdvanceInv, Takes, files, world
  <2>7. SameExchange
      BY <1>1, <2>1, <2>2 DEF SameExchange, world
  <2>8. /\ Local'.phase \in {"committed", "saved"} =>
              Local.trade # None /\ Local'.receipt # None /\ console'[Local.trade] = Local'.receipt
        /\ Local'.phase # "cancelled"
      BY <1>1, <2>1, <2>2 DEF world
  <2> QED
      BY <1>1, <1>4, <2>2, <2>3, <2>4, <2>5, <2>6, <2>7, <2>8, ExchangeActs
<1> QED
    BY <1>5, <1>6 DEF Restart

LEMMA ResolveKeeps == ASSUME IInv, Resolve PROVE IInv'
<1> DEFINE n == [Local EXCEPT !.phase = "cancelled", !.approval = None]
<1>1. /\ ~up /\ Local.phase \in {"uncertain", "running", "offer", "committing"}
      /\ console[Local.trade] = None /\ child # "alive" /\ Put("switch", n)
      /\ UNCHANGED <<source, worker, files, world, budget>>
    BY DEF Resolve, OperatorChecked
<1>2. /\ TypeOK /\ LaunchInv /\ LocalInv /\ EngineInv /\ AdvanceInv
      /\ Local \in SwitchSnapshot
    BY SwitchFacts
<1>3. Local.launched /\ Local.trade # None
    BY <1>1, <1>2 DEF LocalInv
<1>4. /\ n \in SwitchSnapshot /\ n.trade = Local.trade /\ n.launched = Local.launched
      /\ n.commit = Local.commit /\ n.phase = "cancelled"
    BY <1>2 DEF SwitchSnapshot
<1>5. SwitchPublished /\ LogOK' /\ Local' = n /\ Remote' = Remote
    BY <1>1, <1>4, PublishFacts
<1> HIDE DEF n
<1>6. TypeOK'
    BY <1>1, <1>2, <1>5 DEF TypeOK, source, worker, files, world, budget
<1>7. LocalInv'
    BY <1>1, <1>2, <1>4, <1>5 DEF LocalInv, Attached, worker, files, world
<1>8. EngineInv'
    BY <1>1, <1>2, <1>4, <1>5 DEF EngineInv, Attached, Takes, files, world
<1>9. AdvanceInv'
    BY <1>1, <1>2, <1>4, <1>5 DEF AdvanceInv, Takes, worker, files, world
<1>10. SameExchange /\ ConsoleStep
    BY <1>1, <1>4, <1>5 DEF SameExchange, ConsoleStep, world
<1>11. Local'.phase = "cancelled" /\ Doomed(Local.trade)
    BY <1>1, <1>3, <1>4, <1>5 DEF Doomed
<1> QED
    BY <1>1, <1>3, <1>5, <1>6, <1>7, <1>8, <1>9, <1>10, <1>11, ExchangeActs

\* What the Switch bridge can tell from the snapshot it holds.
LEMMA RoomSeen ==
    ASSUME IInv, Remote.trade # None
    PROVE  /\ Remote.trade \in Trades /\ Begun(Remote.trade) /\ ~Gone(Remote.trade)
           /\ Remote \in History("source")
           /\ Remote.trade = Ours.reserved => \A x \in History("source") :
                 x.trade = Remote.trade \/ (Cleared(x) /\ x.reserved = Remote.trade)
           /\ Remote.cancel => \A x \in History("source") : x.trade = Remote.trade => x.cancel
           /\ \A x \in History("source") : x.trade \in {None, Remote.trade, Ours.reserved}
<1>1. /\ LogOK /\ None \notin Trades /\ Remote \in SourceSnapshot
      /\ Remote \in History("source") /\ \A x \in History("source") : Follows(Remote, x)
  <2>1. TypeOK
      BY DEF IInv
  <2> QED
      BY <2>1, TypeFacts, LogFacts
<1>2. /\ \A x \in History("source") : SourceShape(x)
      /\ \A x \in History("source") : InOrder(Remote, x)
    BY <1>1 DEF IInv, SourceInv
<1>3. Remote.reserved = Remote.trade /\ Remote.trade \in Trades /\ Begun(Remote.trade)
    BY <1>1, <1>2 DEF SourceShape, SourceSnapshot
<1>4. ASSUME NEW x \in History("source")
      PROVE  /\ x.trade \in {None, x.reserved} /\ x.reserved \in {Remote.trade, Ours.reserved}
             /\ x.reserved = Remote.trade =>
                   Cleared(x) \/ (x.trade = Remote.trade /\ (Remote.cancel => x.cancel))
    BY <1>2, <1>3 DEF SourceShape, InOrder
<1>5. \A x \in History("source") : x.trade = Remote.trade => ~Cleared(x) /\ x.reserved = Remote.trade
    BY <1>1, <1>3, <1>4 DEF Cleared
<1>6. Remote.cancel => \A x \in History("source") : x.trade = Remote.trade => x.cancel
    BY <1>4, <1>5
<1>7. \A x \in History("source") : x.trade \in {None, Remote.trade, Ours.reserved}
    BY <1>4
<1>8. Remote.trade = Ours.reserved => \A x \in History("source") :
          x.trade = Remote.trade \/ (Cleared(x) /\ x.reserved = Remote.trade)
    BY <1>4
<1> QED
    BY <1>1, <1>3, <1>6, <1>7, <1>8 DEF Gone

LEMMA ResetKeeps == ASSUME IInv, Reset PROVE IInv'
<1> DEFINE n == [BlankSwitch EXCEPT !.phase = "waiting"]
<1>1. /\ up /\ view = None /\ Local.phase = "saved"
      /\ Remote.trade # None /\ Remote.trade # Local.trade /\ Put("switch", n)
      /\ gate' = None /\ decision' = None /\ withdrawn' = FALSE /\ receipt' = None
      /\ radio' = "none" /\ UNCHANGED <<source, up, view, world, budget>>
    BY DEF Reset, Idle, Left
<1>2. /\ TypeOK /\ LaunchInv /\ LocalInv /\ EngineInv /\ AdvanceInv
      /\ Local \in SwitchSnapshot /\ Local \in History("switch") /\ None \notin Trades
    BY SwitchFacts
<1>3. n \in SwitchSnapshot /\ n.trade = None /\ ~n.launched /\ n.phase = "waiting" /\ ~n.commit
    BY DEF BlankSwitch, SwitchSnapshot
<1>4. SwitchPublished /\ LogOK' /\ Local' = n /\ Remote' = Remote
    BY <1>1, <1>3, PublishFacts
<1> HIDE DEF n
<1>5. Attached /\ engine.saved /\ Local.trade \in Trades
    BY <1>1, <1>2 DEF LocalInv, SwitchSnapshot, Attached
\* The 3DS bridge has moved on, and the Switch bridge has seen it.
<1>6. Gone(Local.trade)
  <2>1. Begun(Local.trade)
      BY <1>2, <1>5 DEF IInv, SeenInv
  <2>2. Ours.reserved # Local.trade
      BY <1>1, <1>2, <1>5, RoomSeen DEF IInv, SeenInv, Cleared
  <2>3. \A x \in History("source") : x.trade # Local.trade
      BY <1>1, <1>2, <1>5, <2>2, RoomSeen
  <2>4. ~Blocking(Local.trade)
      BY <1>5, <2>2 DEF IInv, SourceInv
  <2> QED
      BY <2>1, <2>3, <2>4 DEF Gone, Over
<1>7. \A t : Gone(t)' <=> Gone(t)
    BY <1>1, <1>4 DEF Gone, Over, Begun, Blocking, source, SwitchPublished
<1>8. TypeOK'
    BY <1>1, <1>2, <1>4 DEF TypeOK, source, world, budget
<1>9. LaunchInv'
    BY <1>1, <1>2, <1>6, <1>7 DEF LaunchInv, world
<1>10. LocalInv'
    BY <1>1, <1>2, <1>3, <1>4, <1>5 DEF LocalInv, Attached, world
<1>11. EngineInv'
    BY <1>1, <1>2, <1>3, <1>4 DEF EngineInv, Attached, Takes, world
<1>12. AdvanceInv'
    BY <1>1, <1>2 DEF AdvanceInv, Takes, world
<1>13. \A t \in Trades : Doomed(t) => Doomed(t)'
    BY <1>1, <1>6, <1>7 DEF Doomed, world
<1>14. ConsoleStep /\ \A t \in Trades : launches[t] > 0 => launches'[t] > 0
    BY <1>1 DEF ConsoleStep, world
<1>15. SwitchStep
    BY <1>1, <1>3, <1>4, <1>8, <1>9, <1>10, <1>11, <1>12, <1>13, <1>14 DEF SwitchStep
<1> QED
    BY <1>15, SwitchFrame

\* A trade that the Switch bridge is about to take up has no history there.
LEMMA MayLaunchFacts ==
    ASSUME IInv, MayLaunch
    PROVE  /\ up /\ view = None /\ ~Local.launched /\ ~Attached
           /\ Remote.trade \in Trades /\ Local.trade \in {None, Remote.trade}
           /\ launches[Remote.trade] = 0 /\ console[Remote.trade] = None
           /\ session # Remote.trade
<1>1. /\ up /\ view = None /\ ~Local.launched /\ Remote.trade # None
      /\ Local.trade \in {None, Remote.trade} /\ ~Attached
    BY DEF MayLaunch, Idle, Attached
<1>2. Remote.trade \in Trades /\ ~Gone(Remote.trade)
    BY <1>1, RoomSeen
<1>3. launches[Remote.trade] = 0
  <2>1. ~(launches[Remote.trade] > 0) /\ launches[Remote.trade] \in Nat
      BY <1>1, <1>2 DEF IInv, LaunchInv, TypeOK
  <2> QED
      BY <2>1
<1>4. ~(launches[Remote.trade] > 0)
    BY <1>3
<1>5. console[Remote.trade] = None /\ session # Remote.trade
    BY <1>1, <1>2, <1>4 DEF IInv, ReceiptInv, LaunchInv
<1> QED
    BY <1>1, <1>2, <1>3, <1>4, <1>5

LEMMA WithdrawnKeeps == ASSUME IInv, Withdrawn PROVE IInv'
<1> DEFINE n == [Local EXCEPT !.trade = Remote.trade, !.phase = "cancelled"]
           r == Remote.trade
<1>1. /\ MayLaunch /\ Remote.cancel /\ Put("switch", n)
      /\ UNCHANGED <<source, worker, files, world, budget>>
    BY DEF Withdrawn
<1>2. /\ TypeOK /\ LaunchInv /\ LocalInv /\ EngineInv /\ AdvanceInv
      /\ Local \in SwitchSnapshot /\ None \notin Trades
    BY SwitchFacts
<1>3. /\ up /\ view = None /\ ~Local.launched /\ ~Attached
      /\ r \in Trades /\ Local.trade \in {None, r}
      /\ launches[r] = 0 /\ console[r] = None /\ session # r
    BY <1>1, MayLaunchFacts
<1>4. /\ Begun(r) /\ ~Gone(r)
      /\ r = Ours.reserved => \A x \in History("source") :
            x.trade = r \/ (Cleared(x) /\ x.reserved = r)
      /\ \A x \in History("source") : x.trade = r => x.cancel
    BY <1>1, <1>2, <1>3, RoomSeen
<1>5. /\ n \in SwitchSnapshot /\ n.trade = r /\ n.phase = "cancelled"
      /\ n.launched = Local.launched /\ n.commit = Local.commit
    BY <1>2, <1>3 DEF SwitchSnapshot
<1>6. SwitchPublished /\ LogOK' /\ Local' = n /\ Remote' = Remote
    BY <1>1, <1>5, PublishFacts
<1> HIDE DEF n
<1>7. \A t : Gone(t)' <=> Gone(t)
    BY <1>1, <1>6 DEF Gone, Over, Begun, Blocking, source, SwitchPublished
<1>8. TypeOK'
    BY <1>1, <1>2, <1>6 DEF TypeOK, source, worker, files, world, budget
<1>9. LaunchInv'
    BY <1>1, <1>2, <1>3, <1>7 DEF LaunchInv, world
<1>10. LocalInv'
    BY <1>1, <1>2, <1>3, <1>5, <1>6 DEF LocalInv, Attached, worker, files, world
<1>11. EngineInv'
    BY <1>1, <1>2, <1>3, <1>5, <1>6 DEF EngineInv, Attached, Takes, files, world
<1>12. AdvanceInv'
    BY <1>1, <1>2, <1>3, <1>5, <1>6 DEF AdvanceInv, Takes, worker, files, world
<1>13. ASSUME NEW t \in Trades, Doomed(t) \/ t = r
       PROVE  Doomed(t)'
  <2>1. console[t] = None /\ (session = t => child # "alive")
      BY <1>3, <1>13 DEF Doomed
  <2>2. CASE Gone(t)
      BY <1>1, <1>7, <2>1, <2>2 DEF Doomed, world
  <2>3. CASE ~Gone(t)
    <3>1. t = r
        BY <1>2, <1>3, <1>13, <2>3 DEF Doomed
    <3>2. \A x \in History("source")' : x.trade = r => x.cancel
        BY <1>4, <1>6 DEF SwitchPublished
    <3> QED
        BY <1>1, <1>5, <1>6, <2>1, <3>1, <3>2 DEF Doomed, world
  <2> QED
      BY <2>2, <2>3
<1>14. ConsoleStep /\ \A t \in Trades : launches[t] > 0 => launches'[t] > 0
    BY <1>1 DEF ConsoleStep, world
<1>15. Local'.trade # None /\ Doomed(Local.trade)' /\ \A t \in Trades : Doomed(t) => Doomed(t)'
  <2>1. PICK t \in Trades : t = r
      BY <1>3
  <2>2. Doomed(t)'
      BY <1>13, <2>1
  <2>3. Local'.trade = t
      BY <1>5, <1>6, <2>1
  <2>4. Doomed(Local.trade)'
      BY <2>2, <2>3 DEF Doomed, Gone, Over, Begun, Blocking
  <2> QED
      BY <1>2, <1>13, <2>3, <2>4
<1>16. /\ Begun(Local'.trade)
       /\ Local'.trade = Ours.reserved => \A x \in History("source") :
             x.trade = Local'.trade \/ (Cleared(x) /\ x.reserved = Local'.trade)
    BY <1>4, <1>5, <1>6
<1>17. SwitchStep
  <2>1. Local'.phase = "cancelled"
      BY <1>5, <1>6
  <2> QED
      BY <1>1, <1>6, <1>8, <1>9, <1>10, <1>11, <1>12, <1>14, <1>15, <1>16, <2>1 DEF SwitchStep
<1> QED
    BY <1>17, SwitchFrame

\* The exchange is taken up: nothing that was doomed comes back by it.
LEMMA TakenUp ==
    ASSUME IInv, SwitchPublished, UNCHANGED <<source, console>>,
           ~Local.launched, Remote.trade # None, Local.trade \in {None, Remote.trade},
           ~Remote.cancel, Local'.trade = Remote.trade, Local'.phase = "running",
           TypeOK', LaunchInv', LocalInv', EngineInv', AdvanceInv',
           \A t \in Trades : launches[t] > 0 => launches'[t] > 0,
           \A t \in Trades : t # Remote.trade /\ session' = t /\ child' = "alive" =>
               session = t /\ child = "alive"
    PROVE  IInv'
<1>1. /\ Begun(Remote.trade) /\ ~Gone(Remote.trade) /\ Remote \in History("source")
      /\ Remote.trade = Ours.reserved => \A x \in History("source") :
            x.trade = Remote.trade \/ (Cleared(x) /\ x.reserved = Remote.trade)
    BY RoomSeen
<1>2. None \notin Trades
    BY SwitchFacts
<1>3. \A t : Gone(t)' <=> Gone(t)
    BY DEF Gone, Over, Begun, Blocking, source, SwitchPublished
<1>4. ASSUME NEW t \in Trades, Doomed(t)
      PROVE  Doomed(t)'
  <2>1. Gone(t)
      BY <1>1, <1>2, <1>4 DEF Doomed
  <2>2. t # Remote.trade
      BY <1>1, <2>1
  <2> QED
      BY <1>3, <1>4, <2>1, <2>2 DEF Doomed
<1>5. ConsoleStep
    BY DEF ConsoleStep
<1>6. SwitchStep
    BY <1>1, <1>4, <1>5 DEF SwitchStep
<1> QED
    BY <1>6, SwitchFrame

LEMMA LaunchKeeps == ASSUME IInv, Launch PROVE IInv'
<1> DEFINE n == Launched(Local)
           r == Remote.trade
<1>1. /\ MayLaunch /\ ~Remote.cancel /\ Put("switch", n)
      /\ UNCHANGED <<source, view, files, offers, console, cancels, late>>
    BY DEF Launch
<1>2. \/ /\ radio' = "trading" /\ child' = "alive" /\ session' = r /\ engine' = NoGate
         /\ launches' = [launches EXCEPT ![r] = @ + 1]
         /\ UNCHANGED <<up, crashes>>
      \/ /\ crashes < MaxCrashes /\ crashes' = crashes + 1 /\ up' = FALSE /\ radio' = "none"
         /\ UNCHANGED <<child, session, engine, launches>>
    BY DEF Launch
<1>3. /\ TypeOK /\ LaunchInv /\ LocalInv /\ EngineInv /\ AdvanceInv
      /\ Local \in SwitchSnapshot /\ None \notin Trades
    BY SwitchFacts
<1>4. /\ up /\ view = None /\ ~Local.launched /\ ~Attached
      /\ r \in Trades /\ Local.trade \in {None, r}
      /\ launches[r] = 0 /\ console[r] = None /\ session # r
    BY <1>1, MayLaunchFacts
<1>5. /\ Begun(r) /\ ~Gone(r) /\ Remote \in History("source")
      /\ r = Ours.reserved => \A x \in History("source") :
            x.trade = r \/ (Cleared(x) /\ x.reserved = r)
    BY <1>1, <1>3, <1>4, RoomSeen
<1>6. /\ n \in SwitchSnapshot /\ n.trade = r /\ n.phase = "running" /\ n.launched
      /\ n.commit = Local.commit
    BY <1>3, <1>4 DEF SwitchSnapshot, Launched
<1>7. SwitchPublished /\ LogOK' /\ Local' = n /\ Remote' = Remote
    BY <1>1, <1>6, PublishFacts
<1> HIDE DEF n
<1>8. \A t : Gone(t)' <=> Gone(t)
    BY <1>1, <1>7 DEF Gone, Over, Begun, Blocking, source, SwitchPublished
<1>9. gate = None /\ decision = None /\ ~withdrawn /\ receipt = None
      /\ (child # "alive" \/ engine.saved)
    BY <1>3, <1>4 DEF LocalInv
\* Both outcomes: the child runs, or the bridge died before it was started.
<1>10. CASE radio' = "trading" /\ child' = "alive" /\ session' = r /\ engine' = NoGate
            /\ launches' = [launches EXCEPT ![r] = @ + 1] /\ UNCHANGED <<up, crashes>>
  <2>1. /\ engine' \in [allowed : BOOLEAN, saved : BOOLEAN, offer : Revision \cup {None}]
        /\ ~engine'.allowed /\ ~engine'.saved
      BY <1>10 DEF NoGate
  <2>2. /\ launches' \in [Trades -> Nat] /\ launches'[r] = 1
        /\ \A t \in Trades \ {r} : launches'[t] = launches[t]
      BY <1>3, <1>4, <1>10 DEF TypeOK
  <2>3. TypeOK'
      BY <1>1, <1>3, <1>4, <1>7, <1>10, <2>1, <2>2 DEF TypeOK, source, files
  <2>4. LaunchInv'
    <3>1. \A t \in Trades : launches'[t] <= 1
        BY <1>3, <2>2 DEF LaunchInv
    <3>2. ASSUME NEW t \in Trades, launches'[t] > 0
          PROVE  (Local'.launched /\ Local'.trade = t) \/ Gone(t)'
        BY <1>3, <1>4, <1>6, <1>7, <1>8, <2>2, <3>2 DEF LaunchInv
    <3>3. session' # None => launches'[session'] > 0
        BY <1>10, <2>2
    <3> QED
        BY <3>1, <3>2, <3>3 DEF LaunchInv
  <2>5. Attached'
      BY <1>6, <1>7, <1>10 DEF Attached
  <2>6. LocalInv'
      BY <1>3, <1>4, <1>6, <1>7, <2>5 DEF LocalInv
  <2>7. EngineInv'
      BY <1>1, <1>3, <1>4, <1>9, <1>10, <2>1 DEF EngineInv, files
  <2>8. AdvanceInv'
      BY <1>1, <1>4, <1>9, <1>10 DEF AdvanceInv, files
  <2>9. \A t \in Trades : launches[t] > 0 => launches'[t] > 0
      BY <1>4, <2>2
  <2>10. \A t \in Trades : t # r /\ session' = t /\ child' = "alive" =>
             session = t /\ child = "alive"
      BY <1>10
  <2> QED
      BY <1>1, <1>3, <1>4, <1>6, <1>7, <2>3, <2>4, <2>6, <2>7, <2>8, <2>9, <2>10, TakenUp
<1>11. CASE crashes < MaxCrashes /\ crashes' = crashes + 1 /\ up' = FALSE /\ radio' = "none"
            /\ UNCHANGED <<child, session, engine, launches>>
  <2>1. crashes' \in 0 .. MaxCrashes /\ up' \in BOOLEAN
    <3>1. up' \in BOOLEAN
        BY <1>11
    <3>2. crashes \in 0 .. MaxCrashes /\ MaxCrashes \in Nat
        BY <1>3, RemoteAssumption DEF TypeOK
    <3> QED
        BY <1>11, <3>1, <3>2
  <2>2. UNCHANGED <<source, view, files, child, session, engine, offers, console, launches,
                    cancels, late>> /\ radio' = "none"
      BY <1>1, <1>11
  <2>3. TypeOK'
      BY <1>3, <1>7, <2>1, <2>2 DEF TypeOK, source, files
  <2>4. LaunchInv'
    <3>1. ASSUME NEW t \in Trades, launches'[t] > 0
          PROVE  (Local'.launched /\ Local'.trade = t) \/ Gone(t)'
        BY <1>3, <1>4, <1>8, <2>2, <3>1 DEF LaunchInv
    <3> QED
        BY <1>3, <2>2, <3>1 DEF LaunchInv
  <2>5. ~Attached'
      BY <1>4, <1>6, <1>7, <2>2 DEF Attached
  <2>6. LocalInv'
      BY <1>3, <1>4, <1>6, <1>7, <1>9, <2>2, <2>5 DEF LocalInv, files
  <2>7. EngineInv'
      BY <1>3, <2>2, <2>5 DEF EngineInv, Takes, files
  <2>8. AdvanceInv'
      BY <1>4, <1>9, <2>2 DEF AdvanceInv, files
  <2> QED
      BY <1>1, <1>3, <1>4, <1>6, <1>7, <2>2, <2>3, <2>4, <2>6, <2>7, <2>8, TakenUp
<1> QED
    BY <1>2, <1>10, <1>11

-----------------------------------------------------------------------------
(* The invariant, and what follows from it *)

LEMMA Initially == ASSUME Init PROVE IInv
<1>1. /\ log["source"] = <<BlankSource>> /\ log["switch"] = <<BlankSwitch>>
      /\ DOMAIN log = Ends
    BY DEF Init, Ends
<1>2. BlankSource \in SourceSnapshot /\ BlankSwitch \in SwitchSnapshot
    BY DEF BlankSource, BlankSwitch, SourceSnapshot, SwitchSnapshot
<1>3. LogOK
  <2>1. /\ <<BlankSource>> \in Seq(SourceSnapshot) /\ <<BlankSwitch>> \in Seq(SwitchSnapshot)
        /\ <<BlankSource>> # <<>> /\ <<BlankSwitch>> # <<>>
        /\ <<BlankSource>> \in Seq(SourceSnapshot \cup SwitchSnapshot)
        /\ <<BlankSwitch>> \in Seq(SourceSnapshot \cup SwitchSnapshot)
      BY <1>2
  <2>2. log \in [Ends -> Seq(SourceSnapshot \cup SwitchSnapshot) \ {<<>>}]
      BY <2>1 DEF Init
  <2> QED
      BY <1>1, <2>1, <2>2 DEF LogOK
<1>4. TypeOK
  <2>1. /\ crashes \in 0 .. MaxCrashes /\ cancels \in 0 .. MaxCancels /\ late \in 0 .. MaxLate
        /\ offers \in 0 .. MaxOffers
      BY RemoteAssumption DEF Init
  <2>2. /\ st \in [Trades -> States] /\ got \in [Trades -> Mons \cup {None}]
        /\ console \in [Trades -> Mons \cup {None}] /\ launches \in [Trades -> Nat]
      BY DEF Init, States
  <2>3. engine \in [allowed : BOOLEAN, saved : BOOLEAN, offer : Revision \cup {None}]
      BY DEF Init, NoGate
  <2>4. /\ at = None /\ up = TRUE /\ view = None /\ radio = "none" /\ gate = None
        /\ decision = None /\ withdrawn = FALSE /\ receipt = None /\ child = "none"
        /\ session = None
      BY DEF Init
  <2> QED
      BY <1>3, <2>1, <2>2, <2>3, <2>4 DEF TypeOK
<1>5. /\ Ours = BlankSource /\ Local = BlankSwitch /\ Remote = BlankSource
      /\ \A x \in History("source") : x = BlankSource
      /\ \A y \in History("switch") : y = BlankSwitch
  <2>1. /\ Len(log["source"]) = 1 /\ log["source"][1] = BlankSource
        /\ Head(log["source"]) = BlankSource
        /\ Len(log["switch"]) = 1 /\ log["switch"][1] = BlankSwitch
      BY <1>1
  <2>2. \A i \in 1 .. 1 : i = 1
      OBVIOUS
  <2> QED
      BY <2>1, <2>2 DEF Ours, Local, Remote, L!Current, L!Held, History
<1>6. /\ BlankSource.reserved = None /\ BlankSource.trade = None
      /\ BlankSource.validated = None
      /\ BlankSwitch.trade = None /\ BlankSwitch.launched = FALSE /\ BlankSwitch.phase = "none"
    BY DEF BlankSource, BlankSwitch
<1>7. SourceInv
    BY <1>5, <1>6 DEF Init, SourceInv, SourceShape, InOrder, Blocking
<1>8. SeenInv /\ LocalInv
    BY <1>5, <1>6 DEF Init, SeenInv, LocalInv
<1>9. LaunchInv
    BY DEF Init, LaunchInv
<1>10. EngineInv /\ AdvanceInv
    BY DEF Init, EngineInv, AdvanceInv, NoGate
<1>11. ReceiptInv /\ CancelInv /\ ResultFaithful
    BY <1>5, <1>6 DEF Init, ReceiptInv, CancelInv, ResultFaithful, Resulting
<1> QED
    BY <1>4, <1>7, <1>8, <1>9, <1>10, <1>11 DEF IInv

LEMMA Stutters == ASSUME IInv, UNCHANGED vars PROVE IInv'
<1>1. UNCHANGED <<log, source, worker, files, world, budget>>
    BY DEF vars, source, worker, files, world, budget
<1>2. TypeOK /\ LocalInv /\ EngineInv /\ AdvanceInv /\ LogOK' /\ Local' = Local /\ Remote' = Remote
    BY <1>1, SwitchFacts
<1>3. TypeOK'
    BY <1>1, <1>2 DEF TypeOK, source, worker, files, world, budget
<1>4. LocalInv'
    BY <1>1, <1>2 DEF LocalInv, Attached, worker, files, world
<1>5. EngineInv'
    BY <1>1, <1>2 DEF EngineInv, Attached, Takes, files, world
<1>6. AdvanceInv'
    BY <1>1, <1>2 DEF AdvanceInv, Takes, worker, files, world
<1>7. ConsoleStep
    BY <1>1 DEF ConsoleStep, world
<1> QED
    BY <1>1, <1>3, <1>4, <1>5, <1>6, <1>7, QuietActs DEF world

LEMMA HandlersKeep == ASSUME IInv, NEW t \in Trades, Handlers(t) PROVE IInv'
<1>1. CASE Poll(t, FALSE) /\ UNCHANGED cancels
  <2>1. cancels' \in 0 .. MaxCancels
      BY <1>1 DEF IInv, TypeOK
  <2> QED
      BY <1>1, <2>1, PollKeeps
<1> QED
    BY <1>1, PrepareKeeps, StartKeeps, ConfirmKeeps, AppliedKeeps, RequestCancelKeeps,
       StartInterruptedKeeps, RecordInterruptedKeeps DEF Handlers

LEMMA Keeps == ASSUME IInv, [Next]_vars PROVE IInv'
<1>1. CASE \E t \in Trades : Handlers(t)
    BY <1>1, HandlersKeep
<1>2. CASE PollEnds \/ PollInterrupted
    BY <1>2, PollElsewhereKeeps, PollEndedKeeps, PollOfferKeeps, PollInterruptedKeeps DEF PollEnds
<1>3. CASE SourceLearns \/ SwitchLearns
    BY <1>3, SourceLearnsKeeps, SwitchLearnsKeeps
<1>4. CASE Advance
    BY <1>4, ResetKeeps, WithdrawnKeeps, LaunchKeeps, LookKeeps, PublishCommittedKeeps,
       ReadOfferKeeps, CommitKeeps, ApproveKeeps DEF Advance
<1>5. CASE Judge \/ Conclude \/ Crash \/ Restart \/ Resolve
    BY <1>5, JudgeKeeps, ConcludeKeeps, CrashKeeps, RestartKeeps, ResolveKeeps
<1>6. CASE Child
    BY <1>6, SelectKeeps, WithdrawKeeps, TickKeeps, ConsoleTradesKeeps, WriteReceiptKeeps,
       ChildExitsKeeps DEF Child
<1>7. CASE UNCHANGED vars
    BY <1>7, Stutters
<1> QED
    BY <1>1, <1>2, <1>3, <1>4, <1>5, <1>6, <1>7 DEF Next

LEMMA Inductive == Spec => []IInv
BY Initially, Keeps, PTL DEF Spec

\* Logs, files, the radio thread and the gate keep to their types (remote.py's two
\* peers, the files of an exchange and the child's gate).
THEOREM Typed == Spec => []TypeOK
<1>1. IInv => TypeOK
    BY DEF IInv
<1> QED
    BY <1>1, Inductive, PTL

\* remote.py publishes `launched` "before process launch": however often the Switch
\* bridge dies and starts again, a trade never gets a second child.
THEOREM StartedOnce == Spec => []RadioOnce
<1>1. IInv => RadioOnce
    BY DEF IInv, LaunchInv, RadioOnce
<1> QED
    BY <1>1, Inductive, PTL

\* The gate goes on only with the revision that both sides approved: the Switch gives
\* no Pokemon that Save.replace would refuse, however the player changed the offer.
THEOREM GivesImportable == Spec => []OnlyImportable
<1>1. IInv => OnlyImportable
    BY DEF IInv, ReceiptInv, OnlyImportable
<1> QED
    BY <1>1, Inductive, PTL

\* A result on the 3DS side is the Pokemon which the Switch gave in that trade: no
\* receipt of an earlier exchange in the room, and none the Switch did not write.
THEOREM ResultsFaithful == Spec => []ResultFaithful
<1>1. IInv => ResultFaithful
    BY DEF IInv
<1> QED
    BY <1>1, Inductive, PTL

\* What the 3DS side calls cancelled, by its own request, the Switch bridge's or the
\* operator's, has given nothing, and no child of it may still go on.
THEOREM CancelledStays == Spec => []CancelledNeverTraded
<1>1. ASSUME IInv PROVE CancelledNeverTraded
  <2> SUFFICES ASSUME NEW t \in Trades, st[t] = "cancelled"
               PROVE  console[t] = None /\ ~(child = "alive" /\ session = t /\ engine.allowed)
      BY DEF CancelledNeverTraded
  <2>1. Doomed(t)
      BY <1>1 DEF IInv, CancelInv
  <2> QED
      BY <2>1 DEF Doomed
<1> QED
    BY <1>1, Inductive, PTL

-----------------------------------------------------------------------------
(* What is decided stays decided *)

\* The results and the cancellations on file.
RecordsKept ==
    \A t \in Trades :
        /\ st[t] \in Resulting => st'[t] \in Resulting /\ got'[t] = got[t]
        /\ st[t] \in {"applied", "cancelled"} => st'[t] = st[t]

LEMMA HandlerRecords ==
    ASSUME IInv, NEW t \in Trades, Handlers(t)
    PROVE  RecordsKept
<1>1. st \in [Trades -> States]
    BY DEF IInv, TypeOK
<1>2. got' = got
    BY DEF Handlers, Prepare, Start, Confirm, Applied, RequestCancel, Poll, StartInterrupted,
       RecordInterrupted, source
<1>3. CASE UNCHANGED st
    BY <1>2, <1>3 DEF RecordsKept
<1>4. ASSUME NEW state, Record(t, state),
             st[t] # "cancelled", st[t] \in Resulting => state \in Resulting,
             st[t] = "applied" => state = "applied"
      PROVE  RecordsKept
  <2>1. st'[t] = state /\ \A u \in Trades \ {t} : st'[u] = st[u]
      BY <1>1, <1>4 DEF Record
  <2> QED
      BY <1>2, <1>4, <2>1 DEF RecordsKept
<1>5. CASE Prepare(t)
    BY <1>4, <1>5 DEF Prepare, Resulting
<1>6. CASE Start(t)
    BY <1>4, <1>6 DEF Start, MayStart, Resulting
<1>7. CASE Confirm(t)
    BY <1>4, <1>7 DEF Confirm, Resulting
<1>8. CASE Applied(t)
    BY <1>4, <1>8 DEF Applied, Resulting
<1>9. CASE RequestCancel(t)
    BY <1>3, <1>4, <1>9 DEF RequestCancel, Poll, Resulting
<1>10. CASE StartInterrupted(t) \/ RecordInterrupted(t)
    BY <1>3, <1>4, <1>10 DEF StartInterrupted, RecordInterrupted, source, Resulting
<1> QED
    BY <1>3, <1>5, <1>6, <1>7, <1>8, <1>9, <1>10 DEF Handlers, Poll

LEMMA PollRecords ==
    ASSUME IInv, PollEnds \/ PollInterrupted
    PROVE  RecordsKept
<1>1. /\ st \in [Trades -> States] /\ got \in [Trades -> Mons \cup {None}]
      /\ at # None => at.trade \in Trades /\ st[at.trade] \in {"running", "uncertain"}
    BY DEF IInv, TypeOK, SourceInv
<1>2. at # None /\ (st' = st \/ \E state : st' = [st EXCEPT ![at.trade] = state])
    BY DEF PollEnds, PollElsewhere, PollEnded, PollOffer, Answer, Record, PollInterrupted
<1>3. got' = got \/ \E m : got' = [got EXCEPT ![at.trade] = m]
    BY DEF PollEnds, PollElsewhere, PollEnded, PollOffer, PollInterrupted
<1>4. \A u \in Trades \ {at.trade} : st'[u] = st[u] /\ got'[u] = got[u]
    BY <1>1, <1>2, <1>3
<1> QED
    BY <1>1, <1>2, <1>4 DEF RecordsKept, Resulting

\* A Pokemon the Switch gave in a trade is the only one it gives in it.
LEMMA ConsoleKept ==
    ASSUME IInv, [Next]_vars, NEW t \in Trades, console[t] # None
    PROVE  console'[t] = console[t]
<1>1. CASE ConsoleTrades
  <2>1. session \in Trades /\ console \in [Trades -> Mons \cup {None}]
      BY <1>1 DEF IInv, TypeOK, EngineInv, ConsoleTrades
  <2> QED
      BY <1>1, <2>1 DEF ConsoleTrades
<1>2. CASE UNCHANGED console
    BY <1>2
<1>3. ASSUME NEW u \in Trades, Handlers(u)
      PROVE  UNCHANGED console
    BY <1>3 DEF Handlers, Prepare, Start, Confirm, Applied, RequestCancel, Poll,
       StartInterrupted, RecordInterrupted, world
<1>4. CASE PollEnds \/ PollInterrupted \/ SourceLearns \/ SwitchLearns
    BY <1>2, <1>4 DEF PollEnds, PollElsewhere, PollEnded, PollOffer, Answer, PollInterrupted,
       SourceLearns, SwitchLearns, world
<1>5. CASE Advance
    BY <1>2, <1>5 DEF Advance, Reset, Withdrawn, Launch, Look, PublishCommitted, ReadOffer, Commit,
       Approve, world
<1>6. CASE Judge \/ Conclude \/ Crash \/ Restart \/ Resolve
    BY <1>2, <1>6 DEF Judge, Conclude, Crash, Restart, Resolve, world
<1>7. CASE Child
    BY <1>1, <1>2, <1>7 DEF Child, Select, Withdraw, Tick, WriteReceipt, ChildExits
<1>8. CASE UNCHANGED vars
    BY <1>2, <1>8 DEF vars
<1> QED
    BY <1>2, <1>3, <1>4, <1>5, <1>6, <1>7, <1>8 DEF Next

\* Whatever the Switch bridge's snapshots say later, and in whatever room, a result on
\* file is not taken back or exchanged for another, a cancelled trade is not revived,
\* and the Switch gives in a trade once.
THEOREM DecidedForGood ==
    Spec => [][\A t \in Trades :
                  /\ st[t] \in Resulting => st'[t] \in Resulting /\ got'[t] = got[t]
                  /\ st[t] \in {"applied", "cancelled"} => st'[t] = st[t]
                  /\ console[t] # None => console'[t] = console[t]]_vars
<1>1. ASSUME IInv, [Next]_vars
      PROVE  RecordsKept
  <2>1. CASE UNCHANGED <<st, got>>
      BY <2>1 DEF RecordsKept
  <2>2. CASE \E t \in Trades : Handlers(t)
      BY <1>1, <2>2, HandlerRecords
  <2>3. CASE PollEnds \/ PollInterrupted
      BY <1>1, <2>3, PollRecords
  <2>4. CASE SourceLearns \/ SwitchLearns
      BY <2>1, <2>4 DEF SourceLearns, SwitchLearns, source
  <2>5. CASE Advance
      BY <2>1, <2>5 DEF Advance, Reset, Withdrawn, Launch, Look, PublishCommitted, ReadOffer,
         Commit, Approve, source
  <2>6. CASE Judge \/ Conclude \/ Crash \/ Restart \/ Resolve
      BY <2>1, <2>6 DEF Judge, Conclude, Crash, Restart, Resolve, source
  <2>7. CASE Child
      BY <2>1, <2>7 DEF Child, Select, Withdraw, Tick, ConsoleTrades, WriteReceipt, ChildExits,
         source
  <2>8. CASE UNCHANGED vars
      BY <2>1, <2>8 DEF vars
  <2> QED
      BY <1>1, <2>2, <2>3, <2>4, <2>5, <2>6, <2>7, <2>8 DEF Next
<1>2. IInv /\ [Next]_vars =>
        [\A t \in Trades :
            /\ st[t] \in Resulting => st'[t] \in Resulting /\ got'[t] = got[t]
            /\ st[t] \in {"applied", "cancelled"} => st'[t] = st[t]
            /\ console[t] # None => console'[t] = console[t]]_vars
    BY <1>1, ConsoleKept DEF RecordsKept
<1> QED
    BY <1>2, Inductive, PTL DEF Spec

-----------------------------------------------------------------------------
(* Both bridges and the room implement Exchange *)

\* The record of the 3DS side decides the abstract phase.
LEMMA PhaseCases ==
    /\ \A s \in {"none", "prepared"} : PhaseOf(s) = "open"
    /\ \A s \in {"running", "uncertain", "received"} : PhaseOf(s) = "pending"
    /\ \A s \in {"ready", "applied"} : PhaseOf(s) = "released"
    /\ PhaseOf("cancelled") = "void"
BY DEF PhaseOf

LEMMA InitExchange == Init => E!Init
<1> SUFFICES ASSUME Init PROVE E!Init
    OBVIOUS
<1>1. \A t \in Trades : PhaseOf(st[t]) = "open"
    BY PhaseCases DEF Init
<1>2. \A t \in Trades : (console[t] # None) = FALSE
    BY DEF Init
<1> QED
    BY <1>1, <1>2 DEF E!Init

\* A record that is written while the Switch does not trade.
LEMMA RecordPhases ==
    ASSUME IInv, NEW t \in Trades, NEW state \in States, Record(t, state), UNCHANGED console
    PROVE  /\ [u \in Trades |-> PhaseOf(st[u])]' =
                 [[u \in Trades |-> PhaseOf(st[u])] EXCEPT ![t] = PhaseOf(state)]
           /\ [u \in Trades |-> console[u] # None]' = [u \in Trades |-> console[u] # None]
           /\ PhaseOf(state) = PhaseOf(st[t]) => UNCHANGED E!vars
<1>1. st' = [st EXCEPT ![t] = state] /\ st \in [Trades -> States]
    BY DEF Record, IInv, TypeOK
<1>2. [u \in Trades |-> PhaseOf(st[u])]' =
          [[u \in Trades |-> PhaseOf(st[u])] EXCEPT ![t] = PhaseOf(state)]
    BY <1>1
<1>3. PhaseOf(state) = PhaseOf(st[t]) =>
          [u \in Trades |-> PhaseOf(st[u])]' = [u \in Trades |-> PhaseOf(st[u])]
    BY <1>1
<1> QED
    BY <1>2, <1>3 DEF E!vars

\* A room is begun with no other trade undecided.
LEMMA StartBegins == ASSUME IInv, NEW t \in Trades, Start(t) PROVE E!Begin(t)
<1> DEFINE phase == [u \in Trades |-> PhaseOf(st[u])]
<1>1. /\ Record(t, "running") /\ "running" \in States /\ UNCHANGED console /\ st[t] = "prepared"
      /\ st \in [Trades -> States]
      /\ \A u \in Trades \ {t} : st[u] \notin {"running", "uncertain", "received"}
    BY DEF Start, MayStart, States, world, IInv, TypeOK
<1>2. phase[t] = "open"
    BY <1>1, PhaseCases
<1>3. \A u \in Trades : phase[u] # "pending"
  <2> TAKE u \in Trades
  <2>1. st[u] \in States \ {"running", "uncertain", "received"}
      BY <1>1
  <2> QED
      BY <2>1, PhaseCases DEF States
<1>4. PhaseOf("running") = "pending"
    BY PhaseCases
<1> QED
    BY <1>1, <1>2, <1>3, <1>4, RecordPhases DEF E!Begin, E!Pending

\* The 3DS side confirms only a Pokemon that the Switch gave.
LEMMA ConfirmReleases == ASSUME IInv, NEW t \in Trades, Confirm(t) PROVE E!Release(t)
<1> DEFINE phase == [u \in Trades |-> PhaseOf(st[u])]
           given == [u \in Trades |-> console[u] # None]
<1>1. Record(t, "ready") /\ "ready" \in States /\ UNCHANGED console /\ st[t] = "received"
    BY DEF Confirm, States, world
<1>2. phase[t] = "pending" /\ given[t] /\ PhaseOf("ready") = "released"
    BY <1>1, PhaseCases DEF IInv, ResultFaithful, Resulting
<1> QED
    BY <1>1, <1>2, RecordPhases DEF E!Release

\* A trade is voided only while nothing of it was given.
LEMMA RecordVoids ==
    ASSUME IInv, NEW t \in Trades, Record(t, "cancelled"), UNCHANGED console,
           st[t] \in {"prepared", "running", "uncertain"}, console[t] = None
    PROVE  E!Void(t)
<1> DEFINE phase == [u \in Trades |-> PhaseOf(st[u])]
           given == [u \in Trades |-> console[u] # None]
<1>1. phase[t] \in {"open", "pending"} /\ ~given[t] /\ PhaseOf("cancelled") = "void"
    BY PhaseCases
<1>2. "cancelled" \in States
    BY DEF States
<1> QED
    BY <1>1, <1>2, RecordPhases DEF E!Void

\* The Switch has given nothing in a trade the room has not taken up.
LEMMA UnbegunGivesNothing ==
    ASSUME IInv, NEW t \in Trades, st[t] = "prepared"
    PROVE  console[t] = None
<1>1. LogOK /\ \A y \in History("switch") : y.trade # None => Begun(y.trade)
    BY DEF IInv, TypeOK, SeenInv
<1>2. Local \in History("switch") /\ ~Begun(t) /\ t # None
    BY <1>1, LogFacts DEF Begun, RemoteAssumption
<1>3. launches[t] = 0
    BY <1>1, <1>2 DEF IInv, LaunchInv, Gone, Over, TypeOK
<1>4. console[t] # None => launches[t] > 0
    BY DEF IInv, ReceiptInv
<1>5. ~(launches[t] > 0)
    BY <1>3
<1> QED
    BY <1>4, <1>5

\* What the requests of the 3DS do to the exchange.
LEMMA HandlersExchange ==
    ASSUME IInv, NEW t \in Trades, Handlers(t)
    PROVE  [E!Next]_E!vars
<1>1. UNCHANGED console
    BY DEF Handlers, Prepare, Start, Confirm, Applied, RequestCancel, Poll, StartInterrupted,
       RecordInterrupted, world
<1>2. CASE UNCHANGED st
    BY <1>1, <1>2 DEF E!vars
<1>3. CASE Prepare(t)
  <2>1. Record(t, "prepared") /\ "prepared" \in States /\ PhaseOf("prepared") = PhaseOf(st[t])
      BY <1>3, PhaseCases DEF Prepare, States
  <2> QED
      BY <1>1, <2>1, RecordPhases
<1>4. CASE Start(t)
    BY <1>4, StartBegins DEF E!Next
<1>5. CASE Confirm(t)
    BY <1>5, ConfirmReleases DEF E!Next
<1>6. CASE Applied(t)
  <2>1. Record(t, "applied") /\ "applied" \in States /\ PhaseOf("applied") = PhaseOf(st[t])
      BY <1>6, PhaseCases DEF Applied, States
  <2> QED
      BY <1>1, <2>1, RecordPhases
<1>7. CASE RequestCancel(t)
  <2>1. CASE st[t] = "prepared" /\ Record(t, "cancelled")
      BY <1>1, <2>1, UnbegunGivesNothing, RecordVoids DEF E!Next
  <2> QED
      BY <1>2, <1>7, <2>1 DEF RequestCancel, Poll
<1>8. CASE StartInterrupted(t)
    BY <1>2, <1>8 DEF StartInterrupted, source
<1>9. CASE RecordInterrupted(t)
  <2>1. CASE st[t] = "ready" /\ Record(t, "applied")
    <3>1. "applied" \in States /\ PhaseOf("applied") = PhaseOf(st[t])
        BY <2>1, PhaseCases DEF States
    <3> QED
        BY <1>1, <2>1, <3>1, RecordPhases
  <2> QED
      BY <1>2, <1>9, <2>1 DEF RecordInterrupted
<1> QED
    BY <1>2, <1>3, <1>4, <1>5, <1>6, <1>7, <1>8, <1>9 DEF Handlers, Poll

\* What a poll makes of the Switch bridge's snapshot.
LEMMA PollsExchange ==
    ASSUME IInv, PollEnds
    PROVE  [E!Next]_E!vars
<1>1. /\ UNCHANGED console
      /\ at # None /\ at.trade \in Trades /\ st[at.trade] \in {"running", "uncertain"}
    BY DEF PollEnds, PollElsewhere, PollEnded, PollOffer, Answer, world, IInv, TypeOK, SourceInv
<1>2. PICK t \in Trades : t = at.trade
    BY <1>1
<1>3. CASE \E state \in {"running", "uncertain", "received"} : Record(t, state)
  <2>1. PICK state \in {"running", "uncertain", "received"} : Record(t, state)
      BY <1>3
  <2>2. state \in States /\ PhaseOf(state) = PhaseOf(st[t])
      BY <1>1, <1>2, PhaseCases DEF States
  <2> QED
      BY <1>1, <2>1, <2>2, RecordPhases
<1>4. CASE PollEnded /\ Seen.phase = "cancelled"
  <2>1. Seen \in History("switch") /\ Seen.trade = t
      BY <1>2, <1>4, LogFacts DEF IInv, TypeOK, PollEnded
  <2>2. console[t] = None
      BY <1>4, <2>1 DEF IInv, CancelInv, Doomed
  <2> QED
      BY <1>1, <1>2, <1>4, <2>2, RecordVoids DEF PollEnded, Answer, E!Next
<1> QED
    BY <1>2, <1>3, <1>4 DEF PollEnds, PollElsewhere, PollEnded, PollOffer, Answer

\* A child that may trade trades for an exchange the 3DS side still waits for.
LEMMA ConsoleGives ==
    ASSUME IInv, ConsoleTrades, NEW t \in Trades, t = session
    PROVE  E!Give(t)
<1> DEFINE phase == [u \in Trades |-> PhaseOf(st[u])]
           given == [u \in Trades |-> console[u] # None]
<1>1. /\ child = "alive" /\ engine.allowed /\ console[session] = None
      /\ console' = [console EXCEPT ![session] = engine.offer.mon]
      /\ UNCHANGED st
      /\ session \in Trades /\ st \in [Trades -> States]
      /\ console \in [Trades -> Mons \cup {None}]
    BY DEF ConsoleTrades, source, IInv, TypeOK, EngineInv
<1>2. engine.offer.mon # None
  <2>1. Takes(session, engine.offer)
      BY <1>1 DEF IInv, EngineInv
  <2>2. engine.offer.mon \in Mons
      BY <2>1 DEF Takes, RemoteAssumption
  <2> QED
      BY <2>2 DEF RemoteAssumption
<1>3. Attached
    BY <1>1 DEF IInv, LocalInv, EngineInv
<1>4. Begun(session)
  <2>1. Local \in History("switch")
      BY LogFacts DEF IInv, TypeOK
  <2>2. Local.trade = session /\ session # None
      BY <1>1, <1>3 DEF Attached, RemoteAssumption
  <2> QED
      BY <2>1, <2>2 DEF IInv, SeenInv
<1>5. st[session] \notin Resulting
    BY <1>1 DEF IInv, ResultFaithful
<1>6. st[session] # "cancelled"
    BY <1>1 DEF IInv, CancelInv, Doomed
<1>7. phase[t] = "pending" /\ ~given[t]
  <2>1. st[t] \in {"running", "uncertain"}
      BY <1>1, <1>4, <1>5, <1>6 DEF Begun, Resulting, States
  <2> QED
      BY <1>1, <2>1, PhaseCases
<1>8. given' = [given EXCEPT ![t] = TRUE] /\ phase' = phase
    BY <1>1, <1>2
<1> QED
    BY <1>7, <1>8 DEF E!Give

LEMMA StepExchange == IInv /\ [Next]_vars => [E!Next]_E!vars
<1> SUFFICES ASSUME IInv, [Next]_vars PROVE [E!Next]_E!vars
    OBVIOUS
<1>1. CASE UNCHANGED <<st, console>>
    BY <1>1 DEF E!vars
<1>2. CASE SourceLearns \/ SwitchLearns \/ PollInterrupted
    BY <1>1, <1>2 DEF SourceLearns, SwitchLearns, PollInterrupted, source, world
<1>3. CASE Advance
    BY <1>1, <1>3 DEF Advance, Reset, Withdrawn, Launch, Look, PublishCommitted, ReadOffer, Commit,
       Approve, source, world
<1>4. CASE Judge \/ Conclude \/ Crash \/ Restart \/ Resolve
    BY <1>1, <1>4 DEF Judge, Conclude, Crash, Restart, Resolve, source, world
<1>5. CASE ConsoleTrades
  <2>1. session \in Trades
      BY <1>5 DEF IInv, TypeOK, EngineInv, ConsoleTrades
  <2>2. PICK t \in Trades : t = session
      BY <2>1
  <2>3. E!Give(t)
      BY <1>5, <2>2, ConsoleGives
  <2> QED
      BY <2>3 DEF E!Next
<1>6. CASE Child
    BY <1>1, <1>5, <1>6 DEF Child, Select, Withdraw, Tick, WriteReceipt, ChildExits, source
<1>7. CASE UNCHANGED vars
    BY <1>1, <1>7 DEF vars
<1> QED
    BY <1>2, <1>3, <1>4, <1>6, <1>7, HandlersExchange, PollsExchange DEF Next

\* RemoteBackend and SwitchWorker, over any snapshots that arrive and with any crashes,
\* keep the promise that the local bridge keeps.
THEOREM Implements == Spec => ImplementsExchange
BY InitExchange, StepExchange, Inductive, PTL DEF Spec, ImplementsExchange, E!Spec
=============================================================================
