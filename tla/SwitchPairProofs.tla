--------------------------- MODULE SwitchPairProofs ---------------------------
(***************************************************************************)
(* Two Switches give only what both players agreed on, and the bridges     *)
(* call an exchange complete only when both did: for any Pokemon, number   *)
(* of revisions and number of crashes.                                     *)
(*                                                                         *)
(* A step of a side changes nothing of the other side but what can be      *)
(* learned, and takes nothing back (StepOf); by Frame it preserves the     *)
(* invariant if it preserves the part about its own side.  One lemma for   *)
(* each action shows that.                                                 *)
(***************************************************************************)
EXTENDS SwitchPair, SequenceTheorems, TLAPS

USE PairAssumption

LEMMA Two ==
    \A s \in Sides : Other(s) \in Sides /\ Other(s) # s /\ Sides = {s, Other(s)}
BY DEF Other

\* What the log holds of s.
LEMMA LogFacts ==
    ASSUME TypeOK, NEW s \in Sides
    PROVE  /\ Mine(s) \in Snapshot /\ Mine(s) \in History(s)
           /\ Theirs(s) \in Snapshot /\ Theirs(s) \in History(Other(s))
<1>1. \A r \in Sides : log[r] \in Seq(Snapshot) /\ Len(log[r]) \in Nat /\ Len(log[r]) > 0
    BY DEF TypeOK
<1>2. \A r \in Sides : log[r][Len(log[r])] \in Snapshot /\ log[r][Len(log[r])] \in History(r)
    BY <1>1 DEF History
<1>3. \A r \in Sides : Head(log[r]) = log[r][1] /\ log[r][1] \in Snapshot
    BY <1>1
<1>4. \A r \in Sides : Head(log[r]) \in History(r)
  <2> TAKE r \in Sides
  <2>1. 1 \in 1 .. Len(log[r]) /\ Head(log[r]) = log[r][1]
      BY <1>1, <1>3
  <2> QED
      BY <2>1 DEF History
<1> QED
    BY <1>2, <1>3, <1>4, Two DEF Mine, Theirs, L!Current, L!Held

LEMMA GateFacts ==
    ASSUME NEW g \in Gate
    PROVE  /\ \A o \in Revision \cup {None} : [g EXCEPT !.offer = o] \in Gate
           /\ [g EXCEPT !.allowed = TRUE] \in Gate
           /\ [g EXCEPT !.saved = TRUE] \in Gate
BY DEF Gate

LEMMA ViewFacts ==
    ASSUME NEW v \in View
    PROVE  /\ [v EXCEPT !.step = "decline"] \in View /\ [v EXCEPT !.step = "changed"] \in View
           /\ [v EXCEPT !.step = "approve"] \in View
BY DEF View

LEMMA LogUnchanged ==
    ASSUME UNCHANGED log
    PROVE  \A r \in Sides : Mine(r)' = Mine(r) /\ History(r)' = History(r)
BY DEF Mine, History, L!Current

LEMMA PutFacts ==
    ASSUME TypeOK, NEW s \in Sides, NEW snapshot \in Snapshot, Put(s, snapshot)
    PROVE  /\ log' \in [Sides -> Seq(Snapshot) \ {<<>>}]
           /\ Mine(s)' = snapshot
           /\ History(s)' \subseteq History(s) \cup {snapshot}
           /\ \A r \in Sides \ {s} : Mine(r)' = Mine(r) /\ History(r)' = History(r)
<1>1. CASE snapshot = Mine(s)
  <2>1. UNCHANGED log
      BY <1>1 DEF Put
  <2> QED
      BY <2>1, <1>1, LogUnchanged DEF TypeOK
<1>2. CASE snapshot # Mine(s)
  <2>1. log' = [log EXCEPT ![s] = Append(@, snapshot)]
      BY <1>2 DEF Put, L!Publish
  <2>2. \A r \in Sides : log[r] \in Seq(Snapshot) /\ log[r] # <<>>
      BY DEF TypeOK
  <2>3. /\ Append(log[s], snapshot) \in Seq(Snapshot) /\ Append(log[s], snapshot) # <<>>
        /\ Len(Append(log[s], snapshot)) = Len(log[s]) + 1
        /\ Append(log[s], snapshot)[Len(log[s]) + 1] = snapshot
        /\ \A i \in 1 .. Len(log[s]) : Append(log[s], snapshot)[i] = log[s][i]
      BY <2>2
  <2>4. log'[s] = Append(log[s], snapshot) /\ \A r \in Sides \ {s} : log'[r] = log[r]
      BY <2>1 DEF TypeOK
  <2>5. log' \in [Sides -> Seq(Snapshot) \ {<<>>}]
      BY <2>1, <2>3 DEF TypeOK
  <2>6. Mine(s)' = snapshot
      BY <2>3, <2>4 DEF Mine, L!Current
  <2>7. \A i \in 1 .. Len(log'[s]) : i \in 1 .. Len(log[s]) \/ i = Len(log[s]) + 1
      BY <2>2, <2>3, <2>4
  <2>8. History(s)' \subseteq History(s) \cup {snapshot}
      BY <2>3, <2>4, <2>7 DEF History
  <2>9. \A r \in Sides \ {s} : Mine(r)' = Mine(r) /\ History(r)' = History(r)
      BY <2>4 DEF Mine, History, L!Current
  <2> QED
      BY <2>5, <2>6, <2>8, <2>9
<1> QED
    BY <1>1, <1>2

\* A part of a sequence up to its end.
LEMMA SuffixFacts ==
    ASSUME NEW S, NEW q \in Seq(S), NEW t, NEW k \in 2 .. Len(q), t = SubSeq(q, k, Len(q))
    PROVE  /\ t \in Seq(S) /\ Len(t) > 0
           /\ t[Len(t)] = q[Len(q)]
           /\ \A i \in 1 .. Len(t) : t[i] \in {q[j] : j \in 1 .. Len(q)}
<1>1. Len(q) \in Nat /\ \A i \in k .. Len(q) : q[i] \in S
    OBVIOUS
<1>2. /\ t \in Seq(S)
      /\ Len(t) = Len(q) - k + 1
      /\ \A i \in 1 .. Len(q) - k + 1 : t[i] = q[k + i - 1]
    BY <1>1, SubSeqProperties
<1>3. Len(t) \in 1 .. Len(q) - k + 1 /\ k + Len(t) - 1 = Len(q)
    BY <1>1, <1>2
<1>4. ASSUME NEW i \in 1 .. Len(t)
      PROVE  t[i] \in {q[j] : j \in 1 .. Len(q)}
  <2>1. k + i - 1 \in 1 .. Len(q) /\ t[i] = q[k + i - 1]
      BY <1>1, <1>2
  <2> QED
      BY <2>1
<1>5. Len(t) > 0 /\ t[Len(t)] = q[Len(q)]
    BY <1>2, <1>3
<1> QED
    BY <1>2, <1>4, <1>5

LEMMA LearnFacts ==
    ASSUME TypeOK, NEW s \in Sides, L!Learn(s)
    PROVE  /\ log' \in [Sides -> Seq(Snapshot) \ {<<>>}]
           /\ \A r \in Sides : Mine(r)' = Mine(r) /\ History(r)' \subseteq History(r)
<1>1. PICK k \in 2 .. Len(log[s]) : log' = [log EXCEPT ![s] = SubSeq(@, k, Len(@))]
    BY DEF L!Learn, L!LearnAt
<1>2. log[s] \in Seq(Snapshot)
    BY DEF TypeOK
<1>3. log'[s] = SubSeq(log[s], k, Len(log[s])) /\ \A r \in Sides \ {s} : log'[r] = log[r]
    BY <1>1 DEF TypeOK
<1>4. /\ log'[s] \in Seq(Snapshot) /\ Len(log'[s]) > 0
      /\ log'[s][Len(log'[s])] = log[s][Len(log[s])]
      /\ \A i \in 1 .. Len(log'[s]) : log'[s][i] \in {log[s][j] : j \in 1 .. Len(log[s])}
  <2>1. log'[s] \in Seq(Snapshot)
      BY <1>2, <1>3, SuffixFacts
  <2>2. Len(log'[s]) > 0
      BY <1>2, <1>3, SuffixFacts
  <2>3. log'[s][Len(log'[s])] = log[s][Len(log[s])]
      BY <1>2, <1>3, SuffixFacts
  <2>4. \A i \in 1 .. Len(log'[s]) : log'[s][i] \in {log[s][j] : j \in 1 .. Len(log[s])}
    <3> DEFINE q == log[s]
               t == log'[s]
    <3>1. q \in Seq(Snapshot) /\ k \in 2 .. Len(q) /\ t = SubSeq(q, k, Len(q))
        BY <1>2, <1>3
    <3> HIDE DEF q, t
    <3>2. \A i \in 1 .. Len(t) : t[i] \in {q[j] : j \in 1 .. Len(q)}
        BY <3>1, SuffixFacts
    <3> QED
        BY <3>2 DEF q, t
  <2> QED
      BY <2>1, <2>2, <2>3, <2>4
<1>5. log' \in [Sides -> Seq(Snapshot) \ {<<>>}]
  <2>1. log'[s] # <<>>
      BY <1>4
  <2> QED
      BY <2>1, <1>1, <1>3, <1>4 DEF TypeOK
<1>6. Mine(s)' = Mine(s)
    BY <1>4 DEF Mine, L!Current
<1>7. History(s)' \subseteq History(s)
    BY <1>4 DEF History
<1>8. \A r \in Sides \ {s} : Mine(r)' = Mine(r) /\ History(r)' = History(r)
    BY <1>3 DEF Mine, History, L!Current
<1> QED
    BY <1>5, <1>6, <1>7, <1>8

-----------------------------------------------------------------------------

\* Nothing of side r changes.
Same(r) ==
    /\ view'[r] = view[r] /\ radio'[r] = radio[r] /\ staged'[r] = staged[r]
    /\ gate'[r] = gate[r] /\ decision'[r] = decision[r] /\ receipt'[r] = receipt[r]
    /\ child'[r] = child[r] /\ engine'[r] = engine[r] /\ offers'[r] = offers[r]
    /\ console'[r] = console[r] /\ visits'[r] = visits[r]
    /\ Mine(r)' = Mine(r) /\ History(r)' \subseteq History(r)

\* A step of side s that takes nothing back.
StepOf(s) ==
    /\ \A r \in Sides \ {s} : Same(r)
    /\ Earlier(Mine(s), Mine(s)')
    /\ History(s)' \subseteq History(s) \cup {Mine(s)'}
    /\ Mine(s)'.phase \in {"committed", "complete"} => console'[s] # None
    /\ console[s] # None => console'[s] # None
    /\ Mine(s)'.phase = "complete" => \A r \in Sides : console'[r] # None

LEMMA Frame ==
    ASSUME IInv, TypeOK', NEW s \in Sides, StepOf(s), SideInv(s)'
    PROVE  IInv'
<1>1. \A r \in Sides : Mine(r) \in Snapshot
    BY LogFacts DEF IInv
<1>2. HistoryInv(s)'
  <2> SUFFICES ASSUME NEW h \in History(s)'
               PROVE  /\ Earlier(h, Mine(s)')
                      /\ h.phase \in {"committed", "complete"} => console'[s] # None
      BY DEF HistoryInv, Earlier
  <2>1. CASE h \in History(s)
    <3>1. Earlier(h, Mine(s)) /\ (h.phase \in {"committed", "complete"} => console[s] # None)
        BY <2>1 DEF IInv, HistoryInv
    <3> QED
        BY <3>1 DEF Earlier, StepOf
  <2>2. CASE h = Mine(s)'
      BY <2>2 DEF Earlier, StepOf
  <2> QED
      BY <2>1, <2>2 DEF StepOf
<1>3. CompleteIsMutual'
    BY Two DEF IInv, CompleteIsMutual, StepOf, Same
<1>4. ASSUME NEW r \in Sides \ {s}
      PROVE  HistoryInv(r)'
    BY DEF IInv, HistoryInv, StepOf, Same, Earlier
<1>5. ASSUME NEW r \in Sides \ {s}
      PROVE  SideInv(r)'
  <2>1. Same(r) /\ SideInv(r)
      BY DEF StepOf, IInv
  <2>2. BeforeInv(r)' /\ RevisionInv(r)' /\ ChangedInv(r)' /\ VisitsInv(r)' /\ FirstInv(r)'
      BY <2>1 DEF Same, SideInv, BeforeInv, RevisionInv, ChangedInv, VisitsInv, FirstInv,
         NoTrade, Approving, UpTo
  <2>3. ProposalInv(r)' /\ SecondInv(r)'
    <3>1. Other(r) = s /\ Sides = {r, s}
        BY Two
    <3>2. Mine(r)' = Mine(r) /\ Earlier(Mine(s), Mine(s)')
        BY <2>1 DEF Same, StepOf
    <3>3. CASE Mine(r).execution_launched
      <4>1. ProposalInv(r) /\ SecondInv(r)
          BY <2>1 DEF SideInv
      <4>2. /\ Mine(s).negotiation_finished /\ Mine(s)'.negotiation_finished
            /\ Mine(s)'.local_offer = Mine(s).local_offer
            /\ Mine(r).proposal = [q \in Sides |-> Mine(q).local_offer]
          BY <3>2, <3>3, <4>1 DEF ProposalInv, Earlier
      <4>3. \A q \in Sides : Mine(q)'.local_offer = Mine(q).local_offer
                              /\ Mine(q)'.negotiation_finished
          BY <3>1, <3>2, <3>3, <4>1, <4>2 DEF ProposalInv
      <4>4. Mine(r).proposal \in Proposal /\ Mine(r).proposal # None
        <5>1. \A q \in Sides : Mine(q).local_offer \in Mons
            BY <1>1, <3>3, <4>1 DEF ProposalInv, Snapshot
        <5> QED
            BY <5>1, <4>2 DEF Proposal
      <4>5. Agreed(r) => Agreed(r)'
          BY <3>1, <3>2, <4>4 DEF Agreed, Earlier
      <4>6. ProposalInv(r)'
          BY <3>2, <3>3, <4>1, <4>3 DEF ProposalInv
      <4>7. SecondInv(r)'
          BY <2>1, <3>1, <3>2, <3>3, <4>1, <4>3, <4>5 DEF SecondInv, Same, Approving
      <4> QED
          BY <4>6, <4>7
    <3> QED
        BY <3>2, <3>3 DEF ProposalInv, SecondInv
  <2> QED
      BY <2>2, <2>3 DEF SideInv
<1> QED
    BY <1>2, <1>3, <1>4, <1>5 DEF IInv
\* What the steps that publish nothing have in common.
QuietFacts(s) ==
    /\ TypeOK /\ CompleteIsMutual /\ SideInv(s) /\ HistoryInv(s)
    /\ Mine(s) \in Snapshot /\ Mine(s) \in History(s)
    /\ \A r \in Sides : Mine(r) \in Snapshot
    /\ Other(s) \in Sides
    /\ \A r \in Sides : Mine(r)' = Mine(r) /\ History(r)' = History(r)
    /\ ProposalInv(s)' /\ (Agreed(s)' <=> Agreed(s))

LEMMA Quiet ==
    ASSUME IInv, NEW s \in Sides, UNCHANGED log
    PROVE  QuietFacts(s)
<1>1. \A r \in Sides : Mine(r)' = Mine(r) /\ History(r)' = History(r)
    BY LogUnchanged
<1>2. ProposalInv(s)'
    BY <1>1 DEF IInv, SideInv, ProposalInv
<1>3. Agreed(s)' <=> Agreed(s)
    BY <1>1 DEF Agreed
<1> QED
    BY <1>1, <1>2, <1>3, LogFacts, Two DEF QuietFacts, IInv

-----------------------------------------------------------------------------
(* advance() *)

\* The steps that change only phase, receipt and commit_possible of a snapshot.
Keeps(s) ==
    /\ Mine(s)'.negotiation_launched = Mine(s).negotiation_launched
    /\ Mine(s)'.negotiation_finished = Mine(s).negotiation_finished
    /\ Mine(s)'.local_offer = Mine(s).local_offer
    /\ Mine(s)'.execution_launched = Mine(s).execution_launched
    /\ Mine(s)'.proposal = Mine(s).proposal
    /\ Mine(s)'.execution_validated = Mine(s).execution_validated

\* The other side learns what was published.
LEMMA LearnStep ==
    ASSUME IInv, NEW s \in Sides, Learn(s)
    PROVE  IInv'
<1> USE DEF Learn, bridge, files, world
<1>1. /\ TypeOK /\ Mine(s) \in Snapshot /\ SideInv(s) /\ HistoryInv(s) /\ Mine(s) \in History(s)
      /\ CompleteIsMutual
    BY LogFacts DEF IInv
<1>2. /\ log' \in [Sides -> Seq(Snapshot) \ {<<>>}]
      /\ \A r \in Sides : Mine(r)' = Mine(r) /\ History(r)' \subseteq History(r)
    BY <1>1, LearnFacts
<1>3. TypeOK'
    BY <1>1, <1>2 DEF TypeOK
<1>4. StepOf(s)
    BY <1>1, <1>2 DEF StepOf, Same, Earlier, HistoryInv, CompleteIsMutual
<1>5. Agreed(s)' <=> Agreed(s)
    BY <1>2 DEF Agreed
<1>6. BeforeInv(s)' /\ FirstInv(s)' /\ ProposalInv(s)' /\ VisitsInv(s)'
    BY <1>1, <1>2 DEF SideInv, BeforeInv, FirstInv, ProposalInv, VisitsInv, NoTrade, Approving
<1>7. SecondInv(s)' /\ RevisionInv(s)' /\ ChangedInv(s)'
    BY <1>1, <1>2, <1>5, Two DEF SideInv, SecondInv, RevisionInv, ChangedInv, Approving, UpTo
<1> QED
    BY <1>3, <1>4, <1>6, <1>7, Frame DEF SideInv

\* A new session: no file of an earlier one is left, and the child may not start.
LEMMA LaunchFacts ==
    ASSUME IInv, NEW s \in Sides, NEW visit \in {"first", "second"},
           NEW offered \in Mons \cup {Bootstrap}, NEW snapshot \in Snapshot,
           Launch(s, visit, offered, snapshot),
           view[s] = None, child[s] # "alive", NoTrade(s), visits[s][visit] = 0
    PROVE  /\ TypeOK'
           /\ Mine(s)' = snapshot /\ History(s)' \subseteq History(s) \cup {snapshot}
           /\ \A r \in Sides \ {s} : Same(r)
           /\ NoTrade(s)' /\ view'[s] = None /\ gate'[s] = None /\ decision'[s] = None
           /\ radio'[s] \in {"none", "trading"}
           /\ staged'[s] = offered /\ console' = console
           /\ RevisionInv(s)'
           /\ VisitsInv(s)' /\ (visit = "first" => visits'[s].second = visits[s].second)
<1> USE DEF Launch
<1>0. TypeOK /\ SideInv(s)
    BY DEF IInv
<1>1. /\ log' \in [Sides -> Seq(Snapshot) \ {<<>>}]
      /\ Mine(s)' = snapshot /\ History(s)' \subseteq History(s) \cup {snapshot}
      /\ \A r \in Sides \ {s} : Mine(r)' = Mine(r) /\ History(r)' = History(r)
    BY <1>0, PutFacts
<1>2. visits[s] \in [first : Nat, second : Nat]
    BY <1>0 DEF TypeOK
<1>3. \/ visits' = visits
      \/ visit = "first" /\ visits' = [visits EXCEPT ![s] = [@ EXCEPT !.first = 1]]
      \/ visit = "second" /\ visits' = [visits EXCEPT ![s] = [@ EXCEPT !.second = 1]]
    BY <1>0, <1>2 DEF TypeOK
<1>4. /\ visits' \in [Sides -> [first : Nat, second : Nat]]
      /\ VisitsInv(s)' /\ (visit = "first" => visits'[s].second = visits[s].second)
      /\ \A r \in Sides \ {s} : visits'[r] = visits[r]
    BY <1>0, <1>2, <1>3 DEF TypeOK, SideInv, VisitsInv
<1>5. NoGate \in Gate
    BY DEF NoGate, Gate
<1>6. TypeOK'
  <2>1. crashes' \in 0 .. MaxCrashes
      BY <1>0, PairAssumption DEF TypeOK
  <2>3. up' \in [Sides -> BOOLEAN]
      BY <1>0 DEF TypeOK
  <2>4. /\ view' \in [Sides -> View \cup {None}]
        /\ radio' \in [Sides -> {"none", "trading", "negotiated", "committed", "uncertain"}]
        /\ child' \in [Sides -> {"none", "alive", "dead"}]
      BY <1>0 DEF TypeOK
  <2>2. /\ staged' \in [Sides -> Mons \cup {Bootstrap, None}]
        /\ gate' \in [Sides -> Revision \cup {None}]
        /\ decision' \in [Sides -> [revision : Revision, approve : BOOLEAN] \cup {None}]
        /\ receipt' \in [Sides -> Mons \cup {None}]
        /\ engine' \in [Sides -> Gate]
      BY <1>0, <1>5 DEF TypeOK
  <2> QED
      BY <1>0, <1>1, <1>4, <2>1, <2>2, <2>3, <2>4 DEF TypeOK
<1>7. \A r \in Sides \ {s} : Same(r)
  <2> TAKE r \in Sides \ {s}
  <2>1. /\ view'[r] = view[r] /\ radio'[r] = radio[r] /\ staged'[r] = staged[r]
        /\ gate'[r] = gate[r] /\ decision'[r] = decision[r] /\ receipt'[r] = receipt[r]
        /\ child'[r] = child[r] /\ engine'[r] = engine[r] /\ offers'[r] = offers[r]
        /\ console'[r] = console[r]
      BY <1>0 DEF TypeOK
  <2> QED
      BY <1>1, <1>4, <2>1 DEF Same
<1>8. /\ NoTrade(s)' /\ view'[s] = None /\ gate'[s] = None /\ decision'[s] = None
      /\ radio'[s] \in {"none", "trading"}
      /\ staged'[s] = offered /\ console' = console
    BY <1>0 DEF TypeOK, NoTrade, NoGate, Approving
<1>9. RevisionInv(s)'
    BY <1>0, <1>8 DEF TypeOK, RevisionInv, NoGate, NoTrade
<1> QED
    BY <1>1, <1>4, <1>6, <1>7, <1>8, <1>9

\* The first visit starts from a blank snapshot.
LEMMA LaunchNegotiationStep ==
    ASSUME IInv, NEW s \in Sides, LaunchNegotiation(s)
    PROVE  IInv'
<1> USE DEF LaunchNegotiation, Active, Idle
<1> DEFINE new == [Mine(s) EXCEPT !.negotiation_launched = TRUE, !.phase = "negotiating"]
<1>0. /\ TypeOK /\ Mine(s) \in Snapshot /\ SideInv(s) /\ HistoryInv(s) /\ Mine(s) \in History(s)
    BY LogFacts DEF IInv
<1>1. new \in Snapshot
    BY <1>0 DEF Snapshot
<1>2. /\ view[s] = None /\ child[s] # "alive" /\ NoTrade(s) /\ visits[s].first = 0
      /\ visits[s].second = 0
      /\ Mine(s).local_offer = None /\ ~Mine(s).negotiation_finished
      /\ ~Mine(s).execution_launched /\ Mine(s).execution_validated = None
    BY <1>0 DEF SideInv, BeforeInv, FirstInv
<1>3. visits[s]["first"] = 0
    BY <1>2
<1> HIDE DEF new
<1>4. /\ TypeOK'
      /\ Mine(s)' = new /\ History(s)' \subseteq History(s) \cup {new}
      /\ \A r \in Sides \ {s} : Same(r)
      /\ NoTrade(s)' /\ view'[s] = None /\ gate'[s] = None /\ decision'[s] = None
      /\ radio'[s] \in {"none", "trading"}
      /\ console' = console
      /\ RevisionInv(s)'
      /\ VisitsInv(s)' /\ visits'[s].second = visits[s].second
    BY <1>1, <1>2, <1>3, LaunchFacts DEF new
<1>5. /\ Mine(s)'.negotiation_launched
      /\ Mine(s)'.negotiation_finished = Mine(s).negotiation_finished
      /\ Mine(s)'.local_offer = Mine(s).local_offer
      /\ Mine(s)'.execution_launched = Mine(s).execution_launched
      /\ Mine(s)'.execution_validated = Mine(s).execution_validated
      /\ Mine(s)'.phase = "negotiating"
    BY <1>0, <1>4 DEF Snapshot, new
<1>6. StepOf(s)
    BY <1>2, <1>4, <1>5 DEF StepOf, Earlier
<1>7. BeforeInv(s)' /\ FirstInv(s)' /\ ProposalInv(s)' /\ SecondInv(s)' /\ ChangedInv(s)'
    BY <1>2, <1>4, <1>5 DEF BeforeInv, FirstInv, ProposalInv, SecondInv, ChangedInv
<1> QED
    BY <1>4, <1>6, <1>7, Frame DEF SideInv

\* The second visit starts with the offers both sides captured for good.
LEMMA LaunchExecutionStep ==
    ASSUME IInv, NEW s \in Sides, LaunchExecution(s)
    PROVE  IInv'
<1> USE DEF LaunchExecution, Active, Idle, Negotiated
<1> DEFINE new == [Mine(s) EXCEPT !.execution_launched = TRUE, !.proposal = Agreement(s),
                                  !.phase = "executing"]
<1>0. /\ TypeOK /\ Mine(s) \in Snapshot /\ SideInv(s) /\ HistoryInv(s) /\ Mine(s) \in History(s)
      /\ HistoryInv(Other(s)) /\ Theirs(s) \in History(Other(s)) /\ Theirs(s) \in Snapshot
      /\ Other(s) \in Sides /\ Sides = {s, Other(s)} /\ Other(s) # s
    BY LogFacts, Two DEF IInv
<1>1. /\ Mine(Other(s)).negotiation_finished
      /\ Mine(Other(s)).local_offer = Theirs(s).local_offer
      /\ Mine(s).local_offer \in Mons /\ Theirs(s).local_offer \in Mons
    BY <1>0 DEF HistoryInv, Earlier, Snapshot
<1>2. Agreement(s) = [r \in Sides |-> Mine(r).local_offer] /\ Agreement(s) \in Proposal
    BY <1>0, <1>1 DEF Agreement, Proposal
<1>3. new \in Snapshot
    BY <1>0, <1>2 DEF Snapshot
<1>4. /\ view[s] = None /\ child[s] # "alive" /\ NoTrade(s) /\ visits[s].second = 0
      /\ Mine(s).execution_validated = None /\ Mine(s).negotiation_launched
    BY <1>0 DEF SideInv, BeforeInv, FirstInv
<1>5. visits[s]["second"] = 0
    BY <1>4
<1> HIDE DEF new
<1>6. /\ TypeOK'
      /\ Mine(s)' = new /\ History(s)' \subseteq History(s) \cup {new}
      /\ \A r \in Sides \ {s} : Same(r)
      /\ NoTrade(s)' /\ view'[s] = None /\ gate'[s] = None /\ decision'[s] = None
      /\ radio'[s] \in {"none", "trading"}
      /\ staged'[s] = Theirs(s).local_offer /\ console' = console
      /\ RevisionInv(s)' /\ VisitsInv(s)'
    BY <1>1, <1>3, <1>4, <1>5, LaunchFacts DEF new
<1>7. /\ Mine(s)'.negotiation_launched = Mine(s).negotiation_launched
      /\ Mine(s)'.negotiation_finished = Mine(s).negotiation_finished
      /\ Mine(s)'.local_offer = Mine(s).local_offer
      /\ Mine(s)'.execution_launched /\ Mine(s)'.proposal = Agreement(s)
      /\ Mine(s)'.execution_validated = Mine(s).execution_validated
      /\ Mine(s)'.phase = "executing"
    BY <1>0, <1>6 DEF Snapshot, new
<1>8. \A r \in Sides : Mine(r)'.negotiation_finished /\ Mine(r)'.local_offer = Mine(r).local_offer
  <2>1. Mine(Other(s))' = Mine(Other(s))
      BY <1>0, <1>6 DEF Same
  <2>2. Mine(s)'.negotiation_finished /\ Mine(s)'.local_offer = Mine(s).local_offer
      BY <1>7
  <2> QED
      BY <1>0, <1>1, <2>1, <2>2
<1>9. StepOf(s)
    BY <1>4, <1>6, <1>7 DEF StepOf, Earlier
<1>10. BeforeInv(s)' /\ FirstInv(s)'
    BY <1>4, <1>7 DEF BeforeInv, FirstInv
<1>11. ProposalInv(s)'
    BY <1>0, <1>1, <1>2, <1>4, <1>7, <1>8, PairAssumption DEF ProposalInv
<1>12. SecondInv(s)'
    BY <1>0, <1>1, <1>6, <1>8 DEF SecondInv, NoTrade
<1>13. ChangedInv(s)'
    BY <1>6, <1>7 DEF ChangedInv
<1> QED
    BY <1>6, <1>9, <1>10, <1>11, <1>12, <1>13, Frame DEF SideInv

\* The first visit: an offer that is seen has not been captured yet.
LEMMA SeesOfferStep ==
    ASSUME IInv, NEW s \in Sides, SeesOffer(s)
    PROVE  IInv'
<1> USE DEF SeesOffer, Reads, Active, Idle, Go, bridge, files, world
<1>1. QuietFacts(s)
    BY Quiet
<1> USE DEF QuietFacts
<1>2. TypeOK'
    BY <1>1 DEF TypeOK, View, Revision, SideInv, FirstInv, SecondInv, NoTrade
<1>3. StepOf(s)
    BY <1>1 DEF StepOf, Same, Earlier, HistoryInv, CompleteIsMutual, TypeOK
<1>4. BeforeInv(s)' /\ VisitsInv(s)'
    BY <1>1 DEF TypeOK, SideInv, BeforeInv, VisitsInv, FirstInv, SecondInv, NoTrade
<1>5. FirstInv(s)'
    BY <1>1 DEF TypeOK, SideInv, FirstInv, NoTrade, Approving, ChangedInv
<1>6. SecondInv(s)'
    BY <1>1 DEF TypeOK, SideInv, SecondInv, Approving, RevisionInv, ProposalInv
<1>7. RevisionInv(s)'
    BY <1>1 DEF TypeOK, View, Revision, SideInv, RevisionInv, UpTo, FirstInv, NoTrade, SecondInv,
       ChangedInv
<1>8. ChangedInv(s)'
    BY <1>1 DEF TypeOK, View, Revision, SideInv, ChangedInv, RevisionInv, UpTo, Approving, SecondInv,
       FirstInv, NoTrade
<1> QED
    BY <1>1, <1>2, <1>3, <1>4, <1>5, <1>6, <1>7, <1>8, Frame DEF SideInv

\* The captured offer is the first.
LEMMA CaptureStep ==
    ASSUME IInv, NEW s \in Sides, Capture(s)
    PROVE  IInv'
<1> USE DEF Capture, At, Then, files, world
<1> DEFINE new == [Mine(s) EXCEPT !.local_offer = view[s].offer.mon, !.phase = "declining"]
<1>1. /\ TypeOK /\ Mine(s) \in Snapshot /\ SideInv(s) /\ HistoryInv(s) /\ Mine(s) \in History(s)
      /\ CompleteIsMutual /\ Other(s) \in Sides
    BY LogFacts, Two DEF IInv
<1>2. /\ view[s].offer.mon \in Mons
      /\ ~Mine(s).execution_launched /\ Mine(s).local_offer = None
      /\ Mine(s).negotiation_launched /\ ~Mine(s).negotiation_finished
    BY <1>1 DEF TypeOK, View, Revision, Snapshot, SideInv, BeforeInv, FirstInv, SecondInv
<1>3. new \in Snapshot
    BY <1>1, <1>2 DEF Snapshot
<1>4. /\ log' \in [Sides -> Seq(Snapshot) \ {<<>>}]
      /\ Mine(s)' = new /\ History(s)' \subseteq History(s) \cup {new}
      /\ \A r \in Sides \ {s} : Mine(r)' = Mine(r) /\ History(r)' = History(r)
    BY <1>1, <1>3, PutFacts
<1>5. /\ Mine(s)'.negotiation_launched = Mine(s).negotiation_launched
      /\ Mine(s)'.negotiation_finished = Mine(s).negotiation_finished
      /\ Mine(s)'.local_offer = view[s].offer.mon
      /\ Mine(s)'.execution_launched = Mine(s).execution_launched
      /\ Mine(s)'.execution_validated = Mine(s).execution_validated
      /\ Mine(s)'.phase = "declining"
    BY <1>1, <1>4 DEF Snapshot
<1> HIDE DEF new
<1>6. TypeOK'
  <2>1. view' = [view EXCEPT ![s] = [view[s] EXCEPT !.step = "decline"]] /\ view[s] \in View
      BY <1>1 DEF TypeOK
  <2>2. [view[s] EXCEPT !.step = "decline"] \in View
      BY <2>1, ViewFacts
  <2>3. view' \in [Sides -> View \cup {None}]
      BY <1>1, <2>1, <2>2 DEF TypeOK
  <2> QED
      BY <1>1, <1>4, <2>3 DEF TypeOK
<1>7. StepOf(s)
    BY <1>1, <1>4, <1>2, <1>5, Two DEF StepOf, Same, Earlier, HistoryInv, CompleteIsMutual, TypeOK
<1>8. BeforeInv(s)' /\ VisitsInv(s)' /\ ProposalInv(s)' /\ SecondInv(s)'
    BY <1>1, <1>2, <1>5 DEF SideInv, BeforeInv, VisitsInv, ProposalInv, SecondInv
<1>9. FirstInv(s)'
    BY <1>1, <1>2, <1>5, PairAssumption DEF TypeOK, SideInv, FirstInv, NoTrade, Approving
<1>10. RevisionInv(s)'
    BY <1>1 DEF TypeOK, SideInv, RevisionInv, UpTo
<1>11. ChangedInv(s)'
    BY <1>1, <1>5 DEF TypeOK, SideInv, ChangedInv, Approving
<1> QED
    BY <1>6, <1>7, <1>8, <1>9, <1>10, <1>11, Frame DEF SideInv

\* The first visit is declined once.
LEMMA DeclineStep ==
    ASSUME IInv, NEW s \in Sides, Decline(s)
    PROVE  IInv'
<1> USE DEF Decline, At, Decide, Return, bridge, files, world
<1>1. QuietFacts(s)
    BY Quiet
<1> USE DEF QuietFacts
<1>2. TypeOK'
    BY <1>1 DEF TypeOK, View, Revision, SideInv, FirstInv, SecondInv, NoTrade
<1>3. StepOf(s)
    BY <1>1 DEF StepOf, Same, Earlier, HistoryInv, CompleteIsMutual, TypeOK
<1>4. BeforeInv(s)' /\ VisitsInv(s)'
    BY <1>1 DEF TypeOK, SideInv, BeforeInv, VisitsInv, FirstInv, SecondInv, NoTrade
<1>5. FirstInv(s)'
    BY <1>1 DEF TypeOK, SideInv, FirstInv, NoTrade, Approving, ChangedInv
<1>6. SecondInv(s)'
    BY <1>1 DEF TypeOK, SideInv, SecondInv, Approving, RevisionInv
<1>7. RevisionInv(s)'
    BY <1>1 DEF TypeOK, View, Revision, SideInv, RevisionInv, UpTo, FirstInv, NoTrade, SecondInv,
       ChangedInv
<1>8. ChangedInv(s)'
    BY <1>1 DEF TypeOK, View, Revision, SideInv, ChangedInv, RevisionInv, UpTo, Approving, SecondInv,
       FirstInv, NoTrade
<1> QED
    BY <1>1, <1>2, <1>3, <1>4, <1>5, <1>6, <1>7, <1>8, Frame DEF SideInv

\* An approval that is on file is for an earlier revision than the one just seen.
LEMMA SeesOtherStep ==
    ASSUME IInv, NEW s \in Sides, SeesOther(s)
    PROVE  IInv'
<1> USE DEF SeesOther, Reads, Active, Idle, Go, SameSelection, bridge, files, world
<1>1. QuietFacts(s)
    BY Quiet
<1> USE DEF QuietFacts
<1>2. TypeOK'
    BY <1>1 DEF TypeOK, View, Revision, SideInv, FirstInv, SecondInv, NoTrade
<1>3. StepOf(s)
    BY <1>1 DEF StepOf, Same, Earlier, HistoryInv, CompleteIsMutual, TypeOK
<1>4. BeforeInv(s)' /\ VisitsInv(s)'
    BY <1>1 DEF TypeOK, SideInv, BeforeInv, VisitsInv, FirstInv, SecondInv, NoTrade
<1>5. FirstInv(s)'
    BY <1>1 DEF TypeOK, SideInv, FirstInv, NoTrade, Approving, ChangedInv
<1>6. SecondInv(s)'
    BY <1>1 DEF TypeOK, SideInv, SecondInv, Approving, RevisionInv
<1>7. RevisionInv(s)'
    BY <1>1 DEF TypeOK, View, Revision, SideInv, RevisionInv, UpTo, FirstInv, NoTrade, SecondInv,
       ChangedInv
<1>8. ChangedInv(s)'
    BY <1>1 DEF TypeOK, View, Revision, SideInv, ChangedInv, RevisionInv, UpTo, Approving, SecondInv,
       FirstInv, NoTrade
<1> QED
    BY <1>1, <1>2, <1>3, <1>4, <1>5, <1>6, <1>7, <1>8, Frame DEF SideInv

\* The rejection replaces what was decided before.
LEMMA RejectStep ==
    ASSUME IInv, NEW s \in Sides, Reject(s)
    PROVE  IInv'
<1> USE DEF Reject, At, Decide, Then, bridge, files, world
<1>1. QuietFacts(s)
    BY Quiet
<1> USE DEF QuietFacts
<1>2. TypeOK'
    BY <1>1 DEF TypeOK, View, Revision, SideInv, FirstInv, SecondInv, NoTrade
<1>3. StepOf(s)
    BY <1>1 DEF StepOf, Same, Earlier, HistoryInv, CompleteIsMutual, TypeOK
<1>4. BeforeInv(s)' /\ VisitsInv(s)'
    BY <1>1 DEF TypeOK, SideInv, BeforeInv, VisitsInv, FirstInv, SecondInv, NoTrade
<1>5. FirstInv(s)'
    BY <1>1 DEF TypeOK, SideInv, FirstInv, NoTrade, Approving, ChangedInv
<1>6. SecondInv(s)'
    BY <1>1 DEF TypeOK, SideInv, SecondInv, Approving, RevisionInv
<1>7. RevisionInv(s)'
    BY <1>1 DEF TypeOK, View, Revision, SideInv, RevisionInv, UpTo, FirstInv, NoTrade, SecondInv,
       ChangedInv
<1>8. ChangedInv(s)'
    BY <1>1 DEF TypeOK, View, Revision, SideInv, ChangedInv, RevisionInv, UpTo, Approving, SecondInv,
       FirstInv, NoTrade
<1> QED
    BY <1>1, <1>2, <1>3, <1>4, <1>5, <1>6, <1>7, <1>8, Frame DEF SideInv

\* A side that reports another selection has no approval on file.
LEMMA ChangedStep ==
    ASSUME IInv, NEW s \in Sides, Changed(s)
    PROVE  IInv'
<1> USE DEF Changed, At, Return, bridge, files, world
<1> DEFINE new == [Mine(s) EXCEPT !.phase = "selection-changed"]
<1>1. /\ TypeOK /\ Mine(s) \in Snapshot /\ SideInv(s) /\ HistoryInv(s) /\ Mine(s) \in History(s)
      /\ CompleteIsMutual /\ Other(s) \in Sides
      /\ HistoryInv(Other(s)) /\ Theirs(s) \in History(Other(s))
    BY LogFacts, Two DEF IInv
<1>2. new \in Snapshot
    BY <1>1 DEF Snapshot
<1>3. /\ log' \in [Sides -> Seq(Snapshot) \ {<<>>}]
      /\ Mine(s)' = new /\ History(s)' \subseteq History(s) \cup {new}
      /\ \A r \in Sides \ {s} : Mine(r)' = Mine(r) /\ History(r)' = History(r)
    BY <1>1, <1>2, PutFacts
<1>4. Keeps(s) /\ Mine(s)'.phase = "selection-changed"
    BY <1>1, <1>3 DEF Keeps, Snapshot
<1>5. \A r \in Sides : /\ Mine(r)'.negotiation_finished = Mine(r).negotiation_finished
                       /\ Mine(r)'.local_offer = Mine(r).local_offer
                       /\ Mine(r)'.execution_validated = Mine(r).execution_validated
    BY <1>4, <1>3 DEF Keeps
<1> HIDE DEF new
<1>6. TypeOK'
    BY <1>1, <1>3 DEF TypeOK
<1>7. StepOf(s)
    BY <1>1, <1>3, <1>4, Two DEF StepOf, Same, Earlier, HistoryInv, CompleteIsMutual, TypeOK, Keeps, PeerCommitted
<1>8. BeforeInv(s)' /\ VisitsInv(s)'
    BY <1>1, <1>4 DEF TypeOK, SideInv, BeforeInv, VisitsInv, Keeps
<1>9. FirstInv(s)'
    BY <1>1, <1>4 DEF TypeOK, SideInv, FirstInv, NoTrade, Approving, Keeps, BeforeInv
<1>10. ProposalInv(s)'
    BY <1>1, <1>4, <1>5 DEF SideInv, ProposalInv, Keeps
<1>11. Agreed(s)' <=> Agreed(s)
    BY <1>4, <1>5 DEF Agreed, Keeps
<1>12. SecondInv(s)'
    BY <1>1, <1>4, <1>5, <1>11 DEF TypeOK, SideInv, SecondInv, Approving, Keeps, ChangedInv, FirstInv
<1>13. RevisionInv(s)'
    BY <1>1 DEF TypeOK, SideInv, RevisionInv, UpTo
<1>14. ChangedInv(s)'
    BY <1>1, <1>4 DEF TypeOK, SideInv, ChangedInv, Approving
<1> QED
    BY <1>6, <1>7, <1>8, <1>9, <1>10, <1>12, <1>13, <1>14, Frame DEF SideInv

\* Own agreement is published, and with that of the peer both have agreed.
LEMMA ValidateStep ==
    ASSUME IInv, NEW s \in Sides, Validate(s)
    PROVE  IInv'
<1> USE DEF Validate, Reads, Active, Idle, SameSelection, files, world
<1> DEFINE new == [Mine(s) EXCEPT !.execution_validated = Mine(s).proposal]
<1>1. /\ TypeOK /\ Mine(s) \in Snapshot /\ SideInv(s) /\ HistoryInv(s) /\ Mine(s) \in History(s)
      /\ CompleteIsMutual /\ Other(s) \in Sides /\ Sides = {s, Other(s)} /\ Other(s) # s
      /\ HistoryInv(Other(s)) /\ Theirs(s) \in History(Other(s))
    BY LogFacts, Two DEF IInv
<1>2. new \in Snapshot
    BY <1>1 DEF Snapshot
<1>3. /\ log' \in [Sides -> Seq(Snapshot) \ {<<>>}]
      /\ Mine(s)' = new /\ History(s)' \subseteq History(s) \cup {new}
      /\ \A r \in Sides \ {s} : Mine(r)' = Mine(r) /\ History(r)' = History(r)
    BY <1>1, <1>2, PutFacts
<1>4. Mine(s).execution_launched
    BY <1>1 DEF SideInv, FirstInv
<1>5. Mine(s).proposal # None
  <2>1. \A r \in Sides : Mine(r).local_offer \in Mons
      BY <1>1, <1>4, LogFacts DEF SideInv, ProposalInv, Snapshot
  <2> QED
      BY <2>1, <1>1, <1>4, PairAssumption DEF SideInv, ProposalInv, Proposal
<1>6. /\ Mine(s)'.negotiation_launched = Mine(s).negotiation_launched
      /\ Mine(s)'.negotiation_finished = Mine(s).negotiation_finished
      /\ Mine(s)'.local_offer = Mine(s).local_offer
      /\ Mine(s)'.execution_launched = Mine(s).execution_launched
      /\ Mine(s)'.proposal = Mine(s).proposal
      /\ Mine(s)'.execution_validated = Mine(s).proposal
      /\ Mine(s)'.phase = "executing" /\ Mine(s).phase = "executing"
    BY <1>1, <1>3 DEF Snapshot
<1> HIDE DEF new
<1>7. TypeOK'
  <2>1. gate[s] \in Revision
      BY <1>1 DEF TypeOK
  <2>2. [step |-> "commit", offer |-> gate[s]] \in View
      BY <2>1 DEF View
  <2>3. view' \in [Sides -> View \cup {None}]
      BY <1>1, <2>2 DEF TypeOK, Go
  <2> QED
      BY <1>1, <1>3, <2>3 DEF TypeOK
<1>8. StepOf(s)
    BY <1>1, <1>3, <1>4, <1>5, <1>6 DEF StepOf, Same, Earlier, HistoryInv, CompleteIsMutual, TypeOK,
       SideInv, ProposalInv, Go
<1>9. \A r \in Sides : /\ Mine(r)'.negotiation_finished = Mine(r).negotiation_finished
                       /\ Mine(r)'.local_offer = Mine(r).local_offer
    BY <1>3, <1>6
<1>10. Agreed(s) => Agreed(s)'
    BY <1>1, <1>3, <1>6 DEF Agreed
<1>11. MayCommit(s) => Agreed(s)'
  <2>1. ASSUME MayCommit(s)
        PROVE  Mine(Other(s)).execution_validated = Mine(s).proposal
      BY <1>1, <1>5, <2>1 DEF MayCommit, HistoryInv, Earlier
  <2> QED
      BY <2>1, <1>1, <1>3, <1>6 DEF Agreed
<1>12. \/ UNCHANGED view
      \/ /\ MayCommit(s)
         /\ view'[s] = [step |-> "commit", offer |-> gate[s]]
    BY <1>1 DEF TypeOK, Go
<1>13. BeforeInv(s)' /\ FirstInv(s)' /\ VisitsInv(s)'
    BY <1>1, <1>4, <1>6 DEF SideInv, BeforeInv, FirstInv, VisitsInv, ProposalInv
<1>14. ProposalInv(s)'
    BY <1>1, <1>4, <1>6, <1>9 DEF SideInv, ProposalInv
<1>15. SecondInv(s)'
    BY <1>1, <1>4, <1>6, <1>9, <1>10, <1>11, <1>12 DEF SideInv, SecondInv, Approving
<1>16. RevisionInv(s)'
    BY <1>1, <1>12 DEF TypeOK, Revision, SideInv, RevisionInv, UpTo
<1>17. ChangedInv(s)'
    BY <1>1, <1>4, <1>6, <1>12 DEF SideInv, ChangedInv, Approving
<1> QED
    BY <1>7, <1>8, <1>13, <1>14, <1>15, <1>16, <1>17, Frame DEF SideInv

\* commit_possible is no more than a note of the agreement.
LEMMA CommitStep ==
    ASSUME IInv, NEW s \in Sides, Commit(s)
    PROVE  IInv'
<1> USE DEF Commit, At, Then, bridge, files, world
<1> DEFINE new == [Mine(s) EXCEPT !.commit_possible = TRUE]
<1>1. /\ TypeOK /\ Mine(s) \in Snapshot /\ SideInv(s) /\ HistoryInv(s) /\ Mine(s) \in History(s)
      /\ CompleteIsMutual /\ Other(s) \in Sides
      /\ HistoryInv(Other(s)) /\ Theirs(s) \in History(Other(s))
    BY LogFacts, Two DEF IInv
<1>2. new \in Snapshot
    BY <1>1 DEF Snapshot
<1>3. /\ log' \in [Sides -> Seq(Snapshot) \ {<<>>}]
      /\ Mine(s)' = new /\ History(s)' \subseteq History(s) \cup {new}
      /\ \A r \in Sides \ {s} : Mine(r)' = Mine(r) /\ History(r)' = History(r)
    BY <1>1, <1>2, PutFacts
<1>4. Keeps(s) /\ Mine(s)'.phase = Mine(s).phase
    BY <1>1, <1>3 DEF Keeps, Snapshot
<1>5. \A r \in Sides : /\ Mine(r)'.negotiation_finished = Mine(r).negotiation_finished
                       /\ Mine(r)'.local_offer = Mine(r).local_offer
                       /\ Mine(r)'.execution_validated = Mine(r).execution_validated
    BY <1>4, <1>3 DEF Keeps
<1> HIDE DEF new
<1>6. TypeOK'
  <2>1. view' = [view EXCEPT ![s] = [view[s] EXCEPT !.step = "approve"]] /\ view[s] \in View
      BY <1>1 DEF TypeOK
  <2>2. [view[s] EXCEPT !.step = "approve"] \in View
      BY <2>1, ViewFacts
  <2>3. view' \in [Sides -> View \cup {None}]
      BY <1>1, <2>1, <2>2 DEF TypeOK
  <2> QED
      BY <1>1, <1>3, <2>3 DEF TypeOK
<1>7. StepOf(s)
    BY <1>1, <1>3, <1>4, Two DEF StepOf, Same, Earlier, HistoryInv, CompleteIsMutual, TypeOK, Keeps, PeerCommitted
<1>8. BeforeInv(s)' /\ VisitsInv(s)'
    BY <1>1, <1>4 DEF TypeOK, SideInv, BeforeInv, VisitsInv, Keeps
<1>9. FirstInv(s)'
    BY <1>1, <1>4 DEF TypeOK, SideInv, FirstInv, NoTrade, Approving, Keeps, BeforeInv
<1>10. ProposalInv(s)'
    BY <1>1, <1>4, <1>5 DEF SideInv, ProposalInv, Keeps
<1>11. Agreed(s)' <=> Agreed(s)
    BY <1>4, <1>5 DEF Agreed, Keeps
<1>12. SecondInv(s)'
    BY <1>1, <1>4, <1>5, <1>11 DEF TypeOK, SideInv, SecondInv, Approving, Keeps
<1>13. RevisionInv(s)'
    BY <1>1 DEF TypeOK, SideInv, RevisionInv, UpTo
<1>14. ChangedInv(s)'
    BY <1>1, <1>4 DEF TypeOK, SideInv, ChangedInv, Approving
<1> QED
    BY <1>6, <1>7, <1>8, <1>9, <1>10, <1>12, <1>13, <1>14, Frame DEF SideInv

\* The approval is for an offer both agreed on.
LEMMA ApproveStep ==
    ASSUME IInv, NEW s \in Sides, Approve(s)
    PROVE  IInv'
<1> USE DEF Approve, At, Decide, Return, bridge, files, world
<1>1. QuietFacts(s)
    BY Quiet
<1> USE DEF QuietFacts
<1>2. TypeOK'
    BY <1>1 DEF TypeOK, View, Revision, SideInv, FirstInv, SecondInv, NoTrade
<1>3. StepOf(s)
    BY <1>1 DEF StepOf, Same, Earlier, HistoryInv, CompleteIsMutual, TypeOK
<1>4. BeforeInv(s)' /\ VisitsInv(s)'
    BY <1>1 DEF TypeOK, SideInv, BeforeInv, VisitsInv, FirstInv, SecondInv, NoTrade
<1>5. FirstInv(s)'
    BY <1>1 DEF TypeOK, SideInv, FirstInv, NoTrade, Approving, ChangedInv
<1>6. SecondInv(s)'
    BY <1>1 DEF TypeOK, SideInv, SecondInv, Approving, RevisionInv
<1>7. RevisionInv(s)'
    BY <1>1 DEF TypeOK, View, Revision, SideInv, RevisionInv, UpTo, FirstInv, NoTrade, SecondInv,
       ChangedInv
<1>8. ChangedInv(s)'
    BY <1>1 DEF TypeOK, View, Revision, SideInv, ChangedInv, RevisionInv, UpTo, Approving, SecondInv,
       FirstInv, NoTrade
<1> QED
    BY <1>1, <1>2, <1>3, <1>4, <1>5, <1>6, <1>7, <1>8, Frame DEF SideInv

\* Both snapshots say "committed", and each of them is true.
LEMMA CompleteStep ==
    ASSUME IInv, NEW s \in Sides, Complete(s)
    PROVE  IInv'
<1> USE DEF Complete, CanComplete, Active, Idle, bridge, files, world
<1> DEFINE new == [Mine(s) EXCEPT !.phase = "complete"]
<1>1. /\ TypeOK /\ Mine(s) \in Snapshot /\ SideInv(s) /\ HistoryInv(s) /\ Mine(s) \in History(s)
      /\ CompleteIsMutual /\ Other(s) \in Sides
      /\ HistoryInv(Other(s)) /\ Theirs(s) \in History(Other(s))
    BY LogFacts, Two DEF IInv
<1>2. new \in Snapshot
    BY <1>1 DEF Snapshot
<1>3. /\ log' \in [Sides -> Seq(Snapshot) \ {<<>>}]
      /\ Mine(s)' = new /\ History(s)' \subseteq History(s) \cup {new}
      /\ \A r \in Sides \ {s} : Mine(r)' = Mine(r) /\ History(r)' = History(r)
    BY <1>1, <1>2, PutFacts
<1>4. Keeps(s) /\ Mine(s)'.phase = "complete"
    BY <1>1, <1>3 DEF Keeps, Snapshot
<1>5. \A r \in Sides : /\ Mine(r)'.negotiation_finished = Mine(r).negotiation_finished
                       /\ Mine(r)'.local_offer = Mine(r).local_offer
                       /\ Mine(r)'.execution_validated = Mine(r).execution_validated
    BY <1>4, <1>3 DEF Keeps
<1> HIDE DEF new
<1>6. TypeOK'
    BY <1>1, <1>3 DEF TypeOK
<1>7. StepOf(s)
    BY <1>1, <1>3, <1>4, Two DEF StepOf, Same, Earlier, HistoryInv, CompleteIsMutual, TypeOK, Keeps, PeerCommitted
<1>8. BeforeInv(s)' /\ VisitsInv(s)'
    BY <1>1, <1>4 DEF TypeOK, SideInv, BeforeInv, VisitsInv, Keeps
<1>9. FirstInv(s)'
    BY <1>1, <1>4 DEF TypeOK, SideInv, FirstInv, NoTrade, Approving, Keeps, BeforeInv, HistoryInv
<1>10. ProposalInv(s)'
    BY <1>1, <1>4, <1>5 DEF SideInv, ProposalInv, Keeps
<1>11. Agreed(s)' <=> Agreed(s)
    BY <1>4, <1>5 DEF Agreed, Keeps
<1>12. SecondInv(s)'
    BY <1>1, <1>4, <1>5, <1>11 DEF TypeOK, SideInv, SecondInv, Approving, Keeps, ProposalInv
<1>13. RevisionInv(s)'
    BY <1>1 DEF TypeOK, SideInv, RevisionInv, UpTo
<1>14. ChangedInv(s)'
    BY <1>1, <1>4 DEF TypeOK, SideInv, ChangedInv, Approving
<1> QED
    BY <1>6, <1>7, <1>8, <1>9, <1>10, <1>12, <1>13, <1>14, Frame DEF SideInv

-----------------------------------------------------------------------------
(* The radio thread, and crashes *)

\* A first visit ends as planned only after the decision to decline.
LEMMA JudgeStep ==
    ASSUME IInv, NEW s \in Sides, Judge(s)
    PROVE  IInv'
<1> USE DEF Judge, Verdict, bridge, files, world
<1>1. QuietFacts(s)
    BY Quiet
<1> USE DEF QuietFacts
<1>2. TypeOK'
    BY <1>1 DEF TypeOK, View, Revision, SideInv, FirstInv, SecondInv, NoTrade
<1>3. StepOf(s)
    BY <1>1 DEF StepOf, Same, Earlier, HistoryInv, CompleteIsMutual, TypeOK
<1>4. BeforeInv(s)' /\ VisitsInv(s)'
    BY <1>1 DEF TypeOK, SideInv, BeforeInv, VisitsInv, FirstInv, SecondInv, NoTrade
<1>5. FirstInv(s)'
    BY <1>1 DEF TypeOK, SideInv, FirstInv, NoTrade, Approving, ChangedInv
<1>6. SecondInv(s)'
    BY <1>1 DEF TypeOK, SideInv, SecondInv, Approving, RevisionInv
<1>7. RevisionInv(s)'
    BY <1>1 DEF TypeOK, View, Revision, SideInv, RevisionInv, UpTo, FirstInv, NoTrade, SecondInv,
       ChangedInv
<1>8. ChangedInv(s)'
    BY <1>1 DEF TypeOK, View, Revision, SideInv, ChangedInv, RevisionInv, UpTo, Approving, SecondInv,
       FirstInv, NoTrade
<1> QED
    BY <1>1, <1>2, <1>3, <1>4, <1>5, <1>6, <1>7, <1>8, Frame DEF SideInv

\* What the radio thread concludes is what it judged.
LEMMA ConcludeStep ==
    ASSUME IInv, NEW s \in Sides, Conclude(s)
    PROVE  IInv'
<1> USE DEF Conclude, files, world
<1> DEFINE new == CASE radio[s] = "negotiated" ->
                         [Mine(s) EXCEPT !.negotiation_finished = TRUE, !.phase = "negotiated"]
                    [] radio[s] = "committed" ->
                         [Mine(s) EXCEPT !.receipt = receipt[s], !.phase = "committed"]
                    [] radio[s] = "uncertain" -> [Mine(s) EXCEPT !.phase = "uncertain"]
<1>1. /\ TypeOK /\ Mine(s) \in Snapshot /\ SideInv(s) /\ HistoryInv(s) /\ Mine(s) \in History(s)
      /\ CompleteIsMutual /\ Other(s) \in Sides
    BY LogFacts, Two DEF IInv
<1>2. new \in Snapshot
    BY <1>1 DEF Snapshot, TypeOK
<1>3. /\ log' \in [Sides -> Seq(Snapshot) \ {<<>>}]
      /\ Mine(s)' = new /\ History(s)' \subseteq History(s) \cup {new}
      /\ \A r \in Sides \ {s} : Mine(r)' = Mine(r) /\ History(r)' = History(r)
    BY <1>1, <1>2, PutFacts
<1>4. TypeOK'
    BY <1>1, <1>3 DEF TypeOK
<1>5. /\ Mine(s)'.negotiation_launched = Mine(s).negotiation_launched
      /\ Mine(s)'.local_offer = Mine(s).local_offer
      /\ Mine(s)'.execution_launched = Mine(s).execution_launched
      /\ Mine(s)'.proposal = Mine(s).proposal
      /\ Mine(s)'.execution_validated = Mine(s).execution_validated
      /\ Mine(s)'.negotiation_finished = (Mine(s).negotiation_finished \/ radio[s] = "negotiated")
      /\ Mine(s)'.phase = radio[s]
  <2>1. CASE radio[s] = "negotiated"
    <3>1. new = [Mine(s) EXCEPT !.negotiation_finished = TRUE, !.phase = "negotiated"]
        BY <2>1
    <3> HIDE DEF new, Conclude
    <3>2. /\ new.negotiation_launched = Mine(s).negotiation_launched
          /\ new.local_offer = Mine(s).local_offer
          /\ new.execution_launched = Mine(s).execution_launched
          /\ new.proposal = Mine(s).proposal
          /\ new.execution_validated = Mine(s).execution_validated
        BY <1>1, <3>1 DEF Snapshot
    <3>3. /\ new.negotiation_finished = (Mine(s).negotiation_finished \/ radio[s] = "negotiated")
          /\ new.phase = radio[s]
        BY <1>1, <2>1, <3>1 DEF Snapshot
    <3> QED
        BY <1>3, <3>2, <3>3
  <2>2. CASE radio[s] = "committed"
    <3>1. new = [Mine(s) EXCEPT !.receipt = receipt[s], !.phase = "committed"]
        BY <2>2
    <3> HIDE DEF new, Conclude
    <3>2. /\ new.negotiation_launched = Mine(s).negotiation_launched
          /\ new.local_offer = Mine(s).local_offer
          /\ new.execution_launched = Mine(s).execution_launched
          /\ new.proposal = Mine(s).proposal
          /\ new.execution_validated = Mine(s).execution_validated
        BY <1>1, <3>1 DEF Snapshot
    <3>3. /\ new.negotiation_finished = (Mine(s).negotiation_finished \/ radio[s] = "negotiated")
          /\ new.phase = radio[s]
        BY <1>1, <2>2, <3>1 DEF Snapshot
    <3> QED
        BY <1>3, <3>2, <3>3
  <2>3. CASE radio[s] = "uncertain"
    <3>1. new = [Mine(s) EXCEPT !.phase = "uncertain"]
        BY <2>3
    <3> HIDE DEF new, Conclude
    <3>2. /\ new.negotiation_launched = Mine(s).negotiation_launched
          /\ new.local_offer = Mine(s).local_offer
          /\ new.execution_launched = Mine(s).execution_launched
          /\ new.proposal = Mine(s).proposal
          /\ new.execution_validated = Mine(s).execution_validated
        BY <1>1, <3>1 DEF Snapshot
    <3>3. /\ new.negotiation_finished = (Mine(s).negotiation_finished \/ radio[s] = "negotiated")
          /\ new.phase = radio[s]
        BY <1>1, <2>3, <3>1 DEF Snapshot
    <3> QED
        BY <1>3, <3>2, <3>3
  <2> QED
      BY <2>1, <2>2, <2>3
<1> HIDE DEF new
<1>6. radio[s] = "committed" => console[s] # None
    BY <1>1 DEF SideInv, FirstInv, SecondInv
<1>7. StepOf(s)
    BY <1>1, <1>3, <1>5, <1>6, Two DEF StepOf, Same, Earlier, HistoryInv, CompleteIsMutual, TypeOK
<1>8. \A r \in Sides : /\ Mine(r).negotiation_finished => Mine(r)'.negotiation_finished
                       /\ Mine(r)'.local_offer = Mine(r).local_offer
                       /\ Mine(r)'.execution_validated = Mine(r).execution_validated
    BY <1>5, <1>3
<1>9. BeforeInv(s)' /\ VisitsInv(s)'
    BY <1>1, <1>5 DEF TypeOK, SideInv, BeforeInv, VisitsInv
<1>10. FirstInv(s)'
    BY <1>1, <1>5 DEF TypeOK, SideInv, FirstInv, NoTrade, Approving
<1>11. ProposalInv(s)'
    BY <1>1, <1>5, <1>8 DEF SideInv, ProposalInv
<1>12. Agreed(s)' <=> Agreed(s)
    BY <1>5, <1>8 DEF Agreed
<1>13. SecondInv(s)'
    BY <1>1, <1>5, <1>8, <1>12 DEF TypeOK, SideInv, SecondInv, Approving
<1>14. RevisionInv(s)'
    BY <1>1 DEF TypeOK, SideInv, RevisionInv, UpTo
<1>15. ChangedInv(s)'
    BY <1>1, <1>5 DEF TypeOK, SideInv, ChangedInv, Approving
<1> QED
    BY <1>4, <1>7, <1>9, <1>10, <1>11, <1>13, <1>14, <1>15, Frame DEF SideInv

\* A crash forgets only what memory held.
LEMMA CrashStep ==
    ASSUME IInv, NEW s \in Sides, Crash(s)
    PROVE  IInv'
<1> USE DEF Crash, bridge, files, world
<1>1. QuietFacts(s)
    BY Quiet
<1> USE DEF QuietFacts
<1>2. TypeOK'
    BY <1>1 DEF TypeOK, View, Revision, SideInv, FirstInv, SecondInv, NoTrade
<1>3. StepOf(s)
    BY <1>1 DEF StepOf, Same, Earlier, HistoryInv, CompleteIsMutual, TypeOK
<1>4. BeforeInv(s)' /\ VisitsInv(s)'
    BY <1>1 DEF TypeOK, SideInv, BeforeInv, VisitsInv, FirstInv, SecondInv, NoTrade
<1>5. FirstInv(s)'
    BY <1>1 DEF TypeOK, SideInv, FirstInv, NoTrade, Approving, ChangedInv
<1>6. SecondInv(s)'
    BY <1>1 DEF TypeOK, SideInv, SecondInv, Approving, RevisionInv
<1>7. RevisionInv(s)'
    BY <1>1 DEF TypeOK, View, Revision, SideInv, RevisionInv, UpTo, FirstInv, NoTrade, SecondInv,
       ChangedInv
<1>8. ChangedInv(s)'
    BY <1>1 DEF TypeOK, View, Revision, SideInv, ChangedInv, RevisionInv, UpTo, Approving, SecondInv,
       FirstInv, NoTrade
<1> QED
    BY <1>1, <1>2, <1>3, <1>4, <1>5, <1>6, <1>7, <1>8, Frame DEF SideInv

\* A restart takes back nothing but the phase.
LEMMA RestartStep ==
    ASSUME IInv, NEW s \in Sides, Restart(s)
    PROVE  IInv'
<1> USE DEF Restart, bridge, files, world
<1> DEFINE new == IF Interrupted(s) THEN [Mine(s) EXCEPT !.phase = "uncertain"] ELSE Mine(s)
<1>1. /\ TypeOK /\ Mine(s) \in Snapshot /\ SideInv(s) /\ HistoryInv(s) /\ Mine(s) \in History(s)
      /\ CompleteIsMutual /\ Other(s) \in Sides
      /\ HistoryInv(Other(s)) /\ Theirs(s) \in History(Other(s))
    BY LogFacts, Two DEF IInv
<1>2. new \in Snapshot
    BY <1>1 DEF Snapshot
<1>3. /\ log' \in [Sides -> Seq(Snapshot) \ {<<>>}]
      /\ Mine(s)' = new /\ History(s)' \subseteq History(s) \cup {new}
      /\ \A r \in Sides \ {s} : Mine(r)' = Mine(r) /\ History(r)' = History(r)
    BY <1>1, <1>2, PutFacts
<1>4. Keeps(s) /\ Mine(s)'.phase \in {"uncertain", Mine(s).phase}
    BY <1>1, <1>3 DEF Keeps, Snapshot
<1>5. \A r \in Sides : /\ Mine(r)'.negotiation_finished = Mine(r).negotiation_finished
                       /\ Mine(r)'.local_offer = Mine(r).local_offer
                       /\ Mine(r)'.execution_validated = Mine(r).execution_validated
    BY <1>4, <1>3 DEF Keeps
<1> HIDE DEF new
<1>6. TypeOK'
    BY <1>1, <1>3 DEF TypeOK
<1>7. StepOf(s)
    BY <1>1, <1>3, <1>4, Two DEF StepOf, Same, Earlier, HistoryInv, CompleteIsMutual, TypeOK, Keeps, PeerCommitted
<1>8. BeforeInv(s)' /\ VisitsInv(s)'
    BY <1>1, <1>4 DEF TypeOK, SideInv, BeforeInv, VisitsInv, Keeps
<1>9. FirstInv(s)'
    BY <1>1, <1>4 DEF TypeOK, SideInv, FirstInv, NoTrade, Approving, Keeps, BeforeInv
<1>10. ProposalInv(s)'
    BY <1>1, <1>4, <1>5 DEF SideInv, ProposalInv, Keeps
<1>11. Agreed(s)' <=> Agreed(s)
    BY <1>4, <1>5 DEF Agreed, Keeps
<1>12. SecondInv(s)'
    BY <1>1, <1>4, <1>5, <1>11 DEF TypeOK, SideInv, SecondInv, Approving, Keeps
<1>13. RevisionInv(s)'
    BY <1>1 DEF TypeOK, SideInv, RevisionInv, UpTo
<1>14. ChangedInv(s)'
    BY <1>1, <1>4 DEF TypeOK, SideInv, ChangedInv, Approving
<1> QED
    BY <1>6, <1>7, <1>8, <1>9, <1>10, <1>12, <1>13, <1>14, Frame DEF SideInv

-----------------------------------------------------------------------------
(* The trade child and the player *)

\* A new revision is later than every decision.
LEMMA SelectStep ==
    ASSUME IInv, NEW s \in Sides, NEW m \in Own[s], Select(s, m)
    PROVE  IInv'
<1> USE DEF Select, Offerable, Offer, bridge, files, world
<1>1. QuietFacts(s)
    BY Quiet
<1> USE DEF QuietFacts
<1>2. TypeOK'
  <2>1. offers[s] \in Nat /\ offers[s] + 1 \in Nat \ {0} /\ offers[s] + 1 <= MaxOffers[s]
      BY <1>1 DEF TypeOK
  <2>2. m \in Mons \cup {None}
      BY DEF Mons
  <2>3. [number |-> offers[s] + 1, mon |-> m] \in Revision
      BY <2>1, <2>2 DEF Revision
  <2>4. gate' \in [Sides -> Revision \cup {None}]
      BY <1>1, <2>3 DEF TypeOK
  <2>5. gate'[s] = [number |-> offers[s] + 1, mon |-> m]
      BY <1>1 DEF TypeOK
  <2>6. engine' = [engine EXCEPT ![s] = engine'[s]] /\ engine'[s] \in Gate
    <3>1. PICK o \in Revision \cup {None} : engine' = [engine EXCEPT ![s] = [@ EXCEPT !.offer = o]]
        BY <1>1, <2>3, <2>5 DEF TypeOK
    <3>2. engine[s] \in Gate /\ engine'[s] = [engine[s] EXCEPT !.offer = o]
        BY <1>1, <3>1 DEF TypeOK
    <3>3. engine'[s] \in Gate
      <4>1. o \in Revision \cup {None}
          BY <3>1
      <4>2. engine[s] \in Gate => [engine[s] EXCEPT !.offer = o] \in Gate
          BY <4>1, GateFacts, Zenon
      <4> QED
          BY <3>2, <4>2
    <3> QED
        BY <3>1, <3>2, <3>3
  <2>7. offers' \in [Sides -> Nat] /\ \A r \in Sides : offers'[r] <= MaxOffers[r]
      BY <1>1, <2>1 DEF TypeOK
  <2> QED
      BY <1>1, <2>4, <2>6, <2>7 DEF TypeOK
<1>3. StepOf(s)
    BY <1>1 DEF StepOf, Same, Earlier, HistoryInv, CompleteIsMutual, TypeOK
<1>4. BeforeInv(s)' /\ VisitsInv(s)'
    BY <1>1 DEF TypeOK, SideInv, BeforeInv, VisitsInv, FirstInv, SecondInv, NoTrade
<1>5. FirstInv(s)'
    BY <1>1 DEF TypeOK, SideInv, FirstInv, NoTrade, Approving, ChangedInv
<1>6. SecondInv(s)'
    BY <1>1 DEF TypeOK, SideInv, SecondInv, Approving, RevisionInv
<1>7. RevisionInv(s)'
  <2>2. gate'[s].number = offers[s] + 1 /\ offers'[s] = offers[s] + 1 /\ offers[s] \in Nat
      BY <1>1 DEF TypeOK
  <2>3. gate[s] # None => gate[s].number < gate'[s].number /\ gate[s].number \in Nat
      BY <1>1, <2>2 DEF TypeOK, Revision, SideInv, RevisionInv
  <2>4. engine'[s].offer # None => gate'[s] = engine'[s].offer
      BY <1>1 DEF TypeOK
  <2>5. view[s] # None => view[s].offer \in Revision
      BY <1>1 DEF TypeOK, View
  <2>6. decision[s] # None => decision[s].revision \in Revision
      BY <1>1 DEF TypeOK
  <2>7. gate'[s] # None
      BY <1>1, <1>2, <2>2, PairAssumption DEF TypeOK, Revision
  <2> QED
      BY <1>1, <2>2, <2>3, <2>4, <2>5, <2>6, <2>7 DEF Revision, SideInv, RevisionInv, UpTo
<1>8. ChangedInv(s)'
    BY <1>1 DEF TypeOK, View, Revision, SideInv, ChangedInv, RevisionInv, UpTo, Approving, SecondInv,
       FirstInv, NoTrade
<1> QED
    BY <1>1, <1>2, <1>3, <1>4, <1>5, <1>6, <1>7, <1>8, Frame DEF SideInv

\* So is the withdrawal of a selection.
LEMMA WithdrawStep ==
    ASSUME IInv, NEW s \in Sides, Withdraw(s)
    PROVE  IInv'
<1> USE DEF Withdraw, Offerable, Offer, bridge, files, world
<1>1. QuietFacts(s)
    BY Quiet
<1> USE DEF QuietFacts
<1>2. TypeOK'
  <2>1. offers[s] \in Nat /\ offers[s] + 1 \in Nat \ {0} /\ offers[s] + 1 <= MaxOffers[s]
      BY <1>1 DEF TypeOK
  <2>2. None \in Mons \cup {None}
      OBVIOUS
  <2>3. [number |-> offers[s] + 1, mon |-> None] \in Revision
      BY <2>1, <2>2 DEF Revision
  <2>4. gate' \in [Sides -> Revision \cup {None}]
      BY <1>1, <2>3 DEF TypeOK
  <2>5. gate'[s] = [number |-> offers[s] + 1, mon |-> None]
      BY <1>1 DEF TypeOK
  <2>6. engine' = [engine EXCEPT ![s] = engine'[s]] /\ engine'[s] \in Gate
    <3>1. PICK o \in Revision \cup {None} : engine' = [engine EXCEPT ![s] = [@ EXCEPT !.offer = o]]
        BY <1>1, <2>3, <2>5 DEF TypeOK
    <3>2. engine[s] \in Gate /\ engine'[s] = [engine[s] EXCEPT !.offer = o]
        BY <1>1, <3>1 DEF TypeOK
    <3>3. engine'[s] \in Gate
      <4>1. o \in Revision \cup {None}
          BY <3>1
      <4>2. engine[s] \in Gate => [engine[s] EXCEPT !.offer = o] \in Gate
          BY <4>1, GateFacts, Zenon
      <4> QED
          BY <3>2, <4>2
    <3> QED
        BY <3>1, <3>2, <3>3
  <2>7. offers' \in [Sides -> Nat] /\ \A r \in Sides : offers'[r] <= MaxOffers[r]
      BY <1>1, <2>1 DEF TypeOK
  <2> QED
      BY <1>1, <2>4, <2>6, <2>7 DEF TypeOK
<1>3. StepOf(s)
    BY <1>1 DEF StepOf, Same, Earlier, HistoryInv, CompleteIsMutual, TypeOK
<1>4. BeforeInv(s)' /\ VisitsInv(s)'
    BY <1>1 DEF TypeOK, SideInv, BeforeInv, VisitsInv, FirstInv, SecondInv, NoTrade
<1>5. FirstInv(s)'
    BY <1>1 DEF TypeOK, SideInv, FirstInv, NoTrade, Approving, ChangedInv
<1>6. SecondInv(s)'
    BY <1>1 DEF TypeOK, SideInv, SecondInv, Approving, RevisionInv
<1>7. RevisionInv(s)'
  <2>2. gate'[s].number = offers[s] + 1 /\ offers'[s] = offers[s] + 1 /\ offers[s] \in Nat
      BY <1>1 DEF TypeOK
  <2>3. gate[s] # None => gate[s].number < gate'[s].number /\ gate[s].number \in Nat
      BY <1>1, <2>2 DEF TypeOK, Revision, SideInv, RevisionInv
  <2>4. engine'[s].offer # None => gate'[s] = engine'[s].offer
      BY <1>1 DEF TypeOK
  <2>5. view[s] # None => view[s].offer \in Revision
      BY <1>1 DEF TypeOK, View
  <2>6. decision[s] # None => decision[s].revision \in Revision
      BY <1>1 DEF TypeOK
  <2>7. gate'[s] # None
      BY <1>1, <1>2, <2>2, PairAssumption DEF TypeOK, Revision
  <2> QED
      BY <1>1, <2>2, <2>3, <2>4, <2>5, <2>6, <2>7 DEF Revision, SideInv, RevisionInv, UpTo
<1>8. ChangedInv(s)'
    BY <1>1 DEF TypeOK, View, Revision, SideInv, ChangedInv, RevisionInv, UpTo, Approving, SecondInv,
       FirstInv, NoTrade
<1> QED
    BY <1>1, <1>2, <1>3, <1>4, <1>5, <1>6, <1>7, <1>8, Frame DEF SideInv

\* The gate follows a decision only for the revision on file.
LEMMA TickStep ==
    ASSUME IInv, NEW s \in Sides, Tick(s)
    PROVE  IInv'
<1> USE DEF Tick, Decided, bridge, files, world
<1>1. QuietFacts(s)
    BY Quiet
<1> USE DEF QuietFacts
<1>2. TypeOK'
  <2>1. engine' = [engine EXCEPT ![s] = engine'[s]] /\ engine'[s] \in Gate
      BY <1>1, GateFacts DEF TypeOK
  <2> QED
      BY <1>1, <2>1 DEF TypeOK
<1>3. StepOf(s)
    BY <1>1 DEF StepOf, Same, Earlier, HistoryInv, CompleteIsMutual, TypeOK
<1>4. BeforeInv(s)' /\ VisitsInv(s)'
    BY <1>1 DEF TypeOK, SideInv, BeforeInv, VisitsInv, FirstInv, SecondInv, NoTrade
<1>5. FirstInv(s)'
    BY <1>1 DEF TypeOK, SideInv, FirstInv, NoTrade, Approving, ChangedInv
<1>6. SecondInv(s)'
    BY <1>1 DEF TypeOK, SideInv, SecondInv, Approving, RevisionInv
<1>7. RevisionInv(s)'
    BY <1>1 DEF TypeOK, View, Revision, SideInv, RevisionInv, UpTo, FirstInv, NoTrade, SecondInv,
       ChangedInv
<1>8. ChangedInv(s)'
    BY <1>1 DEF TypeOK, View, Revision, SideInv, ChangedInv, RevisionInv, UpTo, Approving, SecondInv,
       FirstInv, NoTrade
<1> QED
    BY <1>1, <1>2, <1>3, <1>4, <1>5, <1>6, <1>7, <1>8, Frame DEF SideInv

\* The Switch gives what the gate allowed for what was staged.
LEMMA ConsoleTradesStep ==
    ASSUME IInv, NEW s \in Sides, ConsoleTrades(s)
    PROVE  IInv'
<1> USE DEF ConsoleTrades, bridge, files, world
<1>1. QuietFacts(s)
    BY Quiet
<1> USE DEF QuietFacts
<1>2. TypeOK'
  <2>1. Mine(s).execution_launched
      BY <1>1 DEF SideInv, FirstInv, NoTrade
  <2>2. \A r \in Sides : Mine(r).local_offer \in Mons
      BY <1>1, <2>1, LogFacts DEF SideInv, ProposalInv, Snapshot
  <2>3. engine[s].offer.mon \in Mons /\ staged[s] \in Mons
      BY <1>1, <2>1, <2>2 DEF SideInv, SecondInv
  <2> QED
      BY <1>1, <2>3 DEF TypeOK
<1>3. StepOf(s)
    BY <1>1 DEF StepOf, Same, Earlier, HistoryInv, CompleteIsMutual, TypeOK
<1>4. BeforeInv(s)' /\ VisitsInv(s)'
    BY <1>1 DEF TypeOK, SideInv, BeforeInv, VisitsInv, FirstInv, SecondInv, NoTrade
<1>5. FirstInv(s)'
    BY <1>1 DEF TypeOK, SideInv, FirstInv, NoTrade, Approving, ChangedInv
<1>6. SecondInv(s)'
    BY <1>1 DEF TypeOK, SideInv, SecondInv, Approving, RevisionInv
<1>7. RevisionInv(s)'
    BY <1>1 DEF TypeOK, View, Revision, SideInv, RevisionInv, UpTo, FirstInv, NoTrade, SecondInv,
       ChangedInv
<1>8. ChangedInv(s)'
    BY <1>1 DEF TypeOK, View, Revision, SideInv, ChangedInv, RevisionInv, UpTo, Approving, SecondInv,
       FirstInv, NoTrade
<1> QED
    BY <1>1, <1>2, <1>3, <1>4, <1>5, <1>6, <1>7, <1>8, Frame DEF SideInv

\* A receipt follows a trade.
LEMMA WriteReceiptStep ==
    ASSUME IInv, NEW s \in Sides, WriteReceipt(s)
    PROVE  IInv'
<1> USE DEF WriteReceipt, bridge, files, world
<1>1. QuietFacts(s)
    BY Quiet
<1> USE DEF QuietFacts
<1>2. TypeOK'
  <2>1. engine' = [engine EXCEPT ![s] = engine'[s]] /\ engine'[s] \in Gate
      BY <1>1, GateFacts DEF TypeOK
  <2>2. console[s].gave \in Mons
      BY <1>1 DEF TypeOK
  <2> QED
      BY <1>1, <2>1, <2>2 DEF TypeOK
<1>3. StepOf(s)
    BY <1>1 DEF StepOf, Same, Earlier, HistoryInv, CompleteIsMutual, TypeOK
<1>4. BeforeInv(s)' /\ VisitsInv(s)'
    BY <1>1 DEF TypeOK, SideInv, BeforeInv, VisitsInv, FirstInv, SecondInv, NoTrade
<1>5. FirstInv(s)'
    BY <1>1 DEF TypeOK, SideInv, FirstInv, NoTrade, Approving, ChangedInv
<1>6. SecondInv(s)'
    BY <1>1 DEF TypeOK, SideInv, SecondInv, Approving, RevisionInv
<1>7. RevisionInv(s)'
    BY <1>1 DEF TypeOK, View, Revision, SideInv, RevisionInv, UpTo, FirstInv, NoTrade, SecondInv,
       ChangedInv
<1>8. ChangedInv(s)'
    BY <1>1 DEF TypeOK, View, Revision, SideInv, ChangedInv, RevisionInv, UpTo, Approving, SecondInv,
       FirstInv, NoTrade
<1> QED
    BY <1>1, <1>2, <1>3, <1>4, <1>5, <1>6, <1>7, <1>8, Frame DEF SideInv

\* A child that ends changes nothing else.
LEMMA ChildExitsStep ==
    ASSUME IInv, NEW s \in Sides, ChildExits(s)
    PROVE  IInv'
<1> USE DEF ChildExits, bridge, files, world
<1>1. QuietFacts(s)
    BY Quiet
<1> USE DEF QuietFacts
<1>2. TypeOK'
    BY <1>1 DEF TypeOK, View, Revision, SideInv, FirstInv, SecondInv, NoTrade
<1>3. StepOf(s)
    BY <1>1 DEF StepOf, Same, Earlier, HistoryInv, CompleteIsMutual, TypeOK
<1>4. BeforeInv(s)' /\ VisitsInv(s)'
    BY <1>1 DEF TypeOK, SideInv, BeforeInv, VisitsInv, FirstInv, SecondInv, NoTrade
<1>5. FirstInv(s)'
    BY <1>1 DEF TypeOK, SideInv, FirstInv, NoTrade, Approving, ChangedInv
<1>6. SecondInv(s)'
    BY <1>1 DEF TypeOK, SideInv, SecondInv, Approving, RevisionInv
<1>7. RevisionInv(s)'
    BY <1>1 DEF TypeOK, View, Revision, SideInv, RevisionInv, UpTo, FirstInv, NoTrade, SecondInv,
       ChangedInv
<1>8. ChangedInv(s)'
    BY <1>1 DEF TypeOK, View, Revision, SideInv, ChangedInv, RevisionInv, UpTo, Approving, SecondInv,
       FirstInv, NoTrade
<1> QED
    BY <1>1, <1>2, <1>3, <1>4, <1>5, <1>6, <1>7, <1>8, Frame DEF SideInv

-----------------------------------------------------------------------------
(* Results *)

\* Both sides are blank.
LEMMA InitInv == Init => IInv
<1> SUFFICES ASSUME Init PROVE IInv
    OBVIOUS
<1> USE DEF Init
<1>1. Blank \in Snapshot
    BY DEF Blank, Snapshot
<1>2. \A s \in Sides : log[s] = <<Blank>> /\ Len(<<Blank>>) = 1 /\ <<Blank>>[1] = Blank
    BY DEF L!Init
<1>3. \A s \in Sides : Mine(s) = Blank /\ History(s) = {Blank}
  <2> TAKE s \in Sides
  <2>1. log[s] = <<Blank>> /\ Len(log[s]) = 1 /\ log[s][1] = Blank
      BY <1>2
  <2>2. 1 .. Len(log[s]) = {1}
      BY <2>1
  <2> QED
      BY <2>1, <2>2 DEF Mine, History, L!Current
<1>4. TypeOK
  <2>1. <<Blank>> \in Seq(Snapshot) /\ <<Blank>> # <<>>
      BY <1>1
  <2>2. log \in [Sides -> Seq(Snapshot) \ {<<>>}]
      BY <2>1 DEF L!Init
  <2>3. NoGate \in Gate
      BY DEF NoGate, Gate
  <2>4. up \in [Sides -> BOOLEAN]
      OBVIOUS
  <2>5. offers \in [Sides -> Nat] /\ (\A s \in Sides : offers[s] <= MaxOffers[s]) /\ crashes \in 0 .. MaxCrashes
      BY PairAssumption
  <2> QED
      BY <2>2, <2>3, <2>4, <2>5 DEF TypeOK
<1>5. \A s \in Sides : HistoryInv(s)
    BY <1>3 DEF HistoryInv, Earlier, Blank
<1>6. CompleteIsMutual
    BY <1>3 DEF CompleteIsMutual, Blank
<1>7. \A s \in Sides : SideInv(s)
    BY <1>3 DEF SideInv, BeforeInv, FirstInv, ProposalInv, SecondInv, RevisionInv, ChangedInv, VisitsInv,
       NoTrade, Approving, Blank, NoGate
<1> QED
    BY <1>4, <1>5, <1>6, <1>7 DEF IInv

LEMMA NextInv == IInv /\ [Next]_vars => IInv'
<1> SUFFICES ASSUME IInv, [Next]_vars PROVE IInv'
    OBVIOUS
<1>1. CASE UNCHANGED vars
  <2>1. /\ \A r \in Sides : Mine(r)' = Mine(r) /\ History(r)' = History(r)
      BY <1>1, LogUnchanged DEF vars
  <2>2. TypeOK' /\ CompleteIsMutual'
      BY <1>1, <2>1 DEF vars, IInv, TypeOK, CompleteIsMutual
  <2>3. ASSUME NEW s \in Sides
        PROVE  HistoryInv(s)' /\ SideInv(s)'
    <3>1. /\ HistoryInv(s) /\ SideInv(s) /\ (Agreed(s)' <=> Agreed(s)) /\ Other(s) \in Sides
          /\ ProposalInv(s)'
        BY <1>1, Quiet, Two DEF vars, IInv, QuietFacts
    <3> QED
        BY <1>1, <2>1, <3>1 DEF vars, HistoryInv, Earlier, SideInv, BeforeInv, FirstInv, SecondInv,
           RevisionInv, ChangedInv, VisitsInv, NoTrade, Approving, UpTo
  <2> QED
      BY <2>2, <2>3 DEF IInv
<1>2. ASSUME NEW s \in Sides,
             Learn(s) \/ Advance(s) \/ Judge(s) \/ Conclude(s) \/ Crash(s) \/ Restart(s) \/ Child(s)
      PROVE  IInv'
  <2>1. CASE Advance(s)
      BY <2>1, LaunchNegotiationStep, LaunchExecutionStep, SeesOfferStep, CaptureStep, DeclineStep,
         SeesOtherStep, RejectStep, ChangedStep, ValidateStep, CommitStep, ApproveStep, CompleteStep
         DEF Advance
  <2>2. CASE Child(s)
      BY <2>2, SelectStep, WithdrawStep, TickStep, ConsoleTradesStep, WriteReceiptStep, ChildExitsStep
         DEF Child
  <2> QED
      BY <1>2, <2>1, <2>2, LearnStep, JudgeStep, ConcludeStep, CrashStep, RestartStep
<1> QED
    BY <1>1, <1>2 DEF Next

\* The relation between the snapshots, the files of the session, the gate and the
\* Switch of each side holds in every reachable state.
THEOREM Inductive == Spec => []IInv
BY InitInv, NextInv, PTL DEF Spec

\* Every variable keeps its type.
THEOREM TypeCorrect == Spec => []TypeOK
<1>1. IInv => TypeOK
    BY DEF IInv
<1> QED
    BY Inductive, <1>1, PTL

\* A Switch trades only what both players selected twice.
THEOREM AgreedOnly == Spec => []OnlyAgreed
<1>1. ASSUME IInv, NEW s \in Sides, console[s] # None
      PROVE  /\ console[s] = [gave |-> Mine(s).local_offer, got |-> Mine(Other(s)).local_offer]
             /\ \A r \in Sides : /\ Mine(r).execution_validated # None
                                 /\ Mine(r).execution_validated = Mine(s).proposal
  <2>1. Mine(s).execution_launched /\ Mine(s) \in Snapshot
      BY <1>1, LogFacts DEF IInv, SideInv, FirstInv, NoTrade
  <2>2. ProposalInv(s) /\ SecondInv(s)
      BY <1>1 DEF IInv, SideInv
  <2>3. Mine(s).proposal # None
    <3>1. \A r \in Sides : Mine(r).local_offer \in Mons
        BY <1>1, <2>1, <2>2, LogFacts DEF IInv, ProposalInv, Snapshot
    <3> QED
        BY <2>1, <2>2, <3>1, PairAssumption DEF ProposalInv, Proposal
  <2> QED
      BY <1>1, <2>1, <2>2, <2>3 DEF SecondInv, Agreed
<1>2. IInv => OnlyAgreed
    BY <1>1 DEF OnlyAgreed
<1> QED
    BY Inductive, <1>2, PTL

\* "Both Switch trades committed successfully." is true when it is shown.
THEOREM Mutual == Spec => []CompleteIsMutual
<1>1. IInv => CompleteIsMutual
    BY DEF IInv
<1> QED
    BY Inductive, <1>1, PTL

\* No crash makes a bridge repeat a visit, or start the second one early.
THEOREM VisitsOnce == Spec => []OneVisitEach
<1>1. IInv => OneVisitEach
    BY DEF IInv, SideInv, VisitsInv, FirstInv, ProposalInv, OneVisitEach
<1> QED
    BY Inductive, <1>1, PTL

\* A Switch whose player is told to start a new room does not trade.
THEOREM ChangedStays == Spec => []ChangedNeverGives
<1>1. IInv => ChangedNeverGives
    BY DEF IInv, SideInv, ChangedInv, ChangedNeverGives
<1> QED
    BY Inductive, <1>1, PTL
-----------------------------------------------------------------------------
(* Nobody is left waiting *)

LEMMA ClosedFrame ==
    ASSUME ClosedInv, NEW s \in Sides,
           \A r \in Sides \ {s} : up'[r] = up[r] /\ radio'[r] = radio[r] /\ Mine(r)' = Mine(r),
           Mine(s)'.execution_launched /\ up'[s] /\ radio'[s] = "none" =>
               Mine(s)'.phase \in {"selection-changed", "committed", "complete", "uncertain"}
    PROVE  ClosedInv'
BY DEF ClosedInv

\* What Put does to the snapshots.
LEMMA PutMine ==
    ASSUME TypeOK, NEW s \in Sides, NEW snapshot \in Snapshot, Put(s, snapshot)
    PROVE  Mine(s)' = snapshot /\ \A r \in Sides \ {s} : Mine(r)' = Mine(r)
BY PutFacts

\* The steps that write no snapshot and leave the bridge to itself.
LEMMA ClosedQuiet ==
    ASSUME ClosedInv, \A r \in Sides : Mine(r)' = Mine(r), UNCHANGED <<up, radio>>
    PROVE  ClosedInv'
BY DEF ClosedInv

\* A start, while the radio runs or the bridge is down.
LEMMA ClosedLaunch ==
    ASSUME IInv, ClosedInv, NEW s \in Sides, LaunchNegotiation(s) \/ LaunchExecution(s)
    PROVE  ClosedInv'
<1>1. TypeOK /\ Mine(s) \in Snapshot /\ Theirs(s) \in Snapshot
    BY LogFacts DEF IInv
<1>2. CASE LaunchNegotiation(s)
  <2> DEFINE new == [Mine(s) EXCEPT !.negotiation_launched = TRUE, !.phase = "negotiating"]
  <2>1. new \in Snapshot
      BY <1>1 DEF Snapshot
  <2>2. Put(s, new)
      BY <1>2 DEF LaunchNegotiation, Launch
  <2>3. \A r \in Sides \ {s} : Mine(r)' = Mine(r)
      BY <1>1, <2>1, <2>2, PutMine
  <2>4. /\ \A r \in Sides \ {s} : up'[r] = up[r] /\ radio'[r] = radio[r]
        /\ ~up'[s] \/ radio'[s] # "none"
      BY <1>1, <1>2 DEF LaunchNegotiation, Launch, TypeOK
  <2> QED
      BY <2>3, <2>4, ClosedFrame
<1>3. CASE LaunchExecution(s)
  <2> DEFINE new == [Mine(s) EXCEPT !.execution_launched = TRUE, !.proposal = Agreement(s),
                                    !.phase = "executing"]
  <2>1. Agreement(s) \in Proposal
    <3>1. Mine(s).local_offer \in Mons /\ Theirs(s).local_offer \in Mons
        BY <1>1, <1>3 DEF LaunchExecution, Negotiated, Snapshot
    <3> QED
        BY <3>1 DEF Agreement, Proposal
  <2>2. new \in Snapshot
      BY <1>1, <2>1 DEF Snapshot
  <2>3. Put(s, new)
      BY <1>3 DEF LaunchExecution, Launch
  <2>4. \A r \in Sides \ {s} : Mine(r)' = Mine(r)
      BY <1>1, <2>2, <2>3, PutMine
  <2>5. /\ \A r \in Sides \ {s} : up'[r] = up[r] /\ radio'[r] = radio[r]
        /\ ~up'[s] \/ radio'[s] # "none"
      BY <1>1, <1>3 DEF LaunchExecution, Launch, TypeOK
  <2> QED
      BY <2>4, <2>5, ClosedFrame
<1> QED
    BY <1>2, <1>3

\* What advance() writes about a session that is under way.
LEMMA ClosedAdvance ==
    ASSUME IInv, ClosedInv, NEW s \in Sides,
           Capture(s) \/ Changed(s) \/ Validate(s) \/ Commit(s) \/ Complete(s)
    PROVE  ClosedInv'
<1>1. /\ TypeOK /\ Mine(s) \in Snapshot /\ SideInv(s)
    BY LogFacts DEF IInv
<1>2. UNCHANGED <<up, radio>>
    BY DEF Capture, Changed, Validate, Commit, Complete, bridge
<1>3. CASE Capture(s)
  <2> DEFINE new == [Mine(s) EXCEPT !.local_offer = view[s].offer.mon, !.phase = "declining"]
  <2>1. view[s].offer.mon \in Mons \cup {None} /\ ~Mine(s).execution_launched
    <3>1. view[s] \in View
        BY <1>1, <1>3 DEF TypeOK, Capture, At
    <3>2. view[s].offer.mon \in Mons \cup {None}
        BY <3>1 DEF View, Revision
    <3> QED
        BY <1>1, <1>3, <3>2 DEF Capture, At, SideInv, SecondInv
  <2>2. new \in Snapshot /\ new.execution_launched = Mine(s).execution_launched
      BY <1>1, <2>1 DEF Snapshot
  <2>3. Mine(s)' = new /\ \A r \in Sides \ {s} : Mine(r)' = Mine(r)
      BY <1>1, <1>3, <2>2, PutMine DEF Capture
  <2> QED
      BY <1>2, <2>1, <2>2, <2>3, ClosedFrame
<1>4. CASE Changed(s)
  <2> DEFINE new == [Mine(s) EXCEPT !.phase = "selection-changed"]
  <2>1. new \in Snapshot /\ new.phase = "selection-changed"
      BY <1>1 DEF Snapshot
  <2>2. Mine(s)' = new /\ \A r \in Sides \ {s} : Mine(r)' = Mine(r)
      BY <1>1, <1>4, <2>1, PutMine DEF Changed
  <2> QED
      BY <1>2, <2>1, <2>2, ClosedFrame
<1>5. CASE Validate(s)
  <2> DEFINE new == [Mine(s) EXCEPT !.execution_validated = Mine(s).proposal]
  <2>1. new \in Snapshot /\ radio[s] # "none"
      BY <1>1, <1>5 DEF Snapshot, Validate, Reads
  <2>2. \A r \in Sides \ {s} : Mine(r)' = Mine(r)
      BY <1>1, <1>5, <2>1, PutMine DEF Validate
  <2> QED
      BY <1>2, <2>1, <2>2, ClosedFrame
<1>6. CASE Commit(s)
  <2> DEFINE new == [Mine(s) EXCEPT !.commit_possible = TRUE]
  <2>1. /\ new \in Snapshot /\ new.phase = Mine(s).phase
        /\ new.execution_launched = Mine(s).execution_launched
      BY <1>1 DEF Snapshot
  <2>2. Mine(s)' = new /\ \A r \in Sides \ {s} : Mine(r)' = Mine(r)
      BY <1>1, <1>6, <2>1, PutMine DEF Commit
  <2> HIDE DEF new
  <2> QED
      BY <1>2, <2>1, <2>2, ClosedFrame DEF ClosedInv
<1>7. CASE Complete(s)
  <2> DEFINE new == [Mine(s) EXCEPT !.phase = "complete"]
  <2>1. new \in Snapshot /\ new.phase = "complete"
      BY <1>1 DEF Snapshot
  <2>2. Mine(s)' = new /\ \A r \in Sides \ {s} : Mine(r)' = Mine(r)
      BY <1>1, <1>7, <2>1, PutMine DEF Complete
  <2> QED
      BY <1>2, <2>1, <2>2, ClosedFrame
<1> QED
    BY <1>3, <1>4, <1>5, <1>6, <1>7

\* The radio thread ends, with its bridge or before it, or is given up for good.
LEMMA ClosedRadio ==
    ASSUME IInv, ClosedInv, NEW s \in Sides,
           Judge(s) \/ Conclude(s) \/ Crash(s) \/ Restart(s)
    PROVE  ClosedInv'
<1>1. /\ TypeOK /\ Mine(s) \in Snapshot /\ SideInv(s)
    BY LogFacts DEF IInv
<1>2. CASE Judge(s)
  <2>1. /\ UNCHANGED up /\ \A r \in Sides \ {s} : radio'[r] = radio[r]
        /\ radio'[s] # "none"
      BY <1>1, <1>2 DEF Judge, Verdict, TypeOK
  <2>2. \A r \in Sides : Mine(r)' = Mine(r)
      BY <1>2, LogUnchanged DEF Judge
  <2> QED
      BY <2>1, <2>2, ClosedFrame
<1>3. CASE Crash(s)
  <2>1. /\ \A r \in Sides \ {s} : up'[r] = up[r] /\ radio'[r] = radio[r]
        /\ ~up'[s]
      BY <1>1, <1>3 DEF Crash, TypeOK
  <2>2. \A r \in Sides : Mine(r)' = Mine(r)
      BY <1>3, LogUnchanged DEF Crash
  <2> QED
      BY <2>1, <2>2, ClosedFrame
<1>4. CASE Conclude(s)
  <2> DEFINE new == CASE radio[s] = "negotiated" ->
                           [Mine(s) EXCEPT !.negotiation_finished = TRUE, !.phase = "negotiated"]
                      [] radio[s] = "committed" ->
                           [Mine(s) EXCEPT !.receipt = receipt[s], !.phase = "committed"]
                      [] radio[s] = "uncertain" -> [Mine(s) EXCEPT !.phase = "uncertain"]
  <2>1. new \in Snapshot
      BY <1>1, <1>4 DEF Snapshot, TypeOK, Conclude
  <2>2. Mine(s)' = new /\ \A r \in Sides \ {s} : Mine(r)' = Mine(r)
      BY <1>1, <1>4, <2>1, PutMine DEF Conclude
  <2>3. \A r \in Sides \ {s} : up'[r] = up[r] /\ radio'[r] = radio[r]
      BY <1>1, <1>4 DEF Conclude, TypeOK
  <2>4. CASE radio[s] = "negotiated"
    <3>1. new = [Mine(s) EXCEPT !.negotiation_finished = TRUE, !.phase = "negotiated"]
        BY <2>4
    <3>2. new.execution_launched = Mine(s).execution_launched
        BY <1>1, <3>1 DEF Snapshot
    <3>3. ~Mine(s).execution_launched
        BY <1>1, <2>4 DEF SideInv, SecondInv
    <3> QED
        BY <2>2, <2>3, <3>2, <3>3, ClosedFrame
  <2>5. CASE radio[s] = "committed"
    <3>1. new = [Mine(s) EXCEPT !.receipt = receipt[s], !.phase = "committed"]
        BY <2>5
    <3>2. new.phase = "committed"
        BY <1>1, <3>1 DEF Snapshot
    <3> QED
        BY <2>2, <2>3, <3>2, ClosedFrame
  <2>6. CASE radio[s] = "uncertain"
    <3>1. new = [Mine(s) EXCEPT !.phase = "uncertain"]
        BY <2>6
    <3>2. new.phase = "uncertain"
        BY <1>1, <3>1 DEF Snapshot
    <3> QED
        BY <2>2, <2>3, <3>2, ClosedFrame
  <2> QED
      BY <1>4, <2>4, <2>5, <2>6 DEF Conclude
<1>5. CASE Restart(s)
  <2> DEFINE new == [Mine(s) EXCEPT !.phase = "uncertain"]
  <2>1. new \in Snapshot /\ new.phase = "uncertain"
      BY <1>1 DEF Snapshot
  <2>2. \A r \in Sides \ {s} : up'[r] = up[r] /\ radio'[r] = radio[r]
      BY <1>5 DEF Restart, TypeOK
  <2>3. CASE Interrupted(s)
    <3>1. Mine(s)' = new /\ \A r \in Sides \ {s} : Mine(r)' = Mine(r)
        BY <1>1, <1>5, <2>1, <2>3, PutMine DEF Restart
    <3> QED
        BY <2>1, <2>2, <3>1, ClosedFrame
  <2>4. CASE ~Interrupted(s)
    <3>1. Mine(s)' = Mine(s) /\ \A r \in Sides \ {s} : Mine(r)' = Mine(r)
        BY <1>1, <1>5, <2>4, PutMine DEF Restart
    <3>2. Mine(s).execution_launched => Mine(s).phase \in {"committed", "complete"}
        BY <2>4 DEF Interrupted
    <3> QED
        BY <2>2, <3>1, <3>2, ClosedFrame
  <2> QED
      BY <2>3, <2>4
<1> QED
    BY <1>2, <1>3, <1>4, <1>5

LEMMA ClosedStep == IInv /\ ClosedInv /\ [Next]_vars => ClosedInv'
<1> SUFFICES ASSUME IInv, ClosedInv, [Next]_vars PROVE ClosedInv'
    OBVIOUS
<1>1. CASE UNCHANGED vars
    BY <1>1, LogUnchanged, ClosedQuiet DEF vars
<1>2. ASSUME NEW s \in Sides, Learn(s)
      PROVE  ClosedInv'
    BY <1>2, LearnFacts, ClosedQuiet DEF Learn, bridge, IInv
<1>3. ASSUME NEW s \in Sides,
             SeesOffer(s) \/ Decline(s) \/ SeesOther(s) \/ Reject(s) \/ Approve(s)
      PROVE  ClosedInv'
    BY <1>3, LogUnchanged, ClosedQuiet DEF SeesOffer, Decline, SeesOther, Reject, Approve
<1>4. ASSUME NEW s \in Sides, Child(s)
      PROVE  ClosedInv'
    BY <1>4, LogUnchanged, ClosedQuiet
       DEF Child, Select, Withdraw, Tick, ConsoleTrades, WriteReceipt, ChildExits, bridge
<1>5. ASSUME NEW s \in Sides, Advance(s)
      PROVE  ClosedInv'
    BY <1>3, <1>5, ClosedLaunch, ClosedAdvance DEF Advance
<1> QED
    BY <1>1, <1>2, <1>4, <1>5, ClosedRadio DEF Next

\* Without a crash under way, a second visit that has ended left a verdict: a bridge
\* that runs, with no radio thread, has not lost track of the trade it had begun.
THEOREM VisitConcluded == Spec => []ClosedInv
<1>1. Init => ClosedInv
  <2> SUFFICES ASSUME Init PROVE ClosedInv
      OBVIOUS
  <2>1. \A s \in Sides : Mine(s) = Blank
    <3> TAKE s \in Sides
    <3>1. log[s] = <<Blank>> /\ Len(<<Blank>>) = 1 /\ <<Blank>>[1] = Blank
        BY DEF Init, L!Init
    <3> QED
        BY <3>1 DEF Mine, L!Current
  <2> QED
      BY <2>1 DEF ClosedInv, Blank
<1> QED
    BY <1>1, ClosedStep, Inductive, PTL DEF Spec

\* When both Switches have traded and nothing is on its way any more, no bridge waits
\* for the other.
THEOREM NoneWaits == Spec => []NoneLeftWaiting
<1>1. ASSUME IInv, ClosedInv
      PROVE  NoneLeftWaiting
  <2> SUFFICES ASSUME \A s \in Sides :
                          /\ Idle(s) /\ radio[s] = "none" /\ child[s] = "dead"
                          /\ log[Other(s)] = <<Theirs(s)>>
                          /\ receipt[s] # None /\ Mine(s).commit_possible,
                      \A s \in Sides : Mine(s).phase # "uncertain",
                      NEW t \in Sides, Mine(t).phase # "complete"
               PROVE  CanComplete(t)
      BY DEF NoneLeftWaiting
  <2>1. ASSUME NEW s \in Sides
        PROVE  Mine(s).phase \in {"committed", "complete"}
    <3>1. SideInv(s) /\ Idle(s) /\ radio[s] = "none" /\ receipt[s] # None
        BY <1>1 DEF IInv
    <3>2. Mine(s).execution_launched
        BY <3>1 DEF SideInv, FirstInv, NoTrade
    <3>3. Mine(s).phase # "selection-changed"
        BY <3>1, <3>2 DEF SideInv, SecondInv, ChangedInv
    <3> QED
        BY <1>1, <3>1, <3>2, <3>3 DEF ClosedInv, Idle
  <2>2. Other(t) \in Sides /\ Mine(Other(t)) = Theirs(t)
    <3>1. log[Other(t)] = <<Theirs(t)>> /\ Other(t) \in Sides
        BY Two
    <3>2. Len(log[Other(t)]) = 1 /\ log[Other(t)][1] = Theirs(t)
        BY <3>1
    <3> QED
        BY <3>1, <3>2 DEF Mine, L!Current
  <2>3. Theirs(t).phase \in {"committed", "complete"} /\ Mine(t).phase = "committed"
      BY <2>1, <2>2
  <2> QED
      BY <2>3 DEF CanComplete, Active, PeerCommitted
<1>2. IInv /\ ClosedInv => NoneLeftWaiting
    BY <1>1
<1> QED
    BY Inductive, VisitConcluded, <1>2, PTL
=============================================================================
