--------------------------- MODULE PeerRelayProofs ---------------------------
(***************************************************************************)
(* Proofs about PeerRelay, for any set of bridges and any bounds: the      *)
(* inductive invariant, the pinning of the pair, and the refinement of     *)
(* SnapshotLink.  The argument: what an envelope is sealed from is on disk *)
(* before the envelope exists, so no crash takes it back; sequences and    *)
(* versions grow together, and a bridge that only accepts a higher         *)
(* sequence only accepts later versions.                                   *)
(***************************************************************************)
EXTENDS PeerRelay, TLAPS

USE PeerAssumption DEF Seats

\* An envelope in transit is one a request, a slot or an answer holds.
LEMMA InTransitCases ==
    ASSUME NEW e, e \in InTransit
    PROVE  /\ e # None
           /\ \/ \E q \in requests : e = q.envelope
              \/ \E r \in Seats : slots[r] # None /\ e = slots[r].envelope
              \/ \E b \in Bridges : answer[b] # None /\ e = answer[b].envelope
BY DEF InTransit

LEMMA InitInv == Init => IInv
<1> SUFFICES ASSUME Init PROVE IInv
    OBVIOUS
<1>1. \A b \in Bridges : Memory(b) = [public |-> None, sequence |-> 0, seen |-> 0,
                                     local |-> 0, remote |-> 0] /\ kept[b] = Memory(b)
    BY DEF Init, Zero, Memory
<1>2. TypeOK
    BY <1>1 DEF Init, TypeOK, Zero, State
<1>3. Sealings = {}
    BY <1>1 DEF Init, Zero, Sealings, InTransit
<1>4. SealedInv
    BY <1>3 DEF SealedInv
<1>5. PeerInv
    BY <1>1 DEF PeerInv, Sound, Onward, MemoryIsKept
<1> QED
    BY <1>2, <1>4, <1>5 DEF IInv

\* What a bridge is answered is nothing, or what a peer left in a slot.
LEMMA AnswerType ==
    ASSUME TypeOK, NEW b \in Bridges, answer[b] # None
    PROVE  /\ answer[b] \in Post \cup {Nothing}
           /\ answer[b].public \in Bridges \cup {None}
           /\ answer[b].envelope \in Envelope \cup {None}
           /\ answer[b].public = None => answer[b].envelope = None
<1>1. answer[b] \in Post \cup {Nothing}
    BY DEF TypeOK
<1>2. CASE answer[b] \in Post
    BY <1>2 DEF Post
<1>3. CASE answer[b] = Nothing
    BY <1>3 DEF Nothing
<1> QED
    BY <1>1, <1>2, <1>3

\* What memory and the file hold has the type of a state.
LEMMA StateType ==
    ASSUME TypeOK, NEW b \in Bridges
    PROVE  /\ Memory(b) \in State /\ kept[b] \in State
           /\ kept[b].public \in Bridges \cup {None} /\ kept[b].sequence \in Nat
           /\ kept[b].seen \in Nat /\ kept[b].remote \in Nat
           /\ kept[b].local \in Nat /\ kept[b].local \in 0 .. MaxChanges + 1
BY DEF TypeOK, State, Memory

\* A write, done or failed, leaves a file of the right type.
LEMMA WriteType ==
    ASSUME TypeOK, NEW b \in Bridges, Persists(b) \/ PersistFails(b),
           public' \in [Bridges -> Bridges \cup {None}], sequence' \in [Bridges -> Nat],
           seen' \in [Bridges -> Nat], local' \in [Bridges -> 0 .. MaxChanges + 1],
           remote' \in [Bridges -> Nat]
    PROVE  kept' \in [Bridges -> State] /\ failures' \in 0 .. MaxFailures
<1>1. Memory(b)' \in State
    BY DEF Memory, State
<1>2. kept' \in {kept, [kept EXCEPT ![b] = Memory(b)']}
    BY DEF Persists, PersistFails
<1>3. kept' \in [Bridges -> State]
    BY <1>1, <1>2 DEF TypeOK
<1>4. failures' \in 0 .. MaxFailures
    BY DEF TypeOK, Persists, PersistFails
<1> QED
    BY <1>3, <1>4

\* Type correctness is preserved by every step.
LEMMA StepType == IInv /\ [Next]_vars => TypeOK'
<1> SUFFICES ASSUME IInv, [Next]_vars PROVE TypeOK'
    OBVIOUS
<1>t. TypeOK
    BY DEF IInv
<1> USE <1>t DEF TypeOK
<1>1. ASSUME NEW b \in Bridges, Update(b) PROVE TypeOK'
  <2>1. local' \in [Bridges -> 0 .. MaxChanges + 1]
      BY <1>1 DEF Update
  <2>2. kept' \in [Bridges -> State] /\ failures' \in 0 .. MaxFailures
      BY <1>1, <2>1, WriteType DEF Update
  <2> QED
      BY <1>1, <2>1, <2>2 DEF Update, budget
<1>2. ASSUME NEW b \in Bridges, Exchange(b) PROVE TypeOK'
  <2>1. Sealed(b, sequence[b] + 1) \in Envelope \cup {None}
      BY DEF Sealed, Envelope
  <2>2. requests' \subseteq Request /\ waiting' \in [Bridges -> Nat]
      BY <1>2, <2>1 DEF Exchange, Sent, Send, Request
  <2>3. sequence' \in [Bridges -> Nat]
      BY <1>2 DEF Exchange
  <2>4. kept' \in [Bridges -> State] /\ failures' \in 0 .. MaxFailures
      BY <1>2, <2>3, WriteType DEF Exchange, Sent
  <2> QED
      BY <1>2, <2>2, <2>3, <2>4 DEF Exchange, budget
<1>3. ASSUME NEW b \in Bridges, GiveUp(b) PROVE TypeOK'
    BY <1>3 DEF GiveUp, state
<1>4. ASSUME NEW b \in Bridges, Crash(b) PROVE TypeOK'
    BY <1>4, StateType DEF Crash
<1>5. ASSUME NEW b \in Bridges, ReceiveNothing(b) \/ RejectPeer(b) PROVE TypeOK'
    BY <1>5 DEF ReceiveNothing, RejectPeer, Receiving, budget
<1>6. ASSUME NEW b \in Bridges, Pin(b), answer[b] # None
      PROVE  /\ public' \in [Bridges -> Bridges \cup {None}]
             /\ local' \in [Bridges -> 0 .. MaxChanges + 1]
  <2>0. Sound(Memory(b))
      BY DEF IInv, PeerInv
  <2>1. public[b] = None => local[b] + 1 \in 0 .. MaxChanges + 1
      BY <2>0 DEF Sound, Memory
  <2> QED
      BY <1>6, <2>1, AnswerType DEF Pin
<1>7. ASSUME NEW b \in Bridges, RejectEnvelope(b) PROVE TypeOK'
    BY <1>6, <1>7 DEF RejectEnvelope, Receiving, budget
<1>8. ASSUME NEW b \in Bridges, Receive(b) PROVE TypeOK'
  <2>1. answer[b].envelope # None =>
           answer[b].envelope.sequence \in Nat /\ answer[b].envelope.val \in Nat
      BY <1>8, AnswerType DEF Receive, Receiving, Envelope
  <2>2. seen' \in [Bridges -> Nat] /\ remote' \in [Bridges -> Nat]
      BY <1>8, <2>1 DEF Receive
  <2>3. /\ public' \in [Bridges -> Bridges \cup {None}]
        /\ local' \in [Bridges -> 0 .. MaxChanges + 1]
        /\ sequence' \in [Bridges -> Nat]
      BY <1>6, <1>8 DEF Receive, Receiving
  <2>4. kept' \in [Bridges -> State] /\ failures' \in 0 .. MaxFailures
      BY <1>8, <2>2, <2>3, WriteType DEF Receive
  <2> QED
      BY <1>8, <2>2, <2>3, <2>4 DEF Receive, Receiving, budget
<1>9. ASSUME NEW q \in requests, Serve(q) PROVE TypeOK'
  <2>1. q.from \in Bridges /\ q.envelope \in Envelope \cup {None}
      BY DEF Request
  <2>2. [public |-> q.from, envelope |-> q.envelope] \in Post
      BY <2>1 DEF Post
  <2>3. slots[PeerSeat[Role[q.from]]] \in Post \cup {None}
      BY <2>1 DEF PeerSeat
  <2> QED
      BY <1>9, <2>1, <2>2, <2>3 DEF Serve, state, budget
<1>10. ASSUME NEW q \in requests, Refuse(q) PROVE TypeOK'
    BY <1>10 DEF Refuse, state, budget
<1>11. ASSUME Expire PROVE TypeOK'
    BY <1>11 DEF Expire, state
<1>12. ASSUME UNCHANGED vars PROVE TypeOK'
    BY <1>12 DEF vars
<1> QED
    BY <1>1, <1>2, <1>3, <1>4, <1>5, <1>7, <1>8, <1>9, <1>10, <1>11, <1>12
       DEF Next, Steps

-----------------------------------------------------------------------------
(* Memory and file *)

\* A step leaves the file of a bridge, or writes all of its memory.
LEMMA StepKept ==
    ASSUME TypeOK, [Next]_vars, NEW c \in Bridges
    PROVE  kept'[c] = kept[c] \/ kept'[c] = Memory(c)'
<1>1. ASSUME NEW b \in Bridges, Update(b) \/ Exchange(b) \/ Receive(b)
      PROVE  kept'[c] = kept[c] \/ kept'[c] = Memory(c)'
  <2>1. kept' \in {kept, [kept EXCEPT ![b] = Memory(b)']}
      BY <1>1 DEF Update, Exchange, Sent, Receive, Persists, PersistFails
  <2> QED
      BY <2>1 DEF TypeOK
<1>2. ASSUME NEW b \in Bridges, Steps(b), ~Update(b), ~Exchange(b), ~Receive(b)
      PROVE  kept' = kept
    BY <1>2 DEF Steps, GiveUp, Crash, ReceiveNothing, RejectPeer, RejectEnvelope
<1>3. CASE (\E q \in requests : Serve(q) \/ Refuse(q)) \/ Expire \/ UNCHANGED vars
    BY <1>3 DEF Serve, Refuse, Expire, vars
<1> QED
    BY <1>1, <1>2, <1>3 DEF Next

\* A bridge's memory moves on, or becomes what the file holds.
LEMMA StepMemory ==
    ASSUME TypeOK, [Next]_vars, NEW c \in Bridges
    PROVE  Onward(Memory(c), Memory(c)') \/ Memory(c)' = kept[c]
<1> USE DEF TypeOK, Memory, Onward
<1>1. ASSUME NEW b \in Bridges, Update(b) \/ Exchange(b) PROVE Onward(Memory(c), Memory(c)')
    BY <1>1 DEF Update, Exchange
<1>2. ASSUME NEW b \in Bridges, GiveUp(b) \/ ReceiveNothing(b) \/ RejectPeer(b)
      PROVE  Onward(Memory(c), Memory(c)')
    BY <1>2 DEF GiveUp, ReceiveNothing, RejectPeer, Receiving, state
<1>3. ASSUME NEW b \in Bridges, RejectEnvelope(b) PROVE Onward(Memory(c), Memory(c)')
    BY <1>3 DEF RejectEnvelope, Receiving, Pin
<1>4. ASSUME NEW b \in Bridges, Receive(b) PROVE Onward(Memory(c), Memory(c)')
  <2>1. seen[c] <= seen'[c]
    <3>1. answer[b].envelope # None => answer[b].envelope.sequence \in Nat
        BY <1>4, AnswerType DEF Receive, Receiving, Envelope
    <3> QED
        BY <1>4, <3>1 DEF Receive, Newer
  <2>2. public[c] # None => public'[c] = public[c]
      BY <1>4 DEF Receive, Pin
  <2>3. sequence[c] <= sequence'[c] /\ local[c] <= local'[c]
      BY <1>4 DEF Receive, Receiving, Pin
  <2> QED
      BY <2>1, <2>2, <2>3
<1>5. ASSUME NEW b \in Bridges, Crash(b)
      PROVE  Onward(Memory(c), Memory(c)') \/ Memory(c)' = kept[c]
  <2>1. CASE b = c
    <3>1. kept[c] \in State
        OBVIOUS
    <3> QED
        BY <1>5, <2>1, <3>1 DEF Crash, State
  <2>2. CASE b # c
      BY <1>5, <2>2 DEF Crash
  <2> QED
      BY <2>1, <2>2
<1>6. ASSUME NEW q \in requests, Serve(q) \/ Refuse(q) PROVE Onward(Memory(c), Memory(c)')
    BY <1>6 DEF Serve, Refuse, state
<1>7. CASE Expire \/ UNCHANGED vars
    BY <1>7 DEF Expire, vars, state
<1> QED
    BY <1>1, <1>2, <1>3, <1>4, <1>5, <1>6, <1>7 DEF Next, Steps

LEMMA OnwardTransitive ==
    ASSUME NEW s \in State, NEW m \in State, NEW n \in State, Onward(s, m), Onward(m, n)
    PROVE  Onward(s, n)
BY DEF Onward, State

\* What is on disk is not taken back.
LEMMA StepOnward ==
    ASSUME IInv, [Next]_vars, NEW b \in Bridges
    PROVE  Onward(kept[b], kept'[b]) /\ Onward(kept'[b], Memory(b)')
<1>1. TypeOK /\ TypeOK' /\ Onward(kept[b], Memory(b))
    BY StepType DEF IInv, PeerInv
<1>2. Memory(b) \in State /\ kept[b] \in State
    BY <1>1, StateType
<1>3. Memory(b)' \in State
    BY <1>1 DEF TypeOK, State, Memory
<1>4. \A s \in State : Onward(s, s)
    BY DEF Onward, State
<1>5. Onward(kept[b], Memory(b)')
    BY <1>1, <1>2, <1>3, <1>4, StepMemory, OnwardTransitive
<1> QED
    BY <1>1, <1>2, <1>3, <1>4, <1>5, StepKept

\* What a bridge takes in, or still holds, is sound.
LEMMA StepSound ==
    ASSUME IInv, [Next]_vars, NEW c \in Bridges
    PROVE  Sound(Memory(c)')
<1>1. TypeOK /\ Sound(Memory(c)) /\ Sound(kept[c])
    BY DEF IInv, PeerInv
<1> USE <1>1 DEF TypeOK, Memory, Sound
<1>2. ASSUME NEW b \in Bridges, Update(b) \/ Exchange(b) PROVE Sound(Memory(c)')
    BY <1>2 DEF Update, Exchange
<1>3. ASSUME NEW b \in Bridges, GiveUp(b) \/ ReceiveNothing(b) \/ RejectPeer(b)
      PROVE  Sound(Memory(c)')
    BY <1>3 DEF GiveUp, ReceiveNothing, RejectPeer, Receiving, state
<1>4. ASSUME NEW b \in Bridges, RejectEnvelope(b) PROVE Sound(Memory(c)')
    BY <1>4 DEF RejectEnvelope, Receiving, Pin
<1>5. ASSUME NEW b \in Bridges, Receive(b) PROVE Sound(Memory(c)')
  <2> DEFINE e == answer[b].envelope
  <2>1. e # None => e \in InTransit
      BY <1>5 DEF Receive, Receiving, InTransit
  <2>2. e # None => e.sequence > 0 /\ e.sequence \in Nat /\ e.val \in Nat
      BY <2>1 DEF IInv, SealedInv, Sealings, Envelope
  <2> QED
      BY <1>5, <2>2 DEF Receive, Receiving, Pin, Newer
<1>6. ASSUME NEW b \in Bridges, Crash(b) PROVE Sound(Memory(c)')
    BY <1>6 DEF Crash
<1>7. ASSUME NEW q \in requests, Serve(q) \/ Refuse(q) PROVE Sound(Memory(c)')
    BY <1>7 DEF Serve, Refuse, state
<1>8. CASE Expire \/ UNCHANGED vars
    BY <1>8 DEF Expire, vars, state
<1> QED
    BY <1>2, <1>3, <1>4, <1>5, <1>6, <1>7, <1>8 DEF Next, Steps

\* Without a failed write memory is what the file holds, but for a pin that no
\* write has followed yet.
LEMMA StepMemoryIsKept == IInv /\ [Next]_vars => MemoryIsKept'
<1> SUFFICES ASSUME IInv, [Next]_vars, failures' = 0, NEW c \in Bridges, kept'[c].public # None
             PROVE  kept'[c] = Memory(c)'
    BY DEF MemoryIsKept
<1>1. TypeOK /\ MemoryIsKept
    BY DEF IInv, PeerInv
<1>2. ASSUME NEW b \in Bridges, Update(b) \/ Exchange(b) \/ Receive(b)
      PROVE  kept'[c] = Memory(c)'
  <2>1. Persists(b) /\ failures = 0
      BY <1>1, <1>2 DEF Update, Exchange, Sent, Receive, PersistFails, Persists, TypeOK
  <2>2. kept' = [kept EXCEPT ![b] = Memory(b)']
      BY <2>1 DEF Persists
  <2>3. CASE b = c
      BY <1>1, <2>2, <2>3 DEF TypeOK
  <2>4. CASE b # c
    <3>1. kept'[c] = kept[c]
        BY <1>1, <2>2, <2>4 DEF TypeOK
    <3>2. Memory(c)' = Memory(c)
        BY <1>1, <1>2, <2>4 DEF Update, Exchange, Receive, Receiving, Pin, Memory, TypeOK
    <3> QED
        BY <1>1, <2>1, <3>1, <3>2 DEF MemoryIsKept
  <2> QED
      BY <2>3, <2>4
<1>3. ASSUME kept' = kept, failures' = failures, Memory(c)' = Memory(c)
      PROVE  kept'[c] = Memory(c)'
    BY <1>1, <1>3 DEF MemoryIsKept
<1>4. ASSUME NEW b \in Bridges, GiveUp(b) \/ ReceiveNothing(b) \/ RejectPeer(b)
      PROVE  kept'[c] = Memory(c)'
    BY <1>3, <1>4 DEF GiveUp, ReceiveNothing, RejectPeer, Receiving, Memory, state
<1>5. ASSUME NEW b \in Bridges, RejectEnvelope(b) PROVE kept'[c] = Memory(c)'
  <2>1. kept' = kept /\ failures' = failures
      BY <1>5 DEF RejectEnvelope
  <2>2. kept[c] = Memory(c)
      BY <1>1, <2>1 DEF MemoryIsKept
  <2>3. public[c] # None
      BY <2>1, <2>2 DEF Memory
  <2>4. Memory(c)' = Memory(c)
      BY <1>1, <1>5, <2>3 DEF RejectEnvelope, Receiving, Pin, Memory, TypeOK
  <2> QED
      BY <1>3, <2>1, <2>4
<1>6. ASSUME NEW b \in Bridges, Crash(b) PROVE kept'[c] = Memory(c)'
  <2>1. kept' = kept /\ failures = 0 /\ kept[c] = Memory(c)
      BY <1>1, <1>6 DEF Crash, MemoryIsKept
  <2>2. Memory(c)' = Memory(c)
      BY <1>1, <1>6, <2>1 DEF Crash, Memory, TypeOK
  <2> QED
      BY <2>1, <2>2
<1>7. ASSUME NEW q \in requests, Serve(q) \/ Refuse(q) PROVE kept'[c] = Memory(c)'
    BY <1>3, <1>7 DEF Serve, Refuse, Memory, state
<1>8. CASE Expire \/ UNCHANGED vars
    BY <1>3, <1>8 DEF Expire, vars, Memory, state
<1> QED
    BY <1>2, <1>4, <1>5, <1>6, <1>7, <1>8 DEF Next, Steps

\* The peers' part is preserved.
LEMMA StepPeer == IInv /\ [Next]_vars => PeerInv'
<1> SUFFICES ASSUME IInv, [Next]_vars PROVE PeerInv'
    OBVIOUS
<1>1. ASSUME NEW b \in Bridges
      PROVE  (Sound(Memory(b)) /\ Sound(kept[b]) /\ Onward(kept[b], Memory(b)))'
  <2>1. Sound(Memory(b)') /\ Sound(kept[b])
      BY StepSound DEF IInv, PeerInv
  <2>2. kept'[b] = kept[b] \/ kept'[b] = Memory(b)'
      BY StepKept DEF IInv
  <2>3. Sound(kept'[b])
      BY <2>1, <2>2
  <2> QED
      BY <2>1, <2>3, StepOnward DEF Sound, Onward, Memory
<1> QED
    BY <1>1, StepMemoryIsKept DEF PeerInv

-----------------------------------------------------------------------------
(* Sealed envelopes *)

\* A sealing has the fields of an envelope.
LEMMA SealingFields ==
    ASSUME IInv, NEW e \in Sealings
    PROVE  /\ e.by \in Bridges /\ e.to \in Bridges
           /\ e.sequence \in Nat /\ e.val \in Nat
BY DEF IInv, SealedInv, Envelope

\* What a bridge holds in memory it held before, read from its file, or takes
\* from an envelope.
LEMMA StepLast ==
    ASSUME IInv, [Next]_vars, NEW c \in Bridges, seen'[c] > 0
    PROVE  Last(c, Memory(c)') \in Sealings
<1>1. TypeOK /\ Sound(Memory(c))
    BY DEF IInv, PeerInv
<1>2. CASE Memory(c)' = kept[c]
  <2>1. kept[c].seen > 0
      BY <1>2 DEF Memory
  <2> QED
      BY <1>2, <2>1 DEF Sealings
<1>3. CASE Onward(Memory(c), Memory(c)') /\ UNCHANGED <<seen[c], remote[c]>>
  <2>1. public[c] # None
      BY <1>1, <1>3 DEF Sound, Memory
  <2>2. public'[c] = public[c]
      BY <1>3, <2>1 DEF Onward, Memory
  <2>3. Last(c, Memory(c)') = Last(c, Memory(c))
      BY <1>3, <2>2 DEF Last, Memory
  <2> QED
      BY <1>3, <2>3 DEF Sealings
<1>4. CASE Memory(c)' # kept[c] /\ ~ UNCHANGED <<seen[c], remote[c]>>
  <2>1. ~Crash(c)
    <3>1. kept[c] \in State
        BY <1>1 DEF TypeOK
    <3> QED
        BY <1>1, <1>4, <3>1 DEF Crash, Memory, TypeOK, State
  <2>2. PICK b \in Bridges : Receive(b)
    <3>1. \A b \in Bridges : Crash(b) => UNCHANGED <<seen[c], remote[c]>>
        BY <1>1, <2>1 DEF Crash, TypeOK
    <3> QED
        BY <1>4, <3>1 DEF Next, Steps, Update, Exchange, GiveUp, ReceiveNothing,
              RejectPeer, RejectEnvelope, Serve, Refuse, Expire, vars, state
  <2> DEFINE f == answer[b].envelope
  <2>3. b = c /\ f # None /\ seen'[c] = f.sequence /\ remote'[c] = f.val
      BY <1>1, <1>4, <2>2 DEF Receive, Newer, TypeOK
  <2>4. f \in InTransit
      BY <2>2, <2>3 DEF Receive, Receiving, InTransit
  <2>5. f \in Envelope
      BY <2>4 DEF IInv, SealedInv, Sealings
  <2>6. f.to = c /\ f.by = public'[c]
      BY <1>1, <2>2, <2>3 DEF Receive, Pin, Opens, TypeOK
  <2>7. f = Last(c, Memory(c)')
      BY <2>3, <2>5, <2>6 DEF Envelope, Last, Memory
  <2> QED
      BY <2>4, <2>7 DEF Sealings
<1> QED
    BY <1>1, <1>2, <1>3, <1>4, StepMemory

\* The same for its file.
LEMMA StepLastKept ==
    ASSUME IInv, [Next]_vars, NEW c \in Bridges, kept'[c].seen > 0
    PROVE  Last(c, kept'[c]) \in Sealings
<1>1. CASE kept'[c] = kept[c]
    BY <1>1 DEF Sealings
<1>2. CASE kept'[c] = Memory(c)'
    BY <1>2, StepLast DEF Memory
<1> QED
    BY <1>1, <1>2, StepKept DEF IInv

\* No step but an exchange puts a new envelope into the world.
LEMMA StepSealings ==
    ASSUME IInv, [Next]_vars, \A b \in Bridges : ~Exchange(b)
    PROVE  Sealings' \subseteq Sealings
<1> SUFFICES ASSUME NEW e \in Sealings' PROVE e \in Sealings
    OBVIOUS
<1> USE DEF IInv, TypeOK
<1>1. CASE \E c \in Bridges : \/ seen'[c] > 0 /\ e = Last(c, Memory(c)')
                              \/ kept'[c].seen > 0 /\ e = Last(c, kept'[c])
    BY <1>1, StepLast, StepLastKept
<1>2. CASE e \in InTransit'
  <2> SUFFICES e \in InTransit
      BY DEF Sealings
  <2>1. /\ e # None
        /\ \/ \E q \in requests' : e = q.envelope
           \/ \E r \in Seats : slots'[r] # None /\ e = slots'[r].envelope
           \/ \E b \in Bridges : answer'[b] # None /\ e = answer'[b].envelope
      BY <1>2 DEF InTransit
  <2>2. ASSUME requests' \subseteq requests,
               \A r \in Seats : slots'[r] \in {slots[r], None},
               \A b \in Bridges : answer'[b] \in {answer[b], None}
        PROVE  e \in InTransit
      BY <2>1, <2>2 DEF InTransit
  <2>3. CASE \E b \in Bridges : Update(b) \/ GiveUp(b) \/ Crash(b) \/ ReceiveNothing(b)
                \/ RejectPeer(b) \/ RejectEnvelope(b) \/ Receive(b)
      BY <2>2, <2>3 DEF Update, GiveUp, Crash, ReceiveNothing, RejectPeer,
            RejectEnvelope, Receive, Receiving, state
  <2>4. CASE \E q \in requests : Refuse(q)
      BY <2>2, <2>4 DEF Refuse
  <2>5. CASE Expire \/ UNCHANGED vars
      BY <2>2, <2>5 DEF Expire, vars
  <2>6. ASSUME NEW q \in requests, Serve(q) PROVE e \in InTransit
    <3>1. requests' \subseteq requests
        BY <2>6 DEF Serve
    <3>2. ASSUME NEW r \in Seats, slots'[r] # None, e = slots'[r].envelope
          PROVE  e = q.envelope \/ (slots[r] # None /\ e = slots[r].envelope)
        BY <2>6, <3>2 DEF Serve
    <3>3. ASSUME NEW b \in Bridges, answer'[b] # None, e = answer'[b].envelope
          PROVE  \/ answer[b] # None /\ e = answer[b].envelope
                 \/ e = None
                 \/ \E r \in Seats : slots[r] # None /\ e = slots[r].envelope
      <4>1. q.from \in Bridges
          BY DEF Request
      <4>2. PeerSeat[Role[q.from]] \in Seats
          BY <4>1 DEF PeerSeat
      <4> QED
          BY <2>6, <3>3, <4>1, <4>2 DEF Serve, Nothing
    <3> QED
        BY <2>1, <3>1, <3>2, <3>3 DEF InTransit
  <2> QED
      BY <2>3, <2>4, <2>5, <2>6 DEF Next, Steps
<1> QED
    BY <1>1, <1>2 DEF Sealings

\* An envelope sealed now is the latest of its sealer in both respects.
LEMMA StepSealed == IInv /\ [Next]_vars => SealedInv'
<1> SUFFICES ASSUME IInv, [Next]_vars PROVE SealedInv'
    OBVIOUS
<1>0. TypeOK /\ TypeOK'
    BY StepType DEF IInv
<1>1. ASSUME NEW e \in Sealings
      PROVE  /\ e \in Envelope /\ e.to = kept'[e.by].public
             /\ 0 < e.sequence /\ e.sequence <= kept'[e.by].sequence
             /\ e.val <= kept'[e.by].local
  <2>1. /\ e \in Envelope /\ e.to = kept[e.by].public /\ 0 < e.sequence
        /\ e.sequence <= kept[e.by].sequence /\ e.val <= kept[e.by].local
      BY DEF IInv, SealedInv
  <2>2. /\ e.by \in Bridges /\ e.to \in Bridges /\ e.sequence \in Nat /\ e.val \in Nat
      BY SealingFields
  <2>3. kept[e.by] \in State /\ kept'[e.by] \in State
      BY <1>0, <2>2 DEF TypeOK
  <2>4. Onward(kept[e.by], kept'[e.by])
      BY <2>2, StepOnward
  <2> QED
      BY <2>1, <2>2, <2>3, <2>4 DEF Onward, State
<1>2. ASSUME NEW e \in Sealings, NEW f \in Sealings,
             e.by = f.by, e.sequence <= f.sequence
      PROVE  e.val <= f.val
    BY <1>2 DEF IInv, SealedInv
<1>3. CASE \A b \in Bridges : ~Exchange(b)
  <2>1. Sealings' \subseteq Sealings
      BY <1>3, StepSealings
  <2> QED
      BY <2>1, <1>1, <1>2 DEF SealedInv
<1>4. ASSUME NEW b \in Bridges, Exchange(b) PROVE SealedInv'
  <2> DEFINE n == sequence[b] + 1
             new == Sealed(b, n)
  <2>1. /\ UNCHANGED <<public, local, answer, slots>>
        /\ sequence' = [sequence EXCEPT ![b] = n]
        /\ \/ requests' = requests
           \/ /\ requests' = requests \cup {[from |-> b, sequence |-> n, envelope |-> new]}
              /\ kept' = [kept EXCEPT ![b] = Memory(b)']
      BY <1>4 DEF Exchange, Sent, Send, Persists
  <2>2. ASSUME NEW e \in Sealings', e \notin Sealings
        PROVE  e = new /\ public[b] # None /\ kept' = [kept EXCEPT ![b] = Memory(b)']
    <3>1. e \in InTransit'
        BY <2>2, StepLast, StepLastKept DEF Sealings
    <3>2. e \notin InTransit
        BY <2>2 DEF Sealings
    <3>3. e = new /\ e # None /\ kept' = [kept EXCEPT ![b] = Memory(b)']
        BY <2>1, <3>1, <3>2 DEF InTransit
    <3> QED
        BY <3>3 DEF Sealed
  <2>3. ASSUME public[b] # None, kept' = [kept EXCEPT ![b] = Memory(b)']
        PROVE  /\ new \in Envelope /\ new.by = b /\ new.to = kept'[b].public
               /\ new.sequence = n /\ new.val = local[b]
               /\ kept'[b].sequence = n /\ n \in Nat /\ 0 < n /\ kept'[b].local = local[b]
    <3>1. kept'[b] = Memory(b)'
        BY <1>0, <2>3 DEF TypeOK
    <3>2. kept'[b].public = public[b] /\ kept'[b].sequence = n /\ kept'[b].local = local[b]
        BY <1>0, <2>1, <3>1 DEF Memory, TypeOK
    <3> QED
        BY <1>0, <2>3, <3>2 DEF Sealed, Envelope, TypeOK
  <2>4. ASSUME NEW e \in Sealings, e.by = b
        PROVE  e.sequence < n /\ e.val <= local[b]
    <3>1. e.sequence <= kept[b].sequence /\ e.val <= kept[b].local
        BY <2>4 DEF IInv, SealedInv
    <3>2. kept[b].sequence <= sequence[b] /\ kept[b].local <= local[b]
        BY DEF IInv, PeerInv, Onward, Memory
    <3> QED
        BY <1>0, <3>1, <3>2, SealingFields, StateType DEF TypeOK
  <2>5. \A e \in Sealings' :
           /\ e \in Envelope /\ e.to = kept'[e.by].public
           /\ 0 < e.sequence /\ e.sequence <= kept'[e.by].sequence
           /\ e.val <= kept'[e.by].local
    <3> SUFFICES ASSUME NEW e \in Sealings', e \notin Sealings
                 PROVE  /\ e \in Envelope /\ e.to = kept'[e.by].public
                        /\ 0 < e.sequence /\ e.sequence <= kept'[e.by].sequence
                        /\ e.val <= kept'[e.by].local
        BY <1>1
    <3>1. local[b] \in Nat
        BY <1>0 DEF TypeOK
    <3> QED
        BY <2>2, <2>3, <3>1
  <2>6. \A e, f \in Sealings' : e.by = f.by /\ e.sequence <= f.sequence => e.val <= f.val
    <3> SUFFICES ASSUME NEW e \in Sealings', NEW f \in Sealings',
                        e.by = f.by, e.sequence <= f.sequence
                 PROVE  e.val <= f.val
        OBVIOUS
    <3>0. local[b] \in Nat /\ n \in Nat
        BY <1>0 DEF TypeOK
    <3>1. CASE e \in Sealings /\ f \in Sealings
        BY <3>1, <1>2
    <3>2. CASE f \notin Sealings
        BY <3>0, <3>2, <2>2, <2>3, <2>4
    <3>3. CASE e \notin Sealings /\ f \in Sealings
      <4>1. e.sequence = n /\ f.by = b
          BY <3>3, <2>2, <2>3
      <4>2. f.sequence < n /\ f.sequence \in Nat
          BY <3>3, <4>1, <2>4, SealingFields
      <4> QED
          BY <3>0, <4>1, <4>2
    <3> QED
        BY <3>1, <3>2, <3>3
  <2> QED
      BY <2>5, <2>6 DEF SealedInv
<1> QED
    BY <1>3, <1>4

\* TypeOK, SealedInv and PeerInv hold in every reachable state, for any set of
\* bridges and any bounds on requests, crashes and relay restarts.
THEOREM Inductive == Spec => []IInv
<1>1. IInv /\ [Next]_vars => IInv'
    BY StepType, StepSealed, StepPeer DEF IInv
<1> QED
    BY InitInv, <1>1, PTL DEF Spec

\* Types are right in every reachable state.
THEOREM TypeCorrect == Spec => []TypeOK
<1>1. IInv => TypeOK
    BY DEF IInv
<1> QED
    BY Inductive, <1>1, PTL

\* A bridge that holds a peer's value is the bridge that peer is pinned to, in its
\* memory and in its file, and the file has the value.
LEMMA HeldFromInv == IInv => HeldIsKept
<1> SUFFICES ASSUME IInv, NEW b \in Bridges, seen[b] > 0
             PROVE  /\ public[b] # None
                    /\ public[public[b]] = b /\ kept[public[b]].public = b
                    /\ remote[b] <= kept[public[b]].local
    BY DEF HeldIsKept
<1>1. public[b] # None
  <2>1. Sound(Memory(b))
      BY DEF IInv, PeerInv
  <2> QED
      BY <2>1 DEF Sound, Memory
<1>2. public[b] \in Bridges
    BY <1>1 DEF IInv, TypeOK
<1>3. Last(b, Memory(b)) \in Sealings
    BY DEF Sealings
<1>4. Last(b, Memory(b)).by = public[b] /\ Last(b, Memory(b)).to = b
      /\ Last(b, Memory(b)).val = remote[b]
    BY DEF Last, Memory
<1>5. kept[public[b]].public = b /\ remote[b] <= kept[public[b]].local
    BY <1>3, <1>4 DEF IInv, SealedInv
<1>6. public[public[b]] = b
  <2>1. Onward(kept[public[b]], Memory(public[b]))
      BY <1>2 DEF IInv, PeerInv
  <2>2. b # None
      BY DEF PeerAssumption
  <2> QED
      BY <1>5, <2>1, <2>2 DEF Onward, Memory
<1> QED
    BY <1>1, <1>5, <1>6

\* No bridge ever acts on a value that was meant for another bridge, or that the
\* peer can still forget.
THEOREM Held == Spec => []HeldIsKept
BY Inductive, HeldFromInv, PTL

\* Where no write of peer.json fails, a bridge that pinned its peer on disk decides
\* from what a crash leaves it.
THEOREM Durable == Spec => []MemoryIsKept
<1>1. IInv => MemoryIsKept
    BY DEF IInv, PeerInv
<1> QED
    BY Inductive, <1>1, PTL

-----------------------------------------------------------------------------
(* The refinement of SnapshotLink *)

\* Versions(low, high) are the versions from low to high, in order.
LEMMA VersionsSeq ==
    ASSUME NEW low \in Nat, NEW high \in Nat, low <= high
    PROVE  /\ Versions(low, high) \in Seq(Nat)
           /\ Len(Versions(low, high)) = high - low + 1
           /\ \A i \in 1 .. high - low + 1 : Versions(low, high)[i] = low + i - 1
BY DEF Versions

\* The first part of versions are versions.
LEMMA VersionsPrefix ==
    ASSUME NEW low \in Nat, NEW k \in Nat, NEW high \in Nat, NEW top \in Nat,
           low <= k, k <= high, high <= top
    PROVE  /\ Len(Versions(k, top)) > Len(Versions(low, high)) - (k - low + 1)
           /\ \A i \in k - low + 1 .. Len(Versions(low, high)) :
                 Versions(k, top)[i - (k - low + 1) + 1] = Versions(low, high)[i]
<1>1. low <= high /\ k <= top
    OBVIOUS
<1>2. /\ Len(Versions(low, high)) = high - low + 1
      /\ \A i \in 1 .. high - low + 1 : Versions(low, high)[i] = low + i - 1
    BY <1>1, VersionsSeq
<1>3. /\ Len(Versions(k, top)) = top - k + 1
      /\ \A i \in 1 .. top - k + 1 : Versions(k, top)[i] = k + i - 1
    BY <1>1, VersionsSeq
<1>4. ASSUME NEW i \in k - low + 1 .. high - low + 1
      PROVE  Versions(k, top)[i - (k - low + 1) + 1] = Versions(low, high)[i]
  <2>1. i - (k - low + 1) + 1 \in 1 .. top - k + 1 /\ i \in 1 .. high - low + 1
      OBVIOUS
  <2>2. Versions(k, top)[i - (k - low + 1) + 1] = k + (i - (k - low + 1) + 1) - 1
      BY <1>3, <2>1
  <2>3. Versions(low, high)[i] = low + i - 1
      BY <1>2, <2>1
  <2> QED
      BY <2>2, <2>3
<1> QED
    BY <1>2, <1>3, <1>4

\* What the file of a bridge holds of a peer, that peer has reached on disk.
LEMMA HeldBound ==
    ASSUME IInv, NEW b \in Bridges
    PROVE  /\ HeldOf(b) \in Nat /\ HeldOf(b) <= kept[b].local
           /\ kept[b].local \in Nat /\ kept[b].local \in 0 .. MaxChanges + 1
<1>0. TypeOK /\ kept[b].local \in Nat /\ kept[b].local \in 0 .. MaxChanges + 1
    BY StateType DEF IInv
<1>1. CASE kept[b].public # None /\ kept[kept[b].public].public = b
  <2> DEFINE c == kept[b].public
  <2>1. c \in Bridges /\ HeldOf(b) = kept[c].remote
      BY <1>0, <1>1, StateType DEF HeldOf
  <2>2. Sound(kept[c]) /\ kept[c].remote \in Nat /\ kept[c].seen \in Nat
      BY <1>0, <2>1, StateType DEF IInv, PeerInv
  <2>3. CASE kept[c].seen > 0
    <3>1. Last(c, kept[c]) \in Sealings
        BY <2>1, <2>3 DEF Sealings
    <3>2. Last(c, kept[c]).by = b /\ Last(c, kept[c]).val = kept[c].remote
        BY <1>1 DEF Last
    <3>3. kept[c].remote <= kept[b].local
        BY <3>1, <3>2 DEF IInv, SealedInv
    <3> QED
        BY <1>0, <2>1, <2>2, <3>3
  <2>4. CASE kept[c].seen = 0
      BY <1>0, <2>1, <2>2, <2>4 DEF Sound
  <2> QED
      BY <2>2, <2>3, <2>4
<1>2. CASE ~(kept[b].public # None /\ kept[kept[b].public].public = b)
    BY <1>0, <1>2 DEF HeldOf
<1> QED
    BY <1>0, <1>1, <1>2

\* The values that a file takes in from one peer only grow, and are no newer than
\* what the peer has on disk before.
LEMMA StepRemote ==
    ASSUME IInv, [Next]_vars, NEW b \in Bridges, NEW c \in Bridges,
           kept[b].public = c, kept[c].public = b
    PROVE  kept[c].remote <= kept'[c].remote /\ kept'[c].remote <= kept[b].local
<1>1. TypeOK /\ TypeOK' /\ Sound(kept[c]) /\ Onward(kept[c], kept'[c])
    BY StepType, StepOnward DEF IInv, PeerInv
<1>2. /\ kept[c].remote \in Nat /\ kept'[c].remote \in Nat /\ kept[b].local \in Nat
      /\ kept[c].seen \in Nat /\ kept'[c].seen \in Nat
    BY <1>1, StateType DEF TypeOK, State
<1>3. kept'[c].public = b
  <2>1. b # None
      BY DEF PeerAssumption
  <2> QED
      BY <1>1, <2>1 DEF Onward
<1>4. CASE kept'[c].seen > 0
  <2> DEFINE e == Last(c, kept'[c])
  <2>1. e \in Sealings /\ e.by = b /\ e.val = kept'[c].remote /\ e.sequence = kept'[c].seen
      BY <1>3, <1>4, StepLastKept DEF Last
  <2>2. kept'[c].remote <= kept[b].local
      BY <2>1 DEF IInv, SealedInv
  <2>3. CASE kept[c].seen > 0
    <3> DEFINE f == Last(c, kept[c])
    <3>1. f \in Sealings /\ f.by = b /\ f.val = kept[c].remote /\ f.sequence = kept[c].seen
        BY <2>3 DEF Last, Sealings
    <3>2. f.sequence <= e.sequence
        BY <1>1, <2>1, <3>1 DEF Onward
    <3>3. f.val <= e.val
        BY <2>1, <3>1, <3>2 DEF IInv, SealedInv
    <3> QED
        BY <2>1, <2>2, <3>1, <3>3
  <2>4. CASE kept[c].seen = 0
      BY <1>1, <1>2, <2>2, <2>4 DEF Sound
  <2> QED
      BY <1>2, <2>3, <2>4
<1>5. CASE kept'[c].seen = 0
  <2>1. kept[c].seen = 0
      BY <1>1, <1>2, <1>5 DEF Onward
  <2>2. kept[c].remote = 0 /\ Sound(kept'[c])
      BY <1>1, <2>1, StepPeer DEF Sound, PeerInv
  <2> QED
      BY <1>2, <1>5, <2>2 DEF Sound
<1> QED
    BY <1>2, <1>4, <1>5

\* A step moves the peer of b to a later version, which b has reached before.
LEMMA StepHeld ==
    ASSUME IInv, [Next]_vars, NEW b \in Bridges
    PROVE  /\ HeldOf(b)' \in Nat
           /\ HeldOf(b) <= HeldOf(b)' /\ HeldOf(b)' <= kept[b].local
           /\ kept[b].local <= kept'[b].local
           /\ kept'[b].local \in 0 .. MaxChanges + 1
<1>1. TypeOK /\ TypeOK' /\ Onward(kept[b], kept'[b])
    BY StepType, StepOnward DEF IInv
<1>2. kept'[b].local \in 0 .. MaxChanges + 1 /\ kept'[b].public \in Bridges \cup {None}
    BY <1>1 DEF TypeOK, State
<1>3. HeldOf(b) \in Nat /\ HeldOf(b) <= kept[b].local /\ kept[b].local \in Nat
    BY HeldBound
<1>4. kept[b].local <= kept'[b].local
    BY <1>1 DEF Onward
<1>5. HeldOf(b)' \in Nat /\ HeldOf(b) <= HeldOf(b)' /\ HeldOf(b)' <= kept[b].local
  <2>1. CASE kept[b].public # None /\ kept[kept[b].public].public = b
    <3> DEFINE c == kept[b].public
    <3>1. c \in Bridges /\ HeldOf(b) = kept[c].remote /\ kept[c].public = b
        BY <1>1, <2>1, StateType DEF HeldOf
    <3>2. kept'[b].public = c /\ kept'[c].public = b
      <4>1. Onward(kept[c], kept'[c]) /\ b # None
          BY <3>1, StepOnward DEF PeerAssumption
      <4> QED
          BY <1>1, <2>1, <3>1, <4>1 DEF Onward
    <3>3. HeldOf(b)' = kept'[c].remote
        BY <2>1, <3>2 DEF HeldOf
    <3>4. kept'[c].remote \in Nat
        BY <1>1, <3>1 DEF TypeOK, State
    <3> QED
        BY <3>1, <3>3, <3>4, StepRemote
  <2>2. CASE ~(kept[b].public # None /\ kept[kept[b].public].public = b)
    <3>1. HeldOf(b) = 0
        BY <2>2 DEF HeldOf
    <3>2. CASE kept'[b].public # None /\ kept'[kept'[b].public].public = b
      <4> DEFINE c == kept'[b].public
      <4>1. c \in Bridges /\ kept'[c].public = b /\ HeldOf(b)' = kept'[c].remote
          BY <1>2, <3>2 DEF HeldOf
      <4>2. kept'[c].remote \in Nat
          BY <1>1, <4>1 DEF TypeOK, State
      <4>3. CASE kept'[c].remote = 0
          BY <1>3, <3>1, <4>1, <4>3
      <4>4. CASE kept'[c].remote # 0
        <5>1. Sound(kept'[c]) /\ kept'[c].seen \in Nat
            BY <1>1, <4>1, StepPeer DEF PeerInv, TypeOK, State
        <5>2. kept'[c].seen > 0
            BY <4>4, <5>1 DEF Sound
        <5>3. Last(c, kept'[c]) \in Sealings
            BY <4>1, <5>2, StepLastKept
        <5>4. Last(c, kept'[c]).by = b /\ Last(c, kept'[c]).val = kept'[c].remote
            BY <4>1 DEF Last
        <5>5. kept'[c].remote <= kept[b].local
            BY <5>3, <5>4 DEF IInv, SealedInv
        <5> QED
            BY <3>1, <4>1, <4>2, <5>5
      <4> QED
          BY <4>3, <4>4
    <3>3. CASE ~(kept'[b].public # None /\ kept'[kept'[b].public].public = b)
      <4>1. HeldOf(b)' = 0
          BY <3>3 DEF HeldOf
      <4> QED
          BY <1>3, <3>1, <4>1
    <3> QED
        BY <3>2, <3>3
  <2> QED
      BY <2>1, <2>2
<1> QED
    BY <1>2, <1>4, <1>5

\* Every step moves every end of the link, or leaves it.
LEMMA StepLink == IInv /\ [Next]_vars => L!Next
<1> SUFFICES ASSUME IInv, [Next]_vars, NEW b \in Bridges PROVE L!Moves(b)
    BY DEF L!Next
<1> DEFINE low == HeldOf(b)
           high == kept[b].local
           k == HeldOf(b)'
           top == kept'[b].local
           old == Versions(low, high)
           new == Versions(k, top)
<1>1. low \in Nat /\ high \in Nat /\ low <= high
    BY HeldBound
<1>2. k \in Nat /\ low <= k /\ k <= high /\ high <= top /\ top \in 0 .. MaxChanges + 1
    BY StepHeld
<1>3. new \in Seq(0 .. MaxChanges + 1)
  <2>1. MaxChanges \in Nat
      BY DEF PeerAssumption
  <2> HIDE DEF k, top
  <2>2. \A i \in 1 .. top - k + 1 : k + i - 1 \in 0 .. MaxChanges + 1
      BY <1>2, <2>1
  <2> QED
      BY <1>1, <1>2, <2>1, <2>2 DEF Versions
<1> HIDE DEF low, high, k, top
<1>4. top \in Nat
    BY <1>2 DEF PeerAssumption
<1>5. Len(old) = high - low + 1
    BY <1>1, VersionsSeq
<1>6. k - low + 1 \in 1 .. Len(old)
    BY <1>1, <1>2, <1>5
<1>7. /\ Len(new) > Len(old) - (k - low + 1)
      /\ \A i \in k - low + 1 .. Len(old) : new[i - (k - low + 1) + 1] = old[i]
  <2>1. low \in Nat /\ k \in Nat /\ high \in Nat /\ top \in Nat
      BY <1>1, <1>2, <1>4
  <2>2. low <= high /\ k <= top
      BY <1>1, <1>2, <1>4
  <2>3. Len(new) = top - k + 1 /\ \A i \in 1 .. top - k + 1 : new[i] = k + i - 1
      BY <2>1, <2>2, VersionsSeq, Zenon
  <2>4. \A i \in 1 .. high - low + 1 : old[i] = low + i - 1
      BY <2>1, <2>2, VersionsSeq, Zenon
  <2> HIDE DEF old, new
  <2>5. ASSUME NEW i \in k - low + 1 .. Len(old)
        PROVE  new[i - (k - low + 1) + 1] = old[i]
    <3>1. i - (k - low + 1) + 1 \in 1 .. top - k + 1 /\ i \in 1 .. high - low + 1
        BY <1>2, <1>5, <2>1
    <3> QED
        BY <2>1, <2>3, <2>4, <3>1
  <2> QED
      BY <1>2, <1>5, <2>1, <2>3, <2>5
<1>8. \E m \in 1 .. Len(old) :
         /\ Len(new) > Len(old) - m
         /\ \A i \in m .. Len(old) : new[i - m + 1] = old[i]
    BY <1>6, <1>7
<1> USE DEF low, high, k, top
<1> QED
    BY <1>3, <1>8 DEF L!Moves

\* Nothing published, nothing held.
LEMMA InitLink == Init => L!Init
<1> SUFFICES ASSUME Init, NEW b \in Bridges PROVE Versions(HeldOf(b), kept[b].local) = <<0>>
    BY DEF L!Init
<1>1. HeldOf(b) = 0 /\ kept[b].local = 0
    BY DEF Init, Zero, HeldOf, Memory
<1>2. Versions(0, 0) = [i \in 1 .. 1 |-> i - 1]
    BY DEF Versions
<1>3. Versions(0, 0) = <<0>>
    BY <1>2
<1> QED
    BY <1>1, <1>3

\* A bridge's view of its peer only moves forward, through values the peer had.
THEOREM Implements == Spec => ImplementsLink
BY InitLink, StepLink, Inductive, PTL DEF Spec, ImplementsLink, L!Spec
=============================================================================
