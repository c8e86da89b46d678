------------------------------ MODULE PeerRelay ------------------------------
(***************************************************************************)
(* The snapshot exchange between remote bridges: Peer, one per bridge, and *)
(* the relay's handling of one room.  Each bridge posts its current value  *)
(* in a sealed envelope and is answered with the envelope of the bridge in *)
(* the other role; a request whose caller gave up, or died, may still      *)
(* arrive, after newer ones.  The relay forgets everything when it         *)
(* restarts or the room expires.                                           *)
(*                                                                         *)
(* A value is known by its version, the number of changes that led to it.  *)
(* A write of peer.json may fail, and a crash then takes the changes back  *)
(* that memory is ahead of it; no other bridge has seen such a version.    *)
(* Sealing is modelled by what Channel.open can tell: an envelope opens    *)
(* only for the bridge it was sealed for, and only as its sealer's.        *)
(***************************************************************************)
EXTENDS Integers, FiniteSets, Sequences

CONSTANTS
    Bridges,     \* bridge identities (key pairs) configured for the room
    Role,        \* Role[b]: the role a bridge was configured with
    None,
    MaxChanges,  \* bound: versions of a bridge's value
    MaxSequence, \* bound: exchanges a bridge makes
    MaxGiveUps,  \* bound: exchanges that end without an answer
    MaxCrashes,  \* bound: bridge crashes
    MaxFailures, \* bound: writes of peer.json that fail
    MaxExpiries  \* bound: relay restarts and room expiries

Seats == {"first", "second"}

ASSUME PeerAssumption ==
    /\ Role \in [Bridges -> Seats]
    /\ None \notin Bridges
    /\ MaxChanges \in Nat /\ MaxSequence \in Nat
    /\ MaxGiveUps \in Nat /\ MaxCrashes \in Nat /\ MaxFailures \in Nat /\ MaxExpiries \in Nat

VARIABLES
    \* Peer.state
    public,    \* public[b]: the pinned peer
    sequence,  \* sequence[b]: of the last exchange
    seen,      \* seen[b]: sequence of the envelope `remote` came in
    local,     \* local[b]: version of its own value
    remote,    \* remote[b]: version of the peer's value it holds
    kept,      \* kept[b]: peer.json
    \* exchanges
    waiting,   \* waiting[b]: sequence of the exchange without an answer, or 0
    requests,  \* requests on their way to the relay
    answer,    \* answer[b]: the answer on its way to b
    slots,     \* slots[r]: the relay's record of role r
    giveUps, crashes, failures, expiries

state == <<public, sequence, seen, local, remote>>
vars  == <<public, sequence, seen, local, remote, kept, waiting, requests,
           answer, slots, giveUps, crashes, failures, expiries>>
budget == <<giveUps, crashes, expiries>>

Envelope == [by : Bridges, to : Bridges, sequence : Nat, val : Nat]
Request  == [from : Bridges, sequence : Nat, envelope : Envelope \cup {None}]
\* "public" and "envelope": of a request stored in a slot, and of an answer.
Post     == [public : Bridges, envelope : Envelope \cup {None}]
Nothing  == [public |-> None, envelope |-> None]

State == [public : Bridges \cup {None}, sequence : Nat, seen : Nat,
          local : 0 .. MaxChanges + 1, remote : Nat]

TypeOK ==
    /\ public \in [Bridges -> Bridges \cup {None}]
    /\ sequence \in [Bridges -> Nat] /\ seen \in [Bridges -> Nat]
    /\ local \in [Bridges -> 0 .. MaxChanges + 1]
    /\ remote \in [Bridges -> Nat]
    /\ kept \in [Bridges -> State]
    /\ waiting \in [Bridges -> Nat]
    /\ requests \subseteq Request
    /\ answer \in [Bridges -> Post \cup {Nothing, None}]
    /\ slots \in [Seats -> Post \cup {None}]
    /\ giveUps \in 0 .. MaxGiveUps /\ crashes \in 0 .. MaxCrashes
    /\ failures \in 0 .. MaxFailures /\ expiries \in 0 .. MaxExpiries

Zero == [b \in Bridges |-> 0]

\* Peer.state of b.
Memory(b) == [public |-> public[b], sequence |-> sequence[b], seen |-> seen[b],
              local |-> local[b], remote |-> remote[b]]

Init ==
    /\ public = [b \in Bridges |-> None]
    /\ sequence = Zero /\ seen = Zero /\ local = Zero /\ remote = Zero
    /\ kept = [b \in Bridges |-> Memory(b)]
    /\ waiting = Zero
    /\ requests = {}
    /\ answer = [b \in Bridges |-> None]
    /\ slots = [r \in Seats |-> None]
    /\ giveUps = 0 /\ crashes = 0 /\ failures = 0 /\ expiries = 0

-----------------------------------------------------------------------------
(* Peer *)

\* persist() writes all of Peer.state.
Persists(b) ==
    /\ kept' = [kept EXCEPT ![b] = Memory(b)']
    /\ UNCHANGED failures

\* persist() raises: atomic_write failed before or after it replaced the file.
PersistFails(b) ==
    /\ failures < MaxFailures
    /\ failures' = failures + 1
    /\ kept' \in {kept, [kept EXCEPT ![b] = Memory(b)']}

\* Peer.update with a change; memory has it even if it cannot be written.  The
\* bound does not count the change that pinning makes.
Update(b) ==
    /\ local[b] < MaxChanges + (IF public[b] = None THEN 0 ELSE 1)
    /\ local' = [local EXCEPT ![b] = @ + 1]
    /\ UNCHANGED <<public, sequence, seen, remote, waiting, requests, answer,
                   slots, budget>>
    /\ Persists(b) \/ PersistFails(b)

\* There is no envelope before a peer is pinned.
Sealed(b, n) ==
    IF public[b] = None THEN None
    ELSE [by |-> b, to |-> public[b], sequence |-> n, val |-> local[b]]

Send(b, n) == requests' = requests \cup {[from |-> b, sequence |-> n, envelope |-> Sealed(b, n)]}

Sent_SequenceOnly(b, n) ==
    /\ kept' = [kept EXCEPT ![b].sequence = n]
    /\ UNCHANGED failures
    /\ waiting' = [waiting EXCEPT ![b] = n]
    /\ Send(b, n)

\* What is sealed has been persisted before, under the same lock.
Sent(b, n) ==
    /\ Persists(b)
    /\ waiting' = [waiting EXCEPT ![b] = n]
    /\ Send(b, n)

\* exchange() up to the request: the next sequence is persisted, with all that
\* memory has, then the value is sealed with it and posted.
Exchange(b) ==
    LET n == sequence[b] + 1 IN
    /\ waiting[b] = 0
    /\ n <= MaxSequence
    /\ sequence' = [sequence EXCEPT ![b] = n]
    /\ UNCHANGED <<public, seen, local, remote, answer, slots, budget>>
    /\ \/ Sent(b, n)
       \/ PersistFails(b) /\ UNCHANGED <<waiting, requests>>

\* The request times out, or fails, on its way out or back.
GiveUp(b) ==
    /\ waiting[b] # 0
    /\ giveUps < MaxGiveUps
    /\ giveUps' = giveUps + 1
    /\ waiting' = [waiting EXCEPT ![b] = 0]
    /\ answer' = [answer EXCEPT ![b] = None]
    /\ UNCHANGED <<state, kept, requests, slots, crashes, failures, expiries>>

Receiving(b) ==
    /\ waiting[b] # 0
    /\ answer[b] # None
    /\ waiting' = [waiting EXCEPT ![b] = 0]
    /\ answer' = [answer EXCEPT ![b] = None]
    /\ UNCHANGED <<sequence, requests, slots, budget>>

\* No peer in the room yet.
ReceiveNothing(b) ==
    /\ Receiving(b)
    /\ answer[b].public = None
    /\ UNCHANGED <<public, seen, local, remote, kept, failures>>

\* "Peer identity changed": a room is for one pair of bridges.
RejectPeer(b) ==
    /\ Receiving(b)
    /\ public[b] # None
    /\ answer[b].public \notin {None, public[b]}
    /\ UNCHANGED <<public, seen, local, remote, kept, failures>>

\* The first peer to answer is pinned, which makes the channel and changes
\* the local value ("verified"); later answers come from it.
Pin(b) ==
    /\ answer[b].public # None
    /\ public[b] \in {None, answer[b].public}
    /\ public' = [public EXCEPT ![b] = answer[b].public]
    /\ local' = IF public[b] = None THEN [local EXCEPT ![b] = @ + 1] ELSE local

Opens_AnyKey(b, e) == TRUE

\* The key and the associated data of both ends: see Channel.
Opens(b, e) == e.to = b /\ e.by = answer[b].public

\* The channel does not open the envelope: open() raises.  A peer pinned just
\* before is in memory only, until the next write.
RejectEnvelope(b) ==
    LET e == answer[b].envelope IN
    /\ Receiving(b)
    /\ e # None
    /\ ~Opens(b, e)
    /\ Pin(b)
    /\ UNCHANGED <<seen, remote, kept, failures>>

\* A snapshot older than the one held is ignored.
Newer(b, e) == e.sequence > seen[b]

Receive(b) ==
    LET e == answer[b].envelope IN
    /\ Receiving(b)
    /\ Pin(b)
    /\ e # None => Opens(b, e)
    /\ IF e # None /\ Newer(b, e)
       THEN /\ seen' = [seen EXCEPT ![b] = e.sequence]
            /\ remote' = [remote EXCEPT ![b] = e.val]
       ELSE UNCHANGED <<seen, remote>>
    /\ Persists(b) \/ PersistFails(b)

\* The bridge dies and starts again from peer.json.
Crash(b) ==
    /\ crashes < MaxCrashes
    /\ crashes' = crashes + 1
    /\ public' = [public EXCEPT ![b] = kept[b].public]
    /\ sequence' = [sequence EXCEPT ![b] = kept[b].sequence]
    /\ seen' = [seen EXCEPT ![b] = kept[b].seen]
    /\ local' = [local EXCEPT ![b] = kept[b].local]
    /\ remote' = [remote EXCEPT ![b] = kept[b].remote]
    /\ waiting' = [waiting EXCEPT ![b] = 0]
    /\ answer' = [answer EXCEPT ![b] = None]
    /\ UNCHANGED <<kept, requests, slots, giveUps, failures, expiries>>

-----------------------------------------------------------------------------
(* The relay *)

Awaited(q) == waiting[q.from] = q.sequence
PeerSeat == [first |-> "second", second |-> "first"]

\* A role is held by one bridge (key and lease) for as long as the room lives.
Occupied(b) == slots[Role[b]] # None /\ slots[Role[b]].public # b

\* do_POST: the envelope replaces the role's last one, whichever is newer, and
\* the answer is what the other role left.
Serve(q) ==
    /\ q \in requests
    /\ ~Occupied(q.from)
    /\ requests' = requests \ {q}
    /\ slots' = [slots EXCEPT ![Role[q.from]] =
                    [public |-> q.from, envelope |-> q.envelope]]
    /\ LET other == slots[PeerSeat[Role[q.from]]] IN
       IF Awaited(q)
       THEN answer' = [answer EXCEPT ![q.from] = IF other = None THEN Nothing ELSE other]
       ELSE UNCHANGED answer
    /\ UNCHANGED <<state, kept, waiting, budget, failures>>

\* 409 for an occupied role; 503 when the relay has no room for another room.
Refuse(q) ==
    /\ q \in requests
    /\ Occupied(q.from) \/ \A r \in Seats : slots[r] = None
    /\ requests' = requests \ {q}
    /\ waiting' = IF Awaited(q) THEN [waiting EXCEPT ![q.from] = 0] ELSE waiting
    /\ UNCHANGED <<state, kept, answer, slots, budget, failures>>

Expire ==
    /\ expiries < MaxExpiries
    /\ expiries' = expiries + 1
    /\ slots' = [r \in Seats |-> None]
    /\ UNCHANGED <<state, kept, waiting, requests, answer, giveUps, crashes, failures>>

-----------------------------------------------------------------------------

Steps(b) ==
    \/ Update(b) \/ Exchange(b) \/ GiveUp(b) \/ Crash(b)
    \/ ReceiveNothing(b) \/ RejectPeer(b) \/ RejectEnvelope(b) \/ Receive(b)

Next ==
    \/ \E b \in Bridges : Steps(b)
    \/ \E q \in requests : Serve(q) \/ Refuse(q)
    \/ Expire

Spec == Init /\ [][Next]_vars

-----------------------------------------------------------------------------
(* Properties *)

\* A bridge that acts on a peer's value is the one that peer is talking to, and
\* the peer has on disk both that and the value: with a third bridge claiming a
\* role, relay restarts, late requests, failed writes and crashes, no bridge
\* holds a value meant for another one, or one that its peer can forget.
HeldIsKept ==
    \A b \in Bridges : seen[b] > 0 =>
        /\ public[b] # None
        /\ public[public[b]] = b /\ kept[public[b]].public = b
        /\ remote[b] <= kept[public[b]].local

\* What the files of two bridges say of each other is a SnapshotLink: through
\* lost, late and reordered requests, failed writes, crashes and relay restarts,
\* a bridge never goes back to an older value, of its own or of its peer, nor
\* holds one its peer never had.
HeldOf(b) ==
    IF kept[b].public # None /\ kept[kept[b].public].public = b
    THEN kept[kept[b].public].remote ELSE 0
Versions(low, high) == [i \in 1 .. high - low + 1 |-> low + i - 1]

L == INSTANCE SnapshotLink
        WITH Ends <- Bridges, Values <- 0 .. MaxChanges + 1, Initial <- 0,
             log <- [b \in Bridges |-> Versions(HeldOf(b), kept[b].local)]

ImplementsLink == L!Spec

\* While no write fails, a bridge that has pinned its peer on disk has nothing in
\* memory that it could forget.
MemoryIsKept ==
    failures = 0 => \A b \in Bridges : kept[b].public # None => kept[b] = Memory(b)

-----------------------------------------------------------------------------
(* The inductive invariant *)

\* Every envelope b sealed that can still reach a bridge, and those whose content
\* the peer holds, in memory or on disk.
InTransit ==
    ({q.envelope : q \in requests}
        \cup {slots[r].envelope : r \in {x \in Seats : slots[x] # None}}
        \cup {answer[b].envelope : b \in {x \in Bridges : answer[x] # None}}) \ {None}

Last(b, s) == [by |-> s.public, to |-> b, sequence |-> s.seen, val |-> s.remote]

Sealings ==
    InTransit
        \cup {Last(b, Memory(b)) : b \in {x \in Bridges : seen[x] > 0}}
        \cup {Last(b, kept[b]) : b \in {x \in Bridges : kept[x].seen > 0}}

\* An envelope was sealed for the bridge its sealer is pinned to, with a
\* sequence and from a version the sealer has on disk; and a later envelope
\* never holds an earlier version.
SealedInv ==
    /\ \A e \in Sealings :
          /\ e \in Envelope
          /\ e.to = kept[e.by].public
          /\ 0 < e.sequence /\ e.sequence <= kept[e.by].sequence
          /\ e.val <= kept[e.by].local
    /\ \A e, f \in Sealings :
          e.by = f.by /\ e.sequence <= f.sequence => e.val <= f.val

\* What a bridge holds came in an envelope, from the peer it pinned.
Sound(s) ==
    /\ s.seen = 0 => s.remote = 0
    /\ s.seen > 0 => s.public # None
    /\ s.public = None => s.local <= MaxChanges

\* n is what s can become without a crash.
Onward(s, n) ==
    /\ s.public # None => n.public = s.public
    /\ s.sequence <= n.sequence /\ s.seen <= n.seen /\ s.local <= n.local

\* Memory is never behind the file.
PeerInv ==
    /\ \A b \in Bridges :
          Sound(Memory(b)) /\ Sound(kept[b]) /\ Onward(kept[b], Memory(b))
    /\ MemoryIsKept

\* TypeOK and this are inductive; HeldIsKept and the refinement follow.
IInv == TypeOK /\ SealedInv /\ PeerInv
=============================================================================
