------------------------------ MODULE SourcePair ------------------------------
(***************************************************************************)
(* Two 3DS bridges that exchange save records through a room: Service with *)
(* a SourcePairBackend on either side.  Each side publishes a snapshot,    *)
(* its Peer's `local`, and decides from what it holds of the other's,      *)
(* which module PeerRelay shows to be a SnapshotLink.                      *)
(*                                                                         *)
(* A handler holds Service.lock, so a bridge does one at a time; but the   *)
(* sync thread publishes and learns between any two of its steps, and the  *)
(* bridge can die there.  `at` is the step a handler has reached.  The     *)
(* pair is pinned, no offer evolves by trade, and each bridge serves one   *)
(* 3DS, which has one pending trade at a time.                             *)
(***************************************************************************)
EXTENDS Naturals, Sequences

CONSTANTS
    Trades,      \* transaction identifiers of a side
    Compatible,  \* <<offered, incoming>> that Save.replace accepts
    None,
    MaxCrashes,  \* bound: bridge crashes
    MaxCancels,  \* bound: cancellations requested by the players
    MaxLate      \* bound: acknowledgements handled once more

Sides == {"a", "b"}
Other(s) == IF s = "a" THEN "b" ELSE "a"

\* The Pokemon side s selected in its trade t.
Offer(s, t) == <<s, t>>
Offers == Sides \X Trades

\* The pair of two offers, in the order _proposal_id hashes them.
Pair_OwnFirst(s, mine, theirs) == <<mine, theirs>>
Pair(s, mine, theirs) == IF s = "a" THEN <<mine, theirs>> ELSE <<theirs, mine>>
Incoming(s, pair) == IF s = "a" THEN pair[2] ELSE pair[1]

ASSUME PairAssumption ==
    /\ Compatible \subseteq Offers \X Offers
    /\ None \notin Trades \cup Offers \cup (Offers \X Offers)
    /\ MaxCrashes \in Nat /\ MaxCancels \in Nat /\ MaxLate \in Nat

VARIABLES
    st,    \* st[s][t]: "state" of the transaction
    said,  \* said[s][t]: what the message of a cancellation claims
    got,   \* got[s][t]: received.pk3
    log,   \* log[s]: snapshots of s, from the one held by the other side
    at,    \* at[s]: where the handler of s stands, or None
    crashes, cancels, late

vars == <<st, said, got, log, at, crashes, cancels, late>>

Snapshot == [reserved : Trades \cup {None},       \* reserved_id
             offer : Offers \cup {None},          \* local_offer
             proposal : (Offers \X Offers) \cup {None},
             validated : (Offers \X Offers) \cup {None},
             phase : {"waiting", "offering", "released"},
             cancel : BOOLEAN, applied : BOOLEAN]

Blank == [reserved |-> None, offer |-> None, proposal |-> None,
          validated |-> None, phase |-> "waiting", cancel |-> FALSE, applied |-> FALSE]

L == INSTANCE SnapshotLink WITH Ends <- Sides, Values <- Snapshot, Initial <- Blank

Mine(s) == L!Current(s)
Theirs(s) == L!Held(Other(s))

\* Peer.update: nothing happens when nothing changes.
Put(s, snapshot) == IF snapshot = Mine(s) THEN UNCHANGED log ELSE L!Publish(s, snapshot)

States == {"none", "prepared", "running", "uncertain", "cancelled", "received",
           "ready", "applied"}
BLOCKING == {"running", "uncertain", "received"}
Steps == {"evaluate", "match", "release", "store", "confirm", "cancel", "void",
          "acknowledge"}

TypeOK ==
    /\ st \in [Sides -> [Trades -> States]]
    /\ said \in [Sides -> [Trades -> {None, "unreleased", "unsent"}]]
    /\ got \in [Sides -> [Trades -> Offers \cup {None}]]
    /\ log \in [Sides -> Seq(Snapshot) \ {<<>>}]
    /\ at \in [Sides -> [step : Steps, trade : Trades, cancelling : BOOLEAN] \cup {None}]
    /\ crashes \in 0 .. MaxCrashes /\ cancels \in 0 .. MaxCancels /\ late \in 0 .. MaxLate

Init ==
    /\ st = [s \in Sides |-> [t \in Trades |-> "none"]]
    /\ said = [s \in Sides |-> [t \in Trades |-> None]]
    /\ got = [s \in Sides |-> [t \in Trades |-> None]]
    /\ L!Init
    /\ at = [s \in Sides |-> None]
    /\ crashes = 0 /\ cancels = 0 /\ late = 0

Idle(s) == at[s] = None
At(s, step) == at[s] # None /\ at[s].step = step
Goto(s, step) == at' = [at EXCEPT ![s].step = step]
Return(s) == at' = [at EXCEPT ![s] = None]
Enter(s, step, t, cancelling) ==
    at' = [at EXCEPT ![s] = [step |-> step, trade |-> t, cancelling |-> cancelling]]
Record(s, t, state) == st' = [st EXCEPT ![s][t] = state]

-----------------------------------------------------------------------------
(* Service.prepare and Service.start *)

\* The 3DS drops a trade's pending record when the bridge reports it cancelled
\* or answers the acknowledgement, and only then selects again.
Finished(s, t) ==
    \/ st[s][t] \in {"none", "cancelled"}
    \/ st[s][t] = "applied" /\ (Mine(s).reserved = t => Mine(s).applied)

Prepare(s, t) ==
    /\ Idle(s)
    /\ st[s][t] = "none"
    /\ \A u \in Trades : Finished(s, u)
    /\ Record(s, t, "prepared")
    /\ UNCHANGED <<said, got, log, at, crashes, cancels, late>>

Completed_OneSided(s) == Mine(s).applied

\* reserve(): a room in use is free again when both sides have applied.
Completed(s) == Mine(s).applied /\ Theirs(s).applied

\* reserve() and start() publish one after the other; the peer reads no `reserved`,
\* so to it the two snapshots are the same.
Reserve(s, t) ==
    \/ /\ Mine(s).reserved \in {None, t}
       /\ Put(s, [Mine(s) EXCEPT !.reserved = t])
    \/ /\ Mine(s).reserved \notin {None, t}
       /\ Completed(s)
       /\ Put(s, [Blank EXCEPT !.reserved = t])

Start(s, t) ==
    /\ Idle(s)
    /\ st[s][t] = "prepared"
    /\ \A u \in Trades \ {t} : st[s][u] \notin BLOCKING
    /\ Reserve(s, t)
    /\ Record(s, t, "running")
    /\ UNCHANGED <<said, got, at, crashes, cancels, late>>

\* reserve() has cleared the room, and start() has not taken it yet.
Clear(s, t) ==
    /\ Mine(s).reserved \notin {None, t}
    /\ Completed(s)
    /\ Put(s, Blank)

\* The bridge dies before state.json is written: in between, or with the room taken.
StartInterrupted(s, t) ==
    /\ Idle(s)
    /\ st[s][t] = "prepared"
    /\ crashes < MaxCrashes
    /\ crashes' = crashes + 1
    /\ Reserve(s, t) \/ Clear(s, t)
    /\ UNCHANGED <<st, said, got, at, cancels, late>>

-----------------------------------------------------------------------------
(* Service.state and SourcePairBackend.poll *)

\* attach(): the offer is published, whatever the phase was.
Poll(s, t, cancelling) ==
    /\ Idle(s)
    /\ st[s][t] \in {"running", "uncertain"}
    /\ Mine(s).reserved = t
    /\ Mine(s).offer \in {None, Offer(s, t)}
    /\ Put(s, [Mine(s) EXCEPT !.offer = Offer(s, t), !.phase = "offering"])
    /\ Enter(s, "evaluate", t, cancelling)
    /\ UNCHANGED <<st, said, got, crashes, late>>

\* The poll ends with `state` in the record; a cancellation goes on if it may.
Answer(s, state) ==
    /\ Record(s, at[s].trade, state)
    /\ IF at[s].cancelling /\ state \in {"running", "uncertain"}
       THEN Goto(s, "cancel") ELSE Return(s)

Cancelled(s) == Mine(s).cancel \/ Theirs(s).cancel
Accepts(s) == <<Mine(s).offer, Theirs(s).offer>> \in Compatible

SeesCancel(s) ==
    /\ At(s, "evaluate")
    /\ Cancelled(s)
    /\ IF "released" \in {Mine(s).phase, Theirs(s).phase}
       THEN Answer(s, "uncertain") /\ UNCHANGED said
       ELSE /\ Answer(s, "cancelled")
            /\ said' = [said EXCEPT ![s][at[s].trade] = "unreleased"]
    /\ UNCHANGED <<got, log, crashes, cancels, late>>

SeesNoOffer(s) ==
    /\ At(s, "evaluate")
    /\ ~Cancelled(s)
    /\ Theirs(s).offer = None
    /\ Answer(s, "running")
    /\ UNCHANGED <<said, got, log, crashes, cancels, late>>

RejectsOffer(s) ==
    /\ At(s, "evaluate")
    /\ ~Cancelled(s)
    /\ Theirs(s).offer # None
    /\ ~Accepts(s)
    /\ Put(s, [Mine(s) EXCEPT !.validated = None])
    /\ Answer(s, "running")
    /\ UNCHANGED <<said, got, crashes, cancels, late>>

Validates(s) ==
    LET pair == Pair(s, Mine(s).offer, Theirs(s).offer) IN
    /\ At(s, "evaluate")
    /\ ~Cancelled(s)
    /\ Theirs(s).offer # None
    /\ Accepts(s)
    /\ Put(s, [Mine(s) EXCEPT !.proposal = pair, !.validated = pair])
    /\ Goto(s, "match")
    /\ UNCHANGED <<st, said, got, crashes, cancels, late>>

Matched_Alone(s) == TRUE
Matched_AnyPair(s) == Theirs(s).validated # None

\* Both sides validated the same pair of offers.
Matched(s) == Theirs(s).validated = Mine(s).proposal /\ Theirs(s).proposal = Mine(s).proposal

WaitsForPeer(s) ==
    /\ At(s, "match")
    /\ ~Matched(s)
    /\ Answer(s, "running")
    /\ UNCHANGED <<said, got, log, crashes, cancels, late>>

Receives(s) ==
    /\ At(s, "match")
    /\ Matched(s)
    /\ got' = [got EXCEPT ![s][at[s].trade] = Incoming(s, Mine(s).proposal)]
    /\ Goto(s, "release")
    /\ UNCHANGED <<st, said, log, crashes, cancels, late>>

Releases(s) ==
    /\ At(s, "release")
    /\ Put(s, [Mine(s) EXCEPT !.phase = "released"])
    /\ Goto(s, "store")
    /\ UNCHANGED <<st, said, got, crashes, cancels, late>>

Stores(s) ==
    /\ At(s, "store")
    /\ Record(s, at[s].trade, "received")
    /\ Goto(s, "confirm")
    /\ UNCHANGED <<said, got, log, crashes, cancels, late>>

\* state() confirms at once; after a crash the player does.
Confirm(s, t) ==
    /\ Idle(s) \/ (At(s, "confirm") /\ at[s].trade = t)
    /\ st[s][t] = "received"
    /\ Record(s, t, "ready")
    /\ Return(s)
    /\ UNCHANGED <<said, got, log, crashes, cancels, late>>

\* applied(): the record first, then the snapshot.  A request that the 3DS gave
\* up and repeated may be handled when the room has gone on to another trade.
Applied(s, t) ==
    /\ Idle(s)
    /\ st[s][t] \in {"ready", "applied"}
    /\ IF Mine(s).reserved = t /\ ~Mine(s).applied
       THEN UNCHANGED late ELSE late < MaxLate /\ late' = late + 1
    /\ Record(s, t, "applied")
    /\ Enter(s, "acknowledge", t, FALSE)
    /\ UNCHANGED <<said, got, log, crashes, cancels>>

Acknowledges(s) ==
    /\ At(s, "acknowledge")
    /\ Put(s, [Mine(s) EXCEPT !.applied = TRUE])
    /\ Return(s)
    /\ UNCHANGED <<st, said, got, crashes, cancels, late>>

-----------------------------------------------------------------------------
(* remote_action("cancel"): X on the 3DS *)

RequestCancel(s, t) ==
    /\ cancels < MaxCancels
    /\ cancels' = cancels + 1
    /\ \/ Poll(s, t, TRUE)
       \/ /\ Idle(s)
          /\ st[s][t] = "prepared"
          /\ Enter(s, "cancel", t, TRUE)
          /\ UNCHANGED <<st, said, got, log, crashes, late>>

Cancels(s) ==
    /\ At(s, "cancel")
    /\ Put(s, [Mine(s) EXCEPT !.cancel = TRUE])
    /\ Goto(s, "void")
    /\ UNCHANGED <<st, said, got, crashes, cancels, late>>

\* A pair room's snapshot never has a "trade_id", so the record is closed.
Voids(s) ==
    /\ At(s, "void")
    /\ Record(s, at[s].trade, "cancelled")
    /\ said' = [said EXCEPT ![s][at[s].trade] = "unsent"]
    /\ Return(s)
    /\ UNCHANGED <<got, log, crashes, cancels, late>>

-----------------------------------------------------------------------------

\* The sync thread of the other side takes in a later snapshot of s.
Learn(s) == L!Learn(s) /\ UNCHANGED <<st, said, got, at, crashes, cancels, late>>

Crash(s) ==
    /\ ~Idle(s)
    /\ crashes < MaxCrashes
    /\ crashes' = crashes + 1
    /\ Return(s)
    /\ UNCHANGED <<st, said, got, log, cancels, late>>

Handler(s) ==
    \/ SeesCancel(s) \/ SeesNoOffer(s) \/ RejectsOffer(s) \/ Validates(s)
    \/ WaitsForPeer(s) \/ Receives(s) \/ Releases(s) \/ Stores(s)
    \/ Acknowledges(s) \/ Cancels(s) \/ Voids(s)

Next ==
    \E s \in Sides :
        \/ Handler(s) \/ Learn(s) \/ Crash(s)
        \/ \E t \in Trades :
              \/ Prepare(s, t) \/ Start(s, t) \/ StartInterrupted(s, t)
              \/ Poll(s, t, FALSE) /\ UNCHANGED cancels
              \/ Confirm(s, t) \/ Applied(s, t) \/ RequestCancel(s, t)

\* A request in progress ends, the sync thread brings over the current
\* snapshot, and a 3DS that waits for an exchange polls and goes on.
Fairness ==
    \A s \in Sides :
        /\ WF_vars(Handler(s))
        /\ WF_vars(L!LearnAt(s, Len(log[s])) /\ Len(log[s]) > 1
                   /\ UNCHANGED <<st, said, got, at, crashes, cancels, late>>)
        /\ \A t \in Trades :
              /\ WF_vars(Start(s, t)) /\ WF_vars(Confirm(s, t)) /\ WF_vars(Applied(s, t) /\ UNCHANGED late)
              /\ WF_vars(Poll(s, t, FALSE) /\ UNCHANGED cancels)

Spec == Init /\ [][Next]_vars

FairSpec == Spec /\ Fairness

-----------------------------------------------------------------------------
(* Properties *)

Released == {"received", "ready", "applied"}

\* A save is released only if both sides' saves can take the pair: an offer one
\* side cannot import never costs the other side its own.
BothValid ==
    \A s \in Sides, t \in Trades : st[s][t] \in Released =>
        /\ <<Offer(s, t), got[s][t]>> \in Compatible
        /\ <<got[s][t], Offer(s, t)>> \in Compatible

\* Exchanges are paired one to one: a Pokemon released to one trade is released
\* to no other, and a partner that has its own release got this one's offer,
\* also when the room is reused and what a side holds of the other is old.
OneToOne ==
    \A s \in Sides, t \in Trades : st[s][t] \in Released =>
        /\ \A u \in Trades \ {t} : st[s][u] \in Released => got[s][u] # got[s][t]
        /\ \A u \in Trades :
              /\ got[s][t] = Offer(Other(s), u)
              /\ st[Other(s)][u] \in Released
              => got[Other(s)][u] = Offer(s, t)

\* A side clears the room for its next trade only when the other side, too, has
\* applied the exchange: nothing it still needs is lost.
RoomReset ==
    [][\A s \in Sides : LET t == Mine(s).reserved IN
         t # None /\ Mine(s).reserved' # t =>
            /\ st[s][t] = "applied"
            /\ \E u \in Trades : /\ got[s][t] = Offer(Other(s), u)
                                 /\ st[Other(s)][u] = "applied"]_vars

\* applied() marks the room of the moment, whatever trade it acknowledges: what
\* holds is these two, up to the first acknowledgement handled once more.
PairedUntilLate == late = 0 => OneToOne

ResetUntilLate ==
    [][late = 0 => \A s \in Sides : LET t == Mine(s).reserved IN
         t # None /\ Mine(s).reserved' # t =>
            /\ st[s][t] = "applied"
            /\ \E u \in Trades : /\ got[s][t] = Offer(Other(s), u)
                                 /\ st[Other(s)][u] = "applied"]_vars

\* Two started trades whose saves take each other's offers both get their
\* results, through crashes and in a room used before, as long as nobody cancels.
Completes ==
    \A t, u \in Trades :
        /\ st["a"][t] = "running" /\ st["b"][u] = "running"
        /\ {<<Offer("a", t), Offer("b", u)>>, <<Offer("b", u), Offer("a", t)>>} \subseteq Compatible
        ~> \/ cancels > 0
           \/ st["a"][t] \in {"ready", "applied"} /\ st["b"][u] \in {"ready", "applied"}

\* "Cancelled before either save was released.": no side has released a save
\* that takes part in the exchange.
CancelledUnreleased ==
    \A s \in Sides, t \in Trades : said[s][t] = "unreleased" =>
        \A u \in Trades : got[Other(s)][u] = Offer(s, t) => st[Other(s)][u] \notin Released

\* "Cancelled before any offer was sent.": the other side has not got it.
CancelledUnsent ==
    \A s \in Sides, t \in Trades : said[s][t] = "unsent" =>
        \A u \in Trades : got[Other(s)][u] # Offer(s, t)

\* "After both bridges durably record a successful exchange and source-save
\* application, they reuse the same pinned room": then a next trade can start.
Reusable ==
    \A s \in Sides, t, u \in Trades :
        /\ st[s][t] = "applied" /\ st[s][u] = "prepared"
        /\ \E v \in Trades : got[s][t] = Offer(Other(s), v) /\ st[Other(s)][v] = "applied"
        ~> st[s][u] # "prepared"

-----------------------------------------------------------------------------
(* The inductive invariant *)

\* The snapshots in the log, and whether y is x or a later one.
History(s) == {log[s][i] : i \in 1 .. Len(log[s])}
Follows(s, x, y) ==
    \E i \in 1 .. Len(log[s]) : \E j \in i .. Len(log[s]) : x = log[s][i] /\ y = log[s][j]

Polling == {"evaluate", "match", "release", "store"}
Releasing(s, t) == at[s] # None /\ at[s].step \in {"release", "store"} /\ at[s].trade = t

\* A snapshot names its own trade, and a pair whose incoming offer its save takes.
Shape(s, x) ==
    /\ x.reserved = None => x.offer = None
    /\ x.offer \in {None, Offer(s, x.reserved)}
    /\ x.validated \in {None, x.proposal}
    /\ x.proposal # None => \E u \in Trades :
          /\ x.proposal = Pair(s, x.offer, Offer(Other(s), u))
          /\ x.offer # None /\ <<x.offer, Offer(Other(s), u)>> \in Compatible

ShapeInv == \A s \in Sides : \A x \in History(s) : Shape(s, x)

Valid(s, t) ==
    /\ got[s][t] \in Offers
    /\ <<Offer(s, t), got[s][t]>> \in Compatible /\ <<got[s][t], Offer(s, t)>> \in Compatible

\* The published snapshot is what t was released with.
Holds(s, t) ==
    /\ Mine(s).reserved = t /\ Mine(s).offer = Offer(s, t)
    /\ Mine(s).validated = Mine(s).proposal /\ Mine(s).proposal # None
    /\ got[s][t] = Incoming(s, Mine(s).proposal)

\* The step a handler has reached says what it has done.
AtSide(s) ==
    at[s] # None =>
        LET t == at[s].trade IN
        /\ at[s].step \in Polling =>
              /\ st[s][t] \in {"running", "uncertain"}
              /\ Mine(s).reserved = t /\ Mine(s).offer = Offer(s, t)
        /\ at[s].step = "match" =>
              Mine(s).validated = Mine(s).proposal /\ Mine(s).proposal # None
        /\ at[s].step \in {"release", "store"} => Holds(s, t) /\ Valid(s, t)
        /\ at[s].step \in {"cancel", "void"} => st[s][t] \in {"prepared", "running", "uncertain"}
        /\ at[s].step = "acknowledge" => st[s][t] = "applied"

AtInv == \A s \in Sides : AtSide(s)

\* These are inductive, and BothValid is among them.
ValidInv == TypeOK /\ ShapeInv /\ AtInv /\ BothValid

\* If no acknowledgement is handled late: what a snapshot says is in the records.
RecordSide(s) ==
    /\ \A t \in Trades : st[s][t] \in Released /\ Mine(s).reserved = t => Holds(s, t)
    /\ At(s, "acknowledge") => Mine(s).reserved = at[s].trade

RecordInv ==
    \A s \in Sides :
        /\ RecordSide(s)
        /\ \A x \in History(s) :
              x.applied => x.reserved # None /\ st[s][x.reserved] = "applied"

\* A trade that is not applied keeps the room, with its offer.
RoomInv ==
    \A s \in Sides : \A x, y \in History(s) :
        Follows(s, x, y) /\ x.reserved # None /\ st[s][x.reserved] # "applied" =>
            y.reserved = x.reserved /\ (x.offer # None => y.offer = x.offer)

\* A side that validated a pair stays with it until the other has applied.
FaithfulInv ==
    \A s \in Sides, t \in Trades : \A x, y \in History(Other(s)) :
        /\ Follows(Other(s), x, y)
        /\ x.validated # None /\ Incoming(Other(s), x.validated) = Offer(s, t)
        /\ st[s][t] # "applied"
        => /\ Theirs(Other(s)).offer = Offer(s, t)
           /\ y.reserved = x.reserved /\ y.offer = x.offer
           /\ y.proposal = x.proposal /\ y.validated = x.validated

\* Both rooms are still as they were when s released t for u.
Engaged(s, t, u) ==
    /\ \A x \in History(s) : x.reserved = t /\ x.offer = Offer(s, t)
    /\ \A y \in History(Other(s)) :
          /\ y.reserved = u /\ y.offer = Offer(Other(s), u)
          /\ y.proposal = Pair(s, Offer(s, t), Offer(Other(s), u)) /\ y.validated = y.proposal

\* The other side has its result, too.
Settled(s, t, u) == st[Other(s)][u] = "applied" /\ got[Other(s)][u] = Offer(s, t)

PartnerInv ==
    \A s \in Sides, t \in Trades : st[s][t] \in Released \/ Releasing(s, t) =>
        \E u \in Trades : /\ got[s][t] = Offer(Other(s), u)
                          /\ Engaged(s, t, u) \/ Settled(s, t, u)

\* Inductive up to the first late acknowledgement.
IInv == ValidInv /\ late = 0 /\ RecordInv /\ RoomInv /\ FaithfulInv /\ PartnerInv
=============================================================================
