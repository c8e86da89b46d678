------------------------------ MODULE SwitchPair ------------------------------
(***************************************************************************)
(* Two Switch bridges (SwitchPairWorker) in one room, each with its radio  *)
(* thread, its gated trade child and its player.  The player of each side  *)
(* enters Direct Corner twice: the first visit captures a selection and    *)
(* declines it, the second has the peer's captured Pokemon in the          *)
(* simulated party and commits if both players select the same again.      *)
(*                                                                         *)
(*   negotiating -> declining -> negotiated -> executing -> committed      *)
(*        |             |                          |            |          *)
(*        +-------------+------> uncertain <-------+         complete      *)
(*                               (selection-changed on the way)            *)
(*                                                                         *)
(* One thread exchanges snapshots (SnapshotLink, see PeerRelay) and then   *)
(* runs advance(); the radio thread concludes a session with no lock       *)
(* between them: view is what advance() has read and still uses.  A bridge *)
(* can die and start again, its child can outlive it.  The pair is pinned. *)
(***************************************************************************)
EXTENDS Naturals, Sequences

CONSTANTS
    Sides,       \* switch-a and switch-b
    Own,         \* Own[s]: Pokemon the player of s can select
    Evolving,    \* those that evolve by trade
    Bootstrap,   \* the temporary Pokemon of the first visit
    None,
    MaxOffers,   \* bound: MaxOffers[s] revisions are written to gate-offer.json of s
    MaxCrashes   \* bound: crashes of the two bridges

Mons == UNION {Own[s] : s \in Sides}

\* A selection; without a Pokemon it says "cancelled".
Revision == [number : Nat \ {0}, mon : Mons \cup {None}]

\* Who gives what: the hash of both offers in the order of the roles.
Proposal == [Sides -> Mons]

ASSUME PairAssumption ==
    /\ \E x, y \in Sides : x # y /\ Sides = {x, y}
    /\ Own \in [Sides -> SUBSET Mons]
    /\ Evolving \subseteq Mons
    /\ {None, Bootstrap} \cap Mons = {} /\ None # Bootstrap
    /\ None \notin Revision \cup Proposal
    /\ MaxOffers \in [Sides -> Nat] /\ MaxCrashes \in Nat

VARIABLES
    log,       \* log[s]: snapshots of s, from the one held by the other side
    up,        \* up[s]: the bridge of s is running
    view,      \* view[s]: the step advance() goes on with and the offer it read, or None
    radio,     \* radio[s]: the radio thread: none, trading, or what it will conclude
    \* the directory of the session in use
    staged,    \* staged[s]: offered.pk3
    gate,      \* gate[s]: gate-offer.json, the last revision
    decision,  \* decision[s]: gate-decision.json
    receipt,   \* receipt[s]: received.pk3
    \* the trade child and the Switch
    child,     \* child[s]: none, alive, dead
    engine,    \* engine[s]: what the gate inside it holds, and what it was allowed
    offers,    \* offers[s]: revisions used up
    console,   \* console[s]: what the Switch of s gave and got when the trade protocol
               \* committed, or None; whether it then saved, no bridge can see
    visits,    \* visits[s]: children started, for the first and for the second visit
    crashes

bridge == <<up, view, radio>>
files  == <<staged, gate, decision, receipt>>
world  == <<child, engine, offers, console, visits>>
vars   == <<log, up, view, radio, staged, gate, decision, receipt,
            child, engine, offers, console, visits, crashes>>

Snapshot == [negotiation_launched : BOOLEAN, negotiation_finished : BOOLEAN,
             local_offer : Mons \cup {None}, execution_launched : BOOLEAN,
             proposal : Proposal \cup {None}, execution_validated : Proposal \cup {None},
             commit_possible : BOOLEAN, receipt : Mons \cup {None},
             phase : {"none", "negotiating", "declining", "negotiated", "executing",
                      "selection-changed", "committed", "complete", "uncertain"}]

Blank == [negotiation_launched |-> FALSE, negotiation_finished |-> FALSE,
          local_offer |-> None, execution_launched |-> FALSE, proposal |-> None,
          execution_validated |-> None, commit_possible |-> FALSE, receipt |-> None,
          phase |-> "none"]

L == INSTANCE SnapshotLink WITH Ends <- Sides, Values <- Snapshot, Initial <- Blank

\* What advance() does next, and the offer it read.
View == [step : {"capture", "decline", "reject", "changed", "commit", "approve"},
         offer : Revision]

Other(s) == CHOOSE r \in Sides : r # s
Mine(s) == L!Current(s)
Theirs(s) == L!Held(Other(s))

\* Peer.update: nothing happens when nothing changes.
Put(s, snapshot) == IF snapshot = Mine(s) THEN UNCHANGED log ELSE L!Publish(s, snapshot)

\* What the gate in the trade child holds: the player's offer, whether it was
\* allowed, and whether received.pk3 is written.
Gate == [allowed : BOOLEAN, saved : BOOLEAN, offer : Revision \cup {None}]

NoGate == [allowed |-> FALSE, saved |-> FALSE, offer |-> None]

TypeOK ==
    /\ log \in [Sides -> Seq(Snapshot) \ {<<>>}]
    /\ up \in [Sides -> BOOLEAN]
    /\ view \in [Sides -> View \cup {None}]
    /\ radio \in [Sides -> {"none", "trading", "negotiated", "committed", "uncertain"}]
    /\ staged \in [Sides -> Mons \cup {Bootstrap, None}]
    /\ gate \in [Sides -> Revision \cup {None}]
    /\ decision \in [Sides -> [revision : Revision, approve : BOOLEAN] \cup {None}]
    /\ receipt \in [Sides -> Mons \cup {None}]
    /\ child \in [Sides -> {"none", "alive", "dead"}]
    /\ engine \in [Sides -> Gate]
    /\ offers \in [Sides -> Nat] /\ \A s \in Sides : offers[s] <= MaxOffers[s]
    /\ console \in [Sides -> [gave : Mons, got : Mons \cup {Bootstrap}] \cup {None}]
    /\ visits \in [Sides -> [first : Nat, second : Nat]]
    /\ crashes \in 0 .. MaxCrashes

Init ==
    /\ L!Init
    /\ up = [s \in Sides |-> TRUE]
    /\ view = [s \in Sides |-> None]
    /\ radio = [s \in Sides |-> "none"]
    /\ staged = [s \in Sides |-> None]
    /\ gate = [s \in Sides |-> None]
    /\ decision = [s \in Sides |-> None]
    /\ receipt = [s \in Sides |-> None]
    /\ child = [s \in Sides |-> "none"]
    /\ engine = [s \in Sides |-> NoGate]
    /\ offers = [s \in Sides |-> 0]
    /\ console = [s \in Sides |-> None]
    /\ visits = [s \in Sides |-> [first |-> 0, second |-> 0]]
    /\ crashes = 0

-----------------------------------------------------------------------------
(* advance() *)

Idle(s) == up[s] /\ view[s] = None
Active(s) == Idle(s) /\ Mine(s).phase \notin {"uncertain", "complete"}

\* exchange(): only between two calls of advance().
Learn(s) ==
    /\ Idle(Other(s))
    /\ L!Learn(s)
    /\ UNCHANGED <<bridge, files, world, crashes>>

\* _stage, the snapshot on disk, then the radio thread and its child.  A crash
\* before the thread starts leaves the snapshot and no child.
Launch(s, visit, offered, snapshot) ==
    /\ Put(s, snapshot)
    /\ staged' = [staged EXCEPT ![s] = offered]
    /\ gate' = [gate EXCEPT ![s] = None]
    /\ decision' = [decision EXCEPT ![s] = None]
    /\ receipt' = [receipt EXCEPT ![s] = None]
    /\ \/ /\ radio' = [radio EXCEPT ![s] = "trading"]
          /\ child' = [child EXCEPT ![s] = "alive"]
          /\ engine' = [engine EXCEPT ![s] = NoGate]
          /\ visits' = [visits EXCEPT ![s][visit] = @ + 1]
          /\ UNCHANGED <<up, crashes>>
       \/ /\ crashes < MaxCrashes
          /\ crashes' = crashes + 1
          /\ up' = [up EXCEPT ![s] = FALSE]
          /\ radio' = [radio EXCEPT ![s] = "none"]
          /\ UNCHANGED <<child, engine, visits>>
    /\ UNCHANGED <<view, offers, console>>

LaunchNegotiation(s) ==
    /\ Active(s)
    /\ ~Mine(s).negotiation_launched
    /\ Launch(s, "first", Bootstrap,
              [Mine(s) EXCEPT !.negotiation_launched = TRUE, !.phase = "negotiating"])

Negotiated_OffersOnly(s) ==
    /\ Mine(s).negotiation_finished
    /\ Mine(s).local_offer # None /\ Theirs(s).local_offer # None

\* Both first visits are over and captured an offer.
Negotiated(s) ==
    /\ Mine(s).negotiation_finished /\ Theirs(s).negotiation_finished
    /\ Mine(s).local_offer # None /\ Theirs(s).local_offer # None

Agreement(s) == [r \in Sides |-> IF r = s THEN Mine(s).local_offer ELSE Theirs(s).local_offer]

LaunchExecution(s) ==
    /\ Active(s)
    /\ Negotiated(s)
    /\ ~Mine(s).execution_launched
    /\ Launch(s, "second", Theirs(s).local_offer,
              [Mine(s) EXCEPT !.execution_launched = TRUE, !.proposal = Agreement(s),
                              !.phase = "executing"])

\* The session runs, and the player's last selection is on file.
Reads(s, phase) ==
    /\ Active(s)
    /\ radio[s] # "none"
    /\ Mine(s).phase = phase
    /\ gate[s] # None /\ gate[s].mon # None

Go(s, step) == view' = [view EXCEPT ![s] = [step |-> step, offer |-> gate[s]]]
Then(s, step) == view' = [view EXCEPT ![s].step = step]
Return(s) == view' = [view EXCEPT ![s] = None]
At(s, step) == up[s] /\ view[s] # None /\ view[s].step = step

\* An offer that evolves by trade raises, and is looked at again.
SeesOffer(s) ==
    /\ Reads(s, "negotiating")
    /\ gate[s].mon \notin Evolving
    /\ Go(s, "capture")
    /\ UNCHANGED <<log, up, radio, files, world, crashes>>

Capture(s) ==
    /\ At(s, "capture")
    /\ Put(s, [Mine(s) EXCEPT !.local_offer = view[s].offer.mon, !.phase = "declining"])
    /\ Then(s, "decline")
    /\ UNCHANGED <<up, radio, files, world, crashes>>

Decide(s, approve) ==
    decision' = [decision EXCEPT ![s] = [revision |-> view[s].offer, approve |-> approve]]

Decline(s) ==
    /\ At(s, "decline")
    /\ Decide(s, FALSE)
    /\ Return(s)
    /\ UNCHANGED <<log, up, radio, staged, gate, receipt, world, crashes>>

SameSelection(s) == gate[s].mon = Mine(s).local_offer

SeesOther(s) ==
    /\ Reads(s, "executing")
    /\ ~SameSelection(s)
    /\ Go(s, "reject")
    /\ UNCHANGED <<log, up, radio, files, world, crashes>>

Reject(s) ==
    /\ At(s, "reject")
    /\ Decide(s, FALSE)
    /\ Then(s, "changed")
    /\ UNCHANGED <<log, up, radio, staged, gate, receipt, world, crashes>>

Changed(s) ==
    /\ At(s, "changed")
    /\ Put(s, [Mine(s) EXCEPT !.phase = "selection-changed"])
    /\ Return(s)
    /\ UNCHANGED <<up, radio, files, world, crashes>>

MayCommit_Alone(s) == ~Mine(s).commit_possible

\* The peer's player, too, selected the same again; not asked a second time.
MayCommit(s) == Theirs(s).execution_validated = Mine(s).proposal /\ ~Mine(s).commit_possible

\* The commitment also needs a contact of the last 10 seconds.
Validate(s) ==
    /\ Reads(s, "executing")
    /\ SameSelection(s)
    /\ Put(s, [Mine(s) EXCEPT !.execution_validated = Mine(s).proposal])
    /\ \/ MayCommit(s) /\ Go(s, "commit")
       \/ UNCHANGED view
    /\ UNCHANGED <<up, radio, files, world, crashes>>

\* commit_possible is on disk before the child is told.
Commit(s) ==
    /\ At(s, "commit")
    /\ Put(s, [Mine(s) EXCEPT !.commit_possible = TRUE])
    /\ Then(s, "approve")
    /\ UNCHANGED <<up, radio, files, world, crashes>>

Approve(s) ==
    /\ At(s, "approve")
    /\ Decide(s, TRUE)
    /\ Return(s)
    /\ UNCHANGED <<log, up, radio, staged, gate, receipt, world, crashes>>

PeerCommitted_NotYetComplete(s) == Theirs(s).phase = "committed"
PeerCommitted_Assumed(s) == Theirs(s).commit_possible
PeerCommitted(s) == Theirs(s).phase \in {"committed", "complete"}

CanComplete(s) == Active(s) /\ Mine(s).phase = "committed" /\ PeerCommitted(s)

Complete(s) ==
    /\ CanComplete(s)
    /\ Put(s, [Mine(s) EXCEPT !.phase = "complete"])
    /\ UNCHANGED <<bridge, files, world, crashes>>

-----------------------------------------------------------------------------
(* The radio thread after the child's end: _run_negotiation, _run_execution *)

Verdict(s) ==
    IF Mine(s).execution_launched
    THEN IF receipt[s] # None /\ Mine(s).commit_possible /\ receipt[s] = Mine(s).local_offer
         THEN "committed" ELSE "uncertain"
    ELSE IF /\ Mine(s).local_offer # None /\ receipt[s] = None
            /\ decision[s] # None /\ ~decision[s].approve
         THEN "negotiated" ELSE "uncertain"

Judge(s) ==
    /\ up[s] /\ radio[s] = "trading"
    /\ child[s] = "dead"
    /\ radio' = [radio EXCEPT ![s] = Verdict(s)]
    /\ UNCHANGED <<log, up, view, files, world, crashes>>

Conclude(s) ==
    /\ up[s] /\ radio[s] \in {"negotiated", "committed", "uncertain"}
    /\ Put(s, CASE radio[s] = "negotiated" ->
                     [Mine(s) EXCEPT !.negotiation_finished = TRUE, !.phase = "negotiated"]
                [] radio[s] = "committed" ->
                     [Mine(s) EXCEPT !.receipt = receipt[s], !.phase = "committed"]
                [] radio[s] = "uncertain" -> [Mine(s) EXCEPT !.phase = "uncertain"])
    /\ radio' = [radio EXCEPT ![s] = "none"]
    /\ UNCHANGED <<up, view, files, world, crashes>>

-----------------------------------------------------------------------------
(* A bridge stops and starts *)

Crash(s) ==
    /\ up[s]
    /\ crashes < MaxCrashes
    /\ crashes' = crashes + 1
    /\ up' = [up EXCEPT ![s] = FALSE]
    /\ view' = [view EXCEPT ![s] = None]
    /\ radio' = [radio EXCEPT ![s] = "none"]
    /\ \E after \in IF child[s] = "alive" THEN {"alive", "dead"} ELSE {child[s]} :
          child' = [child EXCEPT ![s] = after]
    /\ UNCHANGED <<log, files, engine, offers, console, visits>>

\* __init__: a session was under way.
Interrupted(s) ==
    \/ Mine(s).negotiation_launched /\ ~Mine(s).negotiation_finished
    \/ Mine(s).execution_launched /\ Mine(s).phase \notin {"committed", "complete"}

Restart(s) ==
    /\ ~up[s]
    /\ up' = [up EXCEPT ![s] = TRUE]
    /\ Put(s, IF Interrupted(s) THEN [Mine(s) EXCEPT !.phase = "uncertain"] ELSE Mine(s))
    /\ UNCHANGED <<view, radio, files, world, crashes>>

-----------------------------------------------------------------------------
(* The trade child: remote_gate around the engine, and the Switch player *)

Offerable(s) == child[s] = "alive" /\ ~engine[s].allowed /\ offers[s] < MaxOffers[s]

Offer(s, m) ==
    /\ offers' = [offers EXCEPT ![s] = @ + 1]
    /\ gate' = [gate EXCEPT ![s] = [number |-> offers[s] + 1, mon |-> m]]

\* The player selects, or selects another: a new revision invalidates the last.
Select(s, m) ==
    /\ Offerable(s)
    /\ Offer(s, m)
    /\ engine' = [engine EXCEPT ![s].offer = gate'[s]]
    /\ UNCHANGED <<log, bridge, staged, decision, receipt, child, console, visits, crashes>>

Withdraw(s) ==
    /\ Offerable(s)
    /\ Offer(s, None)
    /\ engine' = [engine EXCEPT ![s].offer = None]
    /\ UNCHANGED <<log, bridge, staged, decision, receipt, child, console, visits, crashes>>

Decided_AnyRevision(s) == decision[s] # None
Decided(s) == decision[s] # None /\ decision[s].revision = engine[s].offer

\* tick(): a decision counts for the revision it names.  One that declines it only
\* makes the engine turn the offer down: the player may select again, or leave.
Tick(s) ==
    /\ child[s] = "alive"
    /\ engine[s].offer # None /\ ~engine[s].allowed
    /\ Decided(s) /\ decision[s].approve
    /\ engine' = [engine EXCEPT ![s].allowed = TRUE]
    /\ UNCHANGED <<log, bridge, files, child, offers, console, visits, crashes>>

\* START_TRADE .. CONFIRM_FINISH_TRADE with the approved offer still selected.
ConsoleTrades(s) ==
    /\ child[s] = "alive"
    /\ engine[s].allowed
    /\ console[s] = None
    /\ console' = [console EXCEPT ![s] = [gave |-> engine[s].offer.mon, got |-> staged[s]]]
    /\ UNCHANGED <<log, bridge, files, child, engine, offers, visits, crashes>>

\* save_received, when the exchange is committed.
WriteReceipt(s) ==
    /\ child[s] = "alive"
    /\ console[s] # None /\ ~engine[s].saved
    /\ receipt' = [receipt EXCEPT ![s] = console[s].gave]
    /\ engine' = [engine EXCEPT ![s].saved = TRUE]
    /\ UNCHANGED <<log, bridge, staged, gate, decision, child, offers, console, visits, crashes>>

ChildExits(s) ==
    /\ child[s] = "alive"
    /\ child' = [child EXCEPT ![s] = "dead"]
    /\ UNCHANGED <<log, bridge, files, engine, offers, console, visits, crashes>>

-----------------------------------------------------------------------------

Advance(s) ==
    \/ LaunchNegotiation(s) \/ SeesOffer(s) \/ Capture(s) \/ Decline(s)
    \/ LaunchExecution(s) \/ SeesOther(s) \/ Reject(s) \/ Changed(s)
    \/ Validate(s) \/ Commit(s) \/ Approve(s) \/ Complete(s)

Child(s) ==
    \/ \E m \in Own[s] : Select(s, m)
    \/ Withdraw(s) \/ Tick(s) \/ ConsoleTrades(s) \/ WriteReceipt(s) \/ ChildExits(s)

Next ==
    \E s \in Sides :
        \/ Learn(s) \/ Advance(s) \/ Judge(s) \/ Conclude(s) \/ Crash(s) \/ Restart(s)
        \/ Child(s)

Spec == Init /\ [][Next]_vars

-----------------------------------------------------------------------------
(* Properties *)

\* A Switch gives only in the second visit, only the Pokemon captured in the
\* first, only for the one captured from the peer, and only when both players
\* selected the same again: reselections, old decisions, orphans included.
OnlyAgreed ==
    \A s \in Sides : console[s] # None =>
        /\ console[s] = [gave |-> Mine(s).local_offer, got |-> Mine(Other(s)).local_offer]
        /\ \A r \in Sides : /\ Mine(r).execution_validated # None
                            /\ Mine(r).execution_validated = Mine(s).proposal

\* "Both Switch trades committed successfully." is said only when both did.
CompleteIsMutual ==
    (\E s \in Sides : Mine(s).phase = "complete") => \A s \in Sides : console[s] # None

\* Through crashes and restarts a player is asked for each visit at most once, and
\* for the second only when both first sessions closed without a trade.
OneVisitEach ==
    \A s \in Sides :
        /\ visits[s].first <= 1 /\ visits[s].second <= 1
        /\ visits[s].second = 1 =>
              \A r \in Sides : Mine(r).negotiation_finished

\* "Trade declined; start a new room.": the Switch that selected another Pokemon
\* does not trade any more, although an approval may be on its way.
ChangedNeverGives ==
    \A s \in Sides : Mine(s).phase = "selection-changed" =>
        console[s] = None /\ (child[s] = "alive" => ~engine[s].allowed)

\* When both receipts are on file and every snapshot has arrived, the bridges both say
\* that the exchange is complete, are about to, or one of them says it is uncertain:
\* no order of the two receipts leaves a bridge waiting for the other.
NoneLeftWaiting ==
    (\A s \in Sides : /\ Idle(s) /\ radio[s] = "none" /\ child[s] = "dead"
                      /\ log[Other(s)] = <<Theirs(s)>>
                      /\ receipt[s] # None /\ Mine(s).commit_possible)
    => \/ \A s \in Sides : Mine(s).phase = "complete"
       \/ \E s \in Sides : Mine(s).phase = "uncertain" \/ CanComplete(s)

\* "A missing or mismatched record leaves the exchange uncertain": once the radio
\* thread of the second visit has ended, or died with its bridge.
MissingIsUncertain ==
    \A s \in Sides :
        /\ Idle(s) /\ radio[s] = "none"
        /\ Mine(s).execution_launched /\ receipt[s] = None
        => Mine(s).phase = "uncertain"

\* "block conflicting trades until resolution": nobody is sent to a new room while
\* the other Switch has traded.
ChangedIsMutual ==
    \A s \in Sides : Mine(s).phase = "selection-changed" => console[Other(s)] = None

-----------------------------------------------------------------------------
(* The inductive invariant *)

\* What the other side can still learn of s.
History(s) == {log[s][i] : i \in 1 .. Len(log[s])}

\* What a side has published of its progress it does not take back.
Earlier(h, m) ==
    /\ h.negotiation_finished => m.negotiation_finished
    /\ h.local_offer # None => m.local_offer = h.local_offer
    /\ h.execution_validated # None => m.execution_validated = h.execution_validated

HistoryInv(s) ==
    \A h \in History(s) :
        /\ Earlier(h, Mine(s))
        /\ h.phase \in {"committed", "complete"} => console[s] # None

Approving(s) == decision[s] # None /\ decision[s].approve

NoTrade(s) ==
    /\ ~engine[s].allowed /\ ~Approving(s)
    /\ console[s] = None /\ receipt[s] = None

\* Before the first visit.
BeforeInv(s) ==
    ~Mine(s).negotiation_launched =>
        /\ Mine(s).local_offer = None /\ ~Mine(s).negotiation_finished
        /\ ~Mine(s).execution_launched
        /\ view[s] = None /\ decision[s] = None /\ radio[s] = "none" /\ child[s] = "none"
        /\ visits[s].first = 0

\* Up to the second visit: nothing is traded, an offer is captured once, and a
\* session that ended as planned has left no child.
FirstInv(s) ==
    ~Mine(s).execution_launched =>
        /\ NoTrade(s)
        /\ visits[s].second = 0
        /\ Mine(s).execution_validated = None
        /\ Mine(s).phase \notin {"executing", "selection-changed"}
        /\ Mine(s).phase = "negotiating" => Mine(s).local_offer = None
        /\ view[s] # None =>
              \/ /\ view[s].step = "capture"
                 /\ view[s].offer.mon # None /\ Mine(s).local_offer = None
              \/ /\ view[s].step = "decline"
                 /\ decision[s] = None /\ Mine(s).local_offer # None
        /\ decision[s] # None => Mine(s).local_offer # None /\ view[s] = None
        /\ radio[s] # "committed"
        /\ radio[s] = "negotiated" => child[s] = "dead" /\ decision[s] # None
        /\ Mine(s).negotiation_finished =>
              /\ Mine(s).local_offer # None
              /\ child[s] # "alive" /\ radio[s] = "none"
              /\ view[s] = None

\* Both players selected the same again.
Agreed(s) == \A r \in Sides : Mine(r).execution_validated = Mine(s).proposal

\* From the second visit on the exchange is fixed: the two captured offers.
ProposalInv(s) ==
    Mine(s).execution_launched =>
        /\ \A r \in Sides : Mine(r).negotiation_finished /\ Mine(r).local_offer # None
        /\ Mine(s).proposal = [r \in Sides |-> Mine(r).local_offer]
        /\ Mine(s).execution_validated \in {None, Mine(s).proposal}
        /\ Mine(s).phase # "negotiating"

\* Whatever leads to a trade has been agreed on, and shows the offer agreed on.
SecondInv(s) ==
    Mine(s).execution_launched =>
        /\ staged[s] = Mine(Other(s)).local_offer
        /\ view[s] # None => view[s].step \in {"reject", "changed", "commit", "approve"}
        /\ view[s] # None /\ view[s].step \in {"commit", "approve"} =>
              Agreed(s) /\ view[s].offer.mon = Mine(s).local_offer
        /\ Approving(s) => Agreed(s) /\ decision[s].revision.mon = Mine(s).local_offer
        /\ engine[s].allowed =>
              /\ Agreed(s)
              /\ engine[s].offer # None /\ engine[s].offer.mon = Mine(s).local_offer
        /\ console[s] # None =>
              /\ engine[s].allowed
              /\ console[s] = [gave |-> Mine(s).local_offer, got |-> Mine(Other(s)).local_offer]
        /\ receipt[s] # None => console[s] # None
        /\ radio[s] = "committed" => console[s] # None
        /\ radio[s] # "negotiated"

\* revision is gate-offer.json of s, or an earlier one.
UpTo(revision, s) ==
    /\ gate[s] # None /\ revision.number <= gate[s].number
    /\ revision.number = gate[s].number => revision = gate[s]

\* The engine's offer is the one on file, and what was read is no newer.
RevisionInv(s) ==
    /\ gate[s] # None => gate[s].number <= offers[s]
    /\ engine[s].offer # None /\ (child[s] = "alive" \/ engine[s].allowed)
          => gate[s] = engine[s].offer
    /\ view[s] # None => UpTo(view[s].offer, s)
    /\ decision[s] # None => UpTo(decision[s].revision, s)

\* An approval cannot overtake the sight of another selection.
ChangedInv(s) ==
    /\ view[s] # None /\ view[s].step \in {"reject", "changed"} =>
          /\ ~engine[s].allowed /\ console[s] = None
          /\ Approving(s) => /\ view[s].step = "reject"
                             /\ decision[s].revision.number < view[s].offer.number
    /\ Mine(s).phase = "selection-changed" =>
          /\ view[s] = None
          /\ ~Approving(s) /\ ~engine[s].allowed /\ console[s] = None

VisitsInv(s) == visits[s].first <= 1 /\ visits[s].second <= 1

SideInv(s) ==
    /\ BeforeInv(s) /\ FirstInv(s) /\ ProposalInv(s) /\ SecondInv(s)
    /\ RevisionInv(s) /\ ChangedInv(s) /\ VisitsInv(s)

IInv ==
    /\ TypeOK
    /\ CompleteIsMutual
    /\ \A s \in Sides : HistoryInv(s) /\ SideInv(s)

\* A bridge that runs and has no radio thread has concluded the second visit; with
\* IInv this is inductive, too.
ClosedInv ==
    \A s \in Sides :
        Mine(s).execution_launched /\ up[s] /\ radio[s] = "none" =>
            Mine(s).phase \in {"selection-changed", "committed", "complete", "uncertain"}
=============================================================================
