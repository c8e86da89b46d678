------------------------------ MODULE RemoteTrade ------------------------------
(***************************************************************************)
(* A 3DS bridge (Service with a RemoteBackend) and a Switch bridge         *)
(* (SwitchWorker, its radio thread and the gated trade child) in one room. *)
(* Each publishes a snapshot, its Peer's `local`, over a SnapshotLink (see *)
(* PeerRelay).                                                             *)
(*                                                                         *)
(* On the 3DS side a handler holds Service.lock while the sync thread goes *)
(* on.  On the Switch side one thread learns and then runs advance(), and  *)
(* the radio thread concludes a session, with no lock between them: `view` *)
(* is what advance() has read and still uses.  Either bridge can die and   *)
(* start again, and the trade child can outlive the Switch bridge.  The    *)
(* pair has pinned each other, no offer evolves by trade, and one 3DS is   *)
(* served.                                                                 *)
(***************************************************************************)
EXTENDS Naturals, Sequences

CONSTANTS
    Trades,      \* transaction identifiers of the 3DS side
    Mons,        \* Pokemon the Switch player can offer
    Importable,  \* <<trade, Pokemon>> that Save.replace accepts
    None,
    MaxOffers,   \* bound: revisions written to gate-offer.json
    MaxCrashes,  \* bound: crashes of the bridges
    MaxCancels,  \* bound: cancellations requested on the 3DS
    MaxLate      \* bound: acknowledgements handled once more

ASSUME RemoteAssumption ==
    /\ Importable \subseteq Trades \X Mons
    /\ None \notin Trades \cup Mons
    /\ MaxOffers \in Nat /\ MaxCrashes \in Nat /\ MaxCancels \in Nat /\ MaxLate \in Nat

VARIABLES
    log,       \* log[e]: snapshots of e, from the one held by the other side
    \* the 3DS bridge
    st,        \* st[t]: "state" of the transaction
    got,       \* got[t]: received.pk3 of the transaction
    at,        \* the poll in progress, or None
    \* the Switch bridge
    up,        \* its process is running
    view,      \* where advance() stands and what it has read, or None
    radio,     \* the radio thread: none, trading, or what it will conclude
    \* the files of the exchange, and the trade child
    gate,      \* gate-offer.json: the last revision
    decision,  \* gate-decision.json
    withdrawn, \* gate-cancelled.json exists
    receipt,   \* received.pk3 of the exchange
    child,     \* the trade child: none, alive, dead
    session,   \* the trade the child was started for
    engine,    \* the gate inside it: what it holds, and what it was allowed
    offers,    \* revisions used up
    console,   \* console[t]: the Pokemon the Switch gave in trade t
    launches,  \* launches[t]: children started for t
    crashes, cancels, late

source  == <<st, got, at>>
worker  == <<up, view, radio>>
files   == <<gate, decision, withdrawn, receipt>>
world   == <<child, session, engine, offers, console, launches>>
budget  == <<crashes, cancels, late>>
vars    == <<log, st, got, at, up, view, radio, gate, decision, withdrawn, receipt,
             child, session, engine, offers, console, launches, crashes, cancels, late>>

\* A revision of the Switch's offer; without a Pokemon it says "cancelled".
Revision == [number : 1 .. MaxOffers, mon : Mons \cup {None}]

SourceSnapshot == [reserved : Trades \cup {None}, trade : Trades \cup {None},
                   validated : Revision \cup {None}, approval : Revision \cup {None},
                   rejection : Revision \cup {None},
                   cancel : BOOLEAN, applied : BOOLEAN]
SwitchSnapshot == [trade : Trades \cup {None}, launched : BOOLEAN,
                   phase : {"none", "waiting", "running", "offer", "committing",
                            "committed", "saved", "uncertain", "cancelled"},
                   proposal : Revision \cup {None}, approval : Revision \cup {None},
                   commit : BOOLEAN, receipt : Mons \cup {None}]

BlankSource == [reserved |-> None, trade |-> None, validated |-> None,
                approval |-> None, rejection |-> None, cancel |-> FALSE, applied |-> FALSE]
BlankSwitch == [trade |-> None, launched |-> FALSE, phase |-> "none",
                proposal |-> None, approval |-> None, commit |-> FALSE, receipt |-> None]

Ends == {"source", "switch"}
L == INSTANCE SnapshotLink WITH Values <- SourceSnapshot \cup SwitchSnapshot,
                                Initial <- None

Ours  == L!Current("source")   \* the 3DS bridge's local
Seen  == L!Held("switch")      \* and its remote
Local == L!Current("switch")   \* the Switch bridge's local
Remote == L!Held("source")     \* and its remote

\* Peer.update: nothing happens when nothing changes.
Put(e, snapshot) == IF snapshot = L!Current(e) THEN UNCHANGED log ELSE L!Publish(e, snapshot)

States == {"none", "prepared", "running", "uncertain", "cancelled", "received",
           "ready", "applied"}
NoGate == [allowed |-> FALSE, saved |-> FALSE, offer |-> None]

LogOK ==
    /\ log \in [Ends -> Seq(SourceSnapshot \cup SwitchSnapshot) \ {<<>>}]
    /\ log["source"] \in Seq(SourceSnapshot) /\ log["switch"] \in Seq(SwitchSnapshot)

TypeOK ==
    /\ LogOK
    /\ st \in [Trades -> States] /\ got \in [Trades -> Mons \cup {None}]
    /\ at \in [trade : Trades, cancelling : BOOLEAN] \cup {None}
    /\ up \in BOOLEAN
    /\ view \in [step : {"receipt", "offer", "commit", "approve"}, local : SwitchSnapshot,
                 proposal : Revision \cup {None}] \cup {None}
    /\ radio \in {"none", "trading", "finish", "cancel"}
    /\ gate \in Revision \cup {None}
    /\ decision \in [revision : Revision, approve : BOOLEAN] \cup {None}
    /\ withdrawn \in BOOLEAN
    /\ receipt \in Mons \cup {None}
    /\ child \in {"none", "alive", "dead"}
    /\ session \in Trades \cup {None}
    /\ engine \in [allowed : BOOLEAN, saved : BOOLEAN, offer : Revision \cup {None}]
    /\ offers \in 0 .. MaxOffers
    /\ console \in [Trades -> Mons \cup {None}]
    /\ launches \in [Trades -> Nat]
    /\ crashes \in 0 .. MaxCrashes /\ cancels \in 0 .. MaxCancels /\ late \in 0 .. MaxLate

Init ==
    /\ log = [e \in Ends |-> IF e = "source" THEN <<BlankSource>> ELSE <<BlankSwitch>>]
    /\ st = [t \in Trades |-> "none"]
    /\ got = [t \in Trades |-> None]
    /\ at = None
    /\ up = TRUE /\ view = None /\ radio = "none"
    /\ gate = None /\ decision = None /\ withdrawn = FALSE /\ receipt = None
    /\ child = "none" /\ session = None /\ engine = NoGate /\ offers = 0
    /\ console = [t \in Trades |-> None]
    /\ launches = [t \in Trades |-> 0]
    /\ crashes = 0 /\ cancels = 0 /\ late = 0

-----------------------------------------------------------------------------
(* The 3DS bridge *)

Record(t, state) == st' = [st EXCEPT ![t] = state]

\* One 3DS: it selects again when its last trade is cancelled or acknowledged.
Prepare(t) ==
    /\ at = None
    /\ st[t] = "none"
    /\ \A u \in Trades : \/ st[u] \in {"none", "cancelled"}
                         \/ st[u] = "applied" /\ (Ours.reserved = u => Ours.applied)
    /\ Record(t, "prepared")
    /\ UNCHANGED <<log, got, at, worker, files, world, budget>>

\* start(): a room in use is free again when this side has applied and the
\* Switch side saved that exchange.
Completed == Ours.applied /\ Seen.phase = "saved" /\ Seen.trade = Ours.reserved

\* Clearing the room and reserving it are two updates; to the Switch side, which
\* reads no `reserved`, the two snapshots are the same.
Reserve(t) ==
    IF Ours.reserved \in {None, t}
    THEN Put("source", [Ours EXCEPT !.reserved = t])
    ELSE Completed /\ Put("source", [BlankSource EXCEPT !.reserved = t])

MayStart(t) ==
    /\ at = None
    /\ st[t] = "prepared"
    /\ \A u \in Trades \ {t} : st[u] \notin {"running", "uncertain", "received"}

Start(t) ==
    /\ MayStart(t)
    /\ Reserve(t)
    /\ Record(t, "running")
    /\ UNCHANGED <<got, at, worker, files, world, budget>>

\* state() of a running or uncertain trade: attach() publishes the offer, then
\* poll() decides; cancel() goes through it first.
Poll(t, cancelling) ==
    /\ at = None
    /\ st[t] \in {"running", "uncertain"}
    /\ Ours.trade \in {None, t}
    /\ Put("source", [Ours EXCEPT !.trade = t])
    /\ at' = [trade |-> t, cancelling |-> cancelling]
    /\ UNCHANGED <<st, got, worker, files, world, crashes, late>>

\* The end of a poll, and of the cancellation it belongs to if it may go on.
\* A trade that has a "trade_id" is not closed here: the Switch side decides.
Answer(state, snapshot) ==
    /\ Record(at.trade, state)
    /\ Put("source", IF at.cancelling /\ state \in {"running", "uncertain"}
                     THEN [snapshot EXCEPT !.cancel = TRUE, !.approval = None]
                     ELSE snapshot)
    /\ at' = None
    /\ UNCHANGED <<worker, files, world, budget>>

Accepts(proposal) == <<at.trade, proposal.mon>> \in Importable

\* What poll() publishes about the proposal it sees.
Judged ==
    LET proposal == Seen.proposal IN
    IF proposal.mon = None
    THEN [Ours EXCEPT !.validated = None, !.approval = None]
    ELSE IF ~Accepts(proposal)
    THEN [Ours EXCEPT !.validated = None, !.approval = None, !.rejection = proposal]
    ELSE IF Ours.validated = proposal THEN Ours
    ELSE [Ours EXCEPT !.validated = proposal, !.approval = proposal, !.rejection = None]

\* The Pokemon of a receipt that is that of the proposal, if the save takes it.
Delivers ==
    {m \in Mons : /\ Seen.phase \in {"committed", "saved"}
                  /\ Seen.proposal.mon = m /\ Seen.receipt = m /\ Accepts(Seen.proposal)}

PollElsewhere ==
    /\ at # None
    /\ Seen.trade # at.trade
    /\ Answer("running", Ours)
    /\ UNCHANGED got

PollEnded ==
    /\ at # None
    /\ Seen.trade = at.trade
    /\ Seen.phase \in {"cancelled", "uncertain"}
    /\ Answer(Seen.phase, Ours)
    /\ UNCHANGED got

\* The receipt of an approved offer becomes the transaction's received.pk3; a
\* receipt without its proposal raises, and changes no more than the judgement.
PollOffer ==
    /\ at # None
    /\ Seen.trade = at.trade
    /\ Seen.phase \notin {"cancelled", "uncertain"}
    /\ IF Seen.proposal = None
       THEN Seen.phase \notin {"committed", "saved"} /\ Answer("running", Ours) /\ UNCHANGED got
       ELSE IF Delivers # {}
       THEN /\ got' = [got EXCEPT ![at.trade] = Seen.receipt]
            /\ Answer("received", Judged)
       ELSE Answer("running", Judged) /\ UNCHANGED got

Confirm(t) ==
    /\ at = None
    /\ st[t] = "received"
    /\ Record(t, "ready")
    /\ UNCHANGED <<log, got, at, worker, files, world, budget>>

\* A request that the 3DS gave up and repeated may be handled when the room has
\* gone on to another trade.
Applied(t) ==
    /\ at = None
    /\ st[t] \in {"ready", "applied"}
    /\ IF Ours.reserved = t /\ ~Ours.applied
       THEN UNCHANGED late ELSE late < MaxLate /\ late' = late + 1
    /\ Record(t, "applied")
    /\ Put("source", [Ours EXCEPT !.applied = TRUE])
    /\ UNCHANGED <<got, at, worker, files, world, crashes, cancels>>

\* X on the 3DS: the trade is polled, or its room has seen no offer of it yet and
\* it is closed at once, unless the room still names an earlier trade.
RequestCancel(t) ==
    /\ cancels < MaxCancels
    /\ cancels' = cancels + 1
    /\ \/ Poll(t, TRUE)
       \/ /\ at = None
          /\ st[t] = "prepared"
          /\ Put("source", [Ours EXCEPT !.cancel = TRUE, !.approval = None])
          /\ IF Ours.trade = None THEN Record(t, "cancelled") ELSE UNCHANGED st
          /\ UNCHANGED <<got, at, worker, files, world, crashes, late>>

\* The 3DS bridge dies in a handler, after some of its writes, and starts again.
Dies == crashes < MaxCrashes /\ crashes' = crashes + 1

\* start(): the room is reserved, or only cleared, under the name of its last trade.
StartInterrupted(t) ==
    /\ MayStart(t)
    /\ Dies
    /\ \/ Reserve(t)
       \/ /\ Ours.reserved \notin {None, t} /\ Completed
          /\ Put("source", [BlankSource EXCEPT !.reserved = Ours.reserved])
    /\ UNCHANGED <<source, worker, files, world, cancels, late>>

\* applied() records first, a cancellation publishes first.
RecordInterrupted(t) ==
    /\ at = None
    /\ Dies
    /\ \/ st[t] = "ready" /\ Record(t, "applied") /\ UNCHANGED <<log, cancels>>
       \/ /\ st[t] = "prepared"
          /\ cancels < MaxCancels /\ cancels' = cancels + 1
          /\ Put("source", [Ours EXCEPT !.cancel = TRUE, !.approval = None])
          /\ UNCHANGED st
    /\ UNCHANGED <<got, at, worker, files, world, late>>

\* A poll dies with nothing, its judgement, or received.pk3, too, written.
PollInterrupted ==
    /\ at # None
    /\ Dies
    /\ at' = None
    /\ \/ UNCHANGED <<log, got>>
       \/ /\ Seen.trade = at.trade
          /\ Seen.phase \notin {"cancelled", "uncertain"}
          /\ Seen.proposal # None
          /\ Put("source", Judged)
          /\ got' \in {got} \cup {[got EXCEPT ![at.trade] = m] : m \in Delivers}
    /\ UNCHANGED <<st, worker, files, world, cancels, late>>

SourceLearns == L!Learn("switch") /\ UNCHANGED <<source, worker, files, world, budget>>

-----------------------------------------------------------------------------
(* SwitchWorker.run: exchange, then advance *)

Idle == up /\ view = None

SwitchLearns ==
    /\ Idle
    /\ L!Learn("source")
    /\ UNCHANGED <<source, worker, files, world, budget>>

\* What _reset_completed_exchange leaves of the exchange's files.
Left_Receipt == [gate |-> None, decision |-> None, withdrawn |-> FALSE, receipt |-> receipt]
Left == [gate |-> None, decision |-> None, withdrawn |-> FALSE, receipt |-> None]

\* _reset_completed_exchange, then on into the same advance().  An orphan of the
\* saved exchange has no step left but to exit.
Reset ==
    /\ Idle
    /\ Local.phase = "saved"
    /\ Remote.trade # None /\ Remote.trade # Local.trade
    /\ Put("switch", [BlankSwitch EXCEPT !.phase = "waiting"])
    /\ gate' = Left.gate /\ decision' = Left.decision
    /\ withdrawn' = Left.withdrawn /\ receipt' = Left.receipt
    /\ radio' = "none"
    /\ UNCHANGED <<source, up, view, world, budget>>

MayLaunch ==
    /\ Idle
    /\ ~Local.launched
    /\ Remote.trade # None
    /\ Local.trade \in {None, Remote.trade}

Withdrawn ==
    /\ MayLaunch
    /\ Remote.cancel
    /\ Put("switch", [Local EXCEPT !.trade = Remote.trade, !.phase = "cancelled"])
    /\ UNCHANGED <<source, worker, files, world, budget>>

Launched_Forgotten(local) == [local EXCEPT !.trade = Remote.trade, !.phase = "running"]
Launched(local) == [local EXCEPT !.trade = Remote.trade, !.launched = TRUE, !.phase = "running"]

\* "Durable BEFORE process launch."  A crash here leaves `launched` and no child.
Launch ==
    /\ MayLaunch
    /\ ~Remote.cancel
    /\ Put("switch", Launched(Local))
    /\ \/ /\ radio' = "trading"
          /\ child' = "alive" /\ session' = Remote.trade /\ engine' = NoGate
          /\ launches' = [launches EXCEPT ![Remote.trade] = @ + 1]
          /\ UNCHANGED <<up, crashes>>
       \/ /\ crashes < MaxCrashes
          /\ crashes' = crashes + 1
          /\ up' = FALSE /\ radio' = "none"
          /\ UNCHANGED <<child, session, engine, launches>>
    /\ UNCHANGED <<source, view, files, offers, console, cancels, late>>

\* The radio thread is alive: advance() goes on with what it has read, if the offer
\* seen is the one it launched with.  A snapshot's offer is that of its trade: a room
\* goes on to a trade when the Pokemon of the one before has left the save.
Look ==
    /\ Idle
    /\ Local.launched
    /\ ~(Local.phase = "saved" /\ Remote.trade \notin {None, Local.trade})
    /\ radio # "none"
    /\ Remote.trade = Local.trade
    /\ view' = [step |-> "receipt", local |-> Local, proposal |-> None]
    /\ UNCHANGED <<log, source, up, radio, files, world, budget>>

Matches(local) == local.proposal # None /\ local.proposal.mon = receipt

Published(phase) == [Local EXCEPT !.phase = phase, !.receipt = receipt]

AtStep(step) == up /\ view # None /\ view.step = step

\* A receipt that appeared after the commitment is published as "committed";
\* one that differs from the approved offer raises.
PublishCommitted ==
    /\ AtStep("receipt")
    /\ IF view.local.commit /\ view.local.phase = "committing" /\ receipt # None
       THEN IF Matches(Local)
            THEN /\ Put("switch", Published("committed"))
                 /\ view' = [view EXCEPT !.step = "offer", !.local = Published("committed")]
            ELSE view' = None /\ UNCHANGED log
       ELSE view' = [view EXCEPT !.step = "offer"] /\ UNCHANGED log
    /\ UNCHANGED <<source, up, radio, files, world, budget>>

\* The proposal in gate-offer.json is published and approved by this side.
Proposed ==
    IF view.local.proposal # gate /\ ~view.local.commit
    THEN [Local EXCEPT !.proposal = gate, !.approval = gate, !.phase = "offer"]
    ELSE view.local

Validated(local) == local.approval = gate /\ Remote.approval = gate /\ Remote.validated = gate

ReadOffer ==
    /\ AtStep("offer")
    /\ IF Remote.applied \/ gate = None
       THEN view' = None /\ UNCHANGED <<log, decision>>
       ELSE /\ IF Proposed # view.local THEN Put("switch", Proposed) ELSE UNCHANGED log
            /\ CASE gate.mon = None \/ Proposed.commit -> view' = None /\ UNCHANGED decision
                 [] OTHER ->
                      IF Remote.cancel \/ Remote.rejection # None
                      THEN /\ decision' = [revision |-> gate, approve |-> FALSE]
                           /\ view' = None
                      ELSE /\ view' = IF Validated(Proposed)
                                      THEN [step |-> "commit", local |-> Proposed, proposal |-> gate]
                                      ELSE None
                           /\ UNCHANGED decision
    /\ UNCHANGED <<source, up, radio, gate, withdrawn, receipt, world, budget>>

\* commit_possible is on disk before the child is told.
Commit ==
    /\ AtStep("commit")
    /\ Put("switch", [Local EXCEPT !.commit = TRUE, !.phase = "committing"])
    /\ view' = [view EXCEPT !.step = "approve"]
    /\ UNCHANGED <<source, up, radio, files, world, budget>>

Approve ==
    /\ AtStep("approve")
    /\ decision' = [revision |-> view.proposal, approve |-> TRUE]
    /\ view' = None
    /\ UNCHANGED <<log, source, up, radio, gate, withdrawn, receipt, world, budget>>

-----------------------------------------------------------------------------
(* The radio thread: _run after the child's end *)

\* What it reads: gate-cancelled.json, and commit_possible.
Judge ==
    /\ up /\ radio = "trading"
    /\ child = "dead"
    /\ radio' = IF withdrawn /\ ~Local.commit THEN "cancel" ELSE "finish"
    /\ UNCHANGED <<log, source, up, view, files, world, budget>>

Finished_Cancelled == [Local EXCEPT !.phase = "cancelled"]

\* _finish(): a receipt of the approved offer counts, whatever happened.
Finished == IF receipt # None /\ Matches(Local) THEN Published("saved")
            ELSE [Local EXCEPT !.phase = "uncertain"]

Conclude ==
    /\ up
    /\ \/ radio = "cancel" /\ Put("switch", [Local EXCEPT !.phase = "cancelled", !.approval = None])
       \/ radio = "finish" /\ Put("switch", Finished)
    /\ radio' = "none"
    /\ UNCHANGED <<source, up, view, files, world, budget>>

-----------------------------------------------------------------------------
(* The Switch bridge stops and starts *)

Crash ==
    /\ up
    /\ crashes < MaxCrashes
    /\ crashes' = crashes + 1
    /\ up' = FALSE /\ view' = None /\ radio' = "none"
    /\ child' \in IF child = "alive" THEN {"alive", "dead"} ELSE {child}
    /\ UNCHANGED <<log, source, files, session, engine, offers, console, launches, cancels, late>>

\* __init__ concludes an exchange that was interrupted.
Restart ==
    /\ ~up
    /\ up' = TRUE
    /\ IF Local.launched /\ Local.phase \notin {"saved", "cancelled"}
       THEN Put("switch", Finished) ELSE UNCHANGED log
    /\ UNCHANGED <<source, view, radio, files, world, budget>>

\* remote-resolve-no-trade, under the data lock.  The operator "checked both
\* consoles", and that no child of the dead bridge is still trading.
OperatorChecked == console[Local.trade] = None /\ child # "alive"

Resolve ==
    /\ ~up
    /\ Local.phase \in {"uncertain", "running", "offer", "committing"}
    /\ receipt = None
    /\ OperatorChecked
    /\ Put("switch", [Local EXCEPT !.phase = "cancelled", !.approval = None])
    /\ UNCHANGED <<source, worker, files, world, budget>>

-----------------------------------------------------------------------------
(* The trade child: remote_gate around the engine, and the Switch player *)

Offerable == child = "alive" /\ ~engine.allowed /\ offers < MaxOffers

\* The player selects, or selects another: a new revision invalidates the last.
Select(m) ==
    LET offer == [number |-> offers + 1, mon |-> m] IN
    /\ Offerable
    /\ offers' = offers + 1
    /\ engine' = [engine EXCEPT !.offer = offer]
    /\ gate' = offer
    /\ UNCHANGED <<log, source, worker, decision, withdrawn, receipt, child, session,
                   console, launches, budget>>

\* The player, or both sides, leave the selection.
Withdraw ==
    /\ Offerable
    /\ offers' = offers + 1
    /\ engine' = [engine EXCEPT !.offer = None]
    /\ gate' = [number |-> offers + 1, mon |-> None]
    /\ withdrawn' \in {withdrawn, TRUE}
    /\ UNCHANGED <<log, source, worker, decision, receipt, child, session, console,
                   launches, budget>>

Decided_AnyRevision == decision # None
Decided == decision # None /\ decision.revision = engine.offer

\* tick(): a decision counts for the revision it names.  One that declines it only
\* makes the engine turn the offer down: the player may select again, or leave, and
\* nothing here says that the engine would not trade what is approved later.
Tick ==
    /\ child = "alive"
    /\ engine.offer # None /\ ~engine.allowed
    /\ Decided /\ decision.approve
    /\ engine' = [engine EXCEPT !.allowed = TRUE]
    /\ UNCHANGED <<log, source, worker, files, child, session, offers, console,
                   launches, budget>>

\* START_TRADE .. CONFIRM_FINISH_TRADE with the approved offer still selected.
ConsoleTrades ==
    /\ child = "alive"
    /\ engine.allowed
    /\ console[session] = None
    /\ console' = [console EXCEPT ![session] = engine.offer.mon]
    /\ UNCHANGED <<log, source, worker, files, child, session, engine, offers, launches, budget>>

\* save_received, when the exchange is committed.
WriteReceipt ==
    /\ child = "alive"
    /\ console[session] # None /\ ~engine.saved
    /\ receipt' = console[session]
    /\ engine' = [engine EXCEPT !.saved = TRUE]
    /\ UNCHANGED <<log, source, worker, gate, decision, withdrawn, child, session, offers,
                   console, launches, budget>>

ChildExits ==
    /\ child = "alive"
    /\ child' = "dead"
    /\ UNCHANGED <<log, source, worker, files, session, engine, offers, console,
                   launches, budget>>

-----------------------------------------------------------------------------

Handlers(t) ==
    \/ Prepare(t) \/ Start(t) \/ Confirm(t) \/ Applied(t) \/ RequestCancel(t)
    \/ Poll(t, FALSE) /\ UNCHANGED cancels
    \/ StartInterrupted(t) \/ RecordInterrupted(t)

PollEnds == PollElsewhere \/ PollEnded \/ PollOffer

\* The states in which advance() has something to do, then each of its steps.
Advance ==
    Reset \/ Withdrawn \/ Launch \/ Look \/ PublishCommitted \/ ReadOffer \/ Commit \/ Approve

Child ==
    \/ \E m \in Mons : Select(m)
    \/ Withdraw \/ Tick \/ ConsoleTrades \/ WriteReceipt \/ ChildExits

Next ==
    \/ \E t \in Trades : Handlers(t)
    \/ PollEnds \/ PollInterrupted \/ SourceLearns \/ SwitchLearns \/ Advance
    \/ Judge \/ Conclude \/ Crash \/ Restart \/ Resolve \/ Child

Spec == Init /\ [][Next]_vars

\* The 3DS app polls and confirms; the sync threads exchange snapshots and each
\* exchange on the Switch side is followed by advance(), so neither starves the
\* other; the radio thread and a restarted bridge run on; the child is stopped by
\* its time limit at the latest.  Nobody has to prepare, start, offer or cancel.
FairSpec ==
    /\ Spec
    /\ \A t \in Trades : WF_vars(Poll(t, FALSE) /\ UNCHANGED cancels) /\ WF_vars(Confirm(t))
    /\ WF_vars(PollEnds)
    /\ SF_vars(SourceLearns) /\ SF_vars(SwitchLearns) /\ SF_vars(Advance)
    /\ WF_vars(Judge) /\ WF_vars(Conclude) /\ WF_vars(Restart) /\ WF_vars(ChildExits)

-----------------------------------------------------------------------------
(* Properties *)

Resulting == {"received", "ready", "applied"}

\* "Durable BEFORE process launch": through crashes and restarts, at most one
\* child is ever started for a trade.
RadioOnce == \A t \in Trades : launches[t] <= 1

\* The Switch gives only a Pokemon the 3DS save can take, although the player
\* may change the offer between its validation, its approval and the decision.
OnlyImportable ==
    \A t \in Trades : console[t] # None => <<t, console[t]>> \in Importable

\* A 3DS trade has a result only if the Switch gave that very Pokemon in it, also
\* when the room and the exchange's files served an earlier trade.
ResultFaithful ==
    \A t \in Trades : st[t] \in Resulting => got[t] # None /\ console[t] = got[t]

\* A trade the 3DS side calls cancelled was not, and will not be, traded: no child
\* that is still alive may go on to give a Pokemon.
CancelledNeverTraded ==
    \A t \in Trades : st[t] = "cancelled" =>
        /\ console[t] = None
        /\ ~(child = "alive" /\ session = t /\ engine.allowed)

\* A 3DS bridge whose Switch is elsewhere promises what a local one does (module
\* Exchange): the trades of the room are undecided one at a time, the Switch gives
\* once and only meanwhile, and the 3DS side, which decides from snapshots alone,
\* releases only what was given and voids only what was not.
PhaseOf(s) ==
    CASE s \in {"none", "prepared"}                 -> "open"
      [] s \in {"running", "uncertain", "received"} -> "pending"
      [] s \in {"ready", "applied"}                 -> "released"
      [] s = "cancelled"                            -> "void"

E == INSTANCE Exchange WITH
        phase <- [t \in Trades |-> PhaseOf(st[t])],
        given <- [t \in Trades |-> console[t] # None]

ImplementsExchange == E!Spec

\* A Pokemon on file reaches the 3DS, through a crash of the Switch bridge, unless
\* an orphan wrote it after the bridge had concluded the exchange without it.
Delivered ==
    \A t \in Trades :
        receipt # None /\ session = t /\ (~up \/ radio # "none") ~> st[t] \in {"ready", "applied"}

\* "Missing or mismatched receipts remain uncertain": when a session ended without
\* a receipt, the room says so or says that it was cancelled.
MissingIsUncertain ==
    up /\ Local.launched /\ radio = "none" /\ receipt = None
        ~> Local.phase \in {"uncertain", "cancelled"} \/ receipt # None

\* "a changed offer must pass validation again": an offer that the 3DS save can
\* take is declined only if somebody cancelled.
DeclinedOnlyIfRejected ==
    decision # None /\ ~decision.approve =>
        Remote.cancel \/ <<session, decision.revision.mon>> \notin Importable

\* "After both bridges durably record a successful exchange and source-save
\* application, they reuse the same pinned room": once the 3DS side has applied and
\* the Switch side's radio thread has ended with the receipt, a next trade starts.
Reusable ==
    \A t, u \in Trades :
        /\ st[t] = "applied" /\ st[u] = "prepared"
        /\ session = t /\ receipt # None /\ radio = "none" /\ up
        ~> st[u] # "prepared" \/ Completed

-----------------------------------------------------------------------------
(* The inductive invariant *)

\* The snapshots in a log, and whether y is x or a later one of the 3DS bridge.
History(e) == {log[e][i] : i \in 1 .. Len(log[e])}
Follows(x, y) ==
    \E i \in 1 .. Len(log["source"]) : \E j \in i .. Len(log["source"]) :
        x = log["source"][i] /\ y = log["source"][j]

Begun(t) == st[t] \notin {"none", "prepared"}
Blocking(t) == st[t] \in {"running", "uncertain", "received"}
Over(t) == Begun(t) /\ ~Blocking(t)

\* A snapshot of the 3DS bridge names its own trade and validates what its save takes.
SourceShape(x) ==
    /\ x.trade \in {None, x.reserved}
    /\ x.trade # None => Begun(x.trade)
    /\ x.validated # None => x.trade # None /\ <<x.trade, x.validated.mon>> \in Importable

\* A trade that is over, of which the room keeps the reservation alone.
Cleared(x) == x.trade = None /\ x.reserved # None /\ Over(x.reserved)

\* The room is used by one trade after the other, and a cancellation is not undone,
\* but with the room.
InOrder(x, y) ==
    /\ y.reserved \in {x.reserved, Ours.reserved}
    /\ x.reserved # None => y.reserved # None
    /\ y.reserved = x.reserved =>
          Cleared(y) \/ ((x.trade # None => y.trade = x.trade) /\ (x.cancel => y.cancel))

SourceInv ==
    /\ \A t \in Trades : Blocking(t) => Ours.reserved = t
    /\ at # None => st[at.trade] \in {"running", "uncertain"} /\ Ours.trade = at.trade
    /\ \A x \in History("source") : SourceShape(x)
    /\ \A x, y \in History("source") : Follows(x, y) => InOrder(x, y)

\* When the Switch side has taken up the trade of the room, the 3DS side's earlier
\* trades are out of its sight.
SeenInv ==
    \A y \in History("switch") : y.trade # None =>
        /\ Begun(y.trade)
        /\ y.trade = Ours.reserved => \A x \in History("source") :
              x.trade = y.trade \/ (Cleared(x) /\ x.reserved = y.trade)

\* Trade t is over, and nothing that the Switch side can see of the room names it.
Gone(t) == Over(t) /\ \A x \in History("source") : x.trade # t

LaunchInv ==
    /\ \A t \in Trades : launches[t] <= 1
    /\ \A t \in Trades : launches[t] > 0 => (Local.launched /\ Local.trade = t) \/ Gone(t)
    /\ session # None => launches[session] > 0

\* The child was started for the exchange in the snapshot.
Attached == Local.launched /\ session = Local.trade

Takes(t, revision) == revision # None /\ <<t, revision.mon>> \in Importable

LocalInv ==
    /\ Local.launched => Local.trade # None
    /\ Local.phase \in {"running", "offer", "committing", "committed", "saved", "uncertain"} =>
          Local.launched
    /\ Local.phase = "saved" => Attached /\ engine.saved
    /\ ~Attached => /\ gate = None /\ decision = None /\ ~withdrawn /\ receipt = None
                    /\ view = None /\ radio = "none"
                    /\ child # "alive" \/ engine.saved

EngineInv ==
    /\ child # "none" => session # None
    /\ engine.allowed => session # None /\ Takes(session, engine.offer)
    /\ engine.allowed /\ Attached => Local.commit
    /\ engine.saved => engine.allowed /\ console[session] # None
    /\ session # None /\ console[session] # None =>
          engine.allowed /\ console[session] = engine.offer.mon
    /\ receipt # None => engine.saved /\ receipt = console[session]

\* What leads to the child's permission: the decision, and before it advance().
AdvanceInv ==
    /\ decision # None /\ decision.approve => Local.commit /\ Takes(session, decision.revision)
    /\ view # None =>
          /\ up /\ Remote.trade = Local.trade
          /\ view.step \in {"commit", "approve"} => Takes(session, view.proposal)
          /\ view.step = "approve" => Local.commit
    /\ radio # "none" => up
    /\ radio \in {"finish", "cancel"} => child = "dead"
    /\ radio = "cancel" => console[session] = None

\* A trade gives what its receipt says, and gives nothing in another trade.
ReceiptInv ==
    /\ \A y \in History("switch") : y.phase \in {"committed", "saved"} =>
          y.trade # None /\ y.receipt # None /\ console[y.trade] = y.receipt
    /\ \A t \in Trades : console[t] # None =>
          launches[t] > 0 /\ <<t, console[t]>> \in Importable

\* Trade t has not been traded, and no child can be started for it or go on.
Doomed(t) ==
    /\ console[t] = None
    /\ session = t => child # "alive"
    /\ \/ Gone(t)
       \/ /\ Local.trade = t
          /\ Local.launched \/ \A x \in History("source") : x.trade = t => x.cancel

CancelInv ==
    /\ \A y \in History("switch") : y.phase = "cancelled" => y.trade # None /\ Doomed(y.trade)
    /\ \A t \in Trades : st[t] = "cancelled" => Doomed(t)

IInv ==
    /\ TypeOK /\ SourceInv /\ SeenInv /\ LaunchInv /\ LocalInv /\ EngineInv /\ AdvanceInv
    /\ ReceiptInv /\ ResultFaithful /\ CancelInv
=============================================================================
