# A TLA+ model of 3DSPokeTrader

3DSPokeTrader moves a Pokemon between a Generation III save on a 3DS's SD card and
another player: a Nintendo Switch that trades over local radio with a computer
(the *bridge*), or a second 3DS, directly or through a relay on the internet. A save
is replaced, a console gives a Pokemon away, and nothing can be undone, so the
questions that matter are about failures in between: can a Pokemon be given and no
save written, can a save be written twice, can a radio exchange run again because an
answer was lost, can two bridges disagree on what was exchanged.

This directory holds the TLA+ modules of that protocol, the configurations that
check them with TLC on small instances, and proofs checked by TLAPS. Line numbers in
`PROJECT.json` (`map`) tie every definition to the source it models.

    tlc -config MCService.cfg MCService        # a run
    tlapm ServiceProofs.tla                    # a proof

## 1. Inventory

### Parts, state, operations

| Part | Source | Keeps | Operations |
|---|---|---|---|
| Bridge service and store | `service.py`, `storage.py` | on disk `saves/<id>.sav`, `trades/<id>/state.json`, `received.pk3`, `result.sav`; in memory a lock, worker threads, `closing` | `upload`, `prepare`, `start`, `_run`/`_finish`, `confirm`, `result`, `applied`, `state`, `remote_action`, recovery in `__init__`, `resolve_no_trade`, `close` |
| Trade process backend | `backend.py`, `upstream_runner.py` | the child process, `stopping` | `run` (launch, wait 900 s, stop escalation), `stop`, the commit callback that writes the receipt |
| 3DS application | `main.c`, `files.c` | on the SD card the save, `.trade-old-<id>`, `.trade-new-<id>`, `backup-<id>.sav`, `pending.txt` | select, back up, `store_pending`, `recover()`, `apply_result` |
| LAN protocol | `http.c`, `server.py` | nothing | one blocking call at a time, a timeout, status codes |
| Peer | `remote.py` (`Peer`), `remote_crypto.py` | `peer.json`: pinned key, sequence, last sequence seen, local and remote snapshots | `update`, `exchange`, pinning |
| Relay | `relay.py` | per room and role: key, lease, last envelope; in memory only | `do_POST`, expiry |
| Two-3DS exchange | `remote.py` (`SourcePairBackend`), `service.py` | a snapshot per side | `reserve`, `attach`, `poll`, `cancel`, and `applied` |
| 3DS-to-Switch exchange | `remote.py` (`RemoteBackend`, `SwitchWorker`) | a snapshot per side, the exchange's files, the radio thread | `reserve`, `poll`; `advance`, `_run`, restart, reset |
| Remote gate | `remote_gate.py` | `gate-offer.json`, `gate-decision.json`, `gate-cancelled.json`, the approved revision | publish a revision, take a decision, refuse to commit |
| Two-Switch exchange | `remote.py` (`SwitchPairWorker`) | a snapshot per side, two sessions | `advance`, negotiation, execution |
| Save codec | `save.py` | nothing (pure) | choose the newest slot, extract, replace |
| 3DS settings | `config.c` | `bridge.cfg` | load, save |
| Command line, data lock | `__main__.py` | an exclusive lock on the data directory | `serve`, `switch-host`, the operator commands |
| 3DS user interface, SHA-256 | `ui.c`, `hash.c` | nothing of a trade | drawing; telling contents apart |
| Build and packaging | `scripts/` | nothing at run time | |

### How they interact

* The 3DS polls the bridge over HTTP; the bridge never calls the 3DS. The 3DS holds
  one pending record and repeats every request until it has an answer.
* `Service.lock` is held by each handler from its first read to its last write. The
  worker thread of a trade, the child process, and `close()` run outside it.
* The bridge and its child share one file, `received.pk3`, which the child writes
  when the engine commits the exchange.
* Two remote bridges each publish one snapshot (a JSON value). Every exchange with
  the relay carries the whole of it; they decide from what they hold of each other.
* On a Switch bridge one thread exchanges snapshots and runs `advance()`; a radio
  thread runs the child and changes the same snapshot; gate and bridge talk through
  files.

### What is hard, and what makes each part correct

| Part | Hard behaviour | Correct means |
|---|---|---|
| Service, backend | crashes with the child alive, retried requests, shutdown racing a launch, a write failing between two files | one child per trade, one undecided trade, no result without a gift, a cancelled trade stays untraded, every started trade settles |
| 3DS files | power loss between renames, torn writes, a save played on meanwhile, a repeated apply | the save is never torn or lost, never replaced twice, a newer save is not overwritten |
| LAN protocol | lost answers, requests handled late | neither side forgets a trade the radio was started for; "applied" means placed |
| Peer, relay | reordering, late requests, crashes, relay restarts, a third identity | a peer's value only moves forward and is one it really had |
| Two-3DS | decisions from old snapshots, cancellation racing a release, crashes between three writes | released pairs fit both saves and are one to one; a room is cleared only when both are done |
| 3DS-to-Switch | offers that change while a decision is on its way, two threads on one snapshot, orphan children | the Switch gives only what the save can take, the receipt reaches the 3DS, one launch per trade |
| Two-Switch | two visits of two players, reselections, approvals that overtake them, receipts in any order | a Switch gives only what both agreed on, "complete" means both gave, each player is asked once for each visit |
| Save codec | a counter that wraps, slots of mixed age, sections whose borders cut a record | the last whole save is the one read, a replacement changes the traded Pokemon only and leaves the old slot |

`PROJECT.json` (`hazards`) lists these at the line where each bites, with the
properties that watch it.

## 2. Modules

    Exchange  <----- Service  <---- LocalTrade ----> SaveReplacement
      (abstract)                      |
                                      +------> Exchange

    SnapshotLink <-- PeerRelay        SnapshotLink <-- SourcePair
      (abstract)                      SnapshotLink <-- RemoteTrade
                                      SnapshotLink <-- SwitchPair
    Exchange  <----- RemoteTrade      SaveSlots

Beside each component `M` lies its `MProofs` (section 4), which extends it.

**Exchange** (abstract): exchanges are undecided one at a time, a console gives at
most once and only meanwhile, a save is released only after that and an exchange is
void only if it did not happen.

**Service**: one bridge. A handler is one step, since it holds the lock; `Launch`,
`Reap` and `Finish` are the worker thread's steps outside it; `BeginClose`,
`StopBackend`, `StopChild`, `Exit` are the stages of `close()`. `Crash` forgets
memory and may or may not take the child along; `Restart`, `Recover`, `Serve` are
`__init__`. `ConfirmInterrupted` and `FinishFails` are storage failures between two
writes. The child (`RadioReceipt`, `ConsoleTrades`, `RadioExits`) writes the receipt
and completes on the console in either order, or does neither: nothing in the code
orders them. `Resolve` is the operator command, which takes the data lock and so runs
only without a bridge. A file is its meaning: a save is an identity, `result.sav` and
`result_sha256` are the pair (selection, Pokemon) they were computed from.

**SaveReplacement**: the SD card. Each file operation of `store_pending`, of
`apply_result` and of `main()` on a pending record is a step. A write can stop half
way (`Torn`), a rename is atomic, `PowerLoss` can come between any two steps, and
`Play` lets the game write a new save while the application is closed. What the
bridge says about a trade is an input, `outcome`, fixed once it is "cancelled" or
"ready".

**LocalTrade** composes Service and SaveReplacement through the LAN protocol:
`outcome` becomes a function of the bridge's records, each request is a message that
can arrive late (after its caller gave up), once or never, and an answer can be lost.
A request that only reads is dropped when nobody waits for it.

**SnapshotLink** (abstract): each end changes a value; the other end holds it or an
earlier one and never goes back. A step may publish several values at once, as a write
does that succeeds after one that failed.

**PeerRelay**: any number of bridge identities that claim the two roles of a room,
and the relay. A sealed envelope is (sealer, addressee, sequence, version); opening
succeeds for the addressee and the sealer only. `kept` is what `peer.json` says, the other
variables of a bridge are its memory: `Persists` makes them equal, `PersistFails` raises
before or after the file is replaced, and a `Crash` continues from the file. Only
`Exchange` sends, after all of memory has been written (`Sent`), so memory may be ahead
of the file but no envelope is. An answer that does not open leaves a pin in memory only.

**SourcePair** and **RemoteTrade** are the two remote modes over a SnapshotLink,
which PeerRelay is shown to implement. A handler's writes (snapshot, then
`received.pk3`, then the snapshot, then `state.json`) are separate steps, named by
`at`, with the sync thread and a crash between any two; `StartInterrupted` is a `start()`
that dies with the room cleared or taken and the record still "prepared". In RemoteTrade
the 3DS's handlers are whole, and what each leaves when its bridge dies between two writes
is an action of its own (`StartInterrupted`, `RecordInterrupted`, `PollInterrupted`);
`view` is what `advance()` read and goes on using while the radio thread (`Judge`,
`Conclude`) changes the snapshot. An acknowledgement that the 3DS repeated may be handled
once more, later (`MaxLate`).

**SwitchPair** is the third mode over a SnapshotLink: two Switch bridges, each with its
sync thread (`Advance`, `Judge`), radio thread (`Conclude`), gated child and player.
The player of each side visits Direct Corner twice; the first visit captures a
selection and declines it, the second commits if both select the same again. `view` is
the branch `advance()` took and the offer it read, `decision` and `gate` are the files
between bridge and child, and `engine` is what the gate inside the child has taken over
from them; after a decision that declines, the player may select again, as the gate allows.
`console` says that the trade protocol committed; whether the Switch then
saves, no bridge can see (the same in RemoteTrade). The ten-second freshness test on
the peer may pass or fail at any time.

**SaveSlots**: the save file as the game and `save.py` see it, two slots of sectors. A
sector has the number of its section, its data, a checksum that holds or not, and the
counter of its save, which wraps at `Wrap`. Four sections stand for fourteen, with a
Pokemon that lies across two of them, and they move on by one sector in each save. The
game (`GameSaves`, external) and `Replace` save in turn; a save that loses power leaves
sectors of two saves in a slot, and `GoesBad` breaks one. `Chosen` is the slot in use,
`Destination` and `Replaced` are where and what a replacement writes. `number` tells
which save really wrote a sector; the code cannot see it, the properties compare it.

An operator named `X_Something` placed before `X` is a wrong version of `X`: the
mistake that the property it is paired with (`mutants` in `PROJECT.json`) detects. It
has no part in the specification.

## 3. Runs

| Run | Asks | Instance |
|---|---|---|
| `service` | the safety of one bridge; that records move along the diagram of `docs/implementation.md`; that the bridge implements Exchange; that a started trade settles | 2 trades, 1 save with 2 slots, 2 Pokemon of which one cannot be imported into one slot, 2 crashes, 1 storage failure |
| `card` | the save survives power losses, failed writes, a game played in between; a result the bridge has is placed, or the player touched the save | 2 trades, 2 versions, 2 power losses, 1 fault, 2 plays |
| `trade_chain` | end to end, and a second trade that starts from the first's result | 2 trades, 1 crash, 1 lost answer |
| `trade_faults` | no radio without a complete backup, no trade forgotten, a refused one never starts, with all faults together | 1 trade, a save that is refused, 1 crash, 1 storage failure, 1 power loss, 1 card fault, 1 play, 1 lost answer |
| `trade_live` | a received Pokemon ends in the save | 1 trade, 1 power loss, and 1 crash or 1 lost answer (`MCLiveSpec`) |
| `relay` | what a bridge holds is meant for it and on the disk of its peer, whose pin is mutual; refinement | 3 identities, of which one exchanges once and the others 3 times, and one late request, crash or expiry; or two identities, a failed write of `peer.json` and a crash (`Bounded`) |
| `pair` | no release the other save cannot take, one-to-one pairing and the reset of a room up to the first acknowledgement handled once more; both get their result if nobody cancels | 2 trades a side, one pair of offers that only one side can take, 1 crash, and 1 cancellation or 1 repeated acknowledgement (`MCNext`) |
| `remote` | one launch, only importable Pokemon, cancelled means untraded, no result from an earlier exchange's files | 2 trades, 2 Pokemon of which one can be imported, 2 revisions, 1 crash of either bridge, 1 cancellation, 1 repeated acknowledgement |
| `remote_live` | a receipt reaches the 3DS | 1 trade, 1 crash of either bridge, 1 cancellation |
| `switch_pair` | a Switch gives only what both agreed on, "complete" means both gave, one visit of each kind, a changed selection stays untraded, no order of receipts leaves a bridge waiting | 2 sides, one player who can change the selection to a Pokemon that evolves by trade, 3 revisions on that side and 2 on the other, 1 crash |
| `save_slots` | the last whole save is taken, a replacement is exactly the trade, the old save stays | a counter of 4 values from each of them, 4 saves, 1 fault |

One more run is expected to fail: section 5.

The type invariants and the invariants `IInv` of the proofs were also given to TLC under
the bounds of these runs; no run repeats them, since the properties say more and they are
proved.

Why the bounds are enough: the rules that relate trades relate two of them (the one
that blocks and the one that starts, the earlier and the later use of a room or a
save), and a crash, a fault or a late request is used up by one mistake; the second
crash in `service` covers a failure during the recovery from the first. A third
identity in `relay` is the least that can claim an occupied role, and two revisions are
the least that can be confused. A counter of four values, from each of them, wraps within
four saves. Every safety property is proved (section 4), so the bounds matter to liveness
only. Each mutant is caught under its run's own bounds, so the interesting cases do occur
in them. `pair` does not combine an acknowledgement handled once more with a
cancellation, nor `trade_live` a crash of the bridge with a lost answer; the theorems, and
`trade_faults`, have no such restriction. `save_slots` has one
fault: with two, a second save that loses power over the sectors of a first one leaves a slot
that mixes two saves with the same counter and looks whole (`TakesLastWhole` fails); the
format of the game has nothing against that. The runs of
PeerRelay, SourcePair, RemoteTrade, SwitchPair and SaveSlots set `CHECK_DEADLOCK FALSE`:
a room may stop (all sequences used, all trades finished, both Switches traded or one
session uncertain), and so may a player who saves no more. No run uses symmetry.

### Fairness

*Service*: the threads of a live process run; `wait(timeout=900)` and the stop
escalation end; a stopped bridge is started again and comes up. Nothing is assumed of
the players, the radio or the operator's decisions. *SaveReplacement* and
*LocalTrade* add that a player keeps opening the application, lets it recover and
presses A when asked; this is strong fairness where losses or closing can interrupt
it, and a request that somebody waits for is handled by a bridge that keeps coming up.
*SourcePair*: a request in progress ends, the sync thread brings over the current
snapshot (it exchanges every second), and a 3DS that waits polls, confirms and
acknowledges. *RemoteTrade*: the same, and on the Switch bridge each exchange is
followed by `advance()`, so neither starves the other (hence strong fairness of both);
the child ends at the latest by its time limit. Nobody has to start, offer or cancel.

## 4. Proofs

The eight proof modules hold for every value of the constants, under the assumption the
component's module states (`ServiceAssumption`, `PeerAssumption`, `ReplacementAssumption`,
`LocalAssumption`, `RemoteAssumption`, `SlotsAssumption`, and a `PairAssumption` each in
SourcePair and SwitchPair). These say that the constants have their types, that `None`
and `Torn` are none of the values they stand beside, that trades and versions of a save are
told apart, that SwitchPair has two sides, and
that the counters of SaveSlots have an even range above three (2^32 in the code). Three theorems speak of part of
the behaviour, since their properties do: `StaysPaired` and `ResetsAfterBoth` of
SourcePairProofs (up to the first acknowledgement handled once more) and `LastTaken` of
SaveSlotsProofs (`faults <= 1`). Below it is explained why no more is true.

**ServiceProofs.** None of the safety properties is inductive. `IInv` is: `TypeOK`,
`OneUnresolved`, `StoppedLeavesNoChild`, `ReceiptSeen` and three strengthenings.
`WorkerInv` ties a worker to a running record of a live process and its child to the
process slot: without it `stop()`, which looks only at the slot, could not be shown to
find the child. `RecordInv` ties what a record says to what can have happened outside
it (not launched means no child, no receipt, no gift; a receipt and a gift agree; a
released result is built from them). `ChildInv` says that without a crash a live child
has its worker waiting, so no receipt appears behind a settled trade. Each part has a
lemma with one step for each action that can disturb it, and the safety properties
follow. From `IInv` the bridge is then shown to implement `Exchange`, step by step, and
to keep to the diagram of its records.

**PeerRelayProofs.** `SealedInv` speaks of every envelope that can still reach a
bridge (in a request, in a slot, in an answer) and of the last one taken in, in memory
or on disk: it was sealed for the bridge its sealer is pinned to on disk, with a sequence
and from a version its sealer has on disk, and envelopes with later sequences never hold
earlier versions. `PeerInv` says that memory is never behind the file, so a write never
takes anything back, and that while no write has failed a bridge pinned on disk has
nothing to lose (`Durable`). `Held` follows: no crash or failed write takes back a value or a
pin that another bridge relies on. The refinement speaks of what the files say of each
other, which is what a crash leaves; it then needs only that a newer sequence brings a
value that is no older: `Implements` shows it for every pair, any number of identities,
losses, failed writes, crashes and relay restarts. So the remote modes may be, and are,
modelled over `SnapshotLink`; they take a snapshot in memory for the one on disk, which
by `Durable` it is while writes of `peer.json` succeed.

**SaveReplacementProofs.** `NeverTorn` and `PlacedOnce` depend on where the application
stands between two file operations, and a power loss forgets that, so the invariant is in
two parts. `FilesInv` is what the card says by itself: the record names a trade whose
backup is complete, a placed trade keeps the file it moved aside, and a save that is
missing was moved aside by the trade of the record. `AppInv` is what each step relies on
(`app = "install"` means the source is gone and the original lies under its old name,
and so on). A power loss leaves `FilesInv` and makes `AppInv` hold trivially; every file
operation has its lemma. `MissingIsRecoverable` follows from the invariant,
`NoOverwrite` and `RecordKept` from the invariant and one step.

**SwitchPairProofs.** What a Switch may do depends on what its bridge read of the other
side, which may be old. `HistoryInv` therefore speaks of every snapshot the other side
can still learn: what was published of an offer, of a closed first session or of a
validated proposal is never taken back (`Earlier`), and "committed" is published only
after the Switch traded. Over that, `BeforeInv`, `FirstInv` and `SecondInv` say what
files, radio thread, gate and Switch can be before the first visit, up to the second and
from it on: in the second, whatever leads to a trade (a branch of `advance()` that goes
on, a decision on file, the permission of the gate) has been agreed on by both.
`ProposalInv` fixes the exchange: both captured offers, in both bridges. `RevisionInv`
orders the revisions, so that a decision can only meet the offer it was made for, and
`ChangedInv` says that no approval overtakes the sight of another selection. A step of
one side leaves the invariant of the other, except for what it learns: the lemma `Frame`
shows that once, and each action then needs its own side only. `ClosedInv` says that a
bridge that runs without a radio thread has concluded its second visit: whoever ends the
thread, the child's end or a restart, has written a verdict before (`VisitConcluded`). So
two bridges whose receipts are on file are past waiting for each other (`NoneWaits`).

**LocalTradeProofs.** Late, repeated and lost requests never add a behaviour to the
bridge: `BridgeIsService` shows that the composition implements Service, each of its steps
being a step of Service or none. Likewise the card keeps SaveReplacement's invariant, with
`outcome` read from the bridge's records (`CardSafe`); the step that changes `outcome` is
the bridge's, and leaves the card alone. Two parts speak of both sides. `AskedInv`: a
request on its way, whatever its age, was sent with the backup and the record in place, and
a trade whose record is gone is closed on the bridge, so nothing that is still under way
can start or reopen it. `PlacedInv`: a result is placed only after the bridge released it,
and acknowledged only after it was placed. From these `BackedUpBeforeRadio`,
`NotForgotten`, `RefusedNeverStarts` and `AppliedIsPlaced` follow, and so does the
refinement of Exchange by two machines: the second exchange cannot begin before the first
is on the card or void, because the application holds a single record. Theorems about an
instantiated module are opaque to the prover, so the facts needed of Service and
SaveReplacement are proved again there, over the composition.

**SourcePairProofs.** A side decides from a snapshot of the other that may be old, so the
invariant speaks of every snapshot that can still be learned (`History`). `ValidInv`
(`ShapeInv`: what a snapshot can look like; `AtInv`: what a handler between two writes has
already checked) is inductive with any number of repeated acknowledgements and gives
`BothValid`: no release of a pair that does not fit both saves. With any number of them, too,
a released result is never taken back or changed, and an applied or cancelled record stays
so (`DecidedForGood`). `OneToOne` and `RoomReset` hold up to the first acknowledgement that
is handled once more: until then `RecordInv` and `RoomInv` tie the room to the one record
that is not applied, `FaithfulInv` says that a side that validated a pair stays with it
until the other has applied, and `PartnerInv` that both then name each other. The lemma
`LateStays` says that `late` never returns to 0, so `IInv` is inductive where it is 0, and
`StaysPaired` and `ResetsAfterBoth` follow, whatever `MaxLate`. No more is true: with a
repeated acknowledgement the code clears a room in use. `RoomReset` fails with one (section 5),
and so does `OneToOne` with three trades a side, without any crash or cancellation.

**RemoteTradeProofs.** The trade of a room passes through six places (record, room,
snapshot, `view`, decision, gate) and each may be behind the one before. `SourceInv` and
`SeenInv` order the trades the 3DS's side serves and what the Switch's side has learned of
them; `LaunchInv` says that "launched" is published before the child exists and that a
trade the room was cleared of does not return (`Gone`): this is `RadioOnce`. A bridge that
dies in `start()` may leave a room that names only the last trade's reservation
(`Cleared`), to which nothing of that trade returns (`Over`). `LocalInv`,
`EngineInv` and `AdvanceInv` follow an offer's revision from the file through the
validation and `advance()`'s branch to the permission the gate holds, which gives
`OnlyImportable` even though `advance()` goes on with what it read before. `ReceiptInv` ties
every receipt that can still be learned to the gift of the trade it is published for
(`ResultFaithful`), and `CancelInv`
shows that a cancelled trade is doomed: no child runs for it and none can be started, from
any snapshot still on its way (`CancelledNeverTraded`). From these, the two bridges and the
room between them implement Exchange (`Implements`), as the local bridge does:
a start, which the handler permits only when no trade of the room is undecided, begins an
exchange, the child's trade gives, a confirmation releases, a cancellation or an exchange
that ended elsewhere voids, and every other step leaves the exchange as it was. No run repeats
this: TLC agrees under the bounds of `remote` (`ImplementsExchange` as its property).
`DecidedForGood` adds that no later snapshot, in whatever room, revives a cancelled trade or
replaces a result. No bound is assumed.

**SaveSlotsProofs.** For a replacement, the lemmas follow the payload of each section into
the new slot and back: the sectors of a complete slot cover the sections, storage divided
between two sections and joined again is what it was, a record written to a box is read
from it and from no other. With the arithmetic of a counter that wraps, the new slot is the
one chosen, so the read-back never refuses, `TradesOnly` and, by damaging that slot,
`OldIsFallback`: both after any faults before. `TakesLastWhole` needs more, and less can be
said: `SlotInv` (a slot is taken for a save exactly if it is one), `PairInv` (of two whole
saves the later has the next counter) and `Undamaged` are kept until a second fault, and
`LastTaken` states the property up to there. With two faults it is false (section 3).

Only model-checked is liveness (`Settles`, `Places`, `Delivered` and the two `Completes`):
the proof system used here does not reason about fairness and ENABLED. Nor does it carry
out induction over data, so no module that is proved about defines a recursive operator.

## 5. Where the code and its promises disagree

One run is expected to fail: it checks the promise of a message, and TLC gives a
behaviour of the code that breaks it.

| Run | Promise | What happens |
|---|---|---|
| `pair_unreleased` | "Cancelled before either save was released." (`remote.py`) | Judged from the snapshot held of the peer, which may precede the peer's release. A bridge publishes its cancellation and dies before it closes the record (`service.py:247`); restarted, it polls with the old snapshot and closes the record with this message, while its peer, which had matched the offers, releases its save and keeps the Pokemon. Without a crash it does not happen. |

Eight more properties fail in the same way. No run repeats them: to see the behaviour,
give the property in the configuration named, with the constants changed as said.

| Property | Promise | Configuration | What happens |
|---|---|---|---|
| `SourcePair!CancelledUnsent` | "Cancelled before any offer was sent." (`service.py`) | `MCSourcePairUnreleased` | The test looks for `trade_id`, which a two-3DS snapshot does not have; the peer holds the offer. |
| `SourcePair!Reusable` | completed rooms are reused (ADR 0003) | `MCSourcePair`, no crash, no cancellation | The peer's `applied` is reset by its next start; a side that did not learn of it in between can never start again. |
| `SourcePair!RoomReset` | pending exchanges continue to block the reuse of a room (ADR 0003) | the same, `Spec`, 3 trades a side | An acknowledgement repeated by the 3DS sets `applied` for whichever exchange the room is reserved for; the peer clears the room in the middle of it. |
| `RemoteTrade!MissingIsUncertain` | missing receipts remain uncertain (ADR 0003) | `MCRemoteTrade`, `FairSpec`, 1 trade, 1 Pokemon, 1 revision, no crash, no cancellation | `advance()` overwrites the "uncertain" the radio thread just wrote with "offer", and nothing looks at the exchange again until a restart. |
| `RemoteTrade!DeclinedOnlyIfRejected` | a changed offer must pass validation again (ADR 0003) | `MCRemoteTrade` | A rejection names no revision; the next offer is declined by the rejection of the one before. |
| `RemoteTrade!Reusable` | completed rooms are reused (ADR 0003) | as for `MissingIsUncertain`, 2 trades | `advance()` publishes "committed" over the radio thread's "saved"; the next start is refused until a restart. With a crash there is a second way: a 3DS bridge that dies between the two updates of `start()` (`service.py:139-144`) leaves a room with the last trade's `reserved_id` and `applied` reset, and every later start is refused. |
| `SwitchPair!MissingIsUncertain` | "A missing or mismatched record leaves the exchange uncertain" (`docs/remote-trading.md`) | `MCSwitchPair`, no crash | `advance()` overwrites the "uncertain" of the radio thread with "selection-changed", and the session is not looked at again. |
| `SwitchPair!ChangedIsMutual` | once either side may have committed, both bridges block conflicting trades until resolution (ADR 0002) | `MCSwitchPair`, no crash | A side validates, then its player selects another Pokemon: it says "start a new room", and the peer still commits on the validation it has read. |

Met while modelling, and promised otherwise by nothing in the repository, so not
listed as findings: X on a prepared remote trade sets `cancel` in a room that nobody
resets; a two-3DS exchange that became "uncertain" has no command that resolves it; a
receipt that an orphan child writes after a restarted bridge concluded without it is
not looked at until another restart; a save changed between an applied result and its
acknowledgement keeps the pending record until it is removed by hand; a write of the
outcome that fails leaves the record "running" until the next start of the bridge.

## 6. What is not modelled

* `config.c` keeps no state of a trade: a power loss between the two renames of
  `config_save` leaves no `bridge.cfg`, and the user enters the address again.
* Of `save.py`, the encryption and the fields of a Pokemon record and the texts for the
  3DS (`box_lines`, `box_details`, `companion`).
* The room and connection limits of the relay: to a bridge they are a call without an
  answer, which PeerRelay contains.
* Drawing, hashing, HTTP framing and limits, authorisation, the cipher: abstracted
  (content is compared as content, an envelope opens for its addressee only).
* `SwitchWorker.join` and its controls `approve`, `cancel`, `saved`; the ten-second
  freshness test on the peer in RemoteTrade; rooms whose pair is not pinned yet in
  SourcePair, RemoteTrade and SwitchPair; in these three, failed writes of `peer.json`
  (PeerRelay has them).
* Evolution by trade of a 3DS's offer. `start()` refuses it, but only after it has cleared
  the room (`service.py:139-143`), which leaves it as the crash in the row of
  `RemoteTrade!Reusable` does (section 5).
* The content of a 3DS's offer in RemoteTrade: `advance()` compares offers where `Look`
  compares trades, which is the same as long as two trades of a room offer different data.
* What the engine does with a decision that declines: the gate only tells it, and the
  models let the player select again or leave.
* More than one 3DS on a remote bridge: the application holds one pending record, and
  the remote models serve one.
* The trade engine and the consoles are external: what they may do is described by the
  steps they can be observed to take.
* That the 3DS user confirms only what the Switch shows is an assumption
  (`SwitchShows`), as the prompt on the screen asks; the bridge cannot test it. The
  same holds for the operator (`OperatorChecked`).

## 7. Plan

Done: Exchange, Service, SaveReplacement, LocalTrade, SnapshotLink, PeerRelay, SourcePair,
RemoteTrade, SwitchPair and SaveSlots, all but the two abstract ones with proofs.

Next, in this order:

1. Rooms not yet pinned in SourcePair, and failed writes of `peer.json` in the remote modes.
2. `SwitchWorker.join` and the relay's limits.
3. A composition of PeerRelay with a remote mode, over which the mode's theorems hold
   without the detour through SnapshotLink.
4. `ConfigSave`: the two renames of `config_save` and a power loss between them.
