-------------------------- MODULE LocalTradeProofs --------------------------
(***************************************************************************)
(* Proofs about a local exchange end to end, for any sets of trades, saves *)
(* and Pokemon and any number of crashes, power losses, failed writes and  *)
(* calls without an answer.  The argument: the application asks only with  *)
(* its backup and its record in place, and gives the record up only for a  *)
(* trade that nothing still on its way can start or reopen.                *)
(***************************************************************************)
EXTENDS LocalTrade, TLAPS

USE LocalAssumption

-----------------------------------------------------------------------------
(* The bridge: every step of the exchange is a step of Service *)

\* The types of the bridge.
LEMMA BridgeTypes ==
    ASSUME S!TypeOK, [S!Next]_(S!vars)
    PROVE  S!TypeOK'
<1> USE DEF S!TypeOK, S!disk, S!memory, S!world, S!Selections
<1>1. ASSUME NEW s \in Saves, S!Upload(s) PROVE S!TypeOK'
    BY <1>1 DEF S!Upload
<1>2. ASSUME NEW t \in Trades, NEW s \in S!Selections, S!Prepare(t, s) PROVE S!TypeOK'
    BY <1>2 DEF S!Prepare, S!States
<1>3. ASSUME NEW t \in Trades, S!Start(t) PROVE S!TypeOK'
    BY <1>3 DEF S!Start, S!States
<1>4. ASSUME NEW t \in Trades, S!Confirm(t) PROVE S!TypeOK'
  <2> DEFINE built == <<sel[t], receipt[t]>>
  <2>1. CASE built \in Importable
    <3>1. /\ st' = [st EXCEPT ![t] = "ready"]
          /\ result' = [result EXCEPT ![t] = built] /\ sha' = [sha EXCEPT ![t] = built]
        BY <1>4, <2>1 DEF S!Confirm
    <3>2. built \in (Saves \X Slots) \X Mons
        BY <2>1
    <3> QED
        BY <1>4, <3>1, <3>2 DEF S!Confirm, S!States
  <2>2. CASE built \notin Importable
      BY <1>4, <2>2 DEF S!Confirm, S!States
  <2> QED
      BY <2>1, <2>2
<1>5. ASSUME NEW t \in Trades, S!ConfirmInterrupted(t) PROVE S!TypeOK'
    BY <1>5 DEF S!ConfirmInterrupted
<1>6. ASSUME NEW t \in Trades, S!Applied(t) PROVE S!TypeOK'
    BY <1>6 DEF S!Applied, S!States
<1>7. ASSUME NEW t \in Trades, S!Worker(t) \/ S!FinishFails(t) PROVE S!TypeOK'
  <2>1. CASE S!Launch(t)
      BY <2>1 DEF S!Launch
  <2>2. CASE S!LaunchFails(t) \/ S!TimeoutKill(t) \/ S!Reap(t)
      BY <2>2 DEF S!LaunchFails, S!TimeoutKill, S!Reap
  <2>3. CASE S!Finish(t) \/ S!FinishFails(t)
      BY <2>3 DEF S!Finish, S!FinishFails, S!FinishState, S!States
  <2> QED
      BY <1>7, <2>1, <2>2, <2>3 DEF S!Worker
<1>8. ASSUME NEW t \in Trades, S!Child(t) PROVE S!TypeOK'
  <2>1. ASSUME NEW m \in Mons, S!RadioReceipt(t, m) \/ S!ConsoleTrades(t, m) PROVE S!TypeOK'
      BY <2>1 DEF S!RadioReceipt, S!ConsoleTrades
  <2>2. CASE S!RadioExits(t)
      BY <2>2 DEF S!RadioExits
  <2> QED
      BY <1>8, <2>1, <2>2 DEF S!Child
<1>9. ASSUME NEW t \in Trades, S!Recover(t) \/ S!Resolve(t) PROVE S!TypeOK'
    BY <1>9 DEF S!Recover, S!Resolve, S!MayResolve, S!FinishState, S!States
<1>10. CASE S!Lifecycle
    BY <1>10 DEF S!Lifecycle, S!BeginClose, S!StopBackend, S!StopChild, S!Exit, S!Crash,
                 S!Restart, S!Serve, S!Forget, S!Serving
<1>11. CASE UNCHANGED S!vars
    BY <1>11 DEF S!vars
<1> QED
    BY <1>1, <1>2, <1>3, <1>4, <1>5, <1>6, <1>7, <1>8, <1>9, <1>10, <1>11
    DEF S!Next, S!Handlers

\* What a record says of the child and the Switch stays true.
LEMMA BridgeKeeps ==
    ASSUME S!TypeOK, BridgeInv, [S!Next]_(S!vars)
    PROVE  BridgeInv'
<1> USE DEF S!TypeOK, BridgeInv, S!disk, S!memory, S!world
<1>1. ASSUME NEW s \in Saves, S!Upload(s) PROVE BridgeInv'
    BY <1>1 DEF S!Upload
<1>2. ASSUME NEW t \in Trades, NEW s \in S!Selections, S!Prepare(t, s) PROVE BridgeInv'
    BY <1>2 DEF S!Prepare
<1>3. ASSUME NEW t \in Trades, S!Start(t) PROVE BridgeInv'
    BY <1>3 DEF S!Start, S!MayStart, S!Serving
<1>4. ASSUME NEW t \in Trades, S!Confirm(t) \/ S!ConfirmInterrupted(t) PROVE BridgeInv'
  <2>1. /\ st[t] = "received" /\ console[t] # None
        /\ \E x \in {"received", "ready", "import_blocked"} : st' = [st EXCEPT ![t] = x]
        /\ UNCHANGED <<server, worker, radio, console, launches>>
    <3>1. CASE S!Confirm(t)
        BY <3>1 DEF S!Confirm, S!SwitchShows
    <3>2. CASE S!ConfirmInterrupted(t)
        BY <3>2 DEF S!ConfirmInterrupted, S!SwitchShows
    <3> QED
        BY <1>4, <3>1, <3>2
  <2> QED
      BY <2>1
<1>5. ASSUME NEW t \in Trades, S!Applied(t) PROVE BridgeInv'
    BY <1>5 DEF S!Applied
<1>6. ASSUME NEW t \in Trades, S!Worker(t) \/ S!FinishFails(t) PROVE BridgeInv'
  <2>1. CASE S!Launch(t)
      BY <2>1 DEF S!Launch
  <2>2. CASE S!LaunchFails(t) \/ S!TimeoutKill(t) \/ S!Reap(t) \/ S!FinishFails(t)
      BY <2>2 DEF S!LaunchFails, S!TimeoutKill, S!Reap, S!FinishFails
  <2>3. CASE S!Finish(t)
      BY <2>3 DEF S!Finish, S!FinishState
  <2> QED
      BY <1>6, <2>1, <2>2, <2>3 DEF S!Worker
<1>7. ASSUME NEW t \in Trades, S!Child(t) PROVE BridgeInv'
  <2>1. ASSUME NEW m \in Mons, S!RadioReceipt(t, m) \/ S!ConsoleTrades(t, m) PROVE BridgeInv'
      BY <2>1 DEF S!RadioReceipt, S!ConsoleTrades
  <2>2. CASE S!RadioExits(t)
      BY <2>2 DEF S!RadioExits
  <2> QED
      BY <1>7, <2>1, <2>2 DEF S!Child
<1>8. ASSUME NEW t \in Trades, S!Recover(t) PROVE BridgeInv'
    BY <1>8 DEF S!Recover, S!ToRecover, S!FinishState, S!Serving
<1>9. ASSUME NEW t \in Trades, S!Resolve(t) PROVE BridgeInv'
    BY <1>9 DEF S!Resolve, S!MayResolve, S!OperatorChecked, S!Serving
<1>10. CASE S!Lifecycle
    BY <1>10 DEF S!Lifecycle, S!BeginClose, S!StopBackend, S!StopChild, S!Exit, S!Crash,
                 S!Restart, S!Serve, S!Forget, S!Serving
<1>11. CASE UNCHANGED S!vars
    BY <1>11 DEF S!vars
<1> QED
    BY <1>1, <1>2, <1>3, <1>4, <1>5, <1>6, <1>7, <1>8, <1>9, <1>10, <1>11
    DEF S!Next, S!Handlers

\* The application and the network reach the bridge by its handlers only.
LEMMA StepService ==
    ASSUME TypeOK, AskedInv, [Next]_vars
    PROVE  [S!Next]_(S!vars)
<1> USE DEF bridge, S!vars
<1>1. ASSUME UNCHANGED bridge PROVE UNCHANGED S!vars
    BY <1>1
<1>2. ASSUME NEW op \in Operations, Call(op) PROVE UNCHANGED S!vars
    BY <1>2 DEF Call
<1>3. CASE GiveUp \/ Poll \/ OnCard \/ PowerLoss
    BY <1>3 DEF GiveUp, Poll, OnCard, PowerLoss
<1>4. CASE Lifecycle
    BY <1>4 DEF Lifecycle, S!Next
<1>5. ASSUME NEW t \in Trades, Select(t) PROVE S!Next
  <2>1. source \in Saves
      BY <1>5 DEF Select, R!Select, R!Contents, Saves
  <2> QED
      BY <1>5, <2>1 DEF Select, S!Next
<1>6. ASSUME NEW t \in Trades, OnBridge(t) PROVE S!Next
    BY <1>6 DEF OnBridge, S!Next, S!Handlers
<1>7. ASSUME NEW r \in net, Answer(r) PROVE [S!Next]_(S!vars)
  <2>1. r \in Requests /\ r.trade \in Trades
      BY DEF TypeOK, Requests
  <2>2. CASE Status(r) \/ Download(r) \/ Refuse(r) \/ Repeated(r) \/ Conflict(r)
      BY <2>2 DEF Status, Download, Refuse, Repeated, Conflict
  <2>3. CASE Prepare(r)
    <3>1. <<original[r.trade], 1>> \in S!Selections
      <4>1. original[r.trade] # None
          BY <2>1 DEF AskedInv, Asked, BackedUp
      <4> QED
          BY <2>1, <4>1 DEF TypeOK, R!TypeOK, R!Contents, Saves, Slots, S!Selections
    <3> QED
        BY <2>1, <2>3, <3>1 DEF Prepare, S!Next, S!Handlers
  <2>4. CASE Start(r) \/ Confirm(r) \/ Applied(r)
      BY <2>1, <2>4 DEF Start, Confirm, Applied, S!Next, S!Handlers
  <2> QED
      BY <1>7, <2>2, <2>3, <2>4 DEF Answer
<1>8. ASSUME NEW r \in net, Lose(r) PROVE UNCHANGED S!vars
    BY <1>8 DEF Lose
<1>9. CASE UNCHANGED vars
    BY <1>9 DEF vars
<1> QED
    BY <1>2, <1>3, <1>4, <1>5, <1>6, <1>7, <1>8, <1>9 DEF Next

-----------------------------------------------------------------------------
(* The card: the application's steps, and what it hears of the bridge *)

LEMMA Outcomes ==
    /\ \A t \in Trades : Outcome(t) \in {"unknown", "rejected", "cancelled", "ready"}
    /\ \A t \in Trades : Outcome(t)' \in {"unknown", "rejected", "cancelled", "ready"}
BY DEF Outcome

\* A result the bridge has released stays released, and a call that ends without
\* an answer changes no file.
LEMMA CardFrame ==
    ASSUME R!IInv, app' \in {app, "home"},
           UNCHANGED <<source, old, temp, backup, record, fresh, original, trade,
                       existed, installs, losses, cardFaults, plays>>,
           \A t \in Trades : Outcome(t) = "ready" => Outcome(t)' = "ready"
    PROVE  R!IInv'
<1>1. R!TypeOK'
    BY Outcomes DEF R!IInv, R!TypeOK, R!Contents
<1>2. R!NeverTorn' /\ R!PlacedOnce'
    BY DEF R!IInv, R!NeverTorn, R!PlacedOnce
<1>3. R!FilesInv'
    BY DEF R!IInv, R!FilesInv, R!Contents
<1>4. R!AppInv'
  <2>1. CASE app' = "home"
      BY <2>1 DEF R!AppInv
  <2>2. CASE app' = app
      BY <2>2 DEF R!IInv, R!AppInv, R!Contents
  <2> QED
      BY <2>1, <2>2
<1> QED
    BY <1>1, <1>2, <1>3, <1>4 DEF R!IInv

\* Opening, closing and selecting change no file; the backup is complete before
\* the record is written, and the record is written aside.
LEMMA CardMain ==
    ASSUME R!IInv,
           \/ R!Open \/ R!Quit \/ R!Resume \/ \E t \in Trades : R!Select(t)
           \/ R!WriteBackup \/ R!WriteRecord \/ R!RenameRecord
    PROVE  R!IInv'
<1> USE DEF R!IInv, R!TypeOK, R!NeverTorn, R!PlacedOnce, R!FilesInv, R!AppInv, R!Contents, Saves,
            R!Goto, R!files, R!budget
<1>1. CASE R!Open \/ R!Quit \/ R!Resume
    BY <1>1 DEF R!Open, R!Quit, R!Resume
<1>2. ASSUME NEW t \in Trades, R!Select(t) PROVE R!IInv'
    BY <1>2 DEF R!Select
<1>3. CASE R!WriteBackup
    BY <1>3 DEF R!WriteBackup
<1>4. CASE R!WriteRecord
    BY <1>4 DEF R!WriteRecord
<1>5. CASE R!RenameRecord
    BY <1>5 DEF R!RenameRecord
<1> QED
    BY <1>1, <1>2, <1>3, <1>4, <1>5

\* A trade that was dropped or is placed has not left the save missing.
LEMMA CardForget ==
    ASSUME R!IInv, R!Drop \/ R!Acknowledge \/ R!Clear
    PROVE  R!IInv'
<1> USE DEF R!IInv, R!TypeOK, R!NeverTorn, R!PlacedOnce, R!FilesInv, R!AppInv, R!Contents, Saves,
            R!Goto, R!files, R!budget
<1>1. CASE R!Drop
    BY <1>1 DEF R!Drop
<1>2. CASE R!Acknowledge
    BY <1>2 DEF R!Acknowledge
<1>3. CASE R!Clear
    BY <1>3 DEF R!Clear
<1> QED
    BY <1>1, <1>2, <1>3

\* A replacement is begun, or resumed, only where it can be completed.
LEMMA CardBegin == ASSUME R!IInv, R!BeginApply PROVE R!IInv'
<1> USE DEF R!IInv, R!TypeOK, R!Goto, R!files, R!budget
<1>1. /\ app = "recover" /\ record = trade /\ trade \in Trades
      /\ original[trade] \in R!Contents /\ Outcome(trade) = "ready"
      /\ existed' = (source # None)
      /\ UNCHANGED <<source, old, temp, backup, record, fresh, original, trade, installs>>
      /\ \A t \in Trades : Outcome(t)' = Outcome(t)
    BY DEF R!BeginApply, R!AppInv
<1>2. CASE app' = "temp"
  <2>1. R!Replaceable(trade)
      BY <1>2 DEF R!BeginApply
  <2>2. IF existed' THEN source = original[trade] /\ old[trade] = None
        ELSE source = None /\ old[trade] = original[trade]
      BY <1>1, <2>1 DEF R!Replaceable, R!Contents
  <2>3. installs[trade] = 0
    <3>1. installs[trade] \in Nat
        BY <1>1
    <3> QED
        BY <1>1, <2>2, <3>1 DEF R!FilesInv
  <2>4. R!AppInv'
      BY <1>1, <1>2, <2>2, <2>3 DEF R!AppInv
  <2> QED
      BY <2>4 DEF R!BeginApply, R!NeverTorn, R!PlacedOnce, R!FilesInv, R!Contents
<1>3. CASE app' = "acknowledge"
  <2>1. source = trade
      BY <1>3 DEF R!BeginApply
  <2>2. R!AppInv'
      BY <1>1, <1>3, <2>1 DEF R!AppInv
  <2> QED
      BY <2>2 DEF R!BeginApply, R!NeverTorn, R!PlacedOnce, R!FilesInv, R!Contents
<1>4. CASE app' = "home"
  <2>1. R!AppInv'
      BY <1>1, <1>4 DEF R!AppInv
  <2> QED
      BY <2>1 DEF R!BeginApply, R!NeverTorn, R!PlacedOnce, R!FilesInv, R!Contents
<1> QED
    BY <1>2, <1>3, <1>4 DEF R!BeginApply

\* Each file operation of a replacement prepares the next.
LEMMA CardApply ==
    ASSUME R!IInv, R!WriteTemp \/ R!Preserve \/ R!Install \/ R!Verify
    PROVE  R!IInv'
<1> USE DEF R!IInv, R!TypeOK, R!NeverTorn, R!PlacedOnce, R!FilesInv, R!AppInv, R!Contents, Saves,
            R!Goto, R!files, R!budget
<1>1. CASE R!WriteTemp
    BY <1>1 DEF R!WriteTemp
<1>2. CASE R!Preserve
    BY <1>2 DEF R!Preserve
<1>3. CASE R!Install
    BY <1>3 DEF R!Install
<1>4. CASE R!Verify
    BY <1>4 DEF R!Verify
<1> QED
    BY <1>1, <1>2, <1>3, <1>4

\* A write that stops half way tears a backup without a record, a record that is
\* not in place, or a replacement that is not; the game changes the save only while
\* the application is closed.
LEMMA CardFailure ==
    ASSUME R!IInv, R!StorageFails \/ R!PowerLoss \/ R!Play
    PROVE  R!IInv'
<1> USE DEF R!IInv, R!TypeOK, R!NeverTorn, R!PlacedOnce, R!FilesInv, R!AppInv, R!Contents, Saves,
            R!Goto
<1>1. CASE R!StorageFails \/ R!PowerLoss
  <2>1. PICK torn \in BOOLEAN : R!HalfWritten(torn)
      BY <1>1 DEF R!StorageFails, R!PowerLoss
  <2>2. app' \in {"off", "home"}
      BY <1>1 DEF R!StorageFails, R!PowerLoss, R!AfterFailure
  <2>3. /\ UNCHANGED <<source, old, record, original, trade, existed, installs>>
        /\ \A t \in Trades : Outcome(t)' = Outcome(t)
      BY <1>1 DEF R!StorageFails, R!PowerLoss
  <2>4. /\ backup' \in [Trades -> R!Contents \cup {None, Torn}]
        /\ fresh' \in Trades \cup {None, Torn}
        /\ temp' \in [Trades -> R!Contents \cup {None, Torn}]
      BY <2>1 DEF R!HalfWritten
  <2>5. losses' \in 0 .. MaxLosses /\ cardFaults' \in 0 .. MaxCardFaults /\ plays' = plays
      BY <1>1 DEF R!StorageFails, R!PowerLoss
  <2>6. \A t \in Trades : backup'[t] = backup[t] \/ (t = trade /\ app = "backup")
      BY <2>1 DEF R!HalfWritten
  <2>7. R!FilesInv'
      BY <2>3, <2>6
  <2>8. R!AppInv'
      BY <2>2, <2>3
  <2> QED
      BY <2>2, <2>3, <2>4, <2>5, <2>7, <2>8
<1>2. CASE R!Play
    BY <1>2 DEF R!Play, R!files, R!budget
<1> QED
    BY <1>1, <1>2

-----------------------------------------------------------------------------
(* How the records of the bridge move *)

\* No trade is stored or acknowledged, and a decided one stays as it is.
Quiet ==
    /\ sel' = sel
    /\ \A t \in Trades :
          /\ st'[t] = "none" <=> st[t] = "none"
          /\ st'[t] = "applied" <=> st[t] = "applied"
          /\ st[t] = "cancelled" => st'[t] = "cancelled"
          /\ st[t] = "ready" => st'[t] = "ready"

LEMMA QuietStill == ASSUME UNCHANGED bridge PROVE Quiet
BY DEF bridge, Quiet

\* Only prepare() stores a trade, and only applied() acknowledges one.
LEMMA QuietBridge ==
    ASSUME S!TypeOK, BridgeInv, NEW t \in Trades,
           \/ S!Start(t) \/ S!Confirm(t) \/ S!ConfirmInterrupted(t) \/ S!Worker(t)
           \/ S!FinishFails(t) \/ S!Child(t) \/ S!Recover(t) \/ S!Resolve(t)
    PROVE  Quiet
<1> USE DEF S!TypeOK, Quiet, S!disk, S!memory, S!world
<1>1. CASE UNCHANGED <<st, sel>>
    BY <1>1
<1>2. CASE S!Start(t)
    BY <1>2 DEF S!Start, S!MayStart
<1>3. CASE S!Confirm(t) \/ S!ConfirmInterrupted(t)
    BY <1>3 DEF S!Confirm, S!ConfirmInterrupted
<1>4. CASE S!Finish(t) \/ S!Recover(t)
    BY <1>4 DEF S!Finish, S!Recover, S!ToRecover, S!FinishState, BridgeInv
<1>5. CASE S!Resolve(t)
    BY <1>5 DEF S!Resolve, S!MayResolve
<1>6. CASE S!Launch(t) \/ S!LaunchFails(t) \/ S!TimeoutKill(t) \/ S!Reap(t) \/ S!FinishFails(t)
    BY <1>1, <1>6 DEF S!Launch, S!LaunchFails, S!TimeoutKill, S!Reap, S!FinishFails
<1>7. CASE S!Child(t)
    BY <1>1, <1>7 DEF S!Child, S!RadioReceipt, S!ConsoleTrades, S!RadioExits
<1> QED
    BY <1>2, <1>3, <1>4, <1>5, <1>6, <1>7 DEF S!Worker

\* The steps of the exchange that leave the card alone and store, refuse and
\* acknowledge nothing.
LEMMA QuietActs ==
    ASSUME TypeOK, BridgeInv,
           \/ Lifecycle \/ GiveUp \/ Poll
           \/ \E t \in Trades : OnBridge(t)
           \/ \E r \in net : \/ Status(r) \/ Download(r) \/ Start(r) \/ Confirm(r)
                             \/ Repeated(r) \/ Conflict(r) \/ Lose(r)
    PROVE  /\ Quiet /\ refused' = refused /\ net' \subseteq net /\ app' \in {app, "home"}
           /\ UNCHANGED <<source, old, temp, backup, record, fresh, original, trade,
                          existed, installs, losses, cardFaults, plays>>
<1> USE DEF card, link
<1>1. CASE Lifecycle
  <2>1. Quiet
      BY <1>1 DEF Lifecycle, S!Lifecycle, S!BeginClose, S!StopBackend, S!StopChild, S!Exit,
                  S!Crash, S!Restart, S!Serve, S!disk, Quiet
  <2> QED
      BY <1>1, <2>1 DEF Lifecycle
<1>2. CASE GiveUp \/ Poll
    BY <1>2, QuietStill DEF GiveUp, Poll, Abandon
<1>3. ASSUME NEW t \in Trades, OnBridge(t) PROVE Quiet /\ UNCHANGED <<card, link>>
    BY <1>3, QuietBridge DEF OnBridge, TypeOK
<1>4. ASSUME NEW r \in net, Start(r) \/ Confirm(r)
      PROVE  Quiet /\ refused' = refused /\ net' \subseteq net /\ UNCHANGED card
  <2>1. r.trade \in Trades
      BY DEF TypeOK, Requests
  <2>2. Quiet
      BY <1>4, <2>1, QuietBridge DEF Start, Confirm, TypeOK
  <2> QED
      BY <1>4, <2>2 DEF Start, Confirm, Arrives
<1>5. ASSUME NEW r \in net, Status(r) \/ Download(r) \/ Repeated(r) \/ Lose(r)
      PROVE  Quiet /\ refused' = refused /\ net' \subseteq net /\ UNCHANGED card
    BY <1>5, QuietStill DEF Status, Download, Repeated, Lose, Arrives
<1>6. ASSUME NEW r \in net, Conflict(r)
      PROVE  /\ Quiet /\ refused' = refused /\ net' \subseteq net /\ app' \in {app, "home"}
             /\ UNCHANGED <<source, old, temp, backup, record, fresh, original, trade,
                            existed, installs, losses, cardFaults, plays>>
    BY <1>6, QuietStill DEF Conflict, Arrives
<1> QED
    BY <1>1, <1>2, <1>3, <1>4, <1>5, <1>6

-----------------------------------------------------------------------------
(* How the card moves *)

\* Steps of the application alone, those of OnCard and a power loss.
CardAct ==
    \/ R!Open \/ R!Quit \/ R!WriteBackup \/ R!WriteRecord \/ R!RenameRecord
    \/ R!Resume \/ R!Drop \/ R!BeginApply \/ R!WriteTemp \/ R!Preserve
    \/ R!Install \/ R!Verify \/ R!Clear \/ R!StorageFails \/ R!Play \/ R!PowerLoss

\* What becomes of backups, of the record and of what has been placed.
CardMoves ==
    /\ original' = original
    /\ \A t \in Trades :
          /\ BackedUp(t) => BackedUp(t)'
          /\ record = t /\ record' # t =>
                (app = "clear" /\ trade = t) \/ Outcome(t) \in {"rejected", "cancelled"}
          /\ OnTheCard(t)' => OnTheCard(t) \/ installs'[t] > 0
          /\ installs[t] > 0 => installs'[t] > 0
          /\ installs'[t] > 0 => installs[t] > 0 \/ Outcome(t) = "ready"
    /\ app' = "clear" => app = "clear" /\ trade' = trade

LEMMA MovesOnCard == ASSUME R!IInv, CardAct PROVE CardMoves
<1> USE DEF CardMoves, BackedUp, OnTheCard, R!IInv, R!TypeOK, R!Contents, R!Goto, Saves,
            R!files, R!budget
<1>1. CASE R!Open \/ R!Quit \/ R!Resume \/ R!Verify
    BY <1>1 DEF R!Open, R!Quit, R!Resume, R!Verify
<1>2. CASE R!BeginApply
    BY <1>2 DEF R!BeginApply
<1>3. CASE R!WriteBackup
    BY <1>3 DEF R!WriteBackup, R!AppInv
<1>4. CASE R!WriteRecord
    BY <1>4 DEF R!WriteRecord
<1>5. CASE R!RenameRecord
    BY <1>5 DEF R!RenameRecord, R!AppInv
<1>6. CASE R!Drop
    BY <1>6 DEF R!Drop, R!AppInv
<1>7. CASE R!WriteTemp
    BY <1>7 DEF R!WriteTemp
<1>8. CASE R!Preserve
    BY <1>8 DEF R!Preserve
<1>9. CASE R!Install
    BY <1>9 DEF R!Install, R!AppInv
<1>10. CASE R!Clear
    BY <1>10 DEF R!Clear, R!AppInv
<1>11. CASE R!StorageFails \/ R!PowerLoss
  <2>1. PICK torn \in BOOLEAN : R!HalfWritten(torn)
      BY <1>11 DEF R!StorageFails, R!PowerLoss
  <2>2. app' \in {"off", "home"} /\ UNCHANGED <<source, old, record, original, installs>>
      BY <1>11 DEF R!StorageFails, R!PowerLoss, R!AfterFailure
  <2>3. \A t \in Trades : backup'[t] = backup[t] \/ (backup'[t] = Torn /\ t = trade /\ app = "backup")
      BY <2>1 DEF R!HalfWritten
  <2> QED
      BY <2>2, <2>3 DEF R!AppInv
<1>12. CASE R!Play
    BY <1>12 DEF R!Play
<1> QED
    BY <1>1, <1>2, <1>3, <1>4, <1>5, <1>6, <1>7, <1>8, <1>9, <1>10, <1>11, <1>12 DEF CardAct

-----------------------------------------------------------------------------
(* The inductive invariant, part by part *)

\* A step on the card is one of the application alone, which the bridge does not see.
LEMMA CardSteps ==
    ASSUME TypeOK, OnCard \/ PowerLoss
    PROVE  CardAct /\ Quiet /\ refused' = refused /\ net' \subseteq net
           /\ \A t \in Trades : Outcome(t)' = Outcome(t)
<1>1. CASE OnCard
    BY <1>1, QuietStill DEF OnCard, CardAct, Drop, BeginApply, Outcome, bridge
<1>2. CASE PowerLoss
    BY <1>2, QuietStill DEF PowerLoss, Abandon, CardAct, Outcome, bridge
<1> QED
    BY <1>1, <1>2

\* The card's part: what the application relies on from one step to the next.
LEMMA StepCard ==
    ASSUME IInv, [Next]_vars
    PROVE  R!IInv'
<1> USE DEF IInv
<1>1. CASE OnCard \/ PowerLoss
    BY <1>1, CardSteps, CardMain, CardForget, CardBegin, CardApply, CardFailure DEF CardAct
<1>2. ASSUME NEW t \in Trades, Select(t) PROVE R!IInv'
    BY <1>2, CardMain DEF Select
<1>3. ASSUME NEW r \in net, Applied(r) PROVE R!IInv'
  <2>1. CASE R!Acknowledge
      BY <2>1, CardForget
  <2>2. CASE UNCHANGED card
    <3>1. \A t \in Trades : Outcome(t) = "ready" => Outcome(t)' = "ready"
        BY <1>3 DEF Applied, S!Applied, Outcome, TypeOK, S!TypeOK
    <3> QED
        BY <2>2, <3>1, CardFrame DEF card
  <2> QED
      BY <1>3, <2>1, <2>2 DEF Applied
<1>4. ASSUME Quiet, refused' = refused, app' \in {app, "home"},
             UNCHANGED <<source, old, temp, backup, record, fresh, original, trade,
                         existed, installs, losses, cardFaults, plays>>
      PROVE  R!IInv'
  <2>1. \A t \in Trades : Outcome(t) = "ready" => Outcome(t)' = "ready"
      BY <1>4 DEF Quiet, Outcome
  <2> QED
      BY <1>4, <2>1, CardFrame
<1>5. ASSUME NEW op \in Operations, Call(op) PROVE R!IInv'
    BY <1>4, <1>5, QuietStill DEF Call, card
<1>6. ASSUME NEW r \in net, Prepare(r) \/ Refuse(r) PROVE R!IInv'
  <2>1. r.trade \in Trades
      BY DEF TypeOK, Requests
  <2>2. \A t \in Trades : Outcome(t) = "ready" => Outcome(t)' = "ready"
    <3>1. CASE Prepare(r)
        BY <2>1, <3>1 DEF Prepare, S!Prepare, Outcome, TypeOK, S!TypeOK
    <3>2. CASE Refuse(r)
        BY <2>1, <3>2 DEF Refuse, Outcome, bridge
    <3> QED
        BY <1>6, <3>1, <3>2
  <2> QED
      BY <1>6, <2>2, CardFrame DEF Prepare, Refuse, card
<1>7. CASE UNCHANGED vars
    BY <1>4, <1>7, QuietStill DEF vars, bridge
<1>8. CASE \/ Lifecycle \/ GiveUp \/ Poll
           \/ \E t \in Trades : OnBridge(t)
           \/ \E r \in net : \/ Status(r) \/ Download(r) \/ Start(r) \/ Confirm(r)
                             \/ Repeated(r) \/ Conflict(r) \/ Lose(r)
    BY <1>4, <1>8, QuietActs
<1> QED
    BY <1>1, <1>2, <1>3, <1>5, <1>6, <1>7, <1>8 DEF Next, Answer

\* A call is made for the trade of the record.
LEMMA Asking ==
    ASSUME R!IInv, NEW op \in Operations, Asks(op)
    PROVE  /\ app \in {"recover", "acknowledge"} /\ (op = "applied" => app = "acknowledge")
           /\ trade \in Trades /\ record = trade
<1>1. app \in {"recover", "acknowledge"} /\ (op = "applied" => app = "acknowledge")
    BY DEF Asks, Operations
<1> QED
    BY <1>1 DEF R!IInv, R!AppInv

\* The types of the calls and of what travels between the two.
LEMMA StepTypes ==
    ASSUME IInv, [Next]_vars
    PROVE  TypeOK'
<1> USE DEF IInv
<1>1. S!TypeOK'
    BY StepService, BridgeTypes DEF TypeOK
<1>2. R!TypeOK'
    BY StepCard DEF R!IInv
<1>3. Attempt \in 0 .. MaxGiveUps + MaxLosses
    BY DEF Attempt, TypeOK, R!TypeOK
<1> DEFINE Linked ==
              /\ refused' \subseteq Trades
              /\ seen' \in S!States \cup {None, "missing", "rejected", "downloaded"}
              /\ wait' \in Operations \cup {None}
              /\ net' \subseteq Requests
              /\ giveUps' \in 0 .. MaxGiveUps
<1> USE DEF TypeOK, link, Abandon
<1>4. ASSUME NEW op \in Operations, Call(op) PROVE Linked
  <2>1. trade \in Trades
      BY <1>4, Asking DEF Call
  <2> QED
      BY <1>3, <1>4, <2>1 DEF Call, Requests
<1>5. ASSUME GiveUp \/ Poll \/ OnCard \/ PowerLoss \/ Lifecycle PROVE Linked
  <2>1. refused' = refused /\ net' \subseteq net /\ wait' \in {wait, None} /\ seen' \in {seen, None}
      BY <1>5 DEF GiveUp, Poll, OnCard, PowerLoss, Lifecycle
  <2>2. giveUps' = giveUps \/ (giveUps < MaxGiveUps /\ giveUps' = giveUps + 1)
      BY <1>5 DEF GiveUp, Poll, OnCard, PowerLoss, Lifecycle
  <2> QED
      BY <2>1, <2>2
<1>6. ASSUME NEW t \in Trades, Select(t) \/ OnBridge(t) PROVE Linked
    BY <1>6 DEF Select, OnBridge
<1>7. ASSUME NEW r \in net, Answer(r) \/ Lose(r) PROVE Linked
  <2>1. r.trade \in Trades
      BY DEF Requests
  <2>2. ASSUME NEW answer \in S!States \cup {None, "missing", "rejected", "downloaded"},
               Reply(r, answer)
        PROVE  /\ wait' \in Operations \cup {None}
               /\ seen' \in S!States \cup {None, "missing", "rejected", "downloaded"}
      BY <2>2 DEF Reply, Unheard
  <2>3. st[r.trade] \in S!States
      BY <2>1 DEF S!TypeOK
  <2>4. CASE Status(r) \/ Download(r) \/ Repeated(r) \/ Lose(r)
    <3>1. CASE Status(r)
        BY <2>2, <2>3, <3>1 DEF Status, Arrives
    <3>2. CASE Download(r)
        BY <2>2, <3>2 DEF Download, Arrives
    <3>3. CASE Repeated(r)
        BY <2>2, <2>3, <3>3 DEF Repeated, Arrives
    <3>4. CASE Lose(r)
        BY <3>4 DEF Lose
    <3> QED
        BY <2>4, <3>1, <3>2, <3>3, <3>4
  <2>5. CASE Prepare(r) \/ Refuse(r)
    <3>1. "prepared" \in S!States
        BY DEF S!States
    <3>2. CASE Prepare(r)
        BY <2>2, <3>1, <3>2 DEF Prepare, Arrives
    <3>3. CASE Refuse(r)
        BY <2>1, <2>2, <3>3 DEF Refuse, Arrives
    <3> QED
        BY <2>5, <3>2, <3>3
  <2>6. CASE Start(r) \/ Confirm(r)
      BY <2>2, <2>6 DEF Start, Confirm, Arrives
  <2>7. CASE Applied(r) \/ Conflict(r)
      BY <2>7 DEF Applied, Conflict, Arrives, Unheard
  <2> QED
      BY <1>7, <2>4, <2>5, <2>6, <2>7 DEF Answer
<1>8. ASSUME UNCHANGED vars PROVE Linked
  <2>1. UNCHANGED link
      BY <1>8 DEF vars
  <2> QED
      BY <2>1
<1> HIDE DEF Linked
<1>9. Linked
    BY <1>4, <1>5, <1>6, <1>7, <1>8 DEF Next
<1> QED
    BY <1>1, <1>2, <1>9 DEF Linked

\* Requests only follow the record: the backup was complete before, and a trade
\* whose record is gone is closed.
LEMMA StepAsked ==
    ASSUME IInv, [Next]_vars
    PROVE  AskedInv'
<1> USE DEF IInv
<1>1. ASSUME Quiet, refused' = refused, net' \subseteq net, original' = original,
             \A t \in Trades : /\ BackedUp(t) => BackedUp(t)'
                               /\ Asked(t) /\ record = t => record' = t \/ Closed(t)
      PROVE  AskedInv'
  <2> SUFFICES ASSUME NEW t \in Trades
               PROVE  /\ Asked(t)' => BackedUp(t)' /\ (record' = t \/ Closed(t)')
                      /\ st'[t] # "none" => sel'[t] = <<original'[t], 1>>
                      /\ t \in refused' =>
                            st'[t] = "none" /\ <<original'[t], 1>> \notin Eligible
      BY DEF AskedInv
  <2>1. Asked(t)' => Asked(t)
      BY <1>1 DEF Asked, Quiet
  <2>2. Closed(t) => Closed(t)'
      BY <1>1 DEF Closed, Quiet
  <2> QED
      BY <1>1, <2>1, <2>2 DEF AskedInv, Quiet
<1>2. CASE \/ Lifecycle \/ GiveUp \/ Poll
           \/ \E t \in Trades : OnBridge(t)
           \/ \E r \in net : \/ Status(r) \/ Download(r) \/ Start(r) \/ Confirm(r)
                             \/ Repeated(r) \/ Conflict(r) \/ Lose(r)
    BY <1>1, <1>2, QuietActs DEF BackedUp
<1>3. CASE OnCard \/ PowerLoss
  <2>1. CardMoves
      BY <1>3, CardSteps, MovesOnCard
  <2>2. ASSUME NEW t \in Trades, record = t, record' # t PROVE Closed(t)
    <3>1. CASE app = "clear" /\ trade = t
        BY <3>1 DEF PlacedInv, Closed
    <3>2. CASE Outcome(t) \in {"rejected", "cancelled"}
        BY <3>2 DEF Outcome, Closed
    <3> QED
        BY <2>1, <2>2, <3>1, <3>2 DEF CardMoves
  <2> QED
      BY <1>1, <1>3, <2>1, <2>2, CardSteps DEF CardMoves
<1>4. ASSUME NEW op \in Operations, Call(op) PROVE AskedInv'
  <2>1. trade \in Trades /\ record = trade /\ BackedUp(trade)
      BY <1>4, Asking DEF Call, R!IInv, R!FilesInv, R!Contents, BackedUp, Saves
  <2>2. UNCHANGED <<st, sel, refused, original, backup, record>>
        /\ \A r \in net' : r \in net \/ r.trade = trade
      BY <1>4 DEF Call, bridge, card
  <2> QED
      BY <2>1, <2>2 DEF AskedInv, Asked, BackedUp, Closed
<1>5. ASSUME NEW t \in Trades, Select(t) PROVE AskedInv'
  <2>1. /\ original[t] = None /\ \A u \in Trades \ {t} : original'[u] = original[u]
        /\ UNCHANGED <<st, sel, refused, net, backup, record>>
      BY <1>5 DEF Select, S!Upload, R!Select, R!files, link, TypeOK, R!TypeOK
  <2>2. ~Asked(t)
      BY <2>1 DEF AskedInv, BackedUp
  <2> QED
      BY <2>1, <2>2 DEF AskedInv, Asked, BackedUp, Closed
<1>6. ASSUME NEW r \in net, Prepare(r) PROVE AskedInv'
  <2>1. r.trade \in Trades /\ Asked(r.trade)
      BY DEF TypeOK, Requests, Asked
  <2>2. /\ st[r.trade] = "none" /\ <<original[r.trade], 1>> \in Eligible
        /\ st' = [st EXCEPT ![r.trade] = "prepared"]
        /\ sel' = [sel EXCEPT ![r.trade] = <<original[r.trade], 1>>]
        /\ UNCHANGED <<refused, original, backup, record>> /\ net' \subseteq net
      BY <1>6 DEF Prepare, S!Prepare, Arrives, card
  <2>3. /\ st'[r.trade] = "prepared" /\ sel'[r.trade] = <<original[r.trade], 1>>
        /\ \A u \in Trades \ {r.trade} : st'[u] = st[u] /\ sel'[u] = sel[u]
      BY <2>1, <2>2 DEF TypeOK, S!TypeOK
  <2> QED
      BY <2>1, <2>2, <2>3 DEF AskedInv, Asked, BackedUp, Closed
<1>7. ASSUME NEW r \in net, Refuse(r) PROVE AskedInv'
  <2>1. r.trade \in Trades /\ Asked(r.trade)
      BY DEF TypeOK, Requests, Asked
  <2>2. /\ st[r.trade] = "none" /\ <<original[r.trade], 1>> \notin Eligible
        /\ refused' = refused \cup {r.trade}
        /\ UNCHANGED <<st, sel, original, backup, record>> /\ net' \subseteq net
      BY <1>7 DEF Refuse, Arrives, bridge, card
  <2> QED
      BY <2>1, <2>2 DEF AskedInv, Asked, BackedUp, Closed
<1>8. ASSUME NEW r \in net, Applied(r) PROVE AskedInv'
  <2>1. r.trade \in Trades
      BY DEF TypeOK, Requests
  <2>2. /\ st[r.trade] \in {"ready", "applied"}
        /\ st' = [st EXCEPT ![r.trade] = "applied"]
        /\ UNCHANGED <<sel, refused, original, backup, record>> /\ net' \subseteq net
      BY <1>8 DEF Applied, S!Applied, R!Acknowledge, R!files, Arrives, card
  <2>3. st'[r.trade] = "applied" /\ \A u \in Trades \ {r.trade} : st'[u] = st[u]
      BY <2>1, <2>2 DEF TypeOK, S!TypeOK
  <2> QED
      BY <2>1, <2>2, <2>3 DEF AskedInv, Asked, BackedUp, Closed
<1>9. CASE UNCHANGED vars
    BY <1>9 DEF vars, AskedInv, Asked, BackedUp, Closed
<1> QED
    BY <1>2, <1>3, <1>4, <1>5, <1>6, <1>7, <1>8, <1>9 DEF Next, Answer

\* A result is on the card only after the bridge released it, and the bridge hears
\* of it only after it is on the card.
LEMMA StepPlaced ==
    ASSUME IInv, [Next]_vars
    PROVE  PlacedInv'
<1> USE DEF IInv
<1>0. \A t \in Trades : installs[t] \in Nat
    BY DEF TypeOK, R!TypeOK
<1>1. ASSUME Quiet, net' \subseteq net, app' \in {app, "home"},
             UNCHANGED <<source, old, backup, original, installs, trade>>
      PROVE  PlacedInv'
  <2>1. app' = "clear" => st'[trade] = "applied"
      BY <1>1 DEF PlacedInv, Quiet, R!IInv, R!AppInv
  <2> QED
      BY <1>1, <2>1 DEF PlacedInv, Quiet, OnTheCard
<1>2. CASE \/ Lifecycle \/ GiveUp \/ Poll
           \/ \E t \in Trades : OnBridge(t)
           \/ \E r \in net : \/ Status(r) \/ Download(r) \/ Start(r) \/ Confirm(r)
                             \/ Repeated(r) \/ Conflict(r) \/ Lose(r)
    BY <1>1, <1>2, QuietActs
<1>3. CASE OnCard \/ PowerLoss
  <2>1. CardMoves /\ Quiet /\ net' \subseteq net
      BY <1>3, CardSteps, MovesOnCard
  <2>2. ASSUME NEW t \in Trades
        PROVE  /\ OnTheCard(t)' \/ st'[t] = "applied" => installs'[t] > 0
               /\ installs'[t] > 0 => st'[t] \in {"ready", "applied"}
      BY <2>1 DEF CardMoves, Quiet, PlacedInv, Outcome
  <2>3. ASSUME NEW r \in net', r.op = "applied" PROVE installs'[r.trade] > 0
      BY <2>1, <2>3 DEF CardMoves, PlacedInv, TypeOK, Requests
  <2>4. app' = "clear" => st'[trade'] = "applied"
      BY <2>1 DEF CardMoves, Quiet, PlacedInv, R!IInv, R!AppInv
  <2> QED
      BY <2>2, <2>3, <2>4 DEF PlacedInv
<1>4. ASSUME NEW op \in Operations, Call(op) PROVE PlacedInv'
  <2>1. UNCHANGED <<st, source, old, backup, original, installs, app, trade>>
        /\ \A r \in net' : r \in net \/ (r.trade = trade /\ r.op = op)
      BY <1>4 DEF Call, bridge, card
  <2>2. op = "applied" => trade \in Trades /\ source = trade
      BY <1>4, Asking DEF Call, R!IInv, R!AppInv
  <2> QED
      BY <2>1, <2>2 DEF PlacedInv, OnTheCard
<1>5. ASSUME NEW t \in Trades, Select(t) PROVE PlacedInv'
  <2>1. /\ app' = "backup" /\ original' = [original EXCEPT ![t] = source]
        /\ UNCHANGED <<st, net, source, old, backup, installs>>
      BY <1>5 DEF Select, S!Upload, R!Select, R!Goto, R!files, link
  <2>2. \A u \in Trades : original'[u] \in {original[u], source}
      BY <2>1 DEF TypeOK, R!TypeOK
  <2>3. \A u \in Trades : OnTheCard(u)' => OnTheCard(u)
      BY <2>1, <2>2 DEF OnTheCard
  <2> QED
      BY <2>1, <2>3 DEF PlacedInv
<1>6. ASSUME NEW r \in net, Prepare(r) PROVE PlacedInv'
  <2>1. /\ st[r.trade] = "none" /\ st' = [st EXCEPT ![r.trade] = "prepared"]
        /\ UNCHANGED <<source, old, backup, original, installs, app, trade>> /\ net' \subseteq net
      BY <1>6 DEF Prepare, S!Prepare, Arrives, card
  <2>2. \A u \in Trades : st'[u] = st[u] \/ (u = r.trade /\ st'[u] = "prepared" /\ st[u] = "none")
      BY <2>1 DEF TypeOK, S!TypeOK
  <2>3. app = "clear" => trade \in Trades
      BY DEF R!IInv, R!AppInv
  <2> QED
      BY <2>1, <2>2, <2>3 DEF PlacedInv, OnTheCard
<1>7. ASSUME NEW r \in net, Refuse(r) PROVE PlacedInv'
    BY <1>1, <1>7, QuietStill DEF Refuse, Arrives, card
<1>8. ASSUME NEW r \in net, Applied(r) PROVE PlacedInv'
  <2>1. r.trade \in Trades /\ installs[r.trade] > 0
      BY <1>8 DEF TypeOK, Requests, PlacedInv, Applied, Arrives
  <2>2. /\ st' = [st EXCEPT ![r.trade] = "applied"]
        /\ UNCHANGED <<source, old, backup, original, installs, trade>> /\ net' \subseteq net
        /\ app' = app \/ (app' = "clear" /\ trade = r.trade)
      BY <1>8 DEF Applied, S!Applied, R!Acknowledge, R!Goto, R!files, Arrives, Awaited, card
  <2>3. \A u \in Trades : st'[u] = IF u = r.trade THEN "applied" ELSE st[u]
      BY <2>2 DEF TypeOK, S!TypeOK
  <2>4. app = "clear" => trade \in Trades
      BY DEF R!IInv, R!AppInv
  <2> QED
      BY <2>1, <2>2, <2>3, <2>4 DEF PlacedInv, OnTheCard
<1>9. CASE UNCHANGED vars
    BY <1>1, <1>9, QuietStill DEF vars, bridge
<1> QED
    BY <1>2, <1>3, <1>4, <1>5, <1>6, <1>7, <1>8, <1>9 DEF Next, Answer

\* A bridge without records and a card without a trade.
LEMMA InitInv == Init => IInv
<1> SUFFICES ASSUME Init PROVE IInv
    OBVIOUS
<1>1. S!TypeOK
    BY DEF Init, S!Init, S!TypeOK, S!States, S!Serving
<1>2. R!TypeOK
  <2>1. source \in R!Contents \cup {None, Torn} /\ existed \in BOOLEAN
      BY DEF Init, R!Init, R!Contents
  <2>2. /\ losses \in 0 .. MaxLosses /\ cardFaults \in 0 .. MaxCardFaults
        /\ plays \in 0 .. MaxPlays /\ installs \in [Trades -> Nat]
      BY DEF Init, R!Init
  <2> QED
      BY <2>1, <2>2, Outcomes DEF Init, R!Init, R!TypeOK
<1>3. TypeOK
    BY <1>1, <1>2 DEF Init, TypeOK, Requests
<1>4. R!NeverTorn /\ R!PlacedOnce /\ R!FilesInv /\ R!AppInv
    BY DEF Init, R!Init, R!NeverTorn, R!PlacedOnce, R!FilesInv, R!AppInv, Saves
<1>5. BridgeInv
    BY DEF Init, S!Init, BridgeInv
<1>6. AskedInv
    BY DEF Init, S!Init, AskedInv, Asked
<1>7. PlacedInv
    BY DEF Init, S!Init, R!Init, PlacedInv, OnTheCard, Saves
<1> QED
    BY <1>2, <1>3, <1>4, <1>5, <1>6, <1>7 DEF IInv, R!IInv

\* Every step of the application, the network and the bridge keeps the invariant.
LEMMA StepInv == IInv /\ [Next]_vars => IInv'
<1> SUFFICES ASSUME IInv, [Next]_vars PROVE IInv'
    OBVIOUS
<1>1. BridgeInv'
    BY StepService, BridgeKeeps DEF IInv, TypeOK
<1> QED
    BY <1>1, StepTypes, StepCard, StepAsked, StepPlaced DEF IInv

-----------------------------------------------------------------------------
(* Theorems *)

LEMMA Inductive == Spec => []IInv
BY InitInv, StepInv, PTL DEF Spec

\* The records of the bridge, the files of the 3DS and what travels between them
\* keep to their types.
THEOREM Typed == Spec => []TypeOK
<1>1. IInv => TypeOK
    BY DEF IInv
<1> QED
    BY <1>1, Inductive, PTL

\* main() writes backup and record before its first request: however late a request
\* is handled, no child starts for a save that could not be put back.
THEOREM BackupFirst == Spec => []BackedUpBeforeRadio
<1>1. ASSUME IInv PROVE BackedUpBeforeRadio
  <2> SUFFICES ASSUME NEW t \in Trades, launches[t] > 0
               PROVE  backup[t] = original[t] /\ sel[t] = <<original[t], 1>>
      BY DEF BackedUpBeforeRadio
  <2>1. st[t] # "none"
      BY <1>1 DEF IInv, BridgeInv
  <2> QED
      BY <1>1, <2>1 DEF IInv, AskedInv, Asked, BackedUp
<1> QED
    BY <1>1, Inductive, PTL

\* recover() and the bridge agree on a trade the radio was started for until it is
\* cancelled or its result is in the save.
THEOREM NoneForgotten == Spec => []NotForgotten
<1>1. ASSUME IInv PROVE NotForgotten
  <2> SUFFICES ASSUME NEW t \in Trades, launches[t] > 0, record # t
               PROVE  st[t] = "cancelled" \/ (st[t] = "applied" /\ installs[t] = 1)
      BY DEF NotForgotten
  <2>1. st[t] # "none"
      BY <1>1 DEF IInv, BridgeInv
  <2>2. st[t] \in {"cancelled", "applied"}
      BY <1>1, <2>1 DEF IInv, AskedInv, Asked, Closed
  <2>3. st[t] = "applied" => installs[t] > 0 /\ installs[t] <= 1 /\ installs[t] \in Nat
      BY <1>1 DEF IInv, PlacedInv, R!IInv, R!PlacedOnce, R!TypeOK
  <2> QED
      BY <2>2, <2>3
<1> QED
    BY <1>1, Inductive, PTL

\* A trade the bridge answered 400 to, and which the 3DS dropped for that, is never
\* stored by a PUT that arrives later.
THEOREM RefusedForGood == Spec => []RefusedNeverStarts
<1>1. IInv => RefusedNeverStarts
    BY DEF IInv, TypeOK, AskedInv, RefusedNeverStarts
<1> QED
    BY <1>1, Inductive, PTL

\* applied() is only ever called for a result that has become the save, once.
THEOREM AppliedPlaced == Spec => []AppliedIsPlaced
<1>1. ASSUME IInv, NEW t \in Trades, st[t] = "applied" PROVE installs[t] = 1
  <2>1. installs[t] > 0 /\ installs[t] <= 1 /\ installs[t] \in Nat
      BY <1>1 DEF IInv, PlacedInv, R!IInv, R!PlacedOnce, R!TypeOK
  <2> QED
      BY <2>1
<1>2. IInv => AppliedIsPlaced
    BY <1>1 DEF AppliedIsPlaced
<1> QED
    BY <1>2, Inductive, PTL

\* Whatever the network and the application do, the bridge sees what Service models:
\* the theorems about Service hold in the composition.
THEOREM BridgeIsService == Spec => S!Spec
<1>1. Init => S!Init
    BY DEF Init
<1>2. IInv /\ [Next]_vars => [S!Next]_(S!vars)
    BY StepService DEF IInv
<1> QED
    BY <1>1, <1>2, Inductive, PTL DEF Spec, S!Spec

\* What SaveReplacement promises of the card holds with the bridge's real answers.
THEOREM CardSafe == Spec => [](R!NeverTorn /\ R!PlacedOnce /\ R!MissingIsRecoverable)
<1>1. IInv => R!NeverTorn /\ R!PlacedOnce /\ R!MissingIsRecoverable
    BY DEF IInv, R!IInv, R!FilesInv, R!MissingIsRecoverable
<1> QED
    BY <1>1, Inductive, PTL

-----------------------------------------------------------------------------
(* Both sides implement Exchange *)

Undecided == {"running", "uncertain", "received", "import_blocked", "ready", "applied"}

\* A record and the card decide the abstract phase.
LEMMA Phases ==
    ASSUME IInv, IInv', NEW t \in Trades
    PROVE  /\ installs[t] > 0 => EndToEnd(t) = "released"
           /\ installs'[t] > 0 => EndToEnd(t)' = "released"
           /\ installs[t] = 0 =>
                 /\ st[t] = "cancelled" => EndToEnd(t) = "void"
                 /\ st[t] \in {"none", "prepared"} => EndToEnd(t) = "open"
                 /\ st[t] \in Undecided => EndToEnd(t) = "pending"
           /\ installs'[t] = 0 =>
                 /\ st'[t] = "cancelled" => EndToEnd(t)' = "void"
                 /\ st'[t] \in {"none", "prepared"} => EndToEnd(t)' = "open"
                 /\ st'[t] \in Undecided => EndToEnd(t)' = "pending"
           /\ installs[t] = 0 \/ installs[t] > 0
           /\ installs'[t] = 0 \/ installs'[t] > 0
           /\ st[t] \in {"none", "prepared", "cancelled"} \cup Undecided
<1>1. installs[t] \in Nat /\ installs'[t] \in Nat /\ st[t] \in S!States
    BY DEF IInv, TypeOK, R!TypeOK, S!TypeOK
<1>2. /\ installs[t] = 0 \/ installs[t] > 0
      /\ installs'[t] = 0 \/ installs'[t] > 0
      /\ st[t] \in {"none", "prepared", "cancelled"} \cup Undecided
    BY <1>1 DEF Undecided, S!States
<1>3. installs[t] > 0 => EndToEnd(t) = "released"
    BY DEF EndToEnd, IInv, PlacedInv
<1>4. installs'[t] > 0 => EndToEnd(t)' = "released"
    BY DEF EndToEnd, IInv, PlacedInv
<1>5. ASSUME installs[t] = 0
      PROVE  /\ st[t] = "cancelled" => EndToEnd(t) = "void"
             /\ st[t] \in {"none", "prepared"} => EndToEnd(t) = "open"
             /\ st[t] \in Undecided => EndToEnd(t) = "pending"
    BY <1>5 DEF EndToEnd, Undecided
<1>6. ASSUME installs'[t] = 0
      PROVE  /\ st'[t] = "cancelled" => EndToEnd(t)' = "void"
             /\ st'[t] \in {"none", "prepared"} => EndToEnd(t)' = "open"
             /\ st'[t] \in Undecided => EndToEnd(t)' = "pending"
    BY <1>6 DEF EndToEnd, Undecided
<1> QED
    BY <1>2, <1>3, <1>4, <1>5, <1>6

\* Records that only move within a phase.
LEMMA PhasesStay ==
    ASSUME IInv, IInv', UNCHANGED <<installs, console>>,
           \A t \in Trades : \/ st'[t] = st[t]
                             \/ {st[t], st'[t]} \subseteq {"none", "prepared"}
                             \/ {st[t], st'[t]} \subseteq Undecided
    PROVE  UNCHANGED E!vars
<1>1. ASSUME NEW t \in Trades PROVE EndToEnd(t)' = EndToEnd(t)
    BY <1>1, Phases
<1> QED
    BY <1>1 DEF E!vars

\* One abstract exchange changes its phase.
LEMMA PhaseOfOne ==
    ASSUME IInv, IInv', NEW t \in Trades, NEW p, EndToEnd(t)' = p,
           \A u \in Trades \ {t} : st'[u] = st[u] /\ installs'[u] = installs[u]
    PROVE  [u \in Trades |-> EndToEnd(u)]' = [[u \in Trades |-> EndToEnd(u)] EXCEPT ![t] = p]
<1>1. ASSUME NEW u \in Trades \ {t} PROVE EndToEnd(u)' = EndToEnd(u)
    BY <1>1, Phases
<1> QED
    BY <1>1

\* A step of the bridge begins an exchange, gives its Pokemon, calls it off, or
\* leaves it where it is: only the card releases.
LEMMA ExchangeOnBridge ==
    ASSUME IInv, IInv', UNCHANGED installs, NEW t \in Trades,
           \/ S!Start(t) \/ S!Confirm(t) \/ S!ConfirmInterrupted(t) \/ S!Applied(t)
           \/ S!Worker(t) \/ S!FinishFails(t) \/ S!Child(t) \/ S!Recover(t) \/ S!Resolve(t)
           \/ \E s \in S!Selections : S!Prepare(t, s)
    PROVE  [E!Next]_(E!vars)
<1> USE DEF IInv, S!disk, S!memory, S!world
<1>0. TypeOK /\ S!TypeOK /\ installs \in [Trades -> Nat]
    BY DEF TypeOK, R!TypeOK
<1>1. ASSUME UNCHANGED console, NEW x,
             \/ {st[t], x} \subseteq {"none", "prepared"} \/ {st[t], x} \subseteq Undecided,
             st' = [st EXCEPT ![t] = x]
      PROVE  UNCHANGED E!vars
    BY <1>0, <1>1, PhasesStay DEF S!TypeOK
<1>2. CASE S!Start(t)
  <2>1. /\ st[t] = "prepared" /\ st'[t] = "running" /\ console' = console
        /\ \A u \in Trades \ {t} : st'[u] = st[u]
      BY <1>0, <1>2 DEF S!Start, S!MayStart, S!TypeOK
  <2>2. installs[t] = 0
      BY <1>0, <2>1 DEF PlacedInv
  <2>3. EndToEnd(t) = "open" /\ EndToEnd(t)' = "pending"
      BY <1>0, <2>1, <2>2, Phases DEF Undecided
  <2>4. ASSUME NEW u \in Trades, EndToEnd(u) = "pending" PROVE FALSE
    <3>1. st[u] \in Undecided /\ installs[u] = 0
        BY <1>0, <2>4, Phases
    <3>2. record = u
      <4>1. st[u] # "none" /\ st[u] # "cancelled" /\ st[u] # "applied"
          BY <3>1 DEF PlacedInv, Undecided
      <4> QED
          BY <4>1 DEF AskedInv, Asked, Closed
    <3>3. record = t
        BY <2>1 DEF AskedInv, Asked, Closed
    <3> QED
        BY <2>3, <2>4, <3>2, <3>3
  <2>5. E!Pending = {}
      BY <2>4 DEF E!Pending
  <2>6. E!Begin(t)
      BY <1>0, <2>1, <2>3, <2>5, PhaseOfOne DEF E!Begin
  <2> QED
      BY <2>6 DEF E!Next
<1>3. CASE S!Confirm(t) \/ S!ConfirmInterrupted(t)
  <2>1. UNCHANGED console /\ \/ UNCHANGED st
                             \/ /\ st[t] = "received"
                                /\ \E x \in {"ready", "import_blocked"} : st' = [st EXCEPT ![t] = x]
      BY <1>3 DEF S!Confirm, S!ConfirmInterrupted
  <2> QED
      BY <1>0, <1>1, <2>1, PhasesStay DEF Undecided
<1>4. CASE S!Applied(t)
    BY <1>1, <1>4 DEF S!Applied, Undecided
<1>5. CASE S!Finish(t) \/ S!Recover(t)
  <2>1. st[t] = "running" /\ UNCHANGED console
        /\ \E x \in {"uncertain", "received"} : st' = [st EXCEPT ![t] = x]
      BY <1>5 DEF S!Finish, S!Recover, S!ToRecover, S!FinishState, BridgeInv
  <2> QED
      BY <1>1, <2>1 DEF Undecided
<1>6. CASE S!Launch(t) \/ S!LaunchFails(t) \/ S!TimeoutKill(t) \/ S!Reap(t) \/ S!FinishFails(t)
  <2>1. UNCHANGED <<st, console>>
      BY <1>6 DEF S!Launch, S!LaunchFails, S!TimeoutKill, S!Reap, S!FinishFails
  <2> QED
      BY <1>0, <2>1, PhasesStay
<1>7. CASE S!Child(t)
  <2>1. ASSUME NEW m \in Mons, S!ConsoleTrades(t, m) PROVE E!Give(t)
    <3>1. /\ radio[t] = "alive" /\ console[t] = None /\ m # None
          /\ console' = [console EXCEPT ![t] = m] /\ st' = st
        BY <2>1 DEF S!ConsoleTrades
    <3>2. st[t] \notin {"none", "prepared", "ready", "applied", "cancelled"}
        BY <3>1 DEF BridgeInv
    <3>3. installs[t] = 0 /\ st[t] \in Undecided
        BY <1>0, <3>2, Phases DEF PlacedInv
    <3>4. EndToEnd(t) = "pending" /\ \A u \in Trades : EndToEnd(u)' = EndToEnd(u)
        BY <1>0, <3>1, <3>3, Phases
    <3>5. \A u \in Trades : (console'[u] # None) = (IF u = t THEN TRUE ELSE console[u] # None)
        BY <1>0, <3>1 DEF S!TypeOK
    <3> QED
        BY <3>1, <3>4, <3>5 DEF E!Give
  <2>2. CASE (\E m \in Mons : S!RadioReceipt(t, m)) \/ S!RadioExits(t)
    <3>1. UNCHANGED <<st, console>>
        BY <2>2 DEF S!RadioReceipt, S!RadioExits
    <3> QED
        BY <1>0, <3>1, PhasesStay
  <2> QED
      BY <1>7, <2>1, <2>2 DEF S!Child, E!Next
<1>8. CASE S!Resolve(t)
  <2>1. /\ st[t] \in {"uncertain", "prepared"} /\ st'[t] = "cancelled" /\ console[t] = None
        /\ console' = console /\ \A u \in Trades \ {t} : st'[u] = st[u]
      BY <1>0, <1>8 DEF S!Resolve, S!MayResolve, S!OperatorChecked, S!TypeOK
  <2>2. installs[t] = 0
      BY <1>0, <2>1 DEF PlacedInv
  <2>3. EndToEnd(t) \in {"open", "pending"} /\ EndToEnd(t)' = "void"
      BY <1>0, <2>1, <2>2, Phases DEF Undecided
  <2>4. E!Void(t)
      BY <1>0, <2>1, <2>3, PhaseOfOne DEF E!Void
  <2> QED
      BY <2>4 DEF E!Next
<1>9. ASSUME NEW s \in S!Selections, S!Prepare(t, s) PROVE UNCHANGED E!vars
    BY <1>1, <1>9 DEF S!Prepare
<1> QED
    BY <1>2, <1>3, <1>4, <1>5, <1>6, <1>7, <1>8, <1>9 DEF S!Worker

\* The card releases an exchange when the result becomes the save.
LEMMA ExchangeOnCard ==
    ASSUME IInv, IInv', UNCHANGED bridge, CardAct
    PROVE  [E!Next]_(E!vars)
<1> USE DEF IInv, bridge
<1>0. TypeOK /\ installs \in [Trades -> Nat]
    BY DEF TypeOK, R!TypeOK
<1>1. CASE UNCHANGED installs
    BY <1>0, <1>1, PhasesStay
<1>2. CASE R!Install
  <2>1. PICK t \in Trades : t = trade
      BY <1>2 DEF R!Install, R!IInv, R!AppInv
  <2>2. /\ Outcome(t) = "ready" /\ installs[t] = 0 /\ installs' = [installs EXCEPT ![t] = @ + 1]
      BY <1>2, <2>1 DEF R!Install, R!IInv, R!AppInv
  <2>3. st[t] \in {"ready", "applied"}
      BY <2>2 DEF Outcome
  <2>4. installs'[t] > 0 /\ \A u \in Trades \ {t} : installs'[u] = installs[u]
      BY <1>0, <2>2
  <2>5. EndToEnd(t) = "pending" /\ EndToEnd(t)' = "released"
      BY <1>0, <2>2, <2>3, <2>4, Phases DEF Undecided
  <2>6. console[t] # None
      BY <2>3 DEF BridgeInv
  <2>7. E!Release(t)
      BY <1>0, <2>4, <2>5, <2>6, PhaseOfOne DEF E!Release
  <2> QED
      BY <2>7 DEF E!Next
<1> USE DEF R!budget
<1>3. CASE R!Open \/ R!Quit \/ R!WriteBackup \/ R!WriteRecord \/ R!RenameRecord \/ R!Resume
    BY <1>1, <1>3 DEF R!Open, R!Quit, R!WriteBackup, R!WriteRecord, R!RenameRecord, R!Resume
<1>4. CASE R!Drop \/ R!BeginApply \/ R!WriteTemp \/ R!Preserve \/ R!Verify \/ R!Clear
    BY <1>1, <1>4 DEF R!Drop, R!BeginApply, R!WriteTemp, R!Preserve, R!Verify, R!Clear
<1>5. CASE R!StorageFails \/ R!PowerLoss \/ R!Play
    BY <1>1, <1>5 DEF R!StorageFails, R!PowerLoss, R!Play
<1> QED
    BY <1>2, <1>3, <1>4, <1>5 DEF CardAct

\* Every step of the system is a step of one abstract exchange, or none.
LEMMA StepExchange == IInv /\ [Next]_vars => [E!Next]_(E!vars)
<1> SUFFICES ASSUME IInv, [Next]_vars PROVE [E!Next]_(E!vars)
    OBVIOUS
<1>0. TypeOK /\ IInv'
    BY StepInv DEF IInv
<1>1. ASSUME UNCHANGED <<st, console, installs>> PROVE UNCHANGED E!vars
    BY <1>0, <1>1, PhasesStay
<1>2. ASSUME NEW op \in Operations, Call(op) PROVE UNCHANGED E!vars
    BY <1>1, <1>2 DEF Call, bridge, card
<1>3. CASE GiveUp \/ Poll \/ UNCHANGED vars
    BY <1>1, <1>3 DEF GiveUp, Poll, bridge, card, vars
<1>4. CASE OnCard \/ PowerLoss
  <2>1. UNCHANGED bridge
      BY <1>4 DEF OnCard, PowerLoss
  <2> QED
      BY <1>0, <1>4, <2>1, CardSteps, ExchangeOnCard
<1>5. CASE Lifecycle
    BY <1>1, <1>5 DEF Lifecycle, S!Lifecycle, S!BeginClose, S!StopBackend, S!StopChild, S!Exit,
                      S!Crash, S!Restart, S!Serve, S!disk, S!world, card
<1>6. ASSUME NEW t \in Trades, Select(t) PROVE UNCHANGED E!vars
    BY <1>1, <1>6 DEF Select, S!Upload, S!world, R!Select
<1>7. ASSUME NEW t \in Trades, OnBridge(t) PROVE [E!Next]_(E!vars)
    BY <1>0, <1>7, ExchangeOnBridge DEF OnBridge, card
<1>8. ASSUME NEW r \in net, Answer(r) \/ Lose(r) PROVE [E!Next]_(E!vars)
  <2>1. r.trade \in Trades
      BY <1>0 DEF TypeOK, Requests
  <2>2. CASE Status(r) \/ Download(r) \/ Refuse(r) \/ Repeated(r) \/ Conflict(r) \/ Lose(r)
      BY <1>1, <2>2 DEF Status, Download, Refuse, Repeated, Conflict, Lose, bridge, card
  <2>3. CASE Start(r) \/ Confirm(r)
      BY <1>0, <2>1, <2>3, ExchangeOnBridge DEF Start, Confirm, card
  <2>4. CASE Applied(r)
      BY <1>0, <2>1, <2>4, ExchangeOnBridge DEF Applied, R!Acknowledge, card
  <2>5. CASE Prepare(r)
    <3>1. <<original[r.trade], 1>> \in S!Selections
      <4>1. original[r.trade] # None
          BY <2>1 DEF IInv, AskedInv, Asked, BackedUp
      <4> QED
          BY <1>0, <2>1, <4>1 DEF TypeOK, R!TypeOK, R!Contents, Saves, Slots, S!Selections
    <3> QED
        BY <1>0, <2>1, <2>5, <3>1, ExchangeOnBridge DEF Prepare, card
  <2> QED
      BY <1>8, <2>2, <2>3, <2>4, <2>5 DEF Answer
<1> QED
    BY <1>2, <1>3, <1>4, <1>5, <1>6, <1>7, <1>8 DEF Next

\* The start of the system is the start of the abstract exchanges.
LEMMA InitExchange == Init => E!Init
<1> SUFFICES ASSUME Init PROVE E!Init
    OBVIOUS
<1>1. ASSUME NEW t \in Trades PROVE EndToEnd(t) = "open" /\ (console[t] # None) = FALSE
    BY DEF Init, S!Init, R!Init, EndToEnd
<1> QED
    BY <1>1 DEF E!Init

\* From the selection to the replaced save, 3DS and bridge together carry out one
\* exchange at a time: the second begins only when the first is on the card or void.
THEOREM Implements == Spec => ImplementsExchange
BY InitExchange, StepExchange, Inductive, PTL DEF Spec, ImplementsExchange, E!Spec
=============================================================================
