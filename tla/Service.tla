------------------------------- MODULE Service -------------------------------
(***************************************************************************)
(* The local bridge: the transaction store and handlers of Service, the    *)
(* trade child that LiveBackend runs for it, and the ways the bridge       *)
(* process stops and starts again.                                         *)
(*                                                                         *)
(* Every handler holds Service.lock from its first read to its last write, *)
(* so a handler is one step.  What is not under the lock is: the worker    *)
(* thread of a trade between its launch and its end, the child process,    *)
(* and the stages of close().  A file replaced by storage.atomic_write is  *)
(* written in one step; two files are written in two, and storage or the   *)
(* process can fail between them.                                          *)
(***************************************************************************)
EXTENDS Naturals, FiniteSets

CONSTANTS
    Trades,      \* transaction identifiers
    Saves,       \* uploaded saves, named by their content
    Slots,       \* box slots the client can select
    Mons,        \* Pokemon the Switch player can offer
    Eligible,    \* selections prepare() accepts (tradeable, with a companion)
    Importable,  \* <<selection, Pokemon>> pairs that Save.replace accepts
    MaxCrashes,  \* bound: bridge or host crashes in a behaviour
    MaxFaults,   \* bound: storage failures between two writes in a behaviour
    None         \* no selection, no Pokemon, no process

Selections == Saves \X Slots

ASSUME ServiceAssumption ==
    /\ Eligible \subseteq Selections
    /\ Importable \subseteq Selections \X Mons
    /\ MaxCrashes \in Nat
    /\ MaxFaults \in Nat
    /\ None \notin Mons
    /\ None \notin Trades
    /\ None \notin Selections
    /\ None \notin Selections \X Mons

VARIABLES
    \* on the bridge's disk
    saves,      \* saves/<id>.sav present
    st,         \* st[t]: "state" of trades/<t>/state.json, or "none"
    sel,        \* sel[t]: its save_id and index
    receipt,    \* receipt[t]: trades/<t>/received.pk3
    result,     \* result[t]: trades/<t>/result.sav, as what it was built from
    sha,        \* sha[t]: result_sha256, as what the hashed save was built from
    \* in the bridge process
    server,     \* its life: see Serving below
    worker,     \* worker[t]: where the thread running _run(t) stands
    process,    \* LiveBackend.process, named by its trade
    \* outside it
    radio,      \* radio[t]: the trade child
    console,    \* console[t]: the Pokemon the Switch gave away in trade t
    launches,   \* launches[t]: children ever started for t
    crashes, faults

disk    == <<saves, st, sel, receipt, result, sha>>
memory  == <<server, worker, process>>
world   == <<radio, console, launches>>
vars    == <<saves, st, sel, receipt, result, sha, server, worker, process,
             radio, console, launches, crashes, faults>>

States == {"none", "prepared", "running", "received", "import_blocked",
           "ready", "applied", "uncertain", "cancelled"}

\* The process handles requests in these stages.  close() sets `closing` on
\* entering "closing" and the backend's `stopping` on entering "stopping"; in
\* "stopped" it has dealt with the child and only joins its threads.
Serving == {"up", "closing", "stopping", "stopped"}

TypeOK ==
    /\ saves \subseteq Saves
    /\ st \in [Trades -> States]
    /\ sel \in [Trades -> Selections \cup {None}]
    /\ receipt \in [Trades -> Mons \cup {None}]
    /\ result \in [Trades -> (Selections \X Mons) \cup {None}]
    /\ sha \in [Trades -> (Selections \X Mons) \cup {None}]
    /\ server \in Serving \cup {"down", "starting"}
    /\ worker \in [Trades -> {"none", "spawned", "waiting", "ended"}]
    /\ process \in Trades \cup {None}
    /\ radio \in [Trades -> {"none", "alive", "dead"}]
    /\ console \in [Trades -> Mons \cup {None}]
    /\ launches \in [Trades -> Nat]
    /\ crashes \in 0 .. MaxCrashes
    /\ faults \in 0 .. MaxFaults

Init ==
    /\ saves = {}
    /\ st = [t \in Trades |-> "none"]
    /\ sel = [t \in Trades |-> None]
    /\ receipt = [t \in Trades |-> None]
    /\ result = [t \in Trades |-> None]
    /\ sha = [t \in Trades |-> None]
    /\ server = "down"
    /\ worker = [t \in Trades |-> "none"]
    /\ process = None
    /\ radio = [t \in Trades |-> "none"]
    /\ console = [t \in Trades |-> None]
    /\ launches = [t \in Trades |-> 0]
    /\ crashes = 0
    /\ faults = 0

-----------------------------------------------------------------------------
(* Handlers *)

Upload(s) ==
    /\ server \in Serving
    /\ saves' = saves \cup {s}
    /\ UNCHANGED <<st, sel, receipt, result, sha, memory, world, crashes, faults>>

\* A known identifier answers its record (same selection) or Conflict, and
\* changes nothing; a new one is validated against the uploaded save.
Prepare(t, s) ==
    /\ server \in Serving
    /\ st[t] = "none"
    /\ s[1] \in saves
    /\ s \in Eligible
    /\ st' = [st EXCEPT ![t] = "prepared"]
    /\ sel' = [sel EXCEPT ![t] = s]
    /\ UNCHANGED <<saves, receipt, result, sha, memory, world, crashes, faults>>

BLOCKING_ForgetsUncertain == {"running", "received", "import_blocked"}

\* The remote modes' blocking states, remote_pair and remote_offer, do not
\* occur under a LiveBackend.
BLOCKING == {"running", "uncertain", "received", "import_blocked"}

MayStart_AfterCancel(t) ==
    /\ server = "up"
    /\ st[t] \in {"prepared", "cancelled"}
    /\ \A u \in Trades \ {t} : st[u] \notin BLOCKING

\* start() past its refusals that read the state: the bridge is closing, the trade
\* is not in "prepared" (a retried request), another trade is unresolved.  The
\* fourth, preflight(), finds no adapter: then nothing happens.
MayStart(t) ==
    /\ server = "up"
    /\ st[t] = "prepared"
    /\ \A u \in Trades \ {t} : st[u] \notin BLOCKING

Start(t) ==
    /\ MayStart(t)
    /\ st' = [st EXCEPT ![t] = "running"]
    /\ worker' = [worker EXCEPT ![t] = "spawned"]
    /\ UNCHANGED <<saves, sel, receipt, result, sha, server, process, world,
                   crashes, faults>>

\* The 3DS player confirms "only after the Switch shows the received Pokemon
\* and has saved": the code asks for it and cannot test it.
SwitchShows(t) == console[t] # None

Confirm(t) ==
    /\ server \in Serving
    /\ st[t] = "received"
    /\ SwitchShows(t)
    /\ LET built == <<sel[t], receipt[t]>> IN
       IF built \in Importable
       THEN /\ result' = [result EXCEPT ![t] = built]
            /\ sha' = [sha EXCEPT ![t] = built]
            /\ st' = [st EXCEPT ![t] = "ready"]
       ELSE /\ st' = [st EXCEPT ![t] = "import_blocked"]
            /\ UNCHANGED <<result, sha>>
    /\ UNCHANGED <<saves, sel, receipt, memory, world, crashes, faults>>

ConfirmInterrupted_StateFirst(t) ==
    /\ server \in Serving
    /\ faults < MaxFaults
    /\ st[t] = "received"
    /\ SwitchShows(t)
    /\ <<sel[t], receipt[t]>> \in Importable
    /\ st' = [st EXCEPT ![t] = "ready"]
    /\ sha' = [sha EXCEPT ![t] = <<sel[t], receipt[t]>>]
    /\ faults' = faults + 1
    /\ UNCHANGED <<saves, sel, receipt, result, memory, world, crashes>>

\* confirm() failing, or its process dying (a Crash follows), between
\* result.sav and state.json.
ConfirmInterrupted(t) ==
    /\ server \in Serving
    /\ faults < MaxFaults
    /\ st[t] = "received"
    /\ SwitchShows(t)
    /\ <<sel[t], receipt[t]>> \in Importable
    /\ result' = [result EXCEPT ![t] = <<sel[t], receipt[t]>>]
    /\ faults' = faults + 1
    /\ UNCHANGED <<saves, st, sel, receipt, sha, memory, world, crashes>>

\* result(): what the client is sent, or None for a Conflict.
ResultOf(t) ==
    IF st[t] \in {"ready", "applied"} /\ result[t] = sha[t] THEN result[t]
    ELSE None

Applied(t) ==
    /\ server \in Serving
    /\ st[t] \in {"ready", "applied"}
    /\ st' = [st EXCEPT ![t] = "applied"]
    /\ UNCHANGED <<saves, sel, receipt, result, sha, memory, world, crashes, faults>>

-----------------------------------------------------------------------------
(* The worker thread: LiveBackend.run and what _run does after it *)

MayLaunch_NoCheck == TRUE

\* Tested and acted on under process_lock, so stop() sees either no launch
\* ever again or the launched child in its slot.
MayLaunch == server \in {"up", "closing"}

Launch(t) ==
    /\ server \in Serving
    /\ worker[t] = "spawned"
    /\ MayLaunch
    /\ radio' = [radio EXCEPT ![t] = "alive"]
    /\ launches' = [launches EXCEPT ![t] = @ + 1]
    /\ process' = t
    /\ worker' = [worker EXCEPT ![t] = "waiting"]
    /\ UNCHANGED <<disk, server, console, crashes, faults>>

\* The stopping check raises, or Popen does.
LaunchFails(t) ==
    /\ server \in Serving
    /\ worker[t] = "spawned"
    /\ worker' = [worker EXCEPT ![t] = "ended"]
    /\ UNCHANGED <<disk, server, process, world, crashes, faults>>

\* process.wait(timeout=900) expired: terminate, then kill.
TimeoutKill(t) ==
    /\ server \in Serving
    /\ worker[t] = "waiting"
    /\ radio[t] = "alive"
    /\ radio' = [radio EXCEPT ![t] = "dead"]
    /\ UNCHANGED <<disk, memory, console, launches, crashes, faults>>

Gone_StillAlive(t) == radio[t] \in {"alive", "dead"}

\* wait() returns only for a child that has exited.
Gone(t) == radio[t] = "dead"

Reap(t) ==
    /\ server \in Serving
    /\ worker[t] = "waiting"
    /\ Gone(t)
    /\ worker' = [worker EXCEPT ![t] = "ended"]
    /\ process' = None
    /\ UNCHANGED <<disk, server, world, crashes, faults>>

FinishState_Rerun(t) == IF receipt[t] = None THEN "prepared" ELSE "received"
FinishState_Cancels(t) == IF receipt[t] = None THEN "cancelled" ELSE "received"

\* _finish(): a valid receipt decides, whatever became of the child.
FinishState(t) == IF receipt[t] = None THEN "uncertain" ELSE "received"

Finish(t) ==
    /\ server \in Serving
    /\ worker[t] = "ended"
    /\ st' = [st EXCEPT ![t] = FinishState(t)]
    /\ worker' = [worker EXCEPT ![t] = "none"]
    /\ UNCHANGED <<saves, sel, receipt, result, sha, server, process, world,
                   crashes, faults>>

\* write_json in _finish() raises: the thread dies, the record stays.
FinishFails(t) ==
    /\ server \in Serving
    /\ faults < MaxFaults
    /\ worker[t] = "ended"
    /\ worker' = [worker EXCEPT ![t] = "none"]
    /\ faults' = faults + 1
    /\ UNCHANGED <<disk, server, process, world, crashes>>

-----------------------------------------------------------------------------
(* The trade child and the Switch.  The receipt is written "at commit" and  *)
(* the Switch saves on its own, so neither waits for the other here.        *)

\* save_received: one Pokemon, validated, written atomically.
RadioReceipt(t, m) ==
    /\ radio[t] = "alive"
    /\ receipt[t] = None
    /\ console[t] \in {None, m}
    /\ receipt' = [receipt EXCEPT ![t] = m]
    /\ UNCHANGED <<saves, st, sel, result, sha, memory, world, crashes, faults>>

ConsoleTrades(t, m) ==
    /\ radio[t] = "alive"
    /\ console[t] = None
    /\ receipt[t] \in {None, m}
    /\ console' = [console EXCEPT ![t] = m]
    /\ UNCHANGED <<disk, memory, radio, launches, crashes, faults>>

RadioExits(t) ==
    /\ radio[t] = "alive"
    /\ radio' = [radio EXCEPT ![t] = "dead"]
    /\ UNCHANGED <<disk, memory, console, launches, crashes, faults>>

-----------------------------------------------------------------------------
(* The life of the bridge process *)

BeginClose ==
    /\ server = "up"
    /\ server' = "closing"
    /\ UNCHANGED <<disk, worker, process, world, crashes, faults>>

StopBackend ==
    /\ server = "closing"
    /\ server' = "stopping"
    /\ UNCHANGED <<disk, worker, process, world, crashes, faults>>

\* stop() reads the slot and ends the child it names: SIGINT, SIGTERM, SIGKILL.
StopChild ==
    /\ server = "stopping"
    /\ server' = "stopped"
    /\ radio' = [t \in Trades |->
                   IF t = process /\ radio[t] = "alive" THEN "dead" ELSE radio[t]]
    /\ UNCHANGED <<disk, worker, process, console, launches, crashes, faults>>

Forget ==
    /\ server' = "down"
    /\ worker' = [t \in Trades |-> "none"]
    /\ process' = None

\* The joins of close() are bounded: the process ends with or without _finish.
Exit ==
    /\ server = "stopped"
    /\ Forget
    /\ UNCHANGED <<disk, world, crashes, faults>>

\* The bridge dies and its child lives on, or the host dies and both are gone.
Crash ==
    /\ server # "down"
    /\ crashes < MaxCrashes
    /\ crashes' = crashes + 1
    /\ Forget
    /\ \/ UNCHANGED radio
       \/ radio' = [t \in Trades |-> IF radio[t] = "alive" THEN "dead" ELSE radio[t]]
    /\ UNCHANGED <<disk, console, launches, faults>>

Restart ==
    /\ server = "down"
    /\ server' = "starting"
    /\ UNCHANGED <<disk, worker, process, world, crashes, faults>>

ToRecover_Never == {}
ToRecover_All == {t \in Trades : st[t] # "none"}

ToRecover == {t \in Trades : st[t] = "running"}

\* Service.__init__ settles the trades it finds running.
Recover(t) ==
    /\ server = "starting"
    /\ t \in ToRecover
    /\ st' = [st EXCEPT ![t] = FinishState(t)]
    /\ UNCHANGED <<saves, sel, receipt, result, sha, memory, world, crashes, faults>>

Serve ==
    /\ server = "starting"
    /\ ToRecover = {}
    /\ server' = "up"
    /\ UNCHANGED <<disk, worker, process, world, crashes, faults>>

\* "operator must check that neither side traded", and stop a child that a
\* crash left behind first.
OperatorChecked(t) == console[t] = None /\ radio[t] # "alive"

MayResolve_NoLock(t) ==
    /\ server # "down"
    /\ st[t] \in {"uncertain", "prepared", "running"}

\* The command line takes the data lock, so no bridge is running, and builds a
\* Service, so the recovery above has been done.
MayResolve(t) ==
    /\ server = "starting"
    /\ ToRecover = {}
    /\ st[t] \in {"uncertain", "prepared"}

Resolve(t) ==
    /\ MayResolve(t)
    /\ OperatorChecked(t)
    /\ st' = [st EXCEPT ![t] = "cancelled"]
    /\ server' = "down"
    /\ UNCHANGED <<saves, sel, receipt, result, sha, worker, process, world,
                   crashes, faults>>

-----------------------------------------------------------------------------

Handlers(t) ==
    \/ \E s \in Selections : Prepare(t, s)
    \/ Start(t) \/ Confirm(t) \/ ConfirmInterrupted(t) \/ Applied(t)

Worker(t) ==
    Launch(t) \/ LaunchFails(t) \/ TimeoutKill(t) \/ Reap(t) \/ Finish(t)

Child(t) ==
    \/ \E m \in Mons : RadioReceipt(t, m) \/ ConsoleTrades(t, m)
    \/ RadioExits(t)

Lifecycle == BeginClose \/ StopBackend \/ StopChild \/ Exit \/ Crash \/ Restart \/ Serve

Next ==
    \/ \E s \in Saves : Upload(s)
    \/ \E t \in Trades : \/ Handlers(t) \/ Worker(t) \/ FinishFails(t)
                         \/ Child(t) \/ Recover(t) \/ Resolve(t)
    \/ Lifecycle

\* The threads of a live process run, a wait with a timeout ends, an operator
\* starts a stopped bridge again and it comes up.  Nothing is assumed of the
\* players, the radio or the operator's decisions.
Fairness ==
    /\ \A t \in Trades : WF_vars(Worker(t)) /\ WF_vars(Recover(t))
    /\ WF_vars(StopBackend) /\ WF_vars(StopChild) /\ WF_vars(Exit)
    /\ WF_vars(Restart) /\ WF_vars(Serve)

Spec == Init /\ [][Next]_vars

FairSpec == Spec /\ Fairness

-----------------------------------------------------------------------------
(* Properties *)

\* A radio operation is never repeated: whatever retries, restarts and
\* failures happen, one transaction starts at most one trade child.
RadioAtMostOnce == \A t \in Trades : launches[t] <= 1

\* start() admits a trade only when every other one is resolved, so at most
\* one transaction is ever in a blocking state.
OneUnresolved ==
    \A t, u \in Trades : st[t] \in BLOCKING /\ st[u] \in BLOCKING => t = u

\* A child left behind by a crash can still be trading.  The store never
\* lets a second child run beside one whose outcome is not yet on disk.
UndecidedRadioAlone ==
    \A t, u \in Trades :
        /\ radio[t] = "alive" /\ receipt[t] = None
        /\ radio[u] = "alive" /\ receipt[u] = None
        => t = u

\* A save is offered for download only for a trade the Switch completed, was
\* built from the selected save and the very Pokemon the Switch gave, and
\* matches the checksum recorded with it, whichever write was interrupted.
ResultFaithful ==
    \A t \in Trades : st[t] \in {"ready", "applied"} =>
        /\ console[t] # None
        /\ ResultOf(t) = <<sel[t], console[t]>>
        /\ ResultOf(t) \in Importable

\* The record "Operator confirmed no trade occurred" stays true: no worker,
\* child or later step of a cancelled transaction completes it after all.
CancelledNeverTrades ==
    \A t \in Trades : st[t] = "cancelled" =>
        console[t] = None /\ worker[t] = "none" /\ radio[t] # "alive"

\* A bridge stopped in order leaves no child behind: once stop() returned, no
\* worker of this process has a live child and none can launch one.
StoppedLeavesNoChild ==
    server = "stopped" =>
        \A t \in Trades : worker[t] # "none" => radio[t] # "alive"

\* "A receipt can still be confirmed": unless a crash left a child running on
\* its own, a trade whose receipt is on disk is never reported as having none.
ReceiptSeen ==
    crashes = 0 => \A t \in Trades : st[t] = "uncertain" => receipt[t] = None

\* The record only moves along the transaction diagram of
\* docs/implementation.md, so a decided trade is never reopened.
Diagram ==
    {<<"none", "prepared">>, <<"prepared", "running">>, <<"prepared", "cancelled">>,
     <<"running", "received">>, <<"running", "uncertain">>,
     <<"uncertain", "cancelled">>, <<"received", "ready">>,
     <<"received", "import_blocked">>, <<"ready", "applied">>}

FollowsDiagram ==
    [][\A t \in Trades : st'[t] # st[t] => <<st[t], st'[t]>> \in Diagram]_vars

\* Two transactions, children, crashes and all, are exchanges in the sense of
\* module Exchange: undecided one at a time, given once and only meanwhile,
\* released only if given and void only if not.
PhaseOf(s) ==
    CASE s \in {"none", "prepared"} -> "open"
      [] s \in BLOCKING             -> "pending"
      [] s \in {"ready", "applied"} -> "released"
      [] s = "cancelled"            -> "void"

E == INSTANCE Exchange WITH
        phase <- [t \in Trades |-> PhaseOf(st[t])],
        given <- [t \in Trades |-> console[t] # None]

ImplementsExchange == E!Spec

\* Nobody waits for ever: a trade that was started gets an outcome the player
\* can act on, through stalls of the child, closes, crashes and restarts.  Only
\* if the outcome could not be written does the record wait for a restart.
Unwritten(t) == server \in Serving /\ worker[t] = "none" /\ faults > 0

Settles ==
    \A t \in Trades :
        st[t] = "running" ~> st[t] \in {"received", "uncertain"} \/ Unwritten(t)

-----------------------------------------------------------------------------
(* The inductive invariant behind the safety properties *)

\* A worker belongs to a running trade of a live process; the child it waits
\* for is in the process slot, and no child outlives its wait.
WorkerInv ==
    \A t \in Trades :
        /\ worker[t] # "none" => st[t] = "running" /\ server \in Serving
        /\ worker[t] = "spawned" => launches[t] = 0
        /\ worker[t] = "waiting" => process = t
        /\ worker[t] = "ended" => radio[t] # "alive"

\* What a record says bounds what can have happened outside.
RecordInv ==
    \A t \in Trades :
        /\ launches[t] <= 1
        /\ launches[t] = 0 =>
              radio[t] = "none" /\ receipt[t] = None /\ console[t] = None
        /\ st[t] \in {"none", "prepared"} => launches[t] = 0
        /\ receipt[t] # None /\ console[t] # None => receipt[t] = console[t]
        /\ st[t] \in {"received", "ready", "applied"} => receipt[t] # None
        /\ st[t] \in {"ready", "applied"} =>
              /\ console[t] # None
              /\ result[t] = <<sel[t], receipt[t]>> /\ sha[t] = result[t]
              /\ result[t] \in Importable
        /\ st[t] = "cancelled" => console[t] = None /\ radio[t] # "alive"

\* Until a crash every live child has the worker that launched it waiting, and
\* so nothing writes a receipt behind a settled trade.
ChildInv ==
    crashes = 0 => \A t \in Trades : radio[t] = "alive" => worker[t] = "waiting"

\* Together with TypeOK this is inductive: every safety property above
\* follows from it, and every step of the bridge, its child and its operator
\* preserves it.
IInv ==
    /\ TypeOK
    /\ WorkerInv
    /\ RecordInv
    /\ ChildInv
    /\ OneUnresolved
    /\ StoppedLeavesNoChild
    /\ ReceiptSeen
=============================================================================
