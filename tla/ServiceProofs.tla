---------------------------- MODULE ServiceProofs ----------------------------
(***************************************************************************)
(* Theorems about the local bridge for every set of trades, saves and      *)
(* Pokemon and every number of crashes and storage failures.               *)
(***************************************************************************)
EXTENDS Service, TLAPS

-----------------------------------------------------------------------------
(* Types *)

\* The first state has the types of TypeOK.
LEMMA InitType == Init => TypeOK
  BY ServiceAssumption DEF Init, TypeOK, Selections, States, Serving

\* Every step keeps them.
LEMMA StepType == TypeOK /\ [Next]_vars => TypeOK'
<1> SUFFICES ASSUME TypeOK, [Next]_vars PROVE TypeOK'
    OBVIOUS
<1> USE ServiceAssumption DEF TypeOK, disk, memory, world
<1>1. ASSUME NEW s \in Saves, Upload(s) PROVE TypeOK'
    BY <1>1 DEF Upload
<1>2. ASSUME NEW t \in Trades, NEW s \in Selections, Prepare(t, s) PROVE TypeOK'
    BY <1>2 DEF Prepare, States
<1>3. ASSUME NEW t \in Trades, Start(t) PROVE TypeOK'
    BY <1>3 DEF Start, States
<1>4. ASSUME NEW t \in Trades, Confirm(t) PROVE TypeOK'
  <2> DEFINE built == <<sel[t], receipt[t]>>
  <2>1. CASE built \in Importable
      BY <1>4, <2>1 DEF Confirm, States
  <2>2. CASE built \notin Importable
      BY <1>4, <2>2 DEF Confirm, States
  <2> QED BY <2>1, <2>2
<1>5. ASSUME NEW t \in Trades, ConfirmInterrupted(t) PROVE TypeOK'
    BY <1>5 DEF ConfirmInterrupted
<1>6. ASSUME NEW t \in Trades, Applied(t) PROVE TypeOK'
    BY <1>6 DEF Applied, States
<1>7. ASSUME NEW t \in Trades, Launch(t) PROVE TypeOK'
    BY <1>7 DEF Launch
<1>8. ASSUME NEW t \in Trades, LaunchFails(t) \/ TimeoutKill(t) \/ Reap(t) PROVE TypeOK'
    BY <1>8 DEF LaunchFails, TimeoutKill, Reap
<1>9. ASSUME NEW t \in Trades, Finish(t) \/ FinishFails(t) \/ Recover(t) PROVE TypeOK'
    BY <1>9 DEF Finish, FinishFails, Recover, FinishState, States
<1>10. ASSUME NEW t \in Trades, NEW m \in Mons,
              RadioReceipt(t, m) \/ ConsoleTrades(t, m) PROVE TypeOK'
    BY <1>10 DEF RadioReceipt, ConsoleTrades
<1>11. ASSUME NEW t \in Trades, RadioExits(t) PROVE TypeOK'
    BY <1>11 DEF RadioExits
<1>12. ASSUME NEW t \in Trades, Resolve(t) PROVE TypeOK'
    BY <1>12 DEF Resolve, MayResolve, States
<1>13. CASE Lifecycle
    BY <1>13 DEF Lifecycle, BeginClose, StopBackend, StopChild, Exit, Crash,
                 Restart, Serve, Forget, Serving
<1>14. CASE UNCHANGED vars
    BY <1>14 DEF vars
<1> QED
    BY <1>1, <1>2, <1>3, <1>4, <1>5, <1>6, <1>7, <1>8, <1>9, <1>10, <1>11,
       <1>12, <1>13, <1>14
    DEF Next, Handlers, Worker, Child

\* The store, the process and the child only ever hold the values the code
\* gives them, for any number of trades.
THEOREM TypeCorrect == Spec => []TypeOK
  BY InitType, StepType, PTL DEF Spec
-----------------------------------------------------------------------------
(* The inductive invariant, one lemma for each of its parts: what each step  *)
(* of Next does to it under the whole invariant.                             *)

\* The first state satisfies every part.
LEMMA InitInv == Init => IInv
<1> SUFFICES ASSUME Init PROVE IInv
    OBVIOUS
<1>1. TypeOK
    BY InitType
<1>2. /\ WorkerInv /\ RecordInv /\ ChildInv /\ OneUnresolved
      /\ StoppedLeavesNoChild /\ ReceiptSeen
    BY DEF Init, WorkerInv, RecordInv, ChildInv, OneUnresolved,
           StoppedLeavesNoChild, ReceiptSeen, BLOCKING
<1> QED BY <1>1, <1>2 DEF IInv

\* Workers: only the single running trade has one, so the process slot that
\* Launch overwrites and Reap clears is never another worker's.
LEMMA StepWorker == IInv /\ [Next]_vars => WorkerInv'
<1> SUFFICES ASSUME IInv, [Next]_vars PROVE WorkerInv'
    OBVIOUS
<1> USE DEF IInv, TypeOK, WorkerInv, disk, memory, world
<1>1. ASSUME NEW s \in Saves, Upload(s) PROVE WorkerInv'
    BY <1>1 DEF Upload
<1>2. ASSUME NEW t \in Trades, NEW s \in Selections, Prepare(t, s) PROVE WorkerInv'
    BY <1>2 DEF Prepare
<1>3. ASSUME NEW t \in Trades, Start(t) PROVE WorkerInv'
    BY <1>3 DEF Start, MayStart, RecordInv, Serving
<1>4. ASSUME NEW t \in Trades, Confirm(t) PROVE WorkerInv'
    BY <1>4 DEF Confirm
<1>5. ASSUME NEW t \in Trades, ConfirmInterrupted(t) \/ Applied(t) PROVE WorkerInv'
    BY <1>5 DEF ConfirmInterrupted, Applied
<1>6. ASSUME NEW t \in Trades, Launch(t) PROVE WorkerInv'
  <2>1. \A u \in Trades \ {t} : worker[u] = "none"
      BY <1>6 DEF Launch, OneUnresolved, BLOCKING
  <2> QED BY <1>6, <2>1 DEF Launch
<1>7. ASSUME NEW t \in Trades, LaunchFails(t) PROVE WorkerInv'
    BY <1>7 DEF LaunchFails, RecordInv
<1>8. ASSUME NEW t \in Trades, TimeoutKill(t) \/ RadioExits(t) PROVE WorkerInv'
    BY <1>8 DEF TimeoutKill, RadioExits
<1>9. ASSUME NEW t \in Trades, Reap(t) PROVE WorkerInv'
  <2>1. \A u \in Trades \ {t} : worker[u] # "waiting"
      BY <1>9 DEF Reap
  <2> QED BY <1>9, <2>1 DEF Reap, Gone
<1>10. ASSUME NEW t \in Trades, Finish(t) \/ FinishFails(t) PROVE WorkerInv'
    BY <1>10 DEF Finish, FinishFails
<1>11. ASSUME NEW t \in Trades, NEW m \in Mons,
              RadioReceipt(t, m) \/ ConsoleTrades(t, m) PROVE WorkerInv'
    BY <1>11 DEF RadioReceipt, ConsoleTrades
<1>12. ASSUME NEW t \in Trades, Recover(t) \/ Resolve(t) PROVE WorkerInv'
    BY <1>12 DEF Recover, Resolve, MayResolve, Serving
<1>13. CASE Lifecycle
    BY <1>13 DEF Lifecycle, BeginClose, StopBackend, StopChild, Exit, Crash,
                 Restart, Serve, Forget, Serving
<1>14. CASE UNCHANGED vars
    BY <1>14 DEF vars
<1> QED
    BY <1>1, <1>2, <1>3, <1>4, <1>5, <1>6, <1>7, <1>8, <1>9, <1>10, <1>11,
       <1>12, <1>13, <1>14
    DEF Next, Handlers, Worker, Child

\* Records: a state that promises something is entered only when it is true,
\* and neither the child nor the Switch can take it back.
LEMMA StepRecord == IInv /\ [Next]_vars => RecordInv'
<1> SUFFICES ASSUME IInv, [Next]_vars PROVE RecordInv'
    OBVIOUS
<1> USE DEF IInv, TypeOK, RecordInv, disk, memory, world
<1>1. ASSUME NEW s \in Saves, Upload(s) PROVE RecordInv'
    BY <1>1 DEF Upload
<1>2. ASSUME NEW t \in Trades, NEW s \in Selections, Prepare(t, s) PROVE RecordInv'
    BY <1>2 DEF Prepare
<1>3. ASSUME NEW t \in Trades, Start(t) PROVE RecordInv'
    BY <1>3 DEF Start, MayStart
<1>4. ASSUME NEW t \in Trades, Confirm(t) PROVE RecordInv'
  <2>1. CASE <<sel[t], receipt[t]>> \in Importable
    <3>1. /\ st' = [st EXCEPT ![t] = "ready"]
          /\ result' = [result EXCEPT ![t] = <<sel[t], receipt[t]>>]
          /\ sha' = [sha EXCEPT ![t] = <<sel[t], receipt[t]>>]
          /\ UNCHANGED <<sel, receipt, radio, console, launches>>
        BY <1>4, <2>1 DEF Confirm
    <3>2. console[t] # None /\ receipt[t] # None /\ launches[t] # 0
        BY <1>4 DEF Confirm, SwitchShows
    <3>3. st'[t] = "ready" /\ result'[t] = <<sel[t], receipt[t]>> /\ sha'[t] = result'[t]
        BY <3>1
    <3>4. \A u \in Trades \ {t} :
             st'[u] = st[u] /\ result'[u] = result[u] /\ sha'[u] = sha[u]
        BY <3>1
    <3> QED BY <2>1, <3>1, <3>2, <3>3, <3>4
  <2>2. CASE <<sel[t], receipt[t]>> \notin Importable
      BY <1>4, <2>2 DEF Confirm
  <2> QED BY <2>1, <2>2
<1>5. ASSUME NEW t \in Trades, ConfirmInterrupted(t) \/ Applied(t) PROVE RecordInv'
    BY <1>5 DEF ConfirmInterrupted, Applied
<1>6. ASSUME NEW t \in Trades, Launch(t) PROVE RecordInv'
    BY <1>6 DEF Launch, WorkerInv
<1>7. ASSUME NEW t \in Trades, LaunchFails(t) \/ Reap(t) \/ FinishFails(t)
      PROVE RecordInv'
    BY <1>7 DEF LaunchFails, Reap, FinishFails
<1>8. ASSUME NEW t \in Trades, TimeoutKill(t) \/ RadioExits(t) PROVE RecordInv'
    BY <1>8 DEF TimeoutKill, RadioExits
<1>9. ASSUME NEW t \in Trades, Finish(t) \/ Recover(t) PROVE RecordInv'
  <2>1. st[t] = "running"
      BY <1>9 DEF Finish, Recover, ToRecover, WorkerInv
  <2>2. FinishState(t) \in {"uncertain", "received"}
        /\ (FinishState(t) = "received" => receipt[t] # None)
      BY DEF FinishState
  <2> QED BY <1>9, <2>1, <2>2 DEF Finish, Recover
<1>10. ASSUME NEW t \in Trades, NEW m \in Mons, RadioReceipt(t, m) PROVE RecordInv'
    BY <1>10, ServiceAssumption DEF RadioReceipt
<1>11. ASSUME NEW t \in Trades, NEW m \in Mons, ConsoleTrades(t, m) PROVE RecordInv'
    BY <1>11, ServiceAssumption DEF ConsoleTrades
<1>12. ASSUME NEW t \in Trades, Resolve(t) PROVE RecordInv'
    BY <1>12 DEF Resolve, MayResolve, OperatorChecked
<1>13. CASE Lifecycle
    BY <1>13 DEF Lifecycle, BeginClose, StopBackend, StopChild, Exit, Crash,
                 Restart, Serve, Forget
<1>14. CASE UNCHANGED vars
    BY <1>14 DEF vars
<1> QED
    BY <1>1, <1>2, <1>3, <1>4, <1>5, <1>6, <1>7, <1>8, <1>9, <1>10, <1>11,
       <1>12, <1>13, <1>14
    DEF Next, Handlers, Worker, Child

\* One unresolved trade: only Start makes a trade blocking, and it looks at all
\* the others; every other step moves within or out of the blocking states.
LEMMA StepOne == IInv /\ [Next]_vars => OneUnresolved'
<1> SUFFICES ASSUME IInv, [Next]_vars PROVE OneUnresolved'
    OBVIOUS
<1> USE DEF IInv, TypeOK, OneUnresolved, BLOCKING, disk, memory, world
<1>1. ASSUME NEW t \in Trades, NEW s \in Selections, Prepare(t, s) PROVE OneUnresolved'
    BY <1>1 DEF Prepare
<1>2. ASSUME NEW t \in Trades, Start(t) PROVE OneUnresolved'
    BY <1>2 DEF Start, MayStart
<1>3. ASSUME NEW t \in Trades, Confirm(t) \/ Applied(t) \/ Resolve(t)
      PROVE OneUnresolved'
  <2>1. /\ \A u \in Trades \ {t} : st'[u] = st[u]
        /\ st'[t] \in BLOCKING => st[t] \in BLOCKING
      BY <1>3 DEF Confirm, Applied, Resolve
  <2> QED BY <2>1
<1>4. ASSUME NEW t \in Trades, Finish(t) \/ Recover(t) PROVE OneUnresolved'
  <2>1. st[t] \in BLOCKING /\ st' = [st EXCEPT ![t] = FinishState(t)]
      BY <1>4 DEF Finish, Recover, ToRecover, WorkerInv
  <2> QED BY <2>1
<1>5. CASE UNCHANGED st
    BY <1>5
<1>6. ASSUME NEW t \in Trades,
             ConfirmInterrupted(t) \/ Launch(t) \/ LaunchFails(t) \/ TimeoutKill(t)
             \/ Reap(t) \/ FinishFails(t) \/ Child(t)
      PROVE UNCHANGED st
    BY <1>6 DEF ConfirmInterrupted, Launch, LaunchFails, TimeoutKill, Reap,
                FinishFails, Child, RadioReceipt, ConsoleTrades, RadioExits
<1>7. ASSUME (\E s \in Saves : Upload(s)) \/ Lifecycle \/ UNCHANGED vars
      PROVE UNCHANGED st
    BY <1>7 DEF Upload, Lifecycle, BeginClose, StopBackend, StopChild, Exit,
                Crash, Restart, Serve, vars
<1> QED
    BY <1>1, <1>2, <1>3, <1>4, <1>5, <1>6, <1>7 DEF Next, Handlers, Worker

\* Orderly stop: StopChild ends the child of the only worker that has one, and
\* from then on none is launched.
LEMMA StepStopped == IInv /\ [Next]_vars => StoppedLeavesNoChild'
<1> SUFFICES ASSUME IInv, [Next]_vars, server' = "stopped",
                    NEW u \in Trades, worker'[u] # "none"
             PROVE radio'[u] # "alive"
    BY DEF StoppedLeavesNoChild
<1> USE DEF IInv, TypeOK, StoppedLeavesNoChild, disk, memory, world
<1>1. CASE StopChild
    BY <1>1 DEF StopChild, WorkerInv, RecordInv
<1>2. CASE server = "stopped"
  <2>1. ASSUME NEW t \in Trades, Launch(t) PROVE FALSE
      BY <1>2, <2>1 DEF Launch, MayLaunch
  <2>2. ASSUME NEW t \in Trades, Start(t) PROVE FALSE
      BY <1>2, <2>2 DEF Start, MayStart
  <2>3. radio[u] # "alive" => radio'[u] # "alive"
      BY <2>1 DEF Next, Upload, Handlers, Prepare, Start, Confirm, ConfirmInterrupted,
         Applied, Worker, LaunchFails, TimeoutKill, Reap, Finish, FinishFails, Child,
         RadioReceipt, ConsoleTrades, RadioExits, Recover, Resolve, Lifecycle,
         BeginClose, StopBackend, StopChild, Exit, Crash, Restart, Serve, vars
  <2>4. worker[u] # "none"
      BY <2>2 DEF Next, Upload, Handlers, Prepare, Confirm, ConfirmInterrupted,
         Applied, Worker, Launch, LaunchFails, TimeoutKill, Reap, Finish, FinishFails,
         Child, RadioReceipt, ConsoleTrades, RadioExits, Recover, Resolve, Lifecycle,
         BeginClose, StopBackend, StopChild, Exit, Crash, Restart, Serve, Forget, vars
  <2> QED BY <1>2, <2>3, <2>4
<1>3. StopChild \/ server = "stopped"
    BY DEF Next, Upload, Handlers, Prepare, Start, Confirm, ConfirmInterrupted,
       Applied, Worker, Launch, LaunchFails, TimeoutKill, Reap, Finish, FinishFails,
       Child, RadioReceipt, ConsoleTrades, RadioExits, Recover, Resolve, Lifecycle,
       BeginClose, StopBackend, Exit, Crash, Restart, Serve, Forget, vars
<1> QED BY <1>1, <1>2, <1>3

\* Owned children: only Launch makes a child live and it starts waiting for it;
\* a worker stops waiting only for a child that is gone, and an orderly exit
\* comes after StopChild.
LEMMA StepChild == IInv /\ [Next]_vars => ChildInv'
<1> SUFFICES ASSUME IInv, [Next]_vars, crashes' = 0,
                    NEW u \in Trades, radio'[u] = "alive"
             PROVE worker'[u] = "waiting"
    BY DEF ChildInv
<1> USE DEF IInv, TypeOK, ChildInv, disk, memory, world
<1>1. ASSUME NEW t \in Trades, Launch(t) PROVE worker'[u] = "waiting"
    BY <1>1 DEF Launch
<1>2. ASSUME NEW t \in Trades, Start(t) PROVE worker'[u] = "waiting"
    BY <1>2 DEF Start, MayStart, RecordInv
<1>3. ASSUME NEW t \in Trades, LaunchFails(t) \/ Finish(t) \/ FinishFails(t)
      PROVE worker'[u] = "waiting"
    BY <1>3 DEF LaunchFails, Finish, FinishFails
<1>4. ASSUME NEW t \in Trades, Reap(t) PROVE worker'[u] = "waiting"
    BY <1>4 DEF Reap, Gone
<1>5. ASSUME NEW t \in Trades, TimeoutKill(t) \/ RadioExits(t)
      PROVE worker'[u] = "waiting"
    BY <1>5 DEF TimeoutKill, RadioExits
<1>6. CASE Exit
    BY <1>6 DEF Exit, Forget, StoppedLeavesNoChild
<1>7. ASSUME Crash PROVE FALSE
  <2>1. crashes \in Nat /\ crashes' = crashes + 1
      BY <1>7, ServiceAssumption DEF Crash
  <2> QED BY <2>1
<1>8. CASE StopChild
    BY <1>8 DEF StopChild
<1>9. CASE UNCHANGED <<radio, worker, crashes>>
    BY <1>9
<1> QED
    BY <1>1, <1>2, <1>3, <1>4, <1>5, <1>6, <1>7, <1>8, <1>9
    DEF Next, Upload, Handlers, Prepare, Confirm, ConfirmInterrupted, Applied,
        Worker, Child, RadioReceipt, ConsoleTrades, Recover, Resolve, Lifecycle,
        BeginClose, StopBackend, Restart, Serve, vars

\* Receipts: a trade becomes uncertain only without one, and without a crash
\* its child is gone by then.
LEMMA StepReceipt == IInv /\ [Next]_vars => ReceiptSeen'
<1> SUFFICES ASSUME IInv, [Next]_vars, crashes' = 0,
                    NEW u \in Trades, st'[u] = "uncertain"
             PROVE receipt'[u] = None
    BY DEF ReceiptSeen
<1> USE DEF IInv, TypeOK, ReceiptSeen, disk, memory, world
<1>1. crashes = 0
  <2>1. crashes \in Nat
      BY ServiceAssumption
  <2>2. crashes' = crashes \/ crashes' = crashes + 1
      BY DEF Next, Upload, Handlers, Prepare, Start, Confirm, ConfirmInterrupted,
         Applied, Worker, Launch, LaunchFails, TimeoutKill, Reap, Finish,
         FinishFails, Child, RadioReceipt, ConsoleTrades, RadioExits, Recover,
         Resolve, Lifecycle, BeginClose, StopBackend, StopChild, Exit, Crash,
         Restart, Serve, vars
  <2> QED BY <2>1, <2>2
<1>2. ASSUME NEW t \in Trades, Finish(t) \/ Recover(t) PROVE receipt'[u] = None
    BY <1>1, <1>2 DEF Finish, Recover, FinishState
<1>3. ASSUME NEW t \in Trades, NEW m \in Mons, RadioReceipt(t, m)
      PROVE receipt'[u] = None
    BY <1>1, <1>3 DEF RadioReceipt, ChildInv, WorkerInv
<1>4. ASSUME NEW t \in Trades,
             \/ \E s \in Selections : Prepare(t, s)
             \/ Start(t) \/ Confirm(t) \/ Applied(t) \/ Resolve(t)
      PROVE receipt'[u] = None
    BY <1>1, <1>4 DEF Prepare, Start, Confirm, Applied, Resolve
<1>5. CASE UNCHANGED <<st, receipt>>
    BY <1>1, <1>5
<1> QED
    BY <1>2, <1>3, <1>4, <1>5
    DEF Next, Upload, Handlers, ConfirmInterrupted, Worker, Launch, LaunchFails,
        TimeoutKill, Reap, FinishFails, Child, ConsoleTrades, RadioExits,
        Lifecycle, BeginClose, StopBackend, StopChild, Exit, Crash, Restart,
        Serve, vars

\* The invariant holds in every reachable state.
THEOREM Inductive == Spec => []IInv
<1>1. IInv /\ [Next]_vars => IInv'
    BY StepType, StepWorker, StepRecord, StepChild, StepOne, StepStopped,
       StepReceipt
    DEF IInv
<1> QED BY InitInv, <1>1, PTL DEF Spec
-----------------------------------------------------------------------------
(* The safety properties of Service *)

\* At most one trade child is ever started for a transaction.
THEOREM OneRadioEach == Spec => []RadioAtMostOnce
<1>1. IInv => RadioAtMostOnce
    BY DEF IInv, RecordInv, RadioAtMostOnce
<1> QED BY Inductive, <1>1, PTL

\* At most one transaction is unresolved.
THEOREM OneAtATime == Spec => []OneUnresolved
<1>1. IInv => OneUnresolved
    BY DEF IInv
<1> QED BY Inductive, <1>1, PTL

\* A resolved trade with a live child has its receipt on disk, so two live
\* children without one would be two unresolved trades.
THEOREM NoRivalRadio == Spec => []UndecidedRadioAlone
<1>1. IInv => UndecidedRadioAlone
  <2> SUFFICES ASSUME IInv, NEW t \in Trades, radio[t] = "alive", receipt[t] = None
               PROVE st[t] \in BLOCKING
      BY DEF UndecidedRadioAlone, IInv, OneUnresolved
  <2>1. st[t] \in States
      BY DEF IInv, TypeOK
  <2> QED BY <2>1 DEF IInv, RecordInv, States, BLOCKING
<1> QED BY Inductive, <1>1, PTL

\* What the client downloads is what the Switch gave, put into what it sent.
THEOREM FaithfulResult == Spec => []ResultFaithful
<1>1. IInv => ResultFaithful
  <2> SUFFICES ASSUME IInv, NEW t \in Trades, st[t] \in {"ready", "applied"}
               PROVE /\ console[t] # None
                     /\ ResultOf(t) = <<sel[t], console[t]>>
                     /\ ResultOf(t) \in Importable
      BY DEF ResultFaithful
  <2>1. ResultOf(t) = result[t]
      BY DEF ResultOf, IInv, RecordInv
  <2>2. receipt[t] = console[t]
      BY DEF IInv, RecordInv
  <2> QED BY <2>1, <2>2 DEF IInv, RecordInv
<1> QED BY Inductive, <1>1, PTL

\* A cancelled trade has not happened and never will.
THEOREM CancelledForGood == Spec => []CancelledNeverTrades
<1>1. IInv => CancelledNeverTrades
    BY DEF IInv, RecordInv, WorkerInv, CancelledNeverTrades
<1> QED BY Inductive, <1>1, PTL

\* close() leaves no child of this process running.
THEOREM OrderlyStop == Spec => []StoppedLeavesNoChild
<1>1. IInv => StoppedLeavesNoChild
    BY DEF IInv
<1> QED BY Inductive, <1>1, PTL

\* Unless a crash let a child run on, a receipt on disk is never overlooked.
THEOREM NoReceiptOverlooked == Spec => []ReceiptSeen
<1>1. IInv => ReceiptSeen
    BY DEF IInv
<1> QED BY Inductive, <1>1, PTL

-----------------------------------------------------------------------------
(* The bridge implements Exchange *)

\* A record's state decides its abstract phase.
LEMMA PhaseCases ==
    /\ \A s \in {"none", "prepared"} : PhaseOf(s) = "open"
    /\ \A s \in BLOCKING : PhaseOf(s) = "pending"
    /\ \A s \in {"ready", "applied"} : PhaseOf(s) = "released"
    /\ PhaseOf("cancelled") = "void"
  BY DEF PhaseOf, BLOCKING

\* The start of the store is the start of the abstract exchanges.
LEMMA InitExchange == Init => E!Init
<1> SUFFICES ASSUME Init PROVE E!Init
    OBVIOUS
<1>1. \A t \in Trades : PhaseOf(st[t]) = "open"
    BY PhaseCases DEF Init
<1>2. \A t \in Trades : (console[t] # None) = FALSE
    BY DEF Init
<1> QED BY <1>1, <1>2 DEF E!Init

\* Start begins an exchange, the Switch gives, Confirm releases or leaves it
\* pending, Resolve voids it; everything else changes nothing of it.
LEMMA StepExchange == IInv /\ [Next]_vars => [E!Next]_E!vars
<1> SUFFICES ASSUME IInv, [Next]_vars PROVE [E!Next]_E!vars
    OBVIOUS
<1> USE DEF IInv, TypeOK, disk, memory, world
<1> DEFINE phase == [t \in Trades |-> PhaseOf(st[t])]
           given == [t \in Trades |-> console[t] # None]
<1>1. ASSUME NEW t \in Trades, NEW x \in States, st' = [st EXCEPT ![t] = x],
             PhaseOf(x) = PhaseOf(st[t]), UNCHANGED console
      PROVE UNCHANGED E!vars
    BY <1>1 DEF E!vars
<1>2. ASSUME NEW t \in Trades, NEW s \in Selections, Prepare(t, s)
      PROVE UNCHANGED E!vars
  <2>1. PhaseOf("prepared") = PhaseOf(st[t])
      BY <1>2, PhaseCases DEF Prepare
  <2> QED BY <1>1, <1>2, <2>1 DEF Prepare, States
<1>3. ASSUME NEW t \in Trades, Start(t) PROVE E!Begin(t)
  <2>1. phase[t] = "open"
      BY <1>3, PhaseCases DEF Start, MayStart
  <2>2. \A u \in Trades : phase[u] # "pending"
    <3> SUFFICES ASSUME NEW u \in Trades, u # t PROVE PhaseOf(st[u]) # "pending"
        BY <2>1
    <3>1. st[u] \in States \ BLOCKING
        BY <1>3 DEF Start, MayStart
    <3> QED BY <3>1, PhaseCases DEF States, BLOCKING
  <2>3. phase' = [phase EXCEPT ![t] = "pending"] /\ given' = given
      BY <1>3, PhaseCases DEF Start, BLOCKING
  <2> QED BY <2>1, <2>2, <2>3 DEF E!Begin, E!Pending
<1>4. ASSUME NEW t \in Trades, Confirm(t) PROVE E!Release(t) \/ UNCHANGED E!vars
  <2>1. CASE st' = [st EXCEPT ![t] = "ready"]
    <3>1. phase[t] = "pending" /\ given[t]
        BY <1>4, PhaseCases DEF Confirm, SwitchShows, BLOCKING
    <3>2. phase' = [phase EXCEPT ![t] = "released"] /\ given' = given
        BY <1>4, <2>1, PhaseCases DEF Confirm
    <3> QED BY <3>1, <3>2 DEF E!Release
  <2>2. CASE st' = [st EXCEPT ![t] = "import_blocked"]
    <3>1. PhaseOf("import_blocked") = PhaseOf(st[t])
        BY <1>4, PhaseCases DEF Confirm, BLOCKING
    <3> QED BY <1>1, <1>4, <2>2, <3>1 DEF Confirm, States
  <2> QED BY <1>4, <2>1, <2>2 DEF Confirm
<1>5. ASSUME NEW t \in Trades, Applied(t) PROVE UNCHANGED E!vars
  <2>1. PhaseOf("applied") = PhaseOf(st[t])
      BY <1>5, PhaseCases DEF Applied
  <2> QED BY <1>1, <1>5, <2>1 DEF Applied, States
<1>6. ASSUME NEW t \in Trades, Finish(t) \/ Recover(t) PROVE UNCHANGED E!vars
  <2>1. st[t] = "running"
      BY <1>6 DEF Finish, Recover, ToRecover, WorkerInv
  <2>2. FinishState(t) \in BLOCKING \cap States
      BY DEF FinishState, BLOCKING, States
  <2>3. PhaseOf(FinishState(t)) = PhaseOf(st[t])
      BY <2>1, <2>2, PhaseCases DEF BLOCKING
  <2> QED BY <1>1, <1>6, <2>2, <2>3 DEF Finish, Recover
<1>7. ASSUME NEW t \in Trades, NEW m \in Mons, ConsoleTrades(t, m) PROVE E!Give(t)
  <2>1. phase[t] = "pending" /\ ~given[t]
    <3>1. st[t] \in BLOCKING
        BY <1>7 DEF ConsoleTrades, RecordInv, States, BLOCKING
    <3> QED BY <1>7, <3>1, PhaseCases DEF ConsoleTrades
  <2>2. m # None
      BY ServiceAssumption
  <2>3. given' = [given EXCEPT ![t] = TRUE] /\ phase' = phase
      BY <1>7, <2>2 DEF ConsoleTrades
  <2> QED BY <2>1, <2>3 DEF E!Give
<1>8. ASSUME NEW t \in Trades, Resolve(t) PROVE E!Void(t)
  <2>1. phase[t] \in {"open", "pending"} /\ ~given[t]
      BY <1>8, PhaseCases DEF Resolve, MayResolve, OperatorChecked, BLOCKING
  <2>2. phase' = [phase EXCEPT ![t] = "void"] /\ given' = given
      BY <1>8, PhaseCases DEF Resolve
  <2> QED BY <2>1, <2>2 DEF E!Void
<1>9. ASSUME NEW t \in Trades,
             \/ ConfirmInterrupted(t) \/ Launch(t) \/ LaunchFails(t)
             \/ TimeoutKill(t) \/ Reap(t) \/ FinishFails(t) \/ RadioExits(t)
             \/ \E m \in Mons : RadioReceipt(t, m)
      PROVE UNCHANGED <<st, console>>
    BY <1>9 DEF ConfirmInterrupted, Launch, LaunchFails, TimeoutKill, Reap,
                FinishFails, RadioExits, RadioReceipt
<1>10. ASSUME (\E s \in Saves : Upload(s)) \/ Lifecycle \/ UNCHANGED vars
       PROVE UNCHANGED <<st, console>>
    BY <1>10 DEF Upload, Lifecycle, BeginClose, StopBackend, StopChild, Exit,
                 Crash, Restart, Serve, vars
<1>11. UNCHANGED <<st, console>> => UNCHANGED E!vars
    BY DEF E!vars
<1> QED
    BY <1>2, <1>3, <1>4, <1>5, <1>6, <1>7, <1>8, <1>9, <1>10, <1>11
    DEF Next, Handlers, Worker, Child, E!Next

\* The local bridge implements Exchange, for every number of transactions.
THEOREM Implements == Spec => ImplementsExchange
  BY InitExchange, StepExchange, Inductive, PTL DEF Spec, ImplementsExchange, E!Spec

\* The record follows the documented diagram: what each step writes is an
\* arrow from what the invariant says it finds.
LEMMA StepDiagram ==
    IInv /\ [Next]_vars =>
        \A t \in Trades : st'[t] # st[t] => <<st[t], st'[t]>> \in Diagram
<1> SUFFICES ASSUME IInv, [Next]_vars, NEW u \in Trades, st'[u] # st[u]
             PROVE <<st[u], st'[u]>> \in Diagram
    OBVIOUS
<1> USE DEF IInv, TypeOK, Diagram, disk, memory, world
<1>1. ASSUME NEW t \in Trades, NEW s \in Selections, Prepare(t, s)
      PROVE <<st[u], st'[u]>> \in Diagram
    BY <1>1 DEF Prepare
<1>2. ASSUME NEW t \in Trades, Start(t) PROVE <<st[u], st'[u]>> \in Diagram
    BY <1>2 DEF Start, MayStart
<1>3. ASSUME NEW t \in Trades, Confirm(t) PROVE <<st[u], st'[u]>> \in Diagram
    BY <1>3 DEF Confirm
<1>4. ASSUME NEW t \in Trades, Applied(t) PROVE <<st[u], st'[u]>> \in Diagram
    BY <1>4 DEF Applied
<1>5. ASSUME NEW t \in Trades, Finish(t) \/ Recover(t)
      PROVE <<st[u], st'[u]>> \in Diagram
    BY <1>5 DEF Finish, Recover, ToRecover, FinishState, WorkerInv
<1>6. ASSUME NEW t \in Trades, Resolve(t) PROVE <<st[u], st'[u]>> \in Diagram
    BY <1>6 DEF Resolve, MayResolve
<1> QED
    BY <1>1, <1>2, <1>3, <1>4, <1>5, <1>6
    DEF Next, Upload, Handlers, ConfirmInterrupted, Worker, Launch, LaunchFails,
        TimeoutKill, Reap, FinishFails, Child, RadioReceipt, ConsoleTrades,
        RadioExits, Lifecycle, BeginClose, StopBackend, StopChild, Exit, Crash,
        Restart, Serve, vars

\* No transaction ever leaves the diagram of docs/implementation.md.
THEOREM KeepsDiagram == Spec => FollowsDiagram
  BY StepDiagram, Inductive, PTL DEF Spec, FollowsDiagram
=============================================================================
