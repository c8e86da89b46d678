----------------------------- MODULE LocalTrade -----------------------------
(***************************************************************************)
(* A local exchange end to end: the 3DS application (SaveReplacement and   *)
(* the request loop of recover()), the bridge (Service) and the HTTP       *)
(* requests between them.  The bridge's result for trade t is the content  *)
(* t of the 3DS's files; a save is named by its content on both sides.     *)
(*                                                                         *)
(* A call blocks the application until an answer or a timeout.  A request  *)
(* whose caller gave up may still reach the bridge, at any later time, or  *)
(* never; an answer may be lost.                                           *)
(***************************************************************************)
EXTENDS Naturals

CONSTANTS
    Trades, Versions, Mons, None, Torn,
    Eligible,     \* <<save, slot>> that prepare() accepts
    Importable,   \* <<selection, Pokemon>> that replace() accepts
    MaxCrashes, MaxFaults,             \* bounds of Service
    MaxLosses, MaxCardFaults, MaxPlays,\* bounds of SaveReplacement
    MaxGiveUps                         \* bound: calls without an answer

VARIABLES
    saves, st, sel, receipt, result, sha, server, worker, process,
    radio, console, launches, crashes, faults,
    source, old, temp, backup, record, fresh, original, app, trade, existed,
    installs, losses, cardFaults, plays,
    refused,   \* trades whose PUT was answered 400
    seen,      \* the bridge's answer recover() is acting on, or None
    wait,      \* the operation it is waiting for, or None
    net,       \* requests on their way
    giveUps

Slots == {1}
Saves == Versions \cup Trades

ASSUME LocalAssumption ==
    /\ Trades \cap Versions = {}
    /\ None \notin Saves \cup Mons
    /\ Torn \notin Saves \cup {None}
    /\ Eligible \subseteq Saves \X Slots
    /\ Importable \subseteq (Saves \X Slots) \X Mons
    /\ None \notin Saves \X Slots
    /\ None \notin (Saves \X Slots) \X Mons
    /\ MaxCrashes \in Nat /\ MaxFaults \in Nat
    /\ MaxLosses \in Nat /\ MaxCardFaults \in Nat /\ MaxPlays \in Nat
    /\ MaxGiveUps \in Nat

Outcome(t) ==
    CASE t \in refused                  -> "rejected"
      [] st[t] = "cancelled"            -> "cancelled"
      [] st[t] \in {"ready", "applied"} -> "ready"
      [] OTHER                          -> "unknown"

S == INSTANCE Service
R == INSTANCE SaveReplacement
        WITH outcome <- [t \in Trades |-> Outcome(t)],
             faults <- cardFaults, MaxFaults <- MaxCardFaults

bridge == <<saves, st, sel, receipt, result, sha, server, worker, process,
            radio, console, launches, crashes, faults>>
card   == <<source, old, temp, backup, record, fresh, original, app, trade,
            existed, installs, losses, cardFaults, plays>>
link   == <<refused, seen, wait, net, giveUps>>
vars   == <<saves, st, sel, receipt, result, sha, server, worker, process,
            radio, console, launches, crashes, faults,
            source, old, temp, backup, record, fresh, original, app, trade,
            existed, installs, losses, cardFaults, plays,
            refused, seen, wait, net, giveUps>>

Operations == {"status", "prepare", "start", "confirm", "result", "applied"}
Requests == [op : Operations, trade : Trades, attempt : 0 .. MaxGiveUps + MaxLosses]

\* Tells a call from the abandoned ones before it.
Attempt == giveUps + losses

TypeOK ==
    /\ S!TypeOK /\ R!TypeOK
    /\ refused \subseteq Trades
    /\ seen \in S!States \cup {None, "missing", "rejected", "downloaded"}
    /\ wait \in Operations \cup {None}
    /\ net \subseteq Requests
    /\ giveUps \in 0 .. MaxGiveUps

Init ==
    /\ refused = {} /\ seen = None /\ wait = None /\ net = {} /\ giveUps = 0
    /\ S!Init /\ R!Init

-----------------------------------------------------------------------------
(* The application's steps *)

\* What recover() asks next, given the last answer.  The player presses A to
\* start, and to confirm once the Switch shows the received Pokemon.
Asks(op) ==
    CASE op = "status"  -> app = "recover" /\ seen = None
      [] op = "prepare" -> app = "recover" /\ seen = "missing"
      [] op = "start"   -> app = "recover" /\ seen = "prepared"
      [] op = "confirm" -> app = "recover" /\ seen = "received" /\ S!SwitchShows(trade)
      [] op = "result"  -> app = "recover" /\ seen \in {"ready", "applied"}
      [] op = "applied" -> app = "acknowledge"

Call(op) ==
    /\ wait = None
    /\ Asks(op)
    /\ wait' = op
    /\ net' = net \cup {[op |-> op, trade |-> trade, attempt |-> Attempt]}
    /\ UNCHANGED <<bridge, card, refused, seen, giveUps>>

\* A read that nobody waits for any more has no effect: only the requests that
\* can change the bridge stay on their way.
Abandon == net' = {r \in net : r.op \notin {"status", "result"}}

\* No answer in time, or the bridge cannot be reached: recover() returns.
GiveUp ==
    /\ wait # None
    /\ giveUps < MaxGiveUps
    /\ giveUps' = giveUps + 1
    /\ wait' = None
    /\ seen' = None
    /\ app' = "home"
    /\ Abandon
    /\ UNCHANGED <<bridge, source, old, temp, backup, record, fresh, original,
                   trade, existed, installs, losses, cardFaults, plays, refused>>

\* The screen is left by a key or after two seconds, and the status read again.
Poll ==
    /\ wait = None /\ app = "recover"
    /\ seen \in {"prepared", "running", "uncertain", "received", "import_blocked"}
    /\ seen' = None
    /\ UNCHANGED <<bridge, card, refused, wait, net, giveUps>>

\* The save is uploaded before a Pokemon of it can be selected.
Select(t) ==
    /\ st[t] = "none"
    /\ S!Upload(source)
    /\ UNCHANGED link
    /\ R!Select(t)

\* recover() acts on what it was last told.
BeginApply == seen = "downloaded" /\ R!BeginApply
Drop == seen \in {"cancelled", "rejected"} /\ R!Drop

\* Steps on the SD card that no call waits for; returning to the menu or
\* closing the application forgets the last answer.
OnCard ==
    /\ wait = None
    /\ UNCHANGED <<bridge, refused, wait, net, giveUps>>
    /\ \/ R!Open \/ R!Quit \/ R!WriteBackup \/ R!WriteRecord \/ R!RenameRecord
       \/ R!Resume \/ Drop \/ BeginApply \/ R!WriteTemp \/ R!Preserve
       \/ R!Install \/ R!Verify \/ R!Clear \/ R!StorageFails \/ R!Play
    /\ seen' = IF app' = "recover" THEN seen ELSE None

PowerLoss ==
    /\ wait' = None /\ seen' = None
    /\ Abandon
    /\ UNCHANGED <<bridge, refused, giveUps>>
    /\ R!PowerLoss

-----------------------------------------------------------------------------
(* The bridge answers *)

\* An answer reaches the application if it still waits for it; it is lost if
\* it gave up, or if the connection fails (GiveUp follows).
Awaited(r) == wait = r.op /\ trade = r.trade /\ r.attempt = Attempt
Unheard(r) == /\ Awaited(r) => giveUps < MaxGiveUps
              /\ UNCHANGED <<wait, seen>>

Reply(r, answer) ==
    \/ Awaited(r) /\ wait' = None /\ seen' = answer
    \/ Unheard(r)

\* Request r for operation op arrives at a live bridge.
Arrives(r, op) ==
    /\ r.op = op
    /\ server \in S!Serving
    /\ net' = net \ {r}

\* Read-only requests; a status request also of an unknown trade (404).
Status(r) ==
    /\ Arrives(r, "status")
    /\ Reply(r, IF st[r.trade] = "none" THEN "missing" ELSE st[r.trade])
    /\ UNCHANGED <<bridge, card, refused, giveUps>>

Download(r) ==
    /\ Arrives(r, "result")
    /\ S!ResultOf(r.trade) # None
    /\ Reply(r, "downloaded")
    /\ UNCHANGED <<bridge, card, refused, giveUps>>

Prepare(r) ==
    /\ Arrives(r, "prepare")
    /\ S!Prepare(r.trade, <<original[r.trade], 1>>)
    /\ Reply(r, "prepared")
    /\ UNCHANGED <<card, refused, giveUps>>

Refuse_Retried(r) ==
    /\ Arrives(r, "prepare")
    /\ st[r.trade] # "none" \/ <<original[r.trade], 1>> \notin Eligible
    /\ Reply(r, "rejected")
    /\ refused' = refused \cup {r.trade}
    /\ UNCHANGED <<bridge, card, giveUps>>

\* A selection prepare() refuses is a 400: nothing was stored.
Refuse(r) ==
    /\ Arrives(r, "prepare")
    /\ st[r.trade] = "none"
    /\ <<original[r.trade], 1>> \notin Eligible
    /\ Reply(r, "rejected")
    /\ refused' = refused \cup {r.trade}
    /\ UNCHANGED <<bridge, card, giveUps>>

\* After start and confirm the loop reads the status again.
Start(r) ==
    /\ Arrives(r, "start")
    /\ S!Start(r.trade)
    /\ Reply(r, None)
    /\ UNCHANGED <<card, refused, giveUps>>

Confirm(r) ==
    /\ Arrives(r, "confirm")
    /\ S!Confirm(r.trade)
    /\ Reply(r, None)
    /\ UNCHANGED <<card, refused, giveUps>>

\* A retried request finds its work done, and changes nothing.
Repeated(r) ==
    LET state == st[r.trade] IN
    /\ \/ Arrives(r, "prepare") /\ state # "none" /\ Reply(r, state)
       \/ Arrives(r, "start") /\ state \notin {"none", "prepared"} /\ Reply(r, None)
       \/ Arrives(r, "confirm") /\ state \in {"ready", "applied"} /\ Reply(r, None)
    /\ UNCHANGED <<bridge, card, refused, giveUps>>

\* The acknowledgement moves the application on only if its answer arrives.
Applied(r) ==
    /\ Arrives(r, "applied")
    /\ S!Applied(r.trade)
    /\ UNCHANGED <<refused, giveUps>>
    /\ \/ /\ Awaited(r)
          /\ R!Acknowledge
          /\ wait' = None /\ seen' = None
       \/ Unheard(r) /\ UNCHANGED card

\* A Conflict (409), or a start that preflight() refuses (400): the caller's
\* recover() returns.
Conflict(r) ==
    /\ \/ Arrives(r, "start") /\ st[r.trade] = "prepared"
       \/ Arrives(r, "confirm") /\ st[r.trade] \notin {"received", "ready", "applied"}
    /\ \/ Awaited(r) /\ wait' = None /\ seen' = None /\ app' = "home"
       \/ Unheard(r) /\ UNCHANGED app
    /\ UNCHANGED <<bridge, source, old, temp, backup, record, fresh, original,
                   trade, existed, installs, losses, cardFaults, plays,
                   refused, giveUps>>

\* A request whose caller has given up may also never arrive.
Lose(r) ==
    /\ ~Awaited(r)
    /\ net' = net \ {r}
    /\ UNCHANGED <<bridge, card, refused, seen, wait, giveUps>>

Answer(r) ==
    \/ Status(r) \/ Download(r) \/ Prepare(r) \/ Refuse(r) \/ Start(r)
    \/ Confirm(r) \/ Repeated(r) \/ Applied(r) \/ Conflict(r)

\* What the bridge, its child and its operator do without a request, and a
\* confirm() that fails between its two files and is not answered.
OnBridge(t) ==
    /\ \/ S!ConfirmInterrupted(t) /\ (\E r \in net : r.op = "confirm" /\ r.trade = t)
       \/ S!Worker(t) \/ S!FinishFails(t) \/ S!Child(t) \/ S!Recover(t)
       \/ S!Resolve(t)
    /\ UNCHANGED <<card, link>>

Lifecycle == S!Lifecycle /\ UNCHANGED <<card, link>>

Next ==
    \/ \E op \in Operations : Call(op)
    \/ GiveUp \/ Poll \/ OnCard \/ PowerLoss \/ Lifecycle
    \/ \E t \in Trades : Select(t) \/ OnBridge(t)
    \/ \E r \in net : Answer(r) \/ Lose(r)

\* The threads and restarts of Service's FairSpec; a bridge that keeps coming
\* up gets to a request; a call without an answer times out; a player who keeps
\* opening the application resumes, asks and, once the Switch shows the
\* Pokemon, confirms.
Fairness ==
    /\ \A t \in Trades :
          /\ WF_vars(S!Worker(t) /\ UNCHANGED <<card, link>>)
          /\ WF_vars(S!Recover(t) /\ UNCHANGED <<card, link>>)
          /\ SF_vars(\E r \in net : r.trade = t /\ Awaited(r) /\ Answer(r))
    /\ WF_vars((S!StopBackend \/ S!StopChild \/ S!Exit \/ S!Restart \/ S!Serve)
                  /\ UNCHANGED <<card, link>>)
    /\ WF_vars(GiveUp) /\ WF_vars(Poll)
    /\ \A op \in Operations : SF_vars(Call(op))
    /\ WF_vars(OnCard /\ app = "off" /\ app' = "home")
    /\ SF_vars(OnCard /\ app = "home" /\ app' = "recover")
    /\ SF_vars(OnCard /\ app = "recover" /\ app' # "off")
    /\ WF_vars(OnCard /\ app \in {"temp", "preserve", "install", "verify", "clear"}
                  /\ app' \notin {"home", "off"})
    /\ WF_vars(OnCard /\ app = "clear" /\ record' = None)

Spec == Init /\ [][Next]_vars

FairSpec == Spec /\ Fairness

-----------------------------------------------------------------------------
(* Properties *)

\* No trade child is started before the application's backup of the selected
\* save is complete on the card: what the radio can cost can be put back.
BackedUpBeforeRadio ==
    \A t \in Trades : launches[t] > 0 =>
        backup[t] = original[t] /\ sel[t] = <<original[t], 1>>

\* Once the radio was started for a trade the 3DS forgets it only when the
\* operator cancelled it or the result is on the card and acknowledged: late
\* requests, lost answers and crashes of either side leave no trade behind.
NotForgotten ==
    \A t \in Trades : launches[t] > 0 /\ record # t =>
        \/ st[t] = "cancelled"
        \/ st[t] = "applied" /\ installs[t] = 1

\* "Validation failed before any trade could start": a trade whose record the
\* 3DS dropped on a 400 does not exist on the bridge, nor ever will.
RefusedNeverStarts == \A t \in refused : st[t] = "none"

\* "Save replacement acknowledged by the client": the bridge says so only of
\* a result that did become the save, also when the acknowledgement is late.
AppliedIsPlaced == \A t \in Trades : st[t] = "applied" => installs[t] = 1

\* Both sides together implement one exchange at a time from selection to the
\* replaced save.  The bridge alone stops at "ready"; that no second exchange
\* begins before the first is on the card is due to the single record.
EndToEnd(t) ==
    CASE installs[t] > 0              -> "released"
      [] st[t] = "cancelled"          -> "void"
      [] st[t] \in {"none", "prepared"} -> "open"
      [] OTHER                        -> "pending"

E == INSTANCE Exchange
        WITH phase <- [t \in Trades |-> EndToEnd(t)],
             given <- [t \in Trades |-> console[t] # None]

ImplementsExchange == E!Spec

\* A trade the Switch completed and the bridge has a usable receipt for ends
\* in the save, through restarts, crashes and lost messages, unless the player
\* changed the save meanwhile.
Completes ==
    \A t \in Trades :
        /\ record = t /\ st[t] = "received" /\ console[t] # None
        /\ <<sel[t], receipt[t]>> \in Importable
        ~> source = t \/ R!Touched(t)

-----------------------------------------------------------------------------
(* The inductive invariant *)

\* The backup of the save that was selected for t is complete.
BackedUp(t) == original[t] # None /\ backup[t] = original[t]

\* The bridge has or may still get a request about t.
Asked(t) == st[t] # "none" \/ t \in refused \/ \E r \in net : r.trade = t

\* Nothing that still arrives for t can start it.
Closed(t) == st[t] \in {"cancelled", "applied"} \/ t \in refused

\* The application asks only with the backup and the record in place, and gives
\* the record up only for a trade that is closed.
AskedInv ==
    \A t \in Trades :
        /\ Asked(t) => BackedUp(t) /\ (record = t \/ Closed(t))
        /\ st[t] # "none" => sel[t] = <<original[t], 1>>
        /\ t \in refused => st[t] = "none" /\ <<original[t], 1>> \notin Eligible

\* A content that exists anywhere on the card has been placed by its trade.
OnTheCard(t) ==
    t = source \/ \E u \in Trades : t \in {old[u], backup[u], original[u]}

\* A result is placed only after the bridge released it, and acknowledged only
\* after it was placed.
PlacedInv ==
    /\ \A t \in Trades :
          /\ OnTheCard(t) \/ st[t] = "applied" => installs[t] > 0
          /\ installs[t] > 0 => st[t] \in {"ready", "applied"}
    /\ \A r \in net : r.op = "applied" => installs[r.trade] > 0
    /\ app = "clear" => st[trade] = "applied"

\* What the properties rest on of the bridge and its child: a worker belongs to a
\* running record, and a record bounds what can have happened outside it.
BridgeInv ==
    \A t \in Trades :
        /\ worker[t] # "none" => st[t] = "running" /\ server \in S!Serving
        /\ launches[t] = 0 => radio[t] = "none" /\ console[t] = None
        /\ st[t] \in {"none", "prepared"} => launches[t] = 0
        /\ st[t] \in {"ready", "applied"} => console[t] # None
        /\ st[t] = "cancelled" => console[t] = None /\ radio[t] # "alive"

IInv == TypeOK /\ BridgeInv /\ R!IInv /\ AskedInv /\ PlacedInv
=============================================================================
