----------------------------- MODULE StartupRefresh -----------------------------
(***************************************************************************)
(* The inventory refresh behind the first menu (startup_refresh.py, with   *)
(* launcher.main and the _direct-refresh command of app.py).               *)
(*                                                                         *)
(* An opening of the picker is a launcher process.  If the saved catalog   *)
(* is missing or stale it takes the lease, an flock, writes a ticket with  *)
(* a deadline, shows the first frame, starts a detached worker that        *)
(* inherits the lock's descriptor, and closes its own.  The worker         *)
(* publishes host results into the catalog, commits the fleet and resolves *)
(* the ticket, unless its alarm goes off at the deadline, wherever it is.  *)
(* An opening that finds the lease taken joins: its menu watches the       *)
(* ticket and waits for nobody in particular.  Any of these processes may  *)
(* be killed at any step, which closes its descriptors.                    *)
(***************************************************************************)
EXTENDS Naturals, FiniteSets

CONSTANTS
    Launchers,      \* openings of the picker, each one launcher process
    NoTicket,       \* there is no readable ticket file
    Limit,          \* REFRESH_SECONDS, in ticks of the clock
    MaxTime,        \* bound: the clock stops here
    Signals,        \* which of "kill", "terminate" and "close" come from outside
    Watched         \* bound: the openings whose menu is not closed at once

ASSUME RefreshAssumption ==
    /\ Limit \in Nat \ {0}
    /\ MaxTime \in Nat
    /\ NoTicket \notin [state : {"pending", "complete", "failed"}, by : Launchers,
                         deadline : 0..MaxTime]

VARIABLES
    now,            \* the monotonic clock
    holders,        \* [Launchers -> the processes that hold the descriptor of
                    \*  the lock file this launcher opened and locked]
    ticket,         \* startup-refresh.json; `by`: whose reservation, a history
    launcher,       \* [Launchers -> where launcher.main is]
    worker,         \* [Launchers -> where the worker it started is]
    alarm,          \* [Launchers -> "off", "armed" or "fired"]
    cancelled,      \* launchers whose worker runs and had its probes cancelled
    menu,           \* [Launchers -> the menu it opened]
    published,      \* history: workers that published a host result
    committed       \* history: workers that committed a fleet read to the end

processes == <<launcher, worker, alarm, cancelled>>
catalog == <<published, committed>>
vars == <<now, holders, ticket, processes, menu, catalog>>

(* flock is shared by the descriptors inherited from one open: the lease is *)
(* free when no process holds any.                                         *)
LeaseFree == \A l \in Launchers : holders[l] = {}
Drops(l, process) == holders' = [holders EXCEPT ![l] = @ \ {process}]

(* Mutant: the ticket's deadline is not looked at. *)
StatusAsWritten == IF ticket = NoTicket THEN "none" ELSE ticket.state

(* read_status: a pending ticket past its deadline reads as failed.        *)
Status ==
    IF ticket = NoTicket THEN "none"
    ELSE IF ticket.state = "pending" /\ now >= ticket.deadline THEN "failed"
    ELSE ticket.state

(* Mutant: a failure is written as a state that read_status does not know. *)
ResolvesUnknown(state) ==
    ticket' = IF ticket = NoTicket THEN NoTicket
              ELSE [ticket EXCEPT !.state = IF state = "failed" THEN "error" ELSE state]

(* finish_refresh: the ticket that is there, whosever, with a new state.   *)
Resolves(state) ==
    ticket' = IF ticket = NoTicket THEN NoTicket ELSE [ticket EXCEPT !.state = state]

(* A menu: what its last callback read of the ticket (`of`: whose it was), *)
(* the commits in the catalog it shows, whether a row can be selected, and *)
(* whether its timeout will make another callback.                         *)
Closed == [pc |-> "closed", status |-> "none", of |-> NoTicket,
           seen |-> {}, rows |-> FALSE, armed |-> FALSE]

Whose == IF ticket = NoTicket THEN NoTicket ELSE ticket.by

Rows == IF published = {} THEN {FALSE} ELSE BOOLEAN

(* Mutant: a redraw shows the catalog as it was when the menu was opened.  *)
DrawsFromMemory(l) ==
    \E rows \in Rows :
        menu' = [menu EXCEPT ![l].pc = "idle", ![l].rows = rows,
                             ![l].seen = IF menu[l].pc = "closed" THEN committed ELSE @,
                             ![l].armed = menu[l].status = "pending" /\ ~rows]

(* The catalog is loaded and the rows drawn; the timeout stays armed only  *)
(* for an empty list whose refresh was pending.                            *)
Draws(l) ==
    \E rows \in Rows :
        menu' = [menu EXCEPT ![l].pc = "idle", ![l].rows = rows, ![l].seen = committed,
                             ![l].armed = menu[l].status = "pending" /\ ~rows]

-----------------------------------------------------------------------------
(* The launcher.                                                           *)

At(l, pc) == launcher[l] = pc
Goes(l, pc) == launcher' = [launcher EXCEPT ![l] = pc]

(* Bound: a ticket is written only if its deadline is within MaxTime.      *)
MayReserve == now + Limit <= MaxTime

(* It reads the catalog: only one with results can be fresh.               *)
Load(l) ==
    /\ At(l, "off")
    /\ Goes(l, "stale") \/ (published # {} /\ Goes(l, "fresh"))
    /\ UNCHANGED <<now, holders, ticket, worker, alarm, cancelled, menu, catalog>>

(* It tries the lock without waiting.  With a fresh catalog it only wants  *)
(* to know, and gives the lock back.                                       *)
TakeLease(l) ==
    /\ LeaseFree
    /\ \/ At(l, "stale") /\ MayReserve /\ Goes(l, "reserve")
       \/ At(l, "fresh") /\ Goes(l, "probe")
    /\ holders' = [holders EXCEPT ![l] = {"launcher"}]
    /\ UNCHANGED <<now, ticket, worker, alarm, cancelled, menu, catalog>>

GiveBack(l) ==
    /\ At(l, "probe")
    /\ Drops(l, "launcher")
    /\ Goes(l, "open")
    /\ UNCHANGED <<now, ticket, worker, alarm, cancelled, menu, catalog>>

Join(l) ==
    /\ launcher[l] \in {"stale", "fresh"}
    /\ ~LeaseFree
    /\ Goes(l, "frame")
    /\ UNCHANGED <<now, holders, ticket, worker, alarm, cancelled, menu, catalog>>

WriteTicket(l) ==
    /\ At(l, "reserve")
    /\ ticket' = [state |-> "pending", by |-> l, deadline |-> now + Limit]
    /\ Goes(l, "frame")
    /\ UNCHANGED <<now, holders, worker, alarm, cancelled, menu, catalog>>

(* The first frame is rendered by the launcher itself, which reads the     *)
(* ticket, then the catalog, and then starts Rofi.                         *)
ReadFrame(l) ==
    /\ At(l, "frame")
    /\ menu' = [menu EXCEPT ![l].status = Status, ![l].of = Whose]
    /\ Goes(l, "render")
    /\ UNCHANGED <<now, holders, ticket, worker, alarm, cancelled, catalog>>

ShowFrame(l) ==
    /\ At(l, "render")
    /\ IF l \in Watched THEN Draws(l) ELSE menu' = [menu EXCEPT ![l] = Closed]
    /\ Goes(l, "shown")
    /\ UNCHANGED <<now, holders, ticket, worker, alarm, cancelled, catalog>>

(* Rofi has the frame: start the worker, if the lease is this launcher's.  *)
StartWorker(l) ==
    /\ At(l, "shown")
    /\ IF holders[l] = {}
       THEN Goes(l, "open") /\ UNCHANGED <<holders, worker>>
       ELSE /\ worker' = [worker EXCEPT ![l] = "boot"]
            /\ holders' = [holders EXCEPT ![l] = @ \cup {"worker"}]
            /\ Goes(l, "handover")
    /\ UNCHANGED <<now, ticket, alarm, cancelled, menu, catalog>>

(* Mutants: the launcher keeps its descriptor until Rofi ends; it unlocks  *)
(* instead of closing, which takes the lease from the worker too; it gives *)
(* the lease up before it reports.                                         *)
HandoverKeeps(l) ==
    /\ At(l, "handover")
    /\ Goes(l, "open")
    /\ UNCHANGED <<now, holders, ticket, worker, alarm, cancelled, menu, catalog>>
HandoverUnlocks(l) ==
    /\ At(l, "handover")
    /\ holders' = [holders EXCEPT ![l] = {}]
    /\ Goes(l, "open")
    /\ UNCHANGED <<now, ticket, worker, alarm, cancelled, menu, catalog>>
WorkerFailsEarlyRelease(l) ==
    /\ At(l, "shown")
    /\ holders[l] # {}
    /\ Drops(l, "launcher")
    /\ Goes(l, "report")
    /\ UNCHANGED <<now, ticket, worker, alarm, cancelled, menu, catalog>>

WorkerFails(l) ==
    /\ At(l, "shown")
    /\ holders[l] # {}
    /\ Goes(l, "report")
    /\ UNCHANGED <<now, holders, ticket, worker, alarm, cancelled, menu, catalog>>

Report(l) ==
    /\ At(l, "report")
    /\ Resolves("failed")
    /\ Goes(l, "handover")
    /\ UNCHANGED <<now, holders, worker, alarm, cancelled, menu, catalog>>

(* The launcher closes its descriptor, explicitly not unlocking it.        *)
Handover(l) ==
    /\ At(l, "handover")
    /\ Drops(l, "launcher")
    /\ Goes(l, "open")
    /\ UNCHANGED <<now, ticket, worker, alarm, cancelled, menu, catalog>>

(* An error (the ticket cannot be written, the frame is too large, Rofi    *)
(* does not start), the end of Rofi, or a kill.                            *)
EndLauncher(l) ==
    /\ launcher[l] \notin {"off", "ended"}
    /\ "kill" \in Signals \/ launcher[l] \in {"reserve", "frame", "render", "open"}
    /\ Goes(l, "ended")
    /\ Drops(l, "launcher")
    /\ menu' = IF At(l, "render") THEN [menu EXCEPT ![l] = Closed] ELSE menu
    /\ UNCHANGED <<now, ticket, worker, alarm, cancelled, catalog>>

Launcher(l) ==
    \/ Load(l) \/ TakeLease(l) \/ GiveBack(l) \/ Join(l) \/ WriteTicket(l)
    \/ ReadFrame(l) \/ ShowFrame(l) \/ StartWorker(l) \/ WorkerFails(l) \/ Report(l)
    \/ Handover(l)

-----------------------------------------------------------------------------
(* The worker (_direct-refresh).                                           *)

Does(l, pc) == worker[l] = pc
Moves(l, pc) == worker' = [worker EXCEPT ![l] = pc]

Ends(l) ==
    /\ Moves(l, "gone")
    /\ alarm' = [alarm EXCEPT ![l] = "off"]
    /\ cancelled' = cancelled \ {l}
    /\ Drops(l, "worker")

(* refresh_worker: an expired ticket is refused, and the alarm is set to   *)
(* the ticket's deadline.                                                  *)
Boot(l) ==
    /\ Does(l, "boot")
    /\ IF Status = "pending"
       THEN Moves(l, "fleet") /\ alarm' = [alarm EXCEPT ![l] = "armed"]
       ELSE Moves(l, "close") /\ UNCHANGED alarm
    /\ UNCHANGED <<now, holders, ticket, launcher, cancelled, menu, catalog>>

(* cache.refresh publishes each host as it answers, and as it is given up. *)
Publish(l) ==
    /\ Does(l, "fleet")
    /\ published' = published \cup {l}
    /\ UNCHANGED <<now, holders, ticket, processes, menu, committed>>

FleetRead(l) ==
    /\ Does(l, "fleet")
    /\ Moves(l, "commit")
    /\ UNCHANGED <<now, holders, ticket, launcher, alarm, cancelled, menu, catalog>>

(* A mesh, transport or cache error before the end of the refresh.         *)
RefreshFails(l) ==
    /\ worker[l] \in {"fleet", "commit"}
    /\ Moves(l, "fail")
    /\ UNCHANGED <<now, holders, ticket, launcher, alarm, cancelled, menu, catalog>>

Commits(l) == /\ published' = published \cup {l}
              /\ committed' = committed \cup ({l} \ cancelled)

Commit(l) ==
    /\ Does(l, "commit")
    /\ Commits(l)
    /\ Moves(l, "leave")
    /\ UNCHANGED <<now, holders, ticket, launcher, alarm, cancelled, menu>>

(* Mutant: cancelled work is resolved like any other. *)
LeaveAnyway(l) ==
    /\ Does(l, "leave")
    /\ Moves(l, "finish")
    /\ UNCHANGED <<now, holders, ticket, launcher, alarm, cancelled, menu, catalog>>

(* passive_probe_signals: work that was cancelled ends the process here.   *)
Leave(l) ==
    /\ Does(l, "leave")
    /\ Moves(l, IF l \in cancelled THEN "close" ELSE "finish")
    /\ UNCHANGED <<now, holders, ticket, launcher, alarm, cancelled, menu, catalog>>

(* finish_refresh, whose write may fail.                                   *)
Finish(l) ==
    /\ Does(l, "finish")
    /\ \/ Resolves("complete") /\ Moves(l, "return")
       \/ UNCHANGED ticket /\ Moves(l, "close")
    /\ UNCHANGED <<now, holders, launcher, alarm, cancelled, menu, catalog>>

ReturnZero(l) ==
    /\ Does(l, "return")
    /\ Moves(l, "close")
    /\ UNCHANGED <<now, holders, ticket, launcher, alarm, cancelled, menu, catalog>>

FinishFailed(l) ==
    /\ Does(l, "fail")
    /\ Resolves("failed") \/ UNCHANGED ticket
    /\ Moves(l, "close")
    /\ UNCHANGED <<now, holders, launcher, alarm, cancelled, menu, catalog>>

Close(l) ==
    /\ Does(l, "close")
    /\ Ends(l)
    /\ UNCHANGED <<now, ticket, launcher, menu, catalog>>

(* The alarm raises TimeoutError wherever the worker is.  In read_fleet it *)
(* is swallowed, by the handler of the fleet's own timeout or by the one   *)
(* around future.result(), and the results that are left are published;    *)
(* under the catalog's lock, and elsewhere, it fails the refresh; in       *)
(* finish_refresh it may come before or after the write.                   *)
Alarm(l) ==
    /\ alarm[l] = "armed"
    /\ now >= ticket.deadline
    /\ alarm' = [alarm EXCEPT ![l] = "fired"]
    /\ cancelled' = cancelled \cup {l}
    /\ \/ /\ Does(l, "fleet")
          /\ UNCHANGED worker \/ Moves(l, "fail")
          /\ UNCHANGED <<ticket, catalog>>
       \/ /\ Does(l, "commit")
          /\ Moves(l, "fail")
          /\ Commits(l) \/ UNCHANGED catalog
          /\ UNCHANGED ticket
       \/ /\ worker[l] \in {"leave", "finish", "return"}
          /\ Moves(l, "fail") \/ (Does(l, "finish") /\ Moves(l, "close"))
          /\ UNCHANGED <<ticket, catalog>>
       \/ /\ Does(l, "fail")
          /\ Resolves("failed") \/ UNCHANGED ticket
          /\ Moves(l, "close")
          /\ UNCHANGED catalog
    /\ UNCHANGED <<now, holders, launcher, menu>>

(* SIGTERM while passive_probe_signals is in force only cancels.           *)
Terminate(l) ==
    /\ "terminate" \in Signals
    /\ worker[l] \in {"fleet", "commit", "leave"}
    /\ cancelled' = cancelled \cup {l}
    /\ UNCHANGED <<now, holders, ticket, launcher, worker, alarm, menu, catalog>>

Kill(l) ==
    /\ "kill" \in Signals
    /\ worker[l] \notin {"none", "gone"}
    /\ Ends(l)
    /\ UNCHANGED <<now, ticket, launcher, menu, catalog>>

Worker(l) ==
    \/ Boot(l) \/ FleetRead(l) \/ RefreshFails(l) \/ Commit(l) \/ Leave(l)
    \/ Finish(l) \/ ReturnZero(l) \/ FinishFailed(l) \/ Close(l)

-----------------------------------------------------------------------------
(* The menu, one callback at a time.                                       *)

(* The timeout of an empty list makes a callback, which reads the ticket   *)
(* and then the catalog.                                                   *)
Poll(l) ==
    /\ menu[l].pc = "idle"
    /\ menu[l].armed
    /\ menu' = [menu EXCEPT ![l].pc = "redraw", ![l].status = Status, ![l].of = Whose]
    /\ UNCHANGED <<now, holders, ticket, processes, catalog>>

(* Alt+R reads the ticket and waits while it is pending.  (With none        *)
(* pending the callback refreshes by itself and touches neither ticket nor *)
(* lease.)                                                                 *)
AltR(l) ==
    /\ menu[l].pc = "idle"
    /\ Status = "pending"
    /\ menu' = [menu EXCEPT ![l].pc = "join", ![l].status = Status, ![l].of = Whose]
    /\ UNCHANGED <<now, holders, ticket, processes, catalog>>

(* wait_for_refresh reads the ticket that is there, again and again.       *)
Wait(l) ==
    /\ menu[l].pc = "join"
    /\ menu' = [menu EXCEPT ![l].pc = IF Status = "pending" THEN "join" ELSE "redraw",
                            ![l].status = Status, ![l].of = Whose]
    /\ UNCHANGED <<now, holders, ticket, processes, catalog>>

Redraw(l) ==
    /\ menu[l].pc = "redraw"
    /\ Draws(l)
    /\ UNCHANGED <<now, holders, ticket, processes, catalog>>

CloseMenu(l) ==
    /\ "close" \in Signals
    /\ menu[l].pc # "closed"
    /\ menu' = [menu EXCEPT ![l] = Closed]
    /\ UNCHANGED <<now, holders, ticket, processes, catalog>>

Menu(l) == Poll(l) \/ Wait(l) \/ Redraw(l)

-----------------------------------------------------------------------------

(* The clock waits for a launcher about to write the last ticket. *)
Tick ==
    /\ now < MaxTime
    /\ MayReserve => \A l \in Launchers : At(l, "reserve") => now + Limit < MaxTime
    /\ now' = now + 1
    /\ UNCHANGED <<holders, ticket, processes, menu, catalog>>

Init ==
    /\ now = 0
    /\ holders = [l \in Launchers |-> {}]
    /\ ticket = NoTicket
    /\ launcher = [l \in Launchers |-> "off"]
    /\ worker = [l \in Launchers |-> "none"]
    /\ alarm = [l \in Launchers |-> "off"]
    /\ cancelled = {}
    /\ menu = [l \in Launchers |-> Closed]
    /\ published = {}
    /\ committed = {}

Next ==
    \/ Tick
    \/ \E l \in Launchers :
        \/ Launcher(l) \/ EndLauncher(l)
        \/ Worker(l) \/ Publish(l) \/ Alarm(l) \/ Terminate(l) \/ Kill(l)
        \/ Menu(l) \/ AltR(l) \/ CloseMenu(l)

Spec == Init /\ [][Next]_vars

(* Time passes, and processes that can go on do: launchers, workers and    *)
(* callbacks are ordinary processes, and read_fleet has a deadline of its  *)
(* own.  No signal is assumed to come, or not to come.                     *)
Fairness ==
    /\ WF_vars(Tick)
    /\ \A l \in Launchers :
        WF_vars(Launcher(l)) /\ WF_vars(Worker(l)) /\ WF_vars(Menu(l))

FairSpec == Spec /\ Fairness

Tickets == INSTANCE RefreshTicket WITH Deadlines <- 0..MaxTime

-----------------------------------------------------------------------------
(* Properties                                                              *)

(* Every variable holds a value of its kind.                               *)
TypeOK ==
    /\ now \in 0..MaxTime
    /\ holders \in [Launchers -> SUBSET {"launcher", "worker"}]
    /\ ticket \in Tickets!Ticket \cup {NoTicket}
    /\ launcher \in [Launchers -> {"off", "stale", "fresh", "probe", "reserve", "frame",
                                   "render", "shown", "report", "handover", "open", "ended"}]
    /\ worker \in [Launchers -> {"none", "boot", "fleet", "commit", "leave",
                                 "finish", "return", "fail", "close", "gone"}]
    /\ alarm \in [Launchers -> {"off", "armed", "fired"}]
    /\ cancelled \in SUBSET Launchers
    /\ menu \in [Launchers -> [pc : {"closed", "idle", "redraw", "join"},
                               status : {"none", "pending", "complete", "failed"},
                               of : Launchers \cup {NoTicket},
                               seen : SUBSET Launchers, rows : BOOLEAN, armed : BOOLEAN]]
    /\ published \in SUBSET Launchers
    /\ committed \in SUBSET published

(* Two workers never refresh the catalog at the same time, although every  *)
(* opening may start one and no process waits for it: the lease outlives   *)
(* the launcher that took it, in the descriptor the worker inherited.      *)
OneWorker ==
    \A k, l \in Launchers :
        worker[k] \notin {"none", "gone"} /\ worker[l] \notin {"none", "gone"} => k = l

(* Whoever is about to resolve the ticket resolves its own: a launcher     *)
(* that could not start its worker, and a worker overtaken by its deadline,*)
(* never declare the refresh of a later opening finished (finish_refresh   *)
(* writes whatever ticket it finds).                                       *)
ResolvesItsOwn ==
    \A l \in Launchers :
        worker[l] \in {"finish", "return", "fail"} \/ launcher[l] = "report" =>
            ticket.by = l

(* A menu that stopped watching because the refresh was complete shows     *)
(* what that refresh committed; it will not look again (run_rofi reads     *)
(* the ticket before the catalog, wait_for_refresh before it reloads).     *)
LastRedrawIsCurrent ==
    \A l \in Launchers :
        menu[l].pc = "idle" /\ menu[l].status = "complete" => menu[l].of \in menu[l].seen

(* Whatever dies, the ticket behaves as the menus that watch it are        *)
(* promised, and complete means committed.                                 *)
ImplementsTicket == Tickets!TicketSpec

(* The lease is free again and again, whether the worker finished, was     *)
(* stopped by its alarm or crashed, so that a later opening can retry.     *)
LeaseIsReleased == []<>LeaseFree

(* "An empty list checks at most twice per second until its first          *)
(* selectable rows, completion or timeout": no menu waits or polls for     *)
(* ever, even for a worker that died without a word.                       *)
MenuIsReleased ==
    []<>(\A l \in Launchers : menu[l].pc # "join" /\ ~menu[l].armed)

(* "deadline_releases_the_lease_and_cannot_publish": a worker whose alarm  *)
(* went off publishes nothing more.                                        *)
CannotPublishLate ==
    [][\A l \in Launchers :
          alarm[l] = "fired" => (l \in published') = (l \in published)]_vars
=============================================================================
