--------------------------------- MODULE Fleet ---------------------------------
(***************************************************************************)
(* One read of the fleet: Transport.read_fleet hands every host of the     *)
(* mesh to a pool of threads, each of which runs _read_host, and tells its *)
(* caller of each host as its answer comes, of the hosts that are late     *)
(* when the deadline has passed.  A thread tries the routes of its host    *)
(* one after another, but only as long as the helper cannot have been      *)
(* started: ssh prints a marker as soon as the host was reached.           *)
(*                                                                         *)
(* Time stops at the fleet's deadline, after which it makes no difference. *)
(* What a route does and when a probe ends is up to the network.           *)
(***************************************************************************)
EXTENDS Naturals, FiniteSets

CONSTANTS
    Hosts, Local,   \* the hosts of the mesh, and this machine
    Routes,         \* the number of routes of each remote host, from the mesh
    MaxWorkers,     \* MAX_HOST_WORKERS
    HostTimeout,    \* HOST_TIMEOUT
    FleetTimeout    \* FLEET_TIMEOUT

ASSUME FleetAssumption ==
    /\ Local \in Hosts
    /\ Routes \in [Hosts \ {Local} -> Nat \ {0}] /\ MaxWorkers \in Nat \ {0}
    /\ HostTimeout \in Nat \ {0} /\ FleetTimeout \in Nat \ {0}

Remote == Hosts \ {Local}

(* How a host was answered for.  "answer" is the helper's, an inventory or *)
(* its own error; "failed" an observation that ended too early, its route  *)
(* or its host out of time; "unreachable" that no route led to the host;   *)
(* "expired" that the whole read did not wait for it.                      *)
Answers == {"answer", "failed", "unreachable"}
Results == Answers \cup {"expired"}

VARIABLES
    clock,      \* time since the read began
    cancelled,  \* whether cancel_probes was called
    alarm,      \* the caller's alarm: "set" or "rung"
    main,       \* where read_fleet is
    batch,      \* the finished hosts that as_completed is about to yield
    result,     \* what was published of each host
    told,       \* how often on_result was called for each host
    thread,     \* where _read_host is for each host
    due,        \* host_deadline
    tried,      \* how many routes were tried
    reached,    \* whether the probe that runs has started the helper
    answer,     \* what _read_host returned
    helped      \* history: how often the helper was started and its marker
                \* not lost with the connection

mainVars   == <<main, batch, result, told>>
threadVars == <<thread, due, tried, reached, answer, helped>>
world      == <<clock, cancelled, alarm>>
vars       == <<world, mainVars, threadVars>>

Busy  == {h \in Hosts : thread[h] \in {"start", "route", "ssh"}}
Late(h) == clock >= due[h]
Ended == main \in {"returned", "raised"}

------------------------------------------------------------------------------
(* _read_host, in a thread of the pool.                                    *)

At(h, pc) == thread[h] = pc
Goes(h, pc) == thread' = [thread EXCEPT ![h] = pc]

(* Mutant: a host that starts late has its full time. *)
BeginUnbounded(h) ==
    /\ At(h, "queued") /\ Cardinality(Busy) < MaxWorkers
    /\ due' = [due EXCEPT ![h] = clock + HostTimeout]
    /\ Goes(h, "start")
    /\ UNCHANGED <<world, mainVars, tried, reached, answer, helped>>

Begin(h) ==
    /\ At(h, "queued") /\ Cardinality(Busy) < MaxWorkers
    /\ due' = [due EXCEPT ![h] = IF clock + HostTimeout < FleetTimeout
                                 THEN clock + HostTimeout ELSE FleetTimeout]
    /\ Goes(h, "start")
    /\ UNCHANGED <<world, mainVars, tried, reached, answer, helped>>

(* The future is done, and what was local to the call is gone. *)
Returns(h, kind) ==
    /\ Goes(h, "done")
    /\ answer' = [answer EXCEPT ![h] = kind]
    /\ due' = [due EXCEPT ![h] = 0]
    /\ tried' = [tried EXCEPT ![h] = 0]
    /\ reached' = [reached EXCEPT ![h] = FALSE]
    /\ UNCHANGED <<world, mainVars, helped>>

(* This machine's helper is a child process, and cannot be out of reach. *)
RunLocal(h) ==
    /\ At(h, "start") /\ h = Local /\ ~cancelled
    /\ Goes(h, "ssh")
    /\ reached' = [reached EXCEPT ![h] = TRUE]
    /\ helped' = [helped EXCEPT ![h] = @ + 1]
    /\ UNCHANGED <<world, mainVars, due, tried, answer>>

Loop(h) == (At(h, "start") /\ h # Local) \/ At(h, "route")

OutOfTime(h) == Loop(h) /\ tried[h] < Routes[h] /\ Late(h) /\ Returns(h, "failed")

NextRoute(h) ==
    /\ Loop(h) /\ tried[h] < Routes[h] /\ ~Late(h) /\ ~cancelled
    /\ tried' = [tried EXCEPT ![h] = @ + 1]
    /\ Goes(h, "ssh")
    /\ UNCHANGED <<world, mainVars, due, reached, answer, helped>>

NoRoute(h) == Loop(h) /\ tried[h] = Routes[h] /\ Returns(h, "unreachable")

(* The remote command prints the marker and becomes the helper. *)
Reach(h) ==
    /\ At(h, "ssh") /\ ~reached[h]
    /\ reached' = [reached EXCEPT ![h] = TRUE]
    /\ helped' = [helped EXCEPT ![h] = @ + 1]
    /\ UNCHANGED <<world, mainVars, thread, due, tried, answer>>

(* ssh ends.  Without the marker the host counts as not reached.           *)
(* Mutant: any exit of ssh with an error leads to the next route. *)
UnreachedByStatus(h) ==
    /\ At(h, "ssh") /\ h # Local
    /\ Goes(h, "route")
    /\ reached' = [reached EXCEPT ![h] = FALSE]
    /\ UNCHANGED <<world, mainVars, due, tried, answer, helped>>

Unreached(h) ==
    /\ At(h, "ssh") /\ h # Local /\ ~reached[h]
    /\ Goes(h, "route")
    /\ UNCHANGED <<world, mainVars, due, tried, reached, answer, helped>>

(* The connection broke after the helper was started and before the marker *)
(* came back: the code cannot tell this from Unreached.                    *)
LosesMarker(h) ==
    /\ At(h, "ssh") /\ h # Local /\ reached[h]
    /\ Goes(h, "route")
    /\ reached' = [reached EXCEPT ![h] = FALSE]
    /\ helped' = [helped EXCEPT ![h] = @ - 1]
    /\ UNCHANGED <<world, mainVars, due, tried, answer>>

(* _host_result: an inventory, or the helper's own error, or nonsense. *)
Answered(h) == At(h, "ssh") /\ reached[h] /\ Returns(h, "answer")

(* run_bounded starts no probe any more once all were cancelled, *)
Refused(h) ==
    /\ cancelled
    /\ (At(h, "start") /\ h = Local) \/ (Loop(h) /\ tried[h] < Routes[h] /\ ~Late(h))
    /\ Returns(h, "failed")

(* and stops the one that runs then, or when its time is over.             *)
(* Mutant: it only looks for the cancellation. *)
CutOffByCancel(h) == At(h, "ssh") /\ cancelled /\ Returns(h, "failed")

CutOff(h) == At(h, "ssh") /\ (Late(h) \/ cancelled) /\ Returns(h, "failed")

(* The probe cannot be started, or its output is too long: the host may    *)
(* have been reached, so no further route is tried.                        *)
(* Mutant: the next route is. *)
BreaksOff(h) ==
    \/ h = Local /\ thread[h] \in {"start", "ssh"} /\ Returns(h, "failed")
    \/ /\ At(h, "ssh") /\ h # Local
       /\ Goes(h, "route")
       /\ reached' = [reached EXCEPT ![h] = FALSE]
       /\ UNCHANGED <<world, mainVars, due, tried, answer, helped>>

Breaks(h) == ((At(h, "start") /\ h = Local) \/ At(h, "ssh")) /\ Returns(h, "failed")

Thread(h) ==
    \/ Begin(h) \/ RunLocal(h) \/ OutOfTime(h) \/ NextRoute(h) \/ NoRoute(h)
    \/ Unreached(h) \/ LosesMarker(h) \/ Answered(h) \/ Refused(h) \/ CutOff(h)
    \/ Breaks(h)

------------------------------------------------------------------------------
(* read_fleet, in the caller's thread.                                     *)

Open == {h \in Hosts : result[h] = "none"}

(* as_completed yields all that finished since it last waited. *)
Take ==
    /\ main = "wait" /\ batch = {}
    /\ batch' = {h \in Open : At(h, "done")}
    /\ batch' # {}
    /\ UNCHANGED <<world, main, result, told, threadVars>>

(* publish: the result is kept, then the caller is told; it may raise. *)
Published(h, kind) ==
    /\ result' = [result EXCEPT ![h] = kind]
    /\ told' = [told EXCEPT ![h] = @ + 1]
    /\ batch' = batch \ {h}

Publish ==
    /\ main = "wait"
    /\ \E h \in batch : Published(h, answer[h])
    /\ main' \in {"wait", "raising"}
    /\ UNCHANGED <<world, threadVars>>

AllPublished ==
    /\ main = "wait" /\ Open = {}
    /\ main' = "exit"
    /\ UNCHANGED <<world, batch, result, told, threadVars>>

(* The deadline is looked at between two batches, before a new wait: hosts *)
(* that finished meanwhile are late all the same.                          *)
DeadlinePasses ==
    /\ main = "wait" /\ batch = {} /\ Open # {} /\ clock = FleetTimeout
    /\ main' = "cancel"
    /\ UNCHANGED <<world, batch, result, told, threadVars>>

(* The alarm raises TimeoutError wherever read_fleet is: while it waits or *)
(* publishes, the handler of the deadline takes it for its own, and the    *)
(* hosts about to be yielded count as late.  In that handler it leaves the *)
(* pool; in the pool's exit it leaves the threads behind.                  *)
Alarm ==
    /\ alarm = "set" /\ ~Ended
    /\ alarm' = "rung" /\ cancelled' = TRUE
    /\ batch' = {}
    /\ main' = CASE main = "wait" -> "cancel"
                 [] main \in {"cancel", "expire"} -> "raising"
                 [] OTHER -> "raised"
    /\ UNCHANGED <<clock, result, told, threadVars>>

(* Inside future.result() the handler around it takes the alarm for the    *)
(* failure of the host just yielded, and the wait for the others goes on.  *)
AlarmInResult ==
    /\ alarm = "set" /\ main = "wait"
    /\ alarm' = "rung" /\ cancelled' = TRUE
    /\ \E h \in batch : Published(h, "failed")
    /\ main' \in {"wait", "raising"}
    /\ UNCHANGED <<clock, threadVars>>

(* future.cancel() for each: only a host that no thread took yet. *)
CancelOne ==
    /\ main = "cancel"
    /\ \E h \in Hosts : At(h, "queued") /\ Goes(h, "cancelled")
    /\ UNCHANGED <<world, mainVars, due, tried, reached, answer, helped>>

AllCancelled ==
    /\ main = "cancel" /\ \A h \in Hosts : ~At(h, "queued")
    /\ main' = "expire"
    /\ UNCHANGED <<world, batch, result, told, threadVars>>

(* Mutant: every host is published as expired. *)
ExpireEvery ==
    /\ main = "expire"
    /\ \E h \in Hosts : result[h] # "expired" /\ Published(h, "expired")
    /\ main' \in {"expire", "raising"}
    /\ UNCHANGED <<world, threadVars>>

Expire ==
    /\ main = "expire"
    /\ \E h \in Open : Published(h, "expired")
    /\ main' \in {"expire", "raising"}
    /\ UNCHANGED <<world, threadVars>>

AllExpired ==
    /\ main = "expire" /\ Open = {}
    /\ main' = "exit"
    /\ UNCHANGED <<world, batch, result, told, threadVars>>

(* The pool waits for its threads, and for the hosts not cancelled.        *)
(* Mutant: it does not wait. *)
LeaveAtOnce ==
    /\ main \in {"exit", "raising"}
    /\ main' = IF main = "exit" THEN "returned" ELSE "raised"
    /\ UNCHANGED <<world, batch, result, told, threadVars>>

Leave ==
    /\ main \in {"exit", "raising"}
    /\ \A h \in Hosts : thread[h] \in {"done", "cancelled"}
    /\ main' = IF main = "exit" THEN "returned" ELSE "raised"
    /\ UNCHANGED <<world, batch, result, told, threadVars>>

Main ==
    \/ Take \/ Publish \/ AllPublished \/ DeadlinePasses \/ CancelOne
    \/ AllCancelled \/ Expire \/ AllExpired \/ Leave

------------------------------------------------------------------------------
(* Time, and a signal to the process (passive_probe_signals). *)

Tick ==
    /\ clock < FleetTimeout
    /\ clock' = clock + 1
    /\ UNCHANGED <<cancelled, alarm, mainVars, threadVars>>

Signal ==
    /\ ~cancelled
    /\ cancelled' = TRUE
    /\ UNCHANGED <<clock, alarm, mainVars, threadVars>>

Init ==
    /\ clock = 0 /\ cancelled = FALSE /\ alarm = "set"
    /\ main = "wait" /\ batch = {}
    /\ result = [h \in Hosts |-> "none"]
    /\ told = [h \in Hosts |-> 0]
    /\ thread = [h \in Hosts |-> "queued"]
    /\ due = [h \in Hosts |-> 0]
    /\ tried = [h \in Hosts |-> 0]
    /\ reached = [h \in Hosts |-> FALSE]
    /\ answer = [h \in Hosts |-> "none"]
    /\ helped = [h \in Hosts |-> 0]

Next == Main \/ (\E h \in Hosts : Thread(h) \/ Reach(h)) \/ Tick \/ Alarm \/ AlarmInResult \/ Signal

Spec == Init /\ [][Next]_vars

(* The threads are scheduled and time passes.  Nothing is assumed of ssh,  *)
(* of the hosts, or of a signal: a probe may hang until it is cut off.     *)
FairSpec ==
    /\ Spec
    /\ WF_vars(Main) /\ WF_vars(Tick)
    /\ \A h \in Hosts : WF_vars(Begin(h) \/ RunLocal(h) \/ OutOfTime(h)
                                \/ NextRoute(h) \/ NoRoute(h) \/ Refused(h) \/ CutOff(h))

------------------------------------------------------------------------------
(* Types: a deadline is never past the fleet's, and results are known.     *)
TypeOK ==
    /\ clock \in 0..FleetTimeout /\ cancelled \in BOOLEAN /\ alarm \in {"set", "rung"}
    /\ main \in {"wait", "cancel", "expire", "exit", "raising", "returned", "raised"}
    /\ batch \subseteq Hosts
    /\ result \in [Hosts -> Results \cup {"none"}]
    /\ told \in [Hosts -> Nat]
    /\ thread \in [Hosts -> {"queued", "start", "route", "ssh", "done", "cancelled"}]
    /\ due \in [Hosts -> 0..FleetTimeout]
    /\ tried \in [Hosts -> Nat]
    /\ reached \in [Hosts -> BOOLEAN]
    /\ answer \in [Hosts -> Answers \cup {"none"}]
    /\ helped \in [Hosts -> Nat]

(* "The callback runs in this caller thread, once per host, including      *)
(* bounded failure/timeout results": never twice, though a thread may      *)
(* finish while its host is given up, and never not at all when read_fleet *)
(* returns.                                                                *)
ToldOnce ==
    \A h \in Hosts : told[h] <= 1 /\ (main = "returned" => told[h] = 1)

(* A helper is started on another route only when the marker of the one    *)
(* before was lost with its connection (_read_host, after ProcessError).   *)
HelpedOnce == \A h \in Hosts : helped[h] <= 1

(* "no configured SSH route reached the host" is said only of a host whose *)
(* helper was never known to run.                                          *)
UnreachableIsTrue ==
    \A h \in Hosts : result[h] = "unreachable" => helped[h] = 0

(* When read_fleet is over no probe runs on, so that nothing of this read  *)
(* is on its way when the caller marks hosts removed and frees the lease;  *)
(* unless the alarm tore it out of the pool.                               *)
NothingRunsOn ==
    (main = "returned" \/ (main = "raised" /\ alarm = "set")) => Busy = {}

(* A read ends, whatever the hosts, the network and the caller do: each    *)
(* probe is cut off in time, also when there are more hosts than threads.  *)
ReadEnds == <>Ended
=============================================================================
