--------------------------------- MODULE Launch ---------------------------------
(***************************************************************************)
(* Opening, focusing and losing the windows of one target.                 *)
(*                                                                         *)
(* Picker callbacks (actions.py, registry.reconcile) are short-lived       *)
(* processes: each takes a window snapshot, reads the records, judges every*)
(* record by the liveness of the processes it names, and then renders,     *)
(* focuses or opens.  A launch is a Kitty terminal, the viewer that runs in*)
(* it (viewer.py) and the client the viewer starts.  All of them share only*)
(* the launch records; a registry call is one atomic step on the ledger of *)
(* LaunchLedger, which is what Registry.tla shows the record files to be.  *)
(* Every lock is released between two registry calls, so a record can      *)
(* change while a picker still holds the copy it read.                     *)
(***************************************************************************)
EXTENDS LaunchLedger

CONSTANTS
    Kinds,          \* what callbacks are for: "open", "focus", "render"
    Pickers,        \* picker callback processes running at the same time
    MaxReaders,     \* bound: how many of them judge records at the same time
    Faults,         \* which errors happen: "registry" (an update raises),
                    \* "desktop" (an observation raises)
    Additional,     \* the requests made in the New window mode
    MaxEnds,        \* bound: clients and terminals that have ended
    NoInstance

ASSUME LaunchAssumption ==
    /\ Roles = {"terminal", "wrapper", "client"}
    /\ Additional \subseteq Requests
    /\ NoInstance \notin Instances
    /\ MaxReaders \in Nat \ {0} /\ MaxEnds \in Nat

VARIABLES
    picker,         \* [Pickers -> the state of the callback it runs]
    terminal,       \* [Instances -> "none", "alive", "dead"]  the Kitty process
    viewer,         \* [Instances -> where the viewer is in run_viewer]
    client,         \* [Instances -> "none", "alive", "dead"]
    misjudged,      \* history: launches reconcile retired that may be running
    spawned         \* history: how often Kitty was spawned for each request

procs == <<terminal, viewer, client>>
vars == <<ledger, picker, procs, misjudged, spawned>>

-----------------------------------------------------------------------------
(* The state of a picker callback:                                         *)
(*   read, todo    its copies of the records, and those still to judge     *)
(*   at, verdict   the record it is about to update or focus               *)
(*   shown         what its finished reconcile gives: the state of every   *)
(*                 record it lists, "absent" for the others                *)
(*   joined        the launch reserve gave it instead of a new one, in the *)
(*                 state it had                                            *)
(*   mine          the launch it reserved itself and is the owner of       *)

Intents == {[kind |-> "open", req |-> r, inst |-> NoInstance] : r \in Requests}
    \cup {[kind |-> "focus", req |-> NoRequest, inst |-> i] : i \in Instances}
    \cup {[kind |-> "render", req |-> NoRequest, inst |-> NoInstance]}

NoLaunch == [inst |-> NoInstance, state |-> "absent"]

Off == [pc |-> "off",
        intent  |-> [kind |-> "render", req |-> NoRequest, inst |-> NoInstance],
        read    |-> [i \in Instances |-> Absent],
        todo    |-> {},
        at      |-> NoInstance,
        verdict |-> "absent",
        shown   |-> [i \in Instances |-> "absent"],
        joined  |-> NoLaunch,
        mine    |-> NoInstance]

At(p, pc) == picker[p].pc = pc

Opens(p) == picker[p].intent.kind = "open"

(* The callback returns or raises.  Its process lives on for a moment; that *)
(* matters only to a launch it reserved, which still has an owner.         *)
Returned(p) == IF picker[p].mine = NoInstance THEN Off
               ELSE [Off EXCEPT !.pc = "returned", !.mine = picker[p].mine]

Return(p) == picker' = [picker EXCEPT ![p] = Returned(p)]

-----------------------------------------------------------------------------
(* Process liveness, as ProcessIdentity.alive observes it.                 *)

TerminalAlive(i) == terminal[i] = "alive"
ClientAlive(i)   == client[i] = "alive"
ViewerAlive(i)   == viewer[i] \notin {"none", "gone"}
OwnerAlive(i)    == \E p \in Pickers : picker[p].mine = i

(* A window in which a client runs. *)
Attached(i) == TerminalAlive(i) /\ ClientAlive(i)

(* registry.update as one step: what it writes ...                         *)
Recorded(i, s)  == ledger' = [ledger EXCEPT ![i] = Merged(@, s, {})]
Acknowledged(i, role) == ledger' = [ledger EXCEPT ![i] = Merged(@, @.state, {role})]
(* ... and the state of the record it returns.                             *)
StateAfter(i, s) == Merged(ledger[i], s, {}).state

(* An update whose RegistryError is swallowed has done nothing.            *)
Swallowed == "registry" \in Faults /\ UNCHANGED ledger
TriesToRecord(i, s) == Recorded(i, s) \/ Swallowed

-----------------------------------------------------------------------------
(* A callback starts: it takes the compositor's window list                *)
(* (Desktop.windows) and reads the records under the lock                  *)
(* (registry.records).                                                     *)
Copies(k) == [k EXCEPT !.pc = "judge", !.todo = Running,
                       !.read = [i \in Instances |->
                                    IF i \in Running THEN ledger[i] ELSE Absent]]

MayRead == Cardinality({q \in Pickers : At(q, "judge") \/ At(q, "apply")}) < MaxReaders

Start(p) ==
    /\ At(p, "off")
    /\ MayRead
    /\ \E intent \in Intents :
        /\ intent.kind \in Kinds
        /\ intent.kind = "focus" => ledger[intent.inst] # Absent
        /\ picker' = [picker EXCEPT ![p] = Copies([@ EXCEPT !.intent = intent])]
    /\ UNCHANGED <<ledger, procs, misjudged, spawned>>

(* Mutants: a reserved launch is given up although its picker is still     *)
(* about to dispatch it; a terminal that runs hides its exited client.     *)
VerdictIgnoresOwner(c, i, listed) ==
    IF "client" \in c.ev /\ ~ClientAlive(i) THEN "exited"
    ELSE IF "terminal" \in c.ev /\ ~TerminalAlive(i) THEN "exited"
    ELSE IF {"terminal", "wrapper"} \cap c.ev # {} THEN "opening"
    ELSE IF c.state = "reserved" THEN "exited" ELSE "uncertain"
VerdictTerminalFirst(c, i, listed) ==
    IF "terminal" \in c.ev /\ TerminalAlive(i) THEN "opening"
    ELSE IF "client" \in c.ev /\ ~ClientAlive(i) THEN "exited"
    ELSE IF OwnerAlive(i) THEN c.state ELSE "uncertain"

(* Then, the lock released, it judges each record by the copy c it read,   *)
(* by whether its window list holds i's window, and by the processes as    *)
(* they are now.                                                           *)
Verdict(c, i, listed) ==
    IF "client" \in c.ev /\ ~ClientAlive(i) THEN "exited"
    ELSE IF "terminal" \in c.ev THEN
        IF ~TerminalAlive(i) THEN IF listed THEN "uncertain" ELSE "exited"
        ELSE IF listed /\ {"client", "wrapper"} \subseteq c.ev /\ ViewerAlive(i)
             THEN "live" ELSE "opening"
    ELSE IF "wrapper" \in c.ev /\ ViewerAlive(i) THEN "opening"
    ELSE IF OwnerAlive(i) THEN IF c.state = "reserved" THEN "reserved" ELSE "opening"
    ELSE IF c.state = "reserved" THEN "exited"
    ELSE "uncertain"

(* The window list is the compositor's: it need not hold yet the window of *)
(* a terminal that runs, and may hold still that of one that has ended.    *)
(* A DesktopError while judging makes the record uncertain.                *)
Verdicts(c, i) ==
    {Verdict(c, i, listed) : listed \in BOOLEAN}
        \cup (IF "desktop" \in Faults THEN {"uncertain"} ELSE {})

Judge(p, i) ==
    /\ At(p, "judge")
    /\ i \in picker[p].todo
    /\ LET left == picker[p].todo \ {i}
       IN \E v \in Verdicts(picker[p].read[i], i) :
        picker' = [picker EXCEPT ![p] =
            IF v = @.read[i].state
            THEN [@ EXCEPT !.todo = left, !.read[i] = Absent, !.shown[i] = v]
            ELSE [@ EXCEPT !.pc = "apply", !.todo = left, !.read[i] = Absent,
                           !.at = i, !.verdict = v]]
    /\ UNCHANGED <<ledger, procs, misjudged, spawned>>

(* A dispatched launch of which nothing is known to have ended.            *)
MayBeRunning(i) == /\ ledger[i].state \in ActiveStates \ {"reserved"}
                   /\ client[i] # "dead"
                   /\ terminal[i] # "dead"

(* A verdict that differs from the copy is written.  The record returned   *)
(* is listed if the verdict is an active state, whatever its own state is. *)
Apply(p) ==
    /\ At(p, "apply")
    /\ LET i == picker[p].at
           v == picker[p].verdict
       IN /\ Recorded(i, v)
          /\ misjudged' = IF v = "exited" /\ MayBeRunning(i)
                          THEN misjudged \cup {i} ELSE misjudged
          /\ picker' = [picker EXCEPT ![p] =
                [@ EXCEPT !.pc = "judge", !.at = NoInstance, !.verdict = "absent",
                          !.shown[i] = IF v \in ActiveStates
                                       THEN StateAfter(i, v) ELSE "absent"]]
    /\ UNCHANGED <<procs, spawned>>

Judged(p) == At(p, "judge") /\ picker[p].todo = {}

Shown(p) == {i \in Instances : picker[p].shown[i] # "absent"}

-----------------------------------------------------------------------------
(* What the callback does with the reconciled records.                     *)

(* The launch it settles on, and the state it takes it to be in: for a row *)
(* the row's; for an Open the one its request already names (find_request),*)
(* or else the one running; after a reservation that was not its own, the  *)
(* one it joined.  A set, empty if there is none.                          *)
Settled(p) ==
    LET k == picker[p]
        As(i, unlisted) == [inst |-> i,
            state |-> IF i \in Shown(p) THEN k.shown[i] ELSE unlisted]
    IN  IF k.intent.kind = "focus" THEN {As(k.intent.inst, "absent")}
        ELSE IF k.joined # NoLaunch THEN {As(k.joined.inst, k.joined.state)}
        ELSE IF Reserved(k.intent.req) # {}
        THEN {As(i, ledger[i].state) : i \in Reserved(k.intent.req)}
        ELSE IF k.intent.req \in Additional THEN {}
        ELSE {As(i, "absent") : i \in Shown(p)}

(* One live launch is focused.                                             *)
Choose(p) ==
    /\ Judged(p)
    /\ picker[p].intent.kind # "render"
    /\ \E i \in Instances :
        /\ Settled(p) = {[inst |-> i, state |-> "live"]}
        /\ picker' = [picker EXCEPT ![p] = [Off EXCEPT !.pc = "focus", !.at = i]]
    /\ UNCHANGED <<ledger, procs, misjudged, spawned>>

(* Anything else that is there is returned as it is, or refused: several   *)
(* launches, an uncertain one, a retired one, a row that is not live.      *)
Settle(p) ==
    /\ Judged(p)
    /\ \/ picker[p].intent.kind = "render"
       \/ /\ Settled(p) # {}
          /\ ~\E i \in Instances : Settled(p) = {[inst |-> i, state |-> "live"]}
    /\ Return(p)
    /\ UNCHANGED <<ledger, procs, misjudged, spawned>>

(* Nothing is there: the Open goes on to reserve.                          *)
GoReserve(p) ==
    /\ Judged(p)
    /\ Opens(p)
    /\ Settled(p) = {}
    /\ picker' = [picker EXCEPT ![p] =
            [Off EXCEPT !.pc = "reserve", !.intent = picker[p].intent]]
    /\ UNCHANGED <<ledger, procs, misjudged, spawned>>

(* _focus: the layout of the window is validated, the window is looked up  *)
(* again and focused; any failure makes the record uncertain.              *)
Focus(p) ==
    /\ At(p, "focus")
    /\ LET i == picker[p].at
       IN \/ Attached(i) /\ ViewerAlive(i) /\ UNCHANGED ledger
          \/ "desktop" \in Faults /\ TriesToRecord(i, "uncertain")
          \/ ~(Attached(i) /\ ViewerAlive(i)) /\ TriesToRecord(i, "uncertain")
    /\ Return(p)
    /\ UNCHANGED <<procs, misjudged, spawned>>

-----------------------------------------------------------------------------
(* Reserving and dispatching a launch.                                     *)

(* The ordinal is the least that is free (registry.reserve).               *)
LeastFree(n) == /\ n \in (1..MaxRecords) \ UsedOrdinals
                /\ \A m \in (1..MaxRecords) \ UsedOrdinals : n <= m

ReserveNew(p) ==
    /\ At(p, "reserve")
    /\ \E i \in Instances, n \in 1..MaxRecords :
        /\ LeastFree(n)
        /\ Reserve(i, picker[p].intent.req, picker[p].intent.req \in Additional, n)
        /\ picker' = [picker EXCEPT ![p] = [Off EXCEPT !.pc = "dispatch", !.mine = i]]
    /\ UNCHANGED <<procs, misjudged, spawned>>

(* The launch reserve returns instead of a new one.                        *)
Joinable(r) ==
    IF Reserved(r) # {} THEN Reserved(r)
    ELSE IF r \in Additional THEN {} ELSE Running

(* Mutants: the joined launch is given a state the registry does not have; *)
(* it is dispatched like one that reserve created.                         *)
ReserveJoinsRenamed(p) ==
    /\ At(p, "reserve")
    /\ \E i \in Instances :
        /\ Joinable(picker[p].intent.req) = {i}
        /\ picker' = [picker EXCEPT ![p] =
                [@ EXCEPT !.pc = "rejoin", !.joined = [inst |-> i, state |-> "joined"]]]
    /\ UNCHANGED <<ledger, procs, misjudged, spawned>>

ReserveJoinsAsCreated(p) ==
    /\ At(p, "reserve")
    /\ \E i \in Instances :
        /\ Joinable(picker[p].intent.req) = {i}
        /\ picker' = [picker EXCEPT ![p] = [Off EXCEPT !.pc = "dispatch", !.mine = i]]
    /\ UNCHANGED <<ledger, procs, misjudged, spawned>>

ReserveJoins(p) ==
    /\ At(p, "reserve")
    /\ \E i \in Instances :
        /\ Joinable(picker[p].intent.req) = {i}
        /\ picker' = [picker EXCEPT ![p] =
                [@ EXCEPT !.pc = "rejoin",
                          !.joined = [inst |-> i, state |-> ledger[i].state]]]
    /\ UNCHANGED <<ledger, procs, misjudged, spawned>>

(* Evidence is observed again before the joined launch is used.            *)
Rejoin(p) ==
    /\ At(p, "rejoin")
    /\ MayRead
    /\ picker' = [picker EXCEPT ![p] = Copies(@)]
    /\ UNCHANGED <<ledger, procs, misjudged, spawned>>

(* _dispatch: the intent is persisted, then Kitty is spawned, then its     *)
(* identity is acknowledged.                                               *)
PersistDispatch(p) ==
    /\ At(p, "dispatch")
    /\ Recorded(picker[p].mine, "dispatching")
    /\ picker' = [picker EXCEPT ![p].pc = "spawn"]
    /\ UNCHANGED <<procs, misjudged, spawned>>

SpawnKitty(p) ==
    /\ At(p, "spawn")
    /\ terminal' = [terminal EXCEPT ![picker[p].mine] = "alive"]
    /\ picker' = [picker EXCEPT ![p].pc = "observe"]
    /\ spawned' = [spawned EXCEPT ![ledger[picker[p].mine].req] = @ + 1]
    /\ UNCHANGED <<ledger, viewer, client, misjudged>>

(* A failure before anything runs retires the launch as failed.            *)
DispatchFails(p) ==
    /\ At(p, "dispatch") \/ At(p, "spawn")
    /\ TriesToRecord(picker[p].mine, "failed")
    /\ Return(p)
    /\ UNCHANGED <<procs, misjudged, spawned>>

(* Mutant: a terminal that cannot be observed is reported as a failure.    *)
AckTerminalOrFail(p) ==
    /\ At(p, "observe")
    /\ \/ Acknowledged(picker[p].mine, "terminal")
       \/ Faults # {} /\ TriesToRecord(picker[p].mine, "failed")
    /\ Return(p)
    /\ UNCHANGED <<procs, misjudged, spawned>>

(* A terminal that has ended by now has no identity to be observed.  That, *)
(* or a failure to observe or to record it, leaves the record alone.       *)
AckTerminal(p) ==
    /\ At(p, "observe")
    /\ \/ Acknowledged(picker[p].mine, "terminal")
       \/ (Faults # {} \/ ~TerminalAlive(picker[p].mine)) /\ UNCHANGED ledger
    /\ Return(p)
    /\ UNCHANGED <<procs, misjudged, spawned>>

(* The callback's process ends: after it returned, because a registry,     *)
(* desktop or transport error ended the action before it had a launch of   *)
(* its own, or killed at any point.                                        *)
Stop(p) ==
    /\ ~At(p, "off")
    /\ picker' = [picker EXCEPT ![p] = Off]
    /\ UNCHANGED <<ledger, procs, misjudged, spawned>>

-----------------------------------------------------------------------------
(* The viewer of launch i (run_viewer), started by Kitty in its window.    *)

ViewerMoves(i, to) == viewer' = [viewer EXCEPT ![i] = to]

ViewerStarts(i) ==
    /\ TerminalAlive(i)
    /\ viewer[i] = "none"
    /\ ViewerMoves(i, "read")
    /\ UNCHANGED <<ledger, picker, terminal, client, misjudged, spawned>>

(* It reads its own record once, and goes on if the launch is opening.     *)
ViewerReads(i) ==
    /\ viewer[i] = "read"
    /\ ledger[i].state \in {"dispatching", "opening", "reserved"}
    /\ ViewerMoves(i, "ack")
    /\ UNCHANGED <<ledger, picker, terminal, client, misjudged, spawned>>

(* It acknowledges itself; what the update returns is not looked at.       *)
ViewerAcks(i) ==
    /\ viewer[i] = "ack"
    /\ Acknowledged(i, "wrapper")
    /\ ViewerMoves(i, "start")
    /\ UNCHANGED <<picker, terminal, client, misjudged, spawned>>

(* Any failure up to the start of the client is reported, and the message  *)
(* is held in the window until it is dismissed.                            *)
ViewerFails(i) ==
    /\ viewer[i] \in {"read", "ack", "start"}
    /\ TriesToRecord(i, "failed")
    /\ ViewerMoves(i, "held")
    /\ UNCHANGED <<picker, terminal, client, misjudged, spawned>>

ClientStarts(i) ==
    /\ viewer[i] = "start"
    /\ client' = [client EXCEPT ![i] = "alive"]
    /\ ViewerMoves(i, "observe")
    /\ UNCHANGED <<ledger, picker, terminal, misjudged, spawned>>

(* A client that cannot be observed or recorded runs on all the same, and  *)
(* one that has ended by now is not recorded.                              *)
AckClient(i) ==
    /\ viewer[i] = "observe"
    /\ \/ Acknowledged(i, "client")
       \/ (Faults # {} \/ ~ClientAlive(i)) /\ UNCHANGED ledger
    /\ ViewerMoves(i, "wait")
    /\ UNCHANGED <<picker, terminal, client, misjudged, spawned>>

(* The client's exit retires the launch: exited, and the viewer ends, or   *)
(* failed, and the viewer holds the message.                               *)
ReportExit(i) ==
    /\ viewer[i] = "wait"
    /\ client[i] = "dead"
    /\ \/ TriesToRecord(i, "exited") /\ ViewerMoves(i, "gone")
       \/ TriesToRecord(i, "failed") /\ ViewerMoves(i, "held")
    /\ UNCHANGED <<picker, terminal, client, misjudged, spawned>>

WaitFails(i) ==
    /\ viewer[i] = "wait"
    /\ TriesToRecord(i, "uncertain")
    /\ ViewerMoves(i, "held")
    /\ UNCHANGED <<picker, terminal, client, misjudged, spawned>>

Dismissed(i) ==
    /\ viewer[i] = "held"
    /\ ViewerMoves(i, "gone")
    /\ UNCHANGED <<ledger, picker, terminal, client, misjudged, spawned>>

-----------------------------------------------------------------------------
(* The desktop: Kitty and the compositor.                                  *)

Ended(process) == {i \in Instances : process[i] = "dead"}

MayEnd == Cardinality(Ended(client)) + Cardinality(Ended(terminal)) < MaxEnds

ClientExits(i) ==
    /\ ClientAlive(i) /\ MayEnd
    /\ client' = [client EXCEPT ![i] = "dead"]
    /\ UNCHANGED <<ledger, picker, terminal, viewer, misjudged, spawned>>

(* Kitty ends with its viewer, or is closed and hangs the viewer up.       *)
TerminalEnds(i) ==
    /\ TerminalAlive(i) /\ MayEnd
    /\ terminal' = [terminal EXCEPT ![i] = "dead"]
    /\ ViewerMoves(i, "gone")
    /\ UNCHANGED <<ledger, picker, client, misjudged, spawned>>

-----------------------------------------------------------------------------

Init ==
    /\ LedgerInit
    /\ picker = [p \in Pickers |-> Off]
    /\ terminal = [i \in Instances |-> "none"]
    /\ viewer = [i \in Instances |-> "none"]
    /\ client = [i \in Instances |-> "none"]
    /\ misjudged = {}
    /\ spawned = [r \in Requests |-> 0]

Picker(p) ==
    \/ Start(p) \/ (\E i \in Instances : Judge(p, i)) \/ Apply(p)
    \/ Choose(p) \/ Settle(p) \/ GoReserve(p) \/ Focus(p)
    \/ ReserveNew(p) \/ ReserveJoins(p) \/ Rejoin(p)
    \/ PersistDispatch(p) \/ SpawnKitty(p) \/ DispatchFails(p) \/ AckTerminal(p)

Viewer(i) ==
    \/ ViewerStarts(i) \/ ViewerReads(i) \/ ViewerAcks(i) \/ ViewerFails(i)
    \/ ClientStarts(i) \/ AckClient(i) \/ ReportExit(i) \/ WaitFails(i) \/ Dismissed(i)

Environment(i) == ClientExits(i) \/ TerminalEnds(i)

Next ==
    \/ \E p \in Pickers : Picker(p) \/ Stop(p)
    \/ \E i \in Instances : Viewer(i) \/ Environment(i)

Spec == Init /\ [][Next]_vars

(* Callbacks keep being started and go on while they can, and a callback   *)
(* that returned ends.  A picker may be killed, but not in the middle of   *)
(* every reconcile.  Nothing is assumed of viewers, clients and terminals. *)
Fairness ==
    \A p \in Pickers :
        /\ WF_vars(Picker(p))
        /\ WF_vars(At(p, "returned") /\ Stop(p))
        /\ SF_vars(\E i \in Instances : Judge(p, i))
        /\ SF_vars(Apply(p))

FairSpec == Spec /\ Fairness

-----------------------------------------------------------------------------
(* Properties                                                              *)

PickerState ==
    [pc : {"off", "judge", "apply", "focus", "reserve", "rejoin",
           "dispatch", "spawn", "observe", "returned"},
     intent  : Intents,
     read    : [Instances -> Entry],
     todo    : SUBSET Instances,
     at      : Instances \cup {NoInstance},
     verdict : EntryStates,
     shown   : [Instances -> EntryStates],
     joined  : [inst : Instances \cup {NoInstance}, state : EntryStates],
     mine    : Instances \cup {NoInstance}]

(* Every variable holds a value of its kind.                               *)
TypeOK ==
    /\ LedgerTypeOK
    /\ picker \in [Pickers -> PickerState]
    /\ terminal \in [Instances -> {"none", "alive", "dead"}]
    /\ viewer \in [Instances -> {"none", "read", "ack", "start", "observe",
                                 "wait", "held", "gone"}]
    /\ client \in [Instances -> {"none", "alive", "dead"}]
    /\ misjudged \in SUBSET Instances
    /\ spawned \in [Requests -> Nat]

FirstOpens == {i \in Instances : ledger[i].req \in Requests \ Additional}

(* Two ordinary Opens of one target never run two clients side by side,    *)
(* whatever the order of their steps and whichever of them dies: a second  *)
(* one joins the first.  The one way round it is a launch that reconcile   *)
(* retired on the strength of a copy its record no longer matched.         *)
OneClientPerTarget ==
    \A i, j \in FirstOpens :
        Attached(i) /\ Attached(j) => i = j \/ {i, j} \cap misjudged # {}

(* Nor does an ordinary Open reserve a launch while a client runs in any   *)
(* window of the target, one opened by New window included.                *)
FirstOpenFindsClients ==
    [][\A i, j \in Instances :
          /\ ledger[j] = Absent /\ ledger'[j] # Absent
          /\ ledger'[j].req \notin Additional
          /\ Attached(i)
          => i \in misjudged]_vars

(* A request reaches Kitty at most once: however often it is replayed or   *)
(* joined, whichever callback dies on the way, and even if its first       *)
(* terminal has ended since, no terminal is spawned for it again           *)
(* (open_target's `created`, _dispatch).                                   *)
OneTerminalPerRequest == \A r \in Requests : spawned[r] <= 1

(* Nothing is started for a launch that has been retired: Kitty is not     *)
(* spawned and the client is not started, except again after a retirement  *)
(* from an old copy, which the viewer does not notice.                     *)
RetiredStartsNothing ==
    [][\A i \in Instances :
          \/ terminal'[i] = "alive" /\ terminal[i] = "none"
          \/ client'[i] = "alive" /\ client[i] = "none"
          => ledger[i].state \in ActiveStates \/ i \in misjudged]_vars

(* A recorded client that has exited is not shown as running for ever:     *)
(* even if its viewer was killed or hangs, and whatever old verdicts are   *)
(* written in between, reconcile retires the launch in the end.            *)
ExitedClientIsRetired ==
    \A i \in Instances :
        client[i] = "dead" /\ "client" \in ledger[i].ev
            ~> ledger[i].state \in RetiredStates

(* "No terminal acknowledgement after persisted dispatch is a              *)
(* nontransactional spawn gap.  Absence of a mapped window is insufficient *)
(* to retire this launch intent" (reconcile): once dispatched, a launch is *)
(* found exited only when its client or its terminal is gone.              *)
DispatchedIsNotPresumedDead ==
    [][\A i \in Instances :
          ledger[i].state \in ActiveStates \ {"reserved"} /\ ledger'[i].state = "exited"
          => client[i] = "dead" \/ terminal[i] = "dead"]_vars
=============================================================================
