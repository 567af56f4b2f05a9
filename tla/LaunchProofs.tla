------------------------------ MODULE LaunchProofs ------------------------------
(***************************************************************************)
(* Proofs about opening a target, for any number of pickers, launches and  *)
(* requests, with any faults: what the pickers and viewers do to the       *)
(* records is what the ledger allows, and what keeps two clients of one    *)
(* target from running side by side.                                       *)
(***************************************************************************)
EXTENDS Launch, LedgerProofs

-----------------------------------------------------------------------------
(* The inductive invariant.                                                *)

(* A launch that was reserved.  (Nothing in Launch makes one unreadable.)  *)
Known(i) == /\ ledger[i].req \in Requests
            /\ ledger[i].state \in ActiveStates \cup RetiredStates

(* What a picker holds is about launches that were reserved, and its       *)
(* copies are true of the past: the processes they name were started.      *)
CopyInv(p) ==
    /\ \A i \in picker[p].todo :
        /\ Known(i)
        /\ picker[p].read[i].state \in ActiveStates
        /\ "client" \in picker[p].read[i].ev => client[i] # "none"
        /\ "terminal" \in picker[p].read[i].ev => terminal[i] # "none"
    /\ \A i \in Instances : picker[p].shown[i] # "absent" => Known(i)
    /\ picker[p].joined.inst # NoInstance => Known(picker[p].joined.inst)
    /\ At(p, "focus") => picker[p].at \in Instances /\ Known(picker[p].at)
    /\ At(p, "reserve") => Opens(p)

(* A launch is found exited because one of its processes has ended, or     *)
(* because the picker that would have dispatched it has.                   *)
VerdictInv(p) ==
    At(p, "apply") =>
        /\ picker[p].at \in Instances /\ Known(picker[p].at)
        /\ picker[p].verdict \in (ActiveStates \cup {"exited"}) \ {"reserved"}
        /\ picker[p].verdict = "exited" =>
               \/ client[picker[p].at] = "dead"
               \/ terminal[picker[p].at] = "dead"
               \/ ~OwnerAlive(picker[p].at)

(* A picker owns the launch it reserved, alone, and is the only one to     *)
(* spawn its terminal, once the dispatch is on record.                     *)
OwnerInv ==
    /\ \A p \in Pickers :
        /\ picker[p].mine # NoInstance <=>
               picker[p].pc \in {"dispatch", "spawn", "observe", "returned"}
        /\ picker[p].mine # NoInstance => Known(picker[p].mine)
        /\ At(p, "dispatch") \/ At(p, "spawn") => terminal[picker[p].mine] = "none"
        /\ At(p, "spawn") => ledger[picker[p].mine].state # "reserved"
        /\ At(p, "observe") => terminal[picker[p].mine] # "none"
    /\ \A p, q \in Pickers :
        picker[p].mine = picker[q].mine /\ picker[p].mine # NoInstance => p = q

(* A record says no more than what happened to its processes.              *)
ProcessInv ==
    \A i \in Instances :
        /\ ledger[i] = Absent \/ Known(i)
        /\ terminal[i] # "none" => Known(i) /\ ledger[i].state # "reserved"
        /\ viewer[i] \notin {"none", "gone"} => terminal[i] = "alive"
        /\ terminal[i] = "none" => viewer[i] = "none"
        /\ viewer[i] \in {"none", "read", "ack", "start"} => client[i] = "none"
        /\ viewer[i] = "observe" => client[i] # "none"
        /\ "client" \in ledger[i].ev => client[i] # "none"
        /\ "terminal" \in ledger[i].ev => terminal[i] # "none"

(* The terminals spawned for a request are those its launches show: none   *)
(* while the launch is still to be spawned, one for good after that.       *)
SpawnInv ==
    \A r \in Requests :
        /\ spawned[r] \in {0, 1}
        /\ \A i \in Reserved(r) : spawned[r] = 0 <=> terminal[i] = "none"
        /\ Reserved(r) = {} => spawned[r] = 0

(* A launch in which no client runs or will be started.                    *)
Over(i) ==
    \/ client[i] = "dead"
    \/ terminal[i] = "dead"
    \/ client[i] = "none" /\ viewer[i] \in {"held", "gone"}
    \/ terminal[i] = "none" /\ \A p \in Pickers : (At(p, "dispatch") \/ At(p, "spawn")) => picker[p].mine # i

(* A retired launch is over, unless it was retired on an old copy; and of  *)
(* two ordinary launches one was retired before the other was reserved.    *)
RetiredInv ==
    /\ \A i \in Instances : ledger[i].state \in RetiredStates => Over(i) \/ i \in misjudged
    /\ \A i, j \in FirstOpens : i # j => ledger[i].state \in RetiredStates
                                         \/ ledger[j].state \in RetiredStates

Inv == /\ TypeOK /\ LedgerInv /\ OwnerInv /\ ProcessInv /\ SpawnInv /\ RetiredInv
       /\ \A p \in Pickers : CopyInv(p) /\ VerdictInv(p)

-----------------------------------------------------------------------------
(* Types.                                                                  *)

LEMMA AbsentType == Absent \in Entry /\ Absent.state = "absent" /\ Absent.req = NoRequest
                    /\ Absent.ev = {}
BY LedgerAssumption DEF Absent, Entry, EntryStates

LEMMA OffType == Off \in PickerState
<1>1. [i \in Instances |-> Absent] \in [Instances -> Entry]
    BY AbsentType
<1>2. [kind |-> "render", req |-> NoRequest, inst |-> NoInstance] \in Intents
    BY DEF Intents
<1>3. [i \in Instances |-> "absent"] \in [Instances -> EntryStates]
    BY DEF EntryStates
<1>4. NoLaunch \in [inst : Instances \cup {NoInstance}, state : EntryStates]
    BY DEF NoLaunch, EntryStates
<1>5. QED
    BY <1>1, <1>2, <1>3, <1>4 DEF Off, PickerState, EntryStates

(* The fields of a callback's state. *)
LEMMA Fields ==
    ASSUME NEW k \in PickerState
    PROVE  /\ k.pc \in {"off", "judge", "apply", "focus", "reserve", "rejoin",
                        "dispatch", "spawn", "observe", "returned"}
           /\ k.intent \in Intents /\ k.read \in [Instances -> Entry]
           /\ k.todo \in SUBSET Instances /\ k.at \in Instances \cup {NoInstance}
           /\ k.verdict \in EntryStates /\ k.shown \in [Instances -> EntryStates]
           /\ k.joined \in [inst : Instances \cup {NoInstance}, state : EntryStates]
           /\ k.mine \in Instances \cup {NoInstance}
BY DEF PickerState

LEMMA OffFields ==
    /\ Off.pc = "off" /\ Off.todo = {} /\ Off.at = NoInstance /\ Off.mine = NoInstance
    /\ Off.joined = NoLaunch /\ Off.joined.inst = NoInstance
    /\ \A i \in Instances : Off.shown[i] = "absent"
BY DEF Off, NoLaunch

(* What a returning callback leaves. *)
LEMMA ReturnedFields ==
    ASSUME picker \in [Pickers -> PickerState], NEW p \in Pickers
    PROVE  /\ Returned(p) \in PickerState
           /\ Returned(p).pc = (IF picker[p].mine = NoInstance THEN "off" ELSE "returned")
           /\ Returned(p).mine = picker[p].mine /\ Returned(p).todo = {}
           /\ Returned(p).joined.inst = NoInstance
           /\ \A i \in Instances : Returned(p).shown[i] = "absent"
<1>1. picker[p] \in PickerState /\ picker[p].mine \in Instances \cup {NoInstance}
    BY Fields
<1>2. CASE picker[p].mine = NoInstance
    BY <1>2, OffType, OffFields DEF Returned
<1>3. CASE picker[p].mine # NoInstance
  <2> DEFINE r == [Off EXCEPT !.pc = "returned", !.mine = picker[p].mine]
  <2>1. r \in PickerState
    BY <1>1, OffType DEF PickerState
  <2>2. r.pc = "returned" /\ r.mine = picker[p].mine /\ r.todo = {}
        /\ r.joined.inst = NoInstance /\ \A i \in Instances : r.shown[i] = "absent"
    BY OffFields DEF Off
  <2>3. Returned(p) = r
    BY <1>3 DEF Returned
  <2> HIDE DEF r
  <2>4. QED
    BY <1>3, <2>1, <2>2, <2>3
<1>4. QED
    BY <1>2, <1>3

(* Copying the records of the running launches. *)
LEMMA CopiesFields ==
    ASSUME NEW k \in PickerState, ledger \in [Instances -> Entry]
    PROVE  /\ Copies(k) \in PickerState
           /\ Copies(k).pc = "judge" /\ Copies(k).todo = Running
           /\ \A i \in Running : Copies(k).read[i] = ledger[i]
           /\ Copies(k).shown = k.shown /\ Copies(k).joined = k.joined
           /\ Copies(k).mine = k.mine /\ Copies(k).intent = k.intent
           /\ Copies(k).at = k.at
<1> DEFINE d == [i \in Instances |-> IF i \in Running THEN ledger[i] ELSE Absent]
<1>1. d \in [Instances -> Entry]
    BY AbsentType
<1>2. Running \in SUBSET Instances /\ \A i \in Running : d[i] = ledger[i]
    BY DEF Running
<1>3. Copies(k) = [k EXCEPT !.pc = "judge", !.todo = Running, !.read = d]
    BY DEF Copies
<1> HIDE DEF d
<1>4. QED
    BY <1>1, <1>2, <1>3 DEF PickerState

(* What a callback's own step makes of its state. *)
LEMMA JudgeFields ==
    ASSUME picker \in [Pickers -> PickerState], NEW p \in Pickers, NEW i \in Instances,
           Judge(p, i)
    PROVE  /\ picker' \in [Pickers -> PickerState]
           /\ i \in picker[p].todo
           /\ \E v \in Verdicts(picker[p].read[i], i) :
                \/ /\ v = picker[p].read[i].state /\ picker'[p].pc = "judge"
                   /\ picker'[p].shown = [picker[p].shown EXCEPT ![i] = v]
                \/ /\ v # picker[p].read[i].state /\ picker'[p].pc = "apply"
                   /\ picker'[p].at = i /\ picker'[p].verdict = v
                   /\ picker'[p].shown = picker[p].shown
           /\ picker'[p].todo = picker[p].todo \ {i}
           /\ \A j \in Instances \ {i} : picker'[p].read[j] = picker[p].read[j]
           /\ picker'[p].joined = picker[p].joined
           /\ picker'[p].mine = picker[p].mine /\ picker'[p].intent = picker[p].intent
           /\ \A q \in Pickers \ {p} : picker'[q] = picker[q]
<1> DEFINE k == picker[p]
<1>1. k \in PickerState
    OBVIOUS
<1>2. PICK v \in Verdicts(k.read[i], i) :
        picker' = [picker EXCEPT ![p] =
            IF v = k.read[i].state
            THEN [k EXCEPT !.todo = k.todo \ {i}, !.read[i] = Absent, !.shown[i] = v]
            ELSE [k EXCEPT !.pc = "apply", !.todo = k.todo \ {i}, !.read[i] = Absent,
                           !.at = i, !.verdict = v]]
    BY DEF Judge
<1>3. v \in EntryStates
  <2>1. k.read[i] \in Entry
    BY <1>1, Fields
  <2>2. QED
    BY <2>1 DEF Verdicts, Verdict, Entry, EntryStates, ActiveStates, RetiredStates
<1> HIDE DEF k
<1>4. k.read \in [Instances -> Entry] /\ k.shown \in [Instances -> EntryStates]
      /\ k.todo \in SUBSET Instances
    BY <1>1, Fields
<1> DEFINE r == [k.read EXCEPT ![i] = Absent]
           s == [k.shown EXCEPT ![i] = v]
           t == k.todo \ {i}
<1>5. r \in [Instances -> Entry] /\ s \in [Instances -> EntryStates] /\ t \in SUBSET Instances
      /\ \A j \in Instances \ {i} : r[j] = k.read[j]
    BY <1>3, <1>4, AbsentType
<1>6. CASE v = k.read[i].state
  <2>1. picker' = [picker EXCEPT ![p] = [k EXCEPT !.todo = t, !.read = r, !.shown = s]]
    BY <1>2, <1>6
  <2> DEFINE n == [k EXCEPT !.todo = t, !.read = r, !.shown = s]
  <2> HIDE DEF r, s, t
  <2>2. n \in PickerState /\ n.pc = k.pc /\ n.todo = t /\ n.read = r /\ n.shown = s
        /\ n.joined = k.joined /\ n.mine = k.mine /\ n.intent = k.intent
    BY <1>1, <1>5 DEF PickerState
  <2> HIDE DEF n
  <2>3. picker' \in [Pickers -> PickerState] /\ picker'[p] = n
        /\ \A q \in Pickers \ {p} : picker'[q] = picker[q]
    BY <2>1, <2>2 DEF n
  <2>4. k.pc = "judge" /\ i \in k.todo
    BY DEF Judge, At, k
  <2>5. QED
    BY <1>5, <1>6, <2>2, <2>3, <2>4 DEF k, s, t
<1>7. CASE v # k.read[i].state
  <2>1. picker' = [picker EXCEPT ![p] =
            [k EXCEPT !.pc = "apply", !.todo = t, !.read = r, !.at = i, !.verdict = v]]
    BY <1>2, <1>7
  <2> DEFINE n == [k EXCEPT !.pc = "apply", !.todo = t, !.read = r, !.at = i, !.verdict = v]
  <2> HIDE DEF r, s, t
  <2>2. n \in PickerState /\ n.pc = "apply" /\ n.todo = t /\ n.read = r /\ n.shown = k.shown
        /\ n.joined = k.joined /\ n.mine = k.mine /\ n.intent = k.intent
        /\ n.at = i /\ n.verdict = v
    BY <1>1, <1>3, <1>5 DEF PickerState
  <2> HIDE DEF n
  <2>3. picker' \in [Pickers -> PickerState] /\ picker'[p] = n
        /\ \A q \in Pickers \ {p} : picker'[q] = picker[q]
    BY <2>1, <2>2 DEF n
  <2>4. i \in k.todo
    BY DEF Judge, k
  <2>5. QED
    BY <1>5, <1>7, <2>2, <2>3, <2>4 DEF k, t
<1>8. QED
    BY <1>6, <1>7

LEMMA ApplyFields ==
    ASSUME picker \in [Pickers -> PickerState], ledger \in [Instances -> Entry],
           NEW p \in Pickers, Apply(p), picker[p].at \in Instances
    PROVE  /\ picker' \in [Pickers -> PickerState]
           /\ picker'[p].pc = "judge"
           /\ picker'[p].todo = picker[p].todo /\ picker'[p].read = picker[p].read
           /\ \A j \in Instances \ {picker[p].at} : picker'[p].shown[j] = picker[p].shown[j]
           /\ picker'[p].joined = picker[p].joined
           /\ picker'[p].mine = picker[p].mine /\ picker'[p].intent = picker[p].intent
           /\ \A q \in Pickers \ {p} : picker'[q] = picker[q]
<1> DEFINE k == picker[p]
           i == k.at
           w == IF k.verdict \in ActiveStates THEN StateAfter(i, k.verdict) ELSE "absent"
<1>1. k \in PickerState /\ i \in Instances
    OBVIOUS
<1>2. picker' = [picker EXCEPT ![p] =
                    [k EXCEPT !.pc = "judge", !.at = NoInstance, !.verdict = "absent",
                              !.shown[i] = w]]
    BY DEF Apply
<1>3. w \in EntryStates
    BY <1>1 DEF StateAfter, Merged, Entry, EntryStates, ActiveStates
<1> HIDE DEF w
<1> DEFINE s == [k.shown EXCEPT ![i] = w]
<1> HIDE DEF k
<1>4. s \in [Instances -> EntryStates] /\ \A j \in Instances \ {i} : s[j] = k.shown[j]
    BY <1>1, <1>3, Fields
<1>5. picker' = [picker EXCEPT ![p] =
                    [k EXCEPT !.pc = "judge", !.at = NoInstance, !.verdict = "absent",
                              !.shown = s]]
    BY <1>2
<1> HIDE DEF s
<1> DEFINE n == [k EXCEPT !.pc = "judge", !.at = NoInstance, !.verdict = "absent", !.shown = s]
<1>6. n \in PickerState /\ n.pc = "judge" /\ n.todo = k.todo /\ n.read = k.read /\ n.shown = s
      /\ n.joined = k.joined /\ n.mine = k.mine /\ n.intent = k.intent
    BY <1>1, <1>4 DEF PickerState, EntryStates
<1> HIDE DEF n
<1>7. picker' \in [Pickers -> PickerState] /\ picker'[p] = n
      /\ \A q \in Pickers \ {p} : picker'[q] = picker[q]
    BY <1>5, <1>6 DEF n
<1>8. QED
    BY <1>4, <1>6, <1>7 DEF k

(* The other steps of a callback p, one lemma for each shape they have. *)
LEMMA CopyFields ==
    ASSUME picker \in [Pickers -> PickerState], ledger \in [Instances -> Entry],
           NEW p \in Pickers, Start(p) \/ Rejoin(p)
    PROVE  /\ picker' \in [Pickers -> PickerState]
           /\ picker'[p].pc = "judge" /\ picker'[p].todo = Running
           /\ \A i \in Running : picker'[p].read[i] = ledger[i]
           /\ picker'[p].shown = picker[p].shown /\ picker'[p].joined = picker[p].joined
           /\ picker'[p].mine = picker[p].mine
           /\ \A q \in Pickers \ {p} : picker'[q] = picker[q]
<1>1. CASE Start(p)
  <2>1. PICK intent \in Intents :
            picker' = [picker EXCEPT ![p] = Copies([picker[p] EXCEPT !.intent = intent])]
    BY <1>1 DEF Start
  <2> DEFINE k == [picker[p] EXCEPT !.intent = intent]
  <2>2. k \in PickerState /\ k.shown = picker[p].shown /\ k.joined = picker[p].joined
        /\ k.mine = picker[p].mine
    <3>1. picker[p] \in PickerState
        OBVIOUS
    <3>2. QED
        BY <3>1 DEF PickerState
  <2> HIDE DEF k
  <2>3. picker' = [picker EXCEPT ![p] = Copies(k)]
    BY <2>1 DEF k
  <2>4. QED
    BY <2>2, <2>3, CopiesFields
<1>2. CASE Rejoin(p)
  <2>1. picker' = [picker EXCEPT ![p] = Copies(picker[p])] /\ picker[p] \in PickerState
    BY <1>2 DEF Rejoin
  <2>2. QED
    BY <2>1, CopiesFields
<1>3. QED
    BY <1>1, <1>2

LEMMA LeaveFields ==
    ASSUME picker \in [Pickers -> PickerState], NEW p \in Pickers, Return(p)
    PROVE  /\ picker' \in [Pickers -> PickerState]
           /\ picker'[p].pc = (IF picker[p].mine = NoInstance THEN "off" ELSE "returned")
           /\ picker'[p].mine = picker[p].mine
           /\ picker'[p].todo = {} /\ picker'[p].joined.inst = NoInstance
           /\ \A j \in Instances : picker'[p].shown[j] = "absent"
           /\ \A q \in Pickers \ {p} : picker'[q] = picker[q]
<1>1. Returned(p) \in PickerState
    BY ReturnedFields
<1>2. picker'[p] = Returned(p) /\ \A q \in Pickers \ {p} : picker'[q] = picker[q]
    BY DEF Return
<1>3. picker' \in [Pickers -> PickerState]
    BY <1>1 DEF Return
<1>4. QED
    BY <1>2, <1>3, ReturnedFields

LEMMA MoveFields ==
    ASSUME picker \in [Pickers -> PickerState], NEW p \in Pickers, NEW pc \in {"spawn", "observe"},
           picker' = [picker EXCEPT ![p].pc = pc]
    PROVE  /\ picker' \in [Pickers -> PickerState]
           /\ picker'[p].pc = pc
           /\ picker'[p].todo = picker[p].todo /\ picker'[p].read = picker[p].read
           /\ picker'[p].shown = picker[p].shown /\ picker'[p].joined = picker[p].joined
           /\ picker'[p].mine = picker[p].mine
           /\ \A q \in Pickers \ {p} : picker'[q] = picker[q]
<1> DEFINE r == [picker[p] EXCEPT !.pc = pc]
<1>1. picker[p] \in PickerState
    OBVIOUS
<1>2. /\ r \in PickerState
      /\ r.pc = pc /\ r.todo = picker[p].todo /\ r.read = picker[p].read
      /\ r.shown = picker[p].shown /\ r.joined = picker[p].joined /\ r.mine = picker[p].mine
    BY <1>1 DEF PickerState
<1>3. picker' = [picker EXCEPT ![p] = r]
    OBVIOUS
<1> HIDE DEF r
<1>4. QED
    BY <1>2, <1>3

LEMMA JoinFields ==
    ASSUME picker \in [Pickers -> PickerState], ledger \in [Instances -> Entry],
           NEW p \in Pickers, ReserveJoins(p)
    PROVE  /\ picker' \in [Pickers -> PickerState]
           /\ picker'[p].pc = "rejoin"
           /\ picker'[p].todo = picker[p].todo /\ picker'[p].read = picker[p].read
           /\ picker'[p].shown = picker[p].shown
           /\ picker'[p].joined.inst \in Joinable(picker[p].intent.req)
           /\ picker'[p].mine = picker[p].mine
           /\ \A q \in Pickers \ {p} : picker'[q] = picker[q]
<1>1. PICK i \in Instances :
        /\ Joinable(picker[p].intent.req) = {i}
        /\ picker' = [picker EXCEPT ![p] =
                [picker[p] EXCEPT !.pc = "rejoin",
                                  !.joined = [inst |-> i, state |-> ledger[i].state]]]
    BY DEF ReserveJoins
<1> DEFINE j == [inst |-> i, state |-> ledger[i].state]
<1>2. j \in [inst : Instances \cup {NoInstance}, state : EntryStates] /\ j.inst = i
    BY DEF Entry
<1> HIDE DEF j
<1> DEFINE r == [picker[p] EXCEPT !.pc = "rejoin", !.joined = j]
<1>3. picker[p] \in PickerState
    OBVIOUS
<1>4. /\ r \in PickerState
      /\ r.pc = "rejoin" /\ r.todo = picker[p].todo /\ r.read = picker[p].read
      /\ r.shown = picker[p].shown /\ r.joined = j /\ r.mine = picker[p].mine
    BY <1>2, <1>3 DEF PickerState
<1>5. picker' = [picker EXCEPT ![p] = r]
    BY <1>1 DEF j
<1> HIDE DEF r
<1>6. QED
    BY <1>1, <1>2, <1>4, <1>5

(* The steps that start from Off. *)
LEMMA FreshFields ==
    ASSUME picker \in [Pickers -> PickerState], NEW p \in Pickers,
           Choose(p) \/ GoReserve(p) \/ ReserveNew(p) \/ Stop(p)
    PROVE  /\ picker' \in [Pickers -> PickerState]
           /\ picker'[p].todo = {} /\ picker'[p].joined.inst = NoInstance
           /\ \A j \in Instances : picker'[p].shown[j] = "absent"
           /\ \A q \in Pickers \ {p} : picker'[q] = picker[q]
           /\ \/ /\ Choose(p) /\ picker'[p].pc = "focus" /\ picker'[p].mine = NoInstance
                 /\ picker'[p].at \in Instances
                 /\ Settled(p) = {[inst |-> picker'[p].at, state |-> "live"]}
              \/ /\ GoReserve(p) /\ picker'[p].pc = "reserve" /\ picker'[p].mine = NoInstance
                 /\ picker'[p].intent = picker[p].intent
              \/ /\ ReserveNew(p) /\ picker'[p].pc = "dispatch"
                 /\ picker'[p].mine \in Instances
                 /\ \E n \in 1..MaxRecords :
                        Reserve(picker'[p].mine, picker[p].intent.req,
                                picker[p].intent.req \in Additional, n)
              \/ Stop(p) /\ picker'[p].pc = "off" /\ picker'[p].mine = NoInstance
<1>0. picker[p].intent \in Intents
    BY Fields
<1>1. CASE Choose(p)
  <2>1. PICK i \in Instances :
            /\ Settled(p) = {[inst |-> i, state |-> "live"]}
            /\ picker' = [picker EXCEPT ![p] = [Off EXCEPT !.pc = "focus", !.at = i]]
    BY <1>1 DEF Choose
  <2> DEFINE r == [Off EXCEPT !.pc = "focus", !.at = i]
  <2>2. /\ r \in PickerState
        /\ r.pc = "focus" /\ r.at = i /\ r.mine = NoInstance
        /\ r.todo = {} /\ r.joined.inst = NoInstance
        /\ \A j \in Instances : r.shown[j] = "absent"
    BY <1>0, OffType, OffFields DEF PickerState, Off
  <2>3. picker' = [picker EXCEPT ![p] = r]
    BY <2>1
  <2> HIDE DEF r
  <2>4. picker' \in [Pickers -> PickerState] /\ picker'[p] = r
        /\ \A q \in Pickers \ {p} : picker'[q] = picker[q]
    BY <2>2, <2>3
  <2>5. QED
    BY <1>1, <2>1, <2>2, <2>4
<1>2. CASE GoReserve(p)
  <2> DEFINE r == [Off EXCEPT !.pc = "reserve", !.intent = picker[p].intent]
  <2>2. /\ r \in PickerState
        /\ r.pc = "reserve" /\ r.intent = picker[p].intent /\ r.mine = NoInstance
        /\ r.todo = {} /\ r.joined.inst = NoInstance
        /\ \A j \in Instances : r.shown[j] = "absent"
    BY <1>0, OffType, OffFields DEF PickerState, Off
  <2>3. picker' = [picker EXCEPT ![p] = r]
    BY <1>2 DEF GoReserve
  <2> HIDE DEF r
  <2>4. picker' \in [Pickers -> PickerState] /\ picker'[p] = r
        /\ \A q \in Pickers \ {p} : picker'[q] = picker[q]
    BY <2>2, <2>3
  <2>5. QED
    BY <1>2, <2>2, <2>4
<1>3. CASE ReserveNew(p)
  <2>1. PICK i \in Instances, n \in 1..MaxRecords :
            /\ Reserve(i, picker[p].intent.req, picker[p].intent.req \in Additional, n)
            /\ picker' = [picker EXCEPT ![p] = [Off EXCEPT !.pc = "dispatch", !.mine = i]]
    BY <1>3 DEF ReserveNew
  <2> DEFINE r == [Off EXCEPT !.pc = "dispatch", !.mine = i]
  <2>2. /\ r \in PickerState
        /\ r.pc = "dispatch" /\ r.mine = i
        /\ r.todo = {} /\ r.joined.inst = NoInstance
        /\ \A j \in Instances : r.shown[j] = "absent"
    BY <1>0, OffType, OffFields DEF PickerState, Off
  <2>3. picker' = [picker EXCEPT ![p] = r]
    BY <2>1
  <2> HIDE DEF r
  <2>4. picker' \in [Pickers -> PickerState] /\ picker'[p] = r
        /\ \A q \in Pickers \ {p} : picker'[q] = picker[q]
    BY <2>2, <2>3
  <2>5. QED
    BY <1>3, <2>1, <2>2, <2>4
<1>4. CASE Stop(p)
    BY <1>4, OffType, OffFields DEF Stop
<1>5. QED
    BY <1>1, <1>2, <1>3, <1>4

-----------------------------------------------------------------------------
(* What a step does to the records.                                        *)

RecordStep ==
    \/ UNCHANGED ledger
    \/ \E i \in Instances, r \in Requests, a \in BOOLEAN, n \in 1..MaxRecords :
            Reserve(i, r, a, n)
    \/ \E i \in Instances, s \in ActiveStates \cup RetiredStates, E \in SUBSET Roles :
            /\ Known(i) /\ (s = "reserved" => s = ledger[i].state)
            /\ Update(i, s, E)

LEMMA RecordedIs ==
    ASSUME NEW i \in Instances, Known(i),
           NEW s \in (ActiveStates \cup RetiredStates) \ {"reserved"}, Recorded(i, s)
    PROVE  RecordStep
BY DEF Recorded, RecordStep, Update, Known

LEMMA TriedIs ==
    ASSUME NEW i \in Instances, Known(i),
           NEW s \in (ActiveStates \cup RetiredStates) \ {"reserved"}, TriesToRecord(i, s)
    PROVE  RecordStep
BY RecordedIs DEF TriesToRecord, Swallowed, RecordStep

LEMMA AcknowledgedIs ==
    ASSUME NEW i \in Instances, Known(i), NEW role \in Roles, Acknowledged(i, role)
    PROVE  RecordStep
<1>1. ledger' = [ledger EXCEPT ![i] = Merged(ledger[i], ledger[i].state, {role})]
    BY DEF Acknowledged
<1>2. Update(i, ledger[i].state, {role})
    BY <1>1 DEF Update, Known
<1>3. QED
    BY <1>2 DEF RecordStep, Known

LEMMA Records ==
    ASSUME Inv, Next
    PROVE  RecordStep
<1> USE DEF Inv
<1>1. ASSUME NEW p \in Pickers, Picker(p) \/ Stop(p)
      PROVE  RecordStep
  <2>1. CASE UNCHANGED ledger
    BY <2>1 DEF RecordStep
  <2>2. CASE Apply(p)
    <3>1. Recorded(picker[p].at, picker[p].verdict) /\ At(p, "apply")
        BY <2>2 DEF Apply
    <3>2. QED
        BY <3>1, RecordedIs DEF VerdictInv, RetiredStates
  <2>3. CASE Focus(p)
    <3>1. picker[p].at \in Instances /\ Known(picker[p].at)
        BY <2>3 DEF CopyInv, Focus
    <3>2. QED
        BY <2>1, <2>3, <3>1, TriedIs DEF Focus, ActiveStates, RetiredStates
  <2>4. CASE ReserveNew(p)
    <3>1. PICK i \in Instances, n \in 1..MaxRecords :
            Reserve(i, picker[p].intent.req, picker[p].intent.req \in Additional, n)
        BY <2>4 DEF ReserveNew
    <3>2. Opens(p)
        BY <2>4 DEF ReserveNew, CopyInv
    <3>3. picker[p].intent \in Intents
        BY Fields DEF TypeOK
    <3>4. picker[p].intent.req \in Requests
        BY <3>2, <3>3 DEF Opens, Intents
    <3>5. \E a \in BOOLEAN : Reserve(i, picker[p].intent.req, a, n)
      <4>1. CASE picker[p].intent.req \in Additional
        BY <3>1, <4>1 DEF Reserve
      <4>2. CASE picker[p].intent.req \notin Additional
        BY <3>1, <4>2 DEF Reserve
      <4>3. QED
        BY <4>1, <4>2
    <3>6. QED
        BY <3>4, <3>5 DEF RecordStep
  <2>5. CASE PersistDispatch(p) \/ DispatchFails(p) \/ AckTerminal(p)
    <3>1. picker[p].mine \in Instances /\ Known(picker[p].mine)
      <4>1. picker[p].mine \in Instances \cup {NoInstance}
        BY Fields DEF TypeOK
      <4>2. QED
        BY <2>5, <4>1 DEF OwnerInv, PersistDispatch, DispatchFails, AckTerminal, At
    <3>2. CASE PersistDispatch(p)
        BY <3>1, <3>2, RecordedIs DEF PersistDispatch, ActiveStates
    <3>3. CASE DispatchFails(p)
      <4>1. "failed" \in (ActiveStates \cup RetiredStates) \ {"reserved"}
        BY DEF ActiveStates, RetiredStates
      <4>2. QED
        BY <3>1, <3>3, <4>1, TriedIs DEF DispatchFails
    <3>4. CASE AckTerminal(p)
      <4>1. "terminal" \in Roles
        BY LaunchAssumption
      <4>2. QED
        BY <2>1, <3>1, <3>4, <4>1, AcknowledgedIs DEF AckTerminal
    <3>5. QED
        BY <2>5, <3>2, <3>3, <3>4
  <2>6. QED
    BY <1>1, <2>1, <2>2, <2>3, <2>4, <2>5 DEF Picker, Start, Judge, Choose, Settle, GoReserve,
        ReserveJoins, Rejoin, SpawnKitty, Stop
<1>2. ASSUME NEW i \in Instances, Viewer(i) \/ Environment(i)
      PROVE  RecordStep
  <2>1. CASE UNCHANGED ledger
    BY <2>1 DEF RecordStep
  <2>2. CASE ViewerAcks(i) \/ ViewerFails(i) \/ AckClient(i) \/ ReportExit(i) \/ WaitFails(i)
    <3>1. Known(i)
        BY <2>2 DEF ProcessInv, ViewerAcks, ViewerFails, AckClient, ReportExit, WaitFails
    <3>2. {"wrapper", "client"} \subseteq Roles
        BY LaunchAssumption
    <3>3. {"failed", "exited", "uncertain"} \subseteq (ActiveStates \cup RetiredStates) \ {"reserved"}
        BY DEF ActiveStates, RetiredStates
    <3>4. QED
        BY <2>1, <2>2, <3>1, <3>2, <3>3, AcknowledgedIs, TriedIs
            DEF ViewerAcks, ViewerFails, AckClient, ReportExit, WaitFails
  <2>3. QED
    BY <1>2, <2>1, <2>2 DEF Viewer, Environment, ViewerStarts, ViewerReads, ClientStarts,
        Dismissed, ClientExits, TerminalEnds
<1>3. QED
    BY <1>1, <1>2 DEF Next

(* A launch keeps its request, its evidence and its end; none is reserved  *)
(* a second time.                                                          *)
LEMMA Stays ==
    ASSUME ledger \in [Instances -> Entry], RecordStep, NEW i \in Instances, Known(i)
    PROVE  /\ Known(i)' /\ ledger'[i].req = ledger[i].req /\ ledger[i].ev \subseteq ledger'[i].ev
           /\ ledger[i].state \in RetiredStates => ledger'[i].state = ledger[i].state
           /\ ledger'[i].state = "reserved" => ledger[i].state = "reserved"
<1>1. CASE UNCHANGED ledger
    BY <1>1 DEF Known
<1>2. ASSUME NEW j \in Instances, NEW r \in Requests, NEW a \in BOOLEAN, NEW n \in 1..MaxRecords,
             Reserve(j, r, a, n)
      PROVE  ledger'[i] = ledger[i]
    BY <1>2, AbsentType DEF Reserve, Known, ActiveStates, RetiredStates
<1>3. ASSUME NEW j \in Instances, NEW s \in ActiveStates \cup RetiredStates, NEW E \in SUBSET Roles,
             s = "reserved" => s = ledger[j].state, Update(j, s, E)
      PROVE  /\ Known(i)' /\ ledger'[i].req = ledger[i].req /\ ledger[i].ev \subseteq ledger'[i].ev
             /\ ledger[i].state \in RetiredStates => ledger'[i].state = ledger[i].state
             /\ ledger'[i].state = "reserved" => ledger[i].state = "reserved"
    BY <1>3 DEF Update, Merged, Entry, Known, ActiveStates, RetiredStates
<1>4. QED
    BY <1>1, <1>2, <1>3 DEF RecordStep, Known

-----------------------------------------------------------------------------
(* What a step does to processes and owners.                               *)

(* What was started was started, and what has ended has ended. *)
LEMMA ProcessesStay ==
    ASSUME Inv, Next, NEW i \in Instances
    PROVE  /\ client[i] # "none" => client'[i] # "none"
           /\ terminal[i] # "none" => terminal'[i] # "none"
           /\ client[i] = "dead" => client'[i] = "dead"
           /\ terminal[i] = "dead" => terminal'[i] = "dead"
<1> USE DEF Inv, TypeOK
<1>1. CASE UNCHANGED <<terminal, client>>
    BY <1>1
<1>2. ASSUME NEW p \in Pickers, SpawnKitty(p)
      PROVE  UNCHANGED client /\ \A j \in Instances :
                terminal'[j] = terminal[j] \/ (terminal[j] = "none" /\ terminal'[j] = "alive")
    BY <1>2 DEF SpawnKitty, OwnerInv
<1>3. ASSUME NEW j \in Instances, ClientStarts(j)
      PROVE  /\ UNCHANGED terminal
             /\ \A k \in Instances : client'[k] = client[k] \/ client[k] = "none"
             /\ \A k \in Instances : client[k] # "none" => client'[k] = client[k]
    BY <1>3 DEF ClientStarts, ProcessInv
<1>4. ASSUME NEW j \in Instances, Environment(j)
      PROVE  \A k \in Instances :
                /\ client'[k] = client[k] \/ (client[k] = "alive" /\ client'[k] = "dead")
                /\ terminal'[k] = terminal[k] \/ (terminal[k] = "alive" /\ terminal'[k] = "dead")
    BY <1>4 DEF Environment, ClientExits, TerminalEnds, ClientAlive, TerminalAlive
<1>5. QED
    BY <1>1, <1>2, <1>3, <1>4 DEF Next, Picker, Stop, Start, Judge, Apply, Choose, Settle, GoReserve,
        Focus, ReserveNew, ReserveJoins, Rejoin, PersistDispatch, DispatchFails, AckTerminal,
        Viewer, ViewerStarts, ViewerReads, ViewerAcks, ViewerFails, AckClient, ReportExit,
        WaitFails, Dismissed, procs

(* The state of p after a step of its own. *)
LEMMA OwnStep ==
    ASSUME Inv, NEW p \in Pickers, Picker(p) \/ Stop(p)
    PROVE  /\ picker' \in [Pickers -> PickerState]
           /\ \A q \in Pickers \ {p} : picker'[q] = picker[q]
           /\ \/ picker'[p].mine = picker[p].mine
              \/ picker'[p].mine = NoInstance
              \/ picker'[p].mine \in Instances /\ ledger[picker'[p].mine] = Absent
<1> USE DEF Inv, TypeOK, LedgerTypeOK
<1>1. CASE \E i \in Instances : Judge(p, i)
    BY <1>1, JudgeFields
<1>2. CASE Apply(p)
    BY <1>2, ApplyFields DEF VerdictInv, Apply
<1>3. CASE Start(p) \/ Rejoin(p)
    BY <1>3, CopyFields
<1>4. CASE Settle(p) \/ Focus(p) \/ DispatchFails(p) \/ AckTerminal(p)
    BY <1>4, LeaveFields DEF Settle, Focus, DispatchFails, AckTerminal
<1>5. CASE PersistDispatch(p) \/ SpawnKitty(p)
    BY <1>5, MoveFields DEF PersistDispatch, SpawnKitty
<1>6. CASE ReserveJoins(p)
    BY <1>6, JoinFields
<1>7. CASE Choose(p) \/ GoReserve(p) \/ ReserveNew(p) \/ Stop(p)
    BY <1>7, FreshFields DEF Reserve
<1>8. QED
    BY <1>1, <1>2, <1>3, <1>4, <1>5, <1>6, <1>7 DEF Picker

(* Steps of viewers and of the desktop leave the pickers alone. *)
LEMMA PickersAlone ==
    ASSUME NEW i \in Instances, Viewer(i) \/ Environment(i)
    PROVE  UNCHANGED <<picker, misjudged, spawned>>
BY DEF Viewer, ViewerStarts, ViewerReads, ViewerAcks, ViewerFails, ClientStarts, AckClient,
    ReportExit, WaitFails, Dismissed, Environment, ClientExits, TerminalEnds

(* No launch that is known finds an owner again. *)
LEMMA OwnersStay ==
    ASSUME Inv, Next, NEW i \in Instances, Known(i), ~OwnerAlive(i)
    PROVE  ~OwnerAlive(i)'
<1>1. CASE \E p \in Pickers : Picker(p) \/ Stop(p)
  <2>1. PICK p \in Pickers : Picker(p) \/ Stop(p)
    BY <1>1
  <2>2. picker'[p].mine # i
    BY <2>1, OwnStep, AbsentType, LaunchAssumption DEF OwnerAlive, Known, ActiveStates, RetiredStates
  <2>3. QED
    BY <2>1, <2>2, OwnStep DEF OwnerAlive
<1>2. CASE \E j \in Instances : Viewer(j) \/ Environment(j)
    BY <1>2, PickersAlone DEF OwnerAlive
<1>3. QED
    BY <1>1, <1>2 DEF Next

LEMMA TypeStep ==
    ASSUME Inv, Next, LedgerTypeOK'
    PROVE  TypeOK'
<1> USE DEF Inv, TypeOK
<1>1. picker' \in [Pickers -> PickerState]
    BY OwnStep, PickersAlone DEF Next
<1>2. misjudged' \in SUBSET Instances
  <2>1. ASSUME NEW p \in Pickers, Apply(p)
        PROVE  misjudged' \in SUBSET Instances
    BY <2>1 DEF Apply, VerdictInv
  <2>2. QED
    BY <2>1, PickersAlone DEF Next, Picker, Stop, Start, Judge, Choose, Settle, GoReserve,
        Focus, ReserveNew, ReserveJoins, Rejoin, PersistDispatch, SpawnKitty, DispatchFails, AckTerminal
<1>3. ASSUME NEW p \in Pickers, Picker(p) \/ Stop(p)
      PROVE  /\ terminal' \in [Instances -> {"none", "alive", "dead"}]
             /\ UNCHANGED <<viewer, client>>
    BY <1>3 DEF Picker, Stop, Start, Judge, Apply, Choose, Settle, GoReserve,
        Focus, ReserveNew, ReserveJoins, Rejoin, PersistDispatch, SpawnKitty, DispatchFails,
        AckTerminal, procs
<1>4. ASSUME NEW i \in Instances, Viewer(i) \/ Environment(i)
      PROVE  /\ terminal' \in [Instances -> {"none", "alive", "dead"}]
             /\ viewer' \in [Instances -> {"none", "read", "ack", "start", "observe",
                                           "wait", "held", "gone"}]
             /\ client' \in [Instances -> {"none", "alive", "dead"}]
    BY <1>4 DEF Viewer, ViewerStarts, ViewerReads, ViewerAcks, ViewerFails, ClientStarts, AckClient,
        ReportExit, WaitFails, Dismissed, Environment, ClientExits, TerminalEnds, ViewerMoves
<1>5. spawned' \in [Requests -> Nat]
  <2>1. ASSUME NEW p \in Pickers, SpawnKitty(p)
        PROVE  spawned' \in [Requests -> Nat]
    <3>1. Known(picker[p].mine)
        BY <2>1, Fields DEF SpawnKitty, OwnerInv, At
    <3>2. QED
        BY <2>1, <3>1 DEF SpawnKitty, Known
  <2>2. QED
    BY <2>1, PickersAlone DEF Next, Picker, Stop, Start, Judge, Apply, Choose, Settle, GoReserve,
        Focus, ReserveNew, ReserveJoins, Rejoin, PersistDispatch, DispatchFails, AckTerminal
<1>6. QED
    BY <1>1, <1>2, <1>3, <1>4, <1>5 DEF Next

-----------------------------------------------------------------------------
(* The records are a ledger.                                               *)

LEMMA RecordsAreLedger ==
    ASSUME RecordStep
    PROVE  [LedgerNext]_ledger
BY DEF RecordStep, LedgerNext

LEMMA LedgerStep ==
    ASSUME Inv, Next
    PROVE  LedgerInv' /\ LedgerTypeOK'
<1>1. [LedgerNext]_ledger
    BY Records, RecordsAreLedger
<1>2. QED
    BY <1>1, StepInv DEF Inv, LedgerInv

-----------------------------------------------------------------------------
(* What pickers know.                                                      *)

(* Where the launch a callback settles on as live comes from.              *)
LEMMA SettledIsKnown ==
    ASSUME Inv, NEW p \in Pickers, NEW i \in Instances,
           Settled(p) = {[inst |-> i, state |-> "live"]}
    PROVE  Known(i)
<1> USE DEF Inv, TypeOK
<1> DEFINE k == picker[p]
           As(j, unlisted) == [inst |-> j,
                               state |-> IF j \in Shown(p) THEN k.shown[j] ELSE unlisted]
<1>0. k.intent \in Intents /\ k.joined \in [inst : Instances \cup {NoInstance}, state : EntryStates]
    BY Fields
<1>1. \A j \in Shown(p) : j \in Instances /\ Known(j)
    BY DEF Shown, CopyInv
<1>2. Settled(p) = IF k.intent.kind = "focus" THEN {As(k.intent.inst, "absent")}
                   ELSE IF k.joined # NoLaunch THEN {As(k.joined.inst, k.joined.state)}
                   ELSE IF Reserved(k.intent.req) # {}
                   THEN {As(j, ledger[j].state) : j \in Reserved(k.intent.req)}
                   ELSE IF k.intent.req \in Additional THEN {}
                   ELSE {As(j, "absent") : j \in Shown(p)}
    BY DEF Settled
<1>3. CASE k.intent.kind = "focus"
  <2>1. As(k.intent.inst, "absent") = [inst |-> i, state |-> "live"]
    BY <1>2, <1>3
  <2>2. k.intent.inst = i /\ k.intent.inst \in Shown(p)
    BY <2>1
  <2>3. QED
    BY <1>1, <2>2
<1>4. CASE k.intent.kind # "focus" /\ k.joined # NoLaunch
  <2>1. As(k.joined.inst, k.joined.state) = [inst |-> i, state |-> "live"]
    BY <1>2, <1>4
  <2>2. k.joined.inst = i
    BY <2>1
  <2>3. QED
    BY <2>2, LaunchAssumption DEF CopyInv
<1>5. CASE k.intent.kind # "focus" /\ k.joined = NoLaunch /\ Reserved(k.intent.req) # {}
  <2>1. PICK j \in Reserved(k.intent.req) : As(j, ledger[j].state) = [inst |-> i, state |-> "live"]
    BY <1>2, <1>5
  <2>2. j = i /\ j \in Instances
    BY <2>1 DEF Reserved
  <2>3. CASE i \in Shown(p)
    BY <1>1, <2>3
  <2>4. CASE i \notin Shown(p)
    BY <2>1, <2>2, <2>4, AbsentType DEF ProcessInv
  <2>5. QED
    BY <2>3, <2>4
<1>6. CASE k.intent.kind # "focus" /\ k.joined = NoLaunch /\ Reserved(k.intent.req) = {}
  <2>1. k.intent.req \notin Additional
    BY <1>2, <1>6
  <2>2. PICK j \in Shown(p) : As(j, "absent") = [inst |-> i, state |-> "live"]
    BY <1>2, <1>6, <2>1
  <2>3. j = i
    BY <2>2
  <2>4. QED
    BY <1>1, <2>3
<1>7. QED
    BY <1>3, <1>4, <1>5, <1>6

LEMMA CopyStep ==
    ASSUME Inv, Next, NEW p \in Pickers
    PROVE  CopyInv(p)'
<1> USE DEF Inv, TypeOK, LedgerTypeOK
<1>1. \A i \in Instances : Known(i) => Known(i)'
    BY Records, Stays
<1>2. \A i \in Instances :
        (client[i] # "none" => client'[i] # "none") /\ (terminal[i] # "none" => terminal'[i] # "none")
    BY ProcessesStay
<1>3. /\ picker[p].joined.inst \in Instances \cup {NoInstance} /\ picker[p].todo \in SUBSET Instances
      /\ picker[p].intent \in Intents
    BY Fields
<1>4. CASE picker'[p] = picker[p]
    BY <1>1, <1>2, <1>3, <1>4 DEF CopyInv, At, Opens
<1>5. ASSUME picker'[p].todo = {}, picker'[p].joined.inst = NoInstance,
             \A i \in Instances : picker'[p].shown[i] = "absent",
             picker'[p].pc \notin {"focus", "reserve"}
      PROVE  CopyInv(p)'
    BY <1>5 DEF CopyInv, At
<1>6. ASSUME picker'[p].shown = picker[p].shown, picker'[p].pc \notin {"focus", "reserve"},
             picker'[p].todo = {} \/ (picker'[p].todo \subseteq picker[p].todo /\
                \A i \in picker'[p].todo : picker'[p].read[i] = picker[p].read[i]),
             picker'[p].joined = picker[p].joined
      PROVE  CopyInv(p)'
    BY <1>1, <1>2, <1>3, <1>6 DEF CopyInv, At
<1>7. ASSUME Picker(p) \/ Stop(p)
      PROVE  CopyInv(p)'
  <2>1. CASE Start(p) \/ Rejoin(p)
    <3>1. \A i \in Running : i \in Instances /\ Known(i) /\ ledger[i].state \in ActiveStates
        BY AbsentType DEF Running, ProcessInv, ActiveStates
    <3>2. UNCHANGED <<client, terminal, ledger>>
        BY <2>1 DEF Start, Rejoin, procs
    <3>3. QED
        BY <1>1, <1>3, <2>1, <3>1, <3>2, CopyFields DEF CopyInv, At, ProcessInv
  <2>2. ASSUME NEW i \in Instances, Judge(p, i)
        PROVE  CopyInv(p)'
    <3>1. Known(i) /\ i \in picker[p].todo
        BY <2>2, JudgeFields DEF CopyInv
    <3>2. picker'[p].pc \in {"judge", "apply"}
        BY <2>2, JudgeFields
    <3>3. \A j \in Instances \ {i} : picker'[p].shown[j] = picker[p].shown[j]
      <4>1. picker[p].shown \in [Instances -> EntryStates]
        BY Fields
      <4>2. picker'[p].shown = picker[p].shown
            \/ \E v : picker'[p].shown = [picker[p].shown EXCEPT ![i] = v]
        BY <2>2, JudgeFields, ZenonT(60)
      <4>3. QED
        BY <4>1, <4>2
    <3>4. picker'[p].todo = picker[p].todo \ {i} /\ picker'[p].joined = picker[p].joined
          /\ \A j \in Instances \ {i} : picker'[p].read[j] = picker[p].read[j]
        BY <2>2, JudgeFields
    <3>5. QED
        BY <1>1, <1>2, <1>3, <3>1, <3>2, <3>3, <3>4 DEF CopyInv, At
  <2>3. CASE Apply(p)
    <3>1. Known(picker[p].at) /\ picker[p].at \in Instances
        BY <2>3 DEF VerdictInv, Apply
    <3>2. QED
        BY <1>1, <1>2, <1>3, <2>3, <3>1, ApplyFields DEF CopyInv, At
  <2>4. CASE Settle(p) \/ Focus(p) \/ DispatchFails(p) \/ AckTerminal(p)
    BY <1>5, <2>4, LeaveFields DEF Settle, Focus, DispatchFails, AckTerminal
  <2>5. CASE PersistDispatch(p) \/ SpawnKitty(p)
    BY <1>6, <2>5, MoveFields DEF PersistDispatch, SpawnKitty
  <2>6. CASE ReserveJoins(p)
    <3>1. Joinable(picker[p].intent.req) \subseteq {i \in Instances : Known(i)}
      <4>1. Opens(p)
        BY <2>6 DEF ReserveJoins, CopyInv
      <4>2. picker[p].intent.req \in Requests
        BY <1>3, <4>1 DEF Opens, Intents
      <4>3. QED
        BY <4>2, AbsentType, LedgerAssumption
            DEF Joinable, Reserved, Running, ProcessInv, ActiveStates, RetiredStates
    <3>2. picker'[p].joined.inst \in Instances /\ Known(picker'[p].joined.inst)
        BY <2>6, <3>1, JoinFields
    <3>3. QED
        BY <1>1, <1>2, <1>3, <2>6, <3>2, JoinFields DEF CopyInv, At
  <2>7. CASE Choose(p) \/ GoReserve(p) \/ ReserveNew(p) \/ Stop(p)
    <3>1. picker'[p].pc = "focus" => \E i \in Instances : picker'[p].at = i /\ Known(i)'
      <4>1. picker'[p].pc = "focus" =>
                picker'[p].at \in Instances
                /\ Settled(p) = {[inst |-> picker'[p].at, state |-> "live"]}
        BY <2>7, FreshFields
      <4>2. QED
        BY <1>1, <4>1, SettledIsKnown
    <3>2. picker'[p].pc = "reserve" => picker'[p].intent = picker[p].intent /\ GoReserve(p)
        BY <2>7, FreshFields
    <3>3. QED
        BY <2>7, <3>1, <3>2, FreshFields DEF CopyInv, At, GoReserve, Opens
  <2>8. QED
    BY <1>7, <2>1, <2>2, <2>3, <2>4, <2>5, <2>6, <2>7 DEF Picker
<1>8. QED
    BY <1>4, <1>7, OwnStep, PickersAlone DEF Next

(* What a verdict of exited rests on. *)
LEMMA VerdictMeans ==
    ASSUME Inv, NEW p \in Pickers, NEW i \in picker[p].todo,
           NEW v \in Verdicts(picker[p].read[i], i), v # picker[p].read[i].state
    PROVE  /\ v \in (ActiveStates \cup {"exited"}) \ {"reserved"}
           /\ v = "exited" => client[i] = "dead" \/ terminal[i] = "dead" \/ ~OwnerAlive(i)
<1> DEFINE c == picker[p].read[i]
<1>0. i \in Instances
    BY Fields DEF Inv, TypeOK
<1>1. ("client" \in c.ev => client[i] # "none") /\ ("terminal" \in c.ev => terminal[i] # "none")
    BY DEF Inv, CopyInv
<1>2. client[i] \in {"none", "alive", "dead"} /\ terminal[i] \in {"none", "alive", "dead"}
    BY <1>0 DEF Inv, TypeOK
<1> HIDE DEF c
<1>3. ASSUME NEW listed \in BOOLEAN, v = Verdict(c, i, listed)
      PROVE  /\ v \in (ActiveStates \cup {"exited"}) \ {"reserved"} \/ v = c.state
             /\ v = "exited" => client[i] = "dead" \/ terminal[i] = "dead" \/ ~OwnerAlive(i)
    BY <1>1, <1>2, <1>3 DEF Verdict, ClientAlive, TerminalAlive, ActiveStates, RetiredStates
<1>4. v = "uncertain" \/ \E listed \in BOOLEAN : v = Verdict(c, i, listed)
    BY DEF Verdicts, c
<1>5. QED
    BY <1>3, <1>4 DEF ActiveStates, RetiredStates, c

LEMMA VerdictStep ==
    ASSUME Inv, Next, NEW p \in Pickers
    PROVE  VerdictInv(p)'
<1> USE DEF Inv, TypeOK, LedgerTypeOK
<1>1. \A i \in Instances : Known(i) =>
        /\ Known(i)'
        /\ client[i] = "dead" => client'[i] = "dead"
        /\ terminal[i] = "dead" => terminal'[i] = "dead"
        /\ ~OwnerAlive(i) => ~OwnerAlive(i)'
    BY Records, Stays, ProcessesStay, OwnersStay
<1>2. CASE picker'[p] = picker[p]
  <2>1. SUFFICES ASSUME At(p, "apply")' PROVE VerdictInv(p)'
    BY DEF VerdictInv
  <2>2. At(p, "apply")
    BY <1>2, <2>1 DEF At
  <2> DEFINE i == picker[p].at
  <2>3. i \in Instances /\ Known(i) /\ i = picker'[p].at /\ picker'[p].verdict = picker[p].verdict
    BY <1>2, <2>2 DEF VerdictInv
  <2>4. /\ picker[p].verdict \in (ActiveStates \cup {"exited"}) \ {"reserved"}
        /\ picker[p].verdict = "exited" =>
               client[i] = "dead" \/ terminal[i] = "dead" \/ ~OwnerAlive(i)
    BY <2>2 DEF VerdictInv
  <2> HIDE DEF i
  <2>5. QED
    BY <1>1, <2>3, <2>4 DEF VerdictInv
<1>3. CASE \E i \in Instances : Judge(p, i)
  <2>1. PICK i \in Instances : Judge(p, i)
    BY <1>3
  <2>2. i \in picker[p].todo /\ Known(i)
    BY <2>1, JudgeFields DEF CopyInv
  <2>3. PICK v \in Verdicts(picker[p].read[i], i) :
            \/ /\ v = picker[p].read[i].state /\ picker'[p].pc = "judge"
               /\ picker'[p].shown = [picker[p].shown EXCEPT ![i] = v]
            \/ /\ v # picker[p].read[i].state /\ picker'[p].pc = "apply"
               /\ picker'[p].at = i /\ picker'[p].verdict = v
               /\ picker'[p].shown = picker[p].shown
  <3>1. picker \in [Pickers -> PickerState]
    OBVIOUS
  <3> HIDE DEF Inv, TypeOK, LedgerTypeOK
  <3>2. QED
    BY <2>1, <3>1, JudgeFields
  <2>4. CASE picker'[p].pc = "judge"
    BY <2>4 DEF VerdictInv, At
  <2>5. CASE /\ v # picker[p].read[i].state /\ picker'[p].pc = "apply"
             /\ picker'[p].at = i /\ picker'[p].verdict = v
    BY <1>1, <2>2, <2>5, VerdictMeans DEF VerdictInv
  <2>6. QED
    BY <2>3, <2>4, <2>5
<1>4. ASSUME Picker(p) \/ Stop(p), ~\E i \in Instances : Judge(p, i)
      PROVE  VerdictInv(p)'
  <2>1. picker'[p].pc # "apply"
    <3>1. CASE Apply(p)
        BY <3>1, ApplyFields DEF VerdictInv, Apply
    <3>2. CASE Start(p) \/ Rejoin(p)
        BY <3>2, CopyFields
    <3>3. CASE Settle(p) \/ Focus(p) \/ DispatchFails(p) \/ AckTerminal(p)
        BY <3>3, LeaveFields DEF Settle, Focus, DispatchFails, AckTerminal
    <3>4. CASE PersistDispatch(p) \/ SpawnKitty(p)
        BY <3>4, MoveFields DEF PersistDispatch, SpawnKitty
    <3>5. CASE ReserveJoins(p)
        BY <3>5, JoinFields
    <3>6. CASE Choose(p) \/ GoReserve(p) \/ ReserveNew(p) \/ Stop(p)
        BY <3>6, FreshFields
    <3>7. QED
        BY <1>4, <3>1, <3>2, <3>3, <3>4, <3>5, <3>6 DEF Picker
  <2>2. QED
    BY <2>1 DEF VerdictInv, At
<1>5. QED
    BY <1>2, <1>3, <1>4, OwnStep, PickersAlone DEF Next

-----------------------------------------------------------------------------
(* Owners.                                                                 *)

(* What its own step makes of an owner. *)
LEMMA OwnerMoves ==
    ASSUME Inv, NEW p \in Pickers, Picker(p) \/ Stop(p)
    PROVE  LET k == picker[p]
               n == picker'[p]
           IN  \/ n.mine = NoInstance /\ n.pc \notin {"dispatch", "spawn", "observe", "returned"}
               \/ n.mine = k.mine /\ n.pc = "returned" /\ k.mine # NoInstance
               \/ n.mine = k.mine /\ k.pc = "dispatch" /\ n.pc = "spawn" /\ PersistDispatch(p)
               \/ n.mine = k.mine /\ k.pc = "spawn" /\ n.pc = "observe" /\ SpawnKitty(p)
               \/ /\ n.pc = "dispatch" /\ n.mine \in Instances /\ ReserveNew(p)
                  /\ \E r \in Requests, a \in BOOLEAN, m \in 1..MaxRecords : Reserve(n.mine, r, a, m)
<1> USE DEF Inv, TypeOK, LedgerTypeOK
<1>1. CASE \E i \in Instances : Judge(p, i)
  <2>1. PICK i \in Instances : Judge(p, i)
    BY <1>1
  <2>2. picker[p].mine = NoInstance
    BY <2>1 DEF OwnerInv, Judge, At
  <2>3. picker'[p].mine = picker[p].mine /\ picker'[p].pc \in {"judge", "apply"}
    BY <2>1, JudgeFields
  <2>4. QED
    BY <2>2, <2>3
<1>2. CASE Apply(p)
    BY <1>2, ApplyFields DEF VerdictInv, Apply, At, OwnerInv
<1>3. CASE Start(p) \/ Rejoin(p)
    BY <1>3, CopyFields DEF OwnerInv, Start, Rejoin, At
<1>4. CASE Settle(p) \/ Focus(p) \/ DispatchFails(p) \/ AckTerminal(p)
    BY <1>4, LeaveFields DEF Settle, Focus, DispatchFails, AckTerminal
<1>5. CASE PersistDispatch(p) \/ SpawnKitty(p)
    BY <1>5, MoveFields DEF PersistDispatch, SpawnKitty, At
<1>6. CASE ReserveJoins(p)
    BY <1>6, JoinFields DEF OwnerInv, ReserveJoins, At
<1>7. CASE Choose(p) \/ GoReserve(p) \/ ReserveNew(p) \/ Stop(p)
  <2>1. ReserveNew(p) => picker[p].intent.req \in Requests
    <3>1. picker[p].intent \in Intents
        BY Fields
    <3>2. QED
        BY <3>1 DEF ReserveNew, CopyInv, Opens, Intents
  <2>2. ASSUME NEW i, NEW r, NEW n, Reserve(i, r, r \in Additional, n)
        PROVE  \E a \in BOOLEAN : Reserve(i, r, a, n)
    <3>1. CASE r \in Additional
        BY <2>2, <3>1 DEF Reserve
    <3>2. CASE r \notin Additional
        BY <2>2, <3>2 DEF Reserve
    <3>3. QED
        BY <3>1, <3>2
  <2>3. \/ picker'[p].mine = NoInstance
            /\ picker'[p].pc \notin {"dispatch", "spawn", "observe", "returned"}
        \/ /\ ReserveNew(p) /\ picker'[p].pc = "dispatch"
           /\ picker'[p].mine \in Instances
           /\ \E n \in 1..MaxRecords :
                  Reserve(picker'[p].mine, picker[p].intent.req,
                          picker[p].intent.req \in Additional, n)
    BY <1>7, FreshFields
  <2>4. CASE /\ ReserveNew(p) /\ picker'[p].pc = "dispatch"
             /\ picker'[p].mine \in Instances
             /\ \E n \in 1..MaxRecords :
                    Reserve(picker'[p].mine, picker[p].intent.req,
                            picker[p].intent.req \in Additional, n)
    <3>1. PICK n \in 1..MaxRecords :
            Reserve(picker'[p].mine, picker[p].intent.req,
                    picker[p].intent.req \in Additional, n)
        BY <2>4
    <3>2. PICK a \in BOOLEAN : Reserve(picker'[p].mine, picker[p].intent.req, a, n)
        BY <2>2, <3>1
    <3>3. \E r \in Requests, b \in BOOLEAN, m \in 1..MaxRecords : Reserve(picker'[p].mine, r, b, m)
        BY <2>1, <2>4, <3>2
    <3>4. QED
        BY <2>4, <3>3
  <2>5. QED
    BY <2>3, <2>4
<1>8. QED
    BY <1>1, <1>2, <1>3, <1>4, <1>5, <1>6, <1>7 DEF Picker

(* One picker's part of OwnerInv. *)
Owned(p) ==
    /\ picker[p].mine # NoInstance <=>
           picker[p].pc \in {"dispatch", "spawn", "observe", "returned"}
    /\ picker[p].mine # NoInstance => Known(picker[p].mine)
    /\ At(p, "dispatch") \/ At(p, "spawn") => terminal[picker[p].mine] = "none"
    /\ At(p, "spawn") => ledger[picker[p].mine].state # "reserved"
    /\ At(p, "observe") => terminal[picker[p].mine] # "none"

LEMMA OwnedStep ==
    ASSUME Inv, Next, NEW p \in Pickers, Picker(p) \/ Stop(p)
    PROVE  Owned(p)'
<1> USE DEF Inv, TypeOK, LedgerTypeOK
<1> DEFINE i == picker[p].mine
           n == picker'[p]
<1>1. /\ i \in Instances \cup {NoInstance}
      /\ i # NoInstance => Known(i)
    BY Fields DEF OwnerInv
<1>2. \A j \in Instances : Known(j) =>
        /\ Known(j)'
        /\ terminal[j] # "none" => terminal'[j] # "none"
        /\ ledger'[j].state = "reserved" => ledger[j].state = "reserved"
    BY Records, Stays, ProcessesStay
<1>3. CASE n.mine = NoInstance /\ n.pc \notin {"dispatch", "spawn", "observe", "returned"}
    BY <1>3 DEF Owned, At
<1>4. CASE n.mine = i /\ n.pc = "returned" /\ i # NoInstance
    BY <1>1, <1>2, <1>4 DEF Owned, At
<1>5. CASE n.mine = i /\ picker[p].pc = "dispatch" /\ n.pc = "spawn" /\ PersistDispatch(p)
  <2>1. i \in Instances /\ Known(i) /\ terminal[i] = "none"
    BY <1>1, <1>5 DEF OwnerInv, At
  <2>2. UNCHANGED terminal /\ Recorded(i, "dispatching")
    BY <1>5 DEF PersistDispatch, procs
  <2>3. ledger'[i].state # "reserved"
    BY <2>1, <2>2 DEF Recorded, Merged, Entry, Known, ActiveStates, RetiredStates
  <2>4. QED
    BY <1>2, <1>5, <2>1, <2>2, <2>3, LaunchAssumption DEF Owned, At
<1>6. CASE n.mine = i /\ picker[p].pc = "spawn" /\ n.pc = "observe" /\ SpawnKitty(p)
  <2>1. i \in Instances /\ Known(i)
    BY <1>1, <1>6 DEF OwnerInv, At
  <2>2. terminal'[i] = "alive"
    BY <1>6, <2>1 DEF SpawnKitty
  <2>3. QED
    BY <1>2, <1>6, <2>1, <2>2, LaunchAssumption DEF Owned, At
<1>7. CASE /\ n.pc = "dispatch" /\ n.mine \in Instances /\ ReserveNew(p)
           /\ \E r \in Requests, a \in BOOLEAN, m \in 1..MaxRecords : Reserve(n.mine, r, a, m)
  <2>1. PICK j \in Instances, r \in Requests, a \in BOOLEAN, m \in 1..MaxRecords :
            j = n.mine /\ Reserve(j, r, a, m)
    BY <1>7
  <2>2. Known(j)'
    BY <2>1 DEF Reserve, Known, ActiveStates
  <2>3. ~Known(j)
    BY <2>1, AbsentType DEF Reserve, Known, ActiveStates, RetiredStates
  <2>4. terminal[j] = "none" /\ UNCHANGED terminal
    BY <1>7, <2>3 DEF ProcessInv, ReserveNew, procs
  <2>5. QED
    BY <1>7, <2>1, <2>2, <2>4, LaunchAssumption DEF Owned, At
<1>8. QED
    BY <1>3, <1>4, <1>5, <1>6, <1>7, OwnerMoves

LEMMA OwnerStep ==
    ASSUME Inv, Next
    PROVE  OwnerInv'
<1> USE DEF Inv, TypeOK, LedgerTypeOK
<1>1. \A i \in Instances : Known(i) =>
        /\ Known(i)'
        /\ terminal[i] # "none" => terminal'[i] # "none"
        /\ ledger'[i].state = "reserved" => ledger[i].state = "reserved"
    BY Records, Stays, ProcessesStay
<1>2. \A p \in Pickers : Owned(p) /\ picker[p].mine \in Instances \cup {NoInstance}
    BY Fields DEF OwnerInv, Owned
<1>3. ASSUME NEW q \in Pickers, picker'[q] = picker[q],
             \A i \in Instances : i = picker[q].mine /\ terminal[i] = "none" => terminal'[i] = "none"
      PROVE  Owned(q)'
    BY <1>1, <1>2, <1>3 DEF Owned, At
<1>4. ASSUME NEW p \in Pickers, Picker(p) \/ Stop(p)
      PROVE  OwnerInv'
  <2>1. \A q \in Pickers \ {p} : picker'[q] = picker[q]
    BY <1>4, OwnStep
  <2>2. \A i \in Instances : i # picker[p].mine => terminal'[i] = terminal[i]
    BY <1>4 DEF Picker, Stop, Start, Judge, Apply, Choose, Settle, GoReserve, Focus, ReserveNew,
        ReserveJoins, Rejoin, PersistDispatch, SpawnKitty, DispatchFails, AckTerminal, procs
  <2>3. ASSUME NEW q \in Pickers, q # p, picker[q].mine # NoInstance
        PROVE  picker[q].mine # picker[p].mine
    BY <2>3 DEF OwnerInv
  <2>4. \A q \in Pickers \ {p} : Owned(q)'
    BY <1>2, <1>3, <2>1, <2>2, <2>3, LaunchAssumption
  <2>5. Owned(p)'
    BY <1>4, OwnedStep
  <2>6. picker'[p].mine = NoInstance \/ picker'[p].mine = picker[p].mine
        \/ (picker'[p].mine \in Instances /\ ledger[picker'[p].mine] = Absent)
    BY <1>4, OwnStep
  <2>7. \A q \in Pickers \ {p} : picker'[q].mine # NoInstance => picker'[q].mine # picker'[p].mine
    BY <1>2, <2>1, <2>3, <2>6, AbsentType DEF Owned, Known, ActiveStates, RetiredStates
  <2>8. \A q, r \in Pickers \ {p} :
            picker'[q].mine = picker'[r].mine /\ picker'[q].mine # NoInstance => q = r
    BY <2>1 DEF OwnerInv
  <2>9. QED
    BY <2>4, <2>5, <2>7, <2>8 DEF OwnerInv, Owned
<1>5. ASSUME NEW i \in Instances, Viewer(i) \/ Environment(i)
      PROVE  OwnerInv'
  <2>1. UNCHANGED picker
    BY <1>5, PickersAlone
  <2>2. \A j \in Instances : terminal[j] = "none" => terminal'[j] = "none"
    BY <1>5 DEF Viewer, ViewerStarts, ViewerReads, ViewerAcks, ViewerFails, ClientStarts, AckClient,
        ReportExit, WaitFails, Dismissed, Environment, ClientExits, TerminalEnds, TerminalAlive
  <2>3. \A q \in Pickers : Owned(q)'
    BY <1>3, <2>1, <2>2
  <2>4. QED
    BY <2>1, <2>3 DEF OwnerInv, Owned
<1>6. QED
    BY <1>4, <1>5 DEF Next

-----------------------------------------------------------------------------
(* Processes.                                                              *)

(* Where the evidence of a record comes from. *)
LEMMA RecordedEvidence ==
    ASSUME ledger \in [Instances -> Entry], NEW i, NEW s, Recorded(i, s) \/ TriesToRecord(i, s)
    PROVE  \A k \in Instances : ledger'[k].ev = ledger[k].ev /\ ledger'[k].req = ledger[k].req
<1>1. ASSUME NEW e \in Entry
      PROVE  Merged(e, s, {}).ev = e.ev /\ Merged(e, s, {}).req = e.req
    BY DEF Merged, Entry
<1>2. CASE Recorded(i, s)
    BY <1>1, <1>2 DEF Recorded
<1>3. QED
    BY <1>2 DEF TriesToRecord, Swallowed

LEMMA AcknowledgedEvidence ==
    ASSUME ledger \in [Instances -> Entry], NEW i, NEW role, Acknowledged(i, role)
    PROVE  \A k \in Instances :
                ledger'[k].ev = ledger[k].ev \/ (k = i /\ ledger'[k].ev = ledger[k].ev \cup {role})
BY DEF Acknowledged, Merged, Entry

LEMMA ReservedEvidence ==
    ASSUME ledger \in [Instances -> Entry], NEW i, NEW r, NEW a, NEW n, Reserve(i, r, a, n)
    PROVE  \A k \in Instances : ledger'[k].ev = ledger[k].ev \/ ledger'[k].ev = {}
BY DEF Reserve, Entry

LEMMA EvidenceStep ==
    ASSUME Inv, Next, NEW k \in Instances
    PROVE  /\ "client" \in ledger'[k].ev => "client" \in ledger[k].ev \/ AckClient(k)
           /\ "terminal" \in ledger'[k].ev =>
                 \/ "terminal" \in ledger[k].ev
                 \/ \E p \in Pickers : At(p, "observe") /\ picker[p].mine = k
<1> USE DEF Inv, TypeOK, LedgerTypeOK
<1>1. CASE UNCHANGED ledger
    BY <1>1
<1>2. ASSUME NEW p \in Pickers, Apply(p) \/ Focus(p) \/ PersistDispatch(p) \/ DispatchFails(p)
      PROVE  ledger'[k].ev = ledger[k].ev
    BY <1>2, RecordedEvidence DEF Apply, Focus, PersistDispatch, DispatchFails
<1>3. ASSUME NEW p \in Pickers, ReserveNew(p)
      PROVE  ledger'[k].ev = ledger[k].ev \/ ledger'[k].ev = {}
    BY <1>3, ReservedEvidence DEF ReserveNew
<1>4. ASSUME NEW p \in Pickers, AckTerminal(p)
      PROVE  \/ ledger'[k].ev = ledger[k].ev
             \/ /\ ledger'[k].ev = ledger[k].ev \cup {"terminal"}
                /\ At(p, "observe") /\ picker[p].mine = k
    BY <1>4, AcknowledgedEvidence DEF AckTerminal
<1>5. ASSUME NEW i \in Instances, ViewerFails(i) \/ ReportExit(i) \/ WaitFails(i)
      PROVE  ledger'[k].ev = ledger[k].ev
    BY <1>5, RecordedEvidence DEF ViewerFails, ReportExit, WaitFails
<1>6. ASSUME NEW i \in Instances, ViewerAcks(i)
      PROVE  ledger'[k].ev = ledger[k].ev \/ ledger'[k].ev = ledger[k].ev \cup {"wrapper"}
    BY <1>6, AcknowledgedEvidence DEF ViewerAcks
<1>7. ASSUME NEW i \in Instances, AckClient(i)
      PROVE  \/ ledger'[k].ev = ledger[k].ev
             \/ i = k /\ ledger'[k].ev = ledger[k].ev \cup {"client"}
    BY <1>7, AcknowledgedEvidence DEF AckClient
<1>8. ASSUME NEW p \in Pickers, Picker(p) \/ Stop(p)
      PROVE  \/ UNCHANGED ledger \/ Apply(p) \/ Focus(p) \/ PersistDispatch(p) \/ DispatchFails(p)
             \/ ReserveNew(p) \/ AckTerminal(p)
    BY <1>8 DEF Picker, Stop, Start, Judge, Choose, Settle, GoReserve, ReserveJoins, Rejoin, SpawnKitty
<1>9. ASSUME NEW i \in Instances, Viewer(i) \/ Environment(i)
      PROVE  \/ UNCHANGED ledger \/ ViewerFails(i) \/ ReportExit(i) \/ WaitFails(i)
             \/ ViewerAcks(i) \/ AckClient(i)
    BY <1>9 DEF Viewer, ViewerStarts, ViewerReads, ClientStarts, Dismissed, Environment,
        ClientExits, TerminalEnds
<1>10. QED
    BY <1>1, <1>2, <1>3, <1>4, <1>5, <1>6, <1>7, <1>8, <1>9 DEF Next

LEMMA ProcessStep ==
    ASSUME Inv, Next
    PROVE  ProcessInv'
<1> USE DEF Inv, TypeOK, LedgerTypeOK
<1>0. SUFFICES ASSUME NEW k \in Instances
               PROVE  /\ ledger'[k] = Absent \/ Known(k)'
                      /\ terminal'[k] # "none" => Known(k)' /\ ledger'[k].state # "reserved"
                      /\ viewer'[k] \notin {"none", "gone"} => terminal'[k] = "alive"
                      /\ terminal'[k] = "none" => viewer'[k] = "none"
                      /\ viewer'[k] \in {"none", "read", "ack", "start"} => client'[k] = "none"
                      /\ viewer'[k] = "observe" => client'[k] # "none"
                      /\ "client" \in ledger'[k].ev => client'[k] # "none"
                      /\ "terminal" \in ledger'[k].ev => terminal'[k] # "none"
    BY DEF ProcessInv
<1>1. ledger'[k] = Absent \/ Known(k)'
  <2>1. CASE Known(k)
    BY <2>1, Records, Stays
  <2>2. CASE ledger[k] = Absent
    <3>1. RecordStep
        BY Records
    <3>2. CASE UNCHANGED ledger
        BY <2>2, <3>2
    <3>3. ASSUME NEW j \in Instances, NEW r \in Requests, NEW a \in BOOLEAN, NEW n \in 1..MaxRecords,
                 Reserve(j, r, a, n)
          PROVE  ledger'[k] = Absent \/ Known(k)'
        BY <2>2, <3>3 DEF Reserve, Known, ActiveStates
    <3>4. ASSUME NEW j \in Instances, NEW s, NEW E, Known(j), Update(j, s, E)
          PROVE  ledger'[k] = Absent
      <4>1. j # k
        BY <2>2, <3>4, AbsentType DEF Known, ActiveStates, RetiredStates
      <4>2. QED
        BY <2>2, <3>4, <4>1 DEF Update
    <3>5. QED
        BY <3>1, <3>2, <3>3, <3>4 DEF RecordStep
  <2>3. QED
    BY <2>1, <2>2 DEF ProcessInv
<1>2. /\ "client" \in ledger'[k].ev => client'[k] # "none"
      /\ "terminal" \in ledger'[k].ev => terminal'[k] # "none"
  <2>1. AckClient(k) => client[k] # "none"
    BY DEF AckClient, ProcessInv
  <2>2. ASSUME NEW p \in Pickers, At(p, "observe"), picker[p].mine = k
        PROVE  terminal[k] # "none"
    BY <2>2 DEF OwnerInv
  <2>3. QED
    BY <2>1, <2>2, EvidenceStep, ProcessesStay DEF ProcessInv
<1>3. ledger[k].state # "reserved" /\ Known(k) => Known(k)' /\ ledger'[k].state # "reserved"
    BY Records, Stays
<1>4. CASE UNCHANGED <<terminal, viewer, client>>
    BY <1>1, <1>2, <1>3, <1>4 DEF ProcessInv
<1>5. ASSUME NEW p \in Pickers, SpawnKitty(p)
      PROVE  /\ UNCHANGED <<viewer, client, ledger>>
             /\ terminal'[k] = terminal[k]
                \/ (terminal'[k] = "alive" /\ terminal[k] = "none"
                    /\ Known(k) /\ ledger[k].state # "reserved")
    BY <1>5 DEF SpawnKitty, OwnerInv, At
<1>6. CASE \E p \in Pickers : Picker(p) \/ Stop(p)
  <2>1. PICK p \in Pickers : Picker(p) \/ Stop(p)
    BY <1>6
  <2>2. CASE SpawnKitty(p)
    BY <1>1, <1>2, <1>3, <1>5, <2>2 DEF ProcessInv
  <2>3. QED
    BY <1>4, <2>1, <2>2 DEF Picker, Stop, Start, Judge, Apply, Choose, Settle, GoReserve, Focus,
        ReserveNew, ReserveJoins, Rejoin, PersistDispatch, DispatchFails, AckTerminal, procs
<1>7. ASSUME NEW i \in Instances, i # k, Viewer(i) \/ Environment(i)
      PROVE  terminal'[k] = terminal[k] /\ viewer'[k] = viewer[k] /\ client'[k] = client[k]
    BY <1>7 DEF Viewer, ViewerStarts, ViewerReads, ViewerAcks, ViewerFails, ClientStarts, AckClient,
        ReportExit, WaitFails, Dismissed, Environment, ClientExits, TerminalEnds, ViewerMoves
<1>8. ASSUME Viewer(k) \/ Environment(k)
      PROVE  /\ terminal'[k] # "none" => terminal[k] # "none"
             /\ viewer'[k] \notin {"none", "gone"} => terminal'[k] = "alive"
             /\ terminal'[k] = "none" => viewer'[k] = "none"
             /\ viewer'[k] \in {"none", "read", "ack", "start"} => client'[k] = "none"
             /\ viewer'[k] = "observe" => client'[k] # "none"
  <2>1. /\ viewer[k] \notin {"none", "gone"} => terminal[k] = "alive"
        /\ terminal[k] = "none" => viewer[k] = "none"
        /\ viewer[k] \in {"none", "read", "ack", "start"} => client[k] = "none"
        /\ viewer[k] = "observe" => client[k] # "none"
    BY DEF ProcessInv
  <2>2. CASE ViewerStarts(k) \/ ViewerReads(k) \/ ViewerAcks(k) \/ ViewerFails(k) \/ ClientStarts(k)
             \/ AckClient(k) \/ ReportExit(k) \/ WaitFails(k) \/ Dismissed(k)
    BY <2>1, <2>2 DEF ViewerStarts, ViewerReads, ViewerAcks, ViewerFails, ClientStarts, AckClient,
        ReportExit, WaitFails, Dismissed, ViewerMoves, TerminalAlive
  <2>3. CASE ClientExits(k) \/ TerminalEnds(k)
    BY <2>1, <2>3 DEF ClientExits, TerminalEnds, ViewerMoves, TerminalAlive, ClientAlive
  <2>4. QED
    BY <1>8, <2>2, <2>3 DEF Viewer, Environment
<1>9. QED
    BY <1>1, <1>2, <1>3, <1>6, <1>7, <1>8 DEF Next, ProcessInv

-----------------------------------------------------------------------------
(* Spawned terminals.                                                      *)

(* The launches of a request after a step: those before it, and perhaps    *)
(* one that is new to the ledger and has no terminal.                      *)
LEMMA ReservedStep ==
    ASSUME Inv, Next, NEW r \in Requests, NEW i \in Reserved(r)'
    PROVE  \/ i \in Reserved(r)
           \/ Reserved(r) = {} /\ ledger[i] = Absent
<1> USE DEF Inv, TypeOK, LedgerTypeOK
<1>1. RecordStep
    BY Records
<1>2. CASE UNCHANGED ledger
    BY <1>2 DEF Reserved
<1>3. ASSUME NEW j \in Instances, NEW q \in Requests, NEW a \in BOOLEAN, NEW n \in 1..MaxRecords,
             Reserve(j, q, a, n)
      PROVE  i \in Reserved(r) \/ (Reserved(r) = {} /\ ledger[i] = Absent)
    BY <1>3 DEF Reserve, Reserved
<1>4. ASSUME NEW j \in Instances, Known(j), \A k \in Instances : ledger'[k].req = ledger[k].req
      PROVE  i \in Reserved(r)
    BY <1>4 DEF Reserved
<1>5. ASSUME NEW j \in Instances, NEW s, NEW E, Update(j, s, E)
      PROVE  \A k \in Instances : ledger'[k].req = ledger[k].req
    BY <1>5 DEF Update, Merged, Entry
<1>6. QED
    BY <1>1, <1>2, <1>3, <1>4, <1>5 DEF RecordStep

LEMMA SpawnStep ==
    ASSUME Inv, Next
    PROVE  SpawnInv'
<1> USE DEF Inv, TypeOK, LedgerTypeOK
<1>0. SUFFICES ASSUME NEW r \in Requests
               PROVE  /\ spawned'[r] \in {0, 1}
                      /\ \A i \in Reserved(r)' : spawned'[r] = 0 <=> terminal'[i] = "none"
                      /\ Reserved(r)' = {} => spawned'[r] = 0
    BY DEF SpawnInv
<1>1. /\ spawned[r] \in {0, 1}
      /\ \A i \in Reserved(r) : spawned[r] = 0 <=> terminal[i] = "none"
      /\ Reserved(r) = {} => spawned[r] = 0
    BY DEF SpawnInv
<1>2. ASSUME NEW i \in Reserved(r)
      PROVE  i \in Reserved(r)'
  <2>1. i \in Instances /\ ledger[i].req = r /\ Known(i)
    BY LedgerAssumption, AbsentType DEF Reserved, ProcessInv
  <2>2. QED
    BY <2>1, Records, Stays DEF Reserved
<1>3. CASE /\ spawned'[r] = spawned[r]
           /\ \A i \in Instances : terminal'[i] = "none" <=> terminal[i] = "none"
  <2>1. ASSUME NEW i \in Reserved(r)'
        PROVE  spawned'[r] = 0 <=> terminal'[i] = "none"
    <3>1. i \in Instances
        BY DEF Reserved
    <3>2. ledger[i] = Absent => terminal[i] = "none"
        BY <3>1, LedgerAssumption, AbsentType DEF ProcessInv, Known
    <3>3. QED
        BY <1>1, <1>3, <3>1, <3>2, ReservedStep
  <2>2. QED
    BY <1>1, <1>2, <1>3, <2>1
<1>4. ASSUME NEW p \in Pickers, SpawnKitty(p)
      PROVE  /\ spawned'[r] \in {0, 1}
             /\ \A i \in Reserved(r)' : spawned'[r] = 0 <=> terminal'[i] = "none"
             /\ Reserved(r)' = {} => spawned'[r] = 0
  <2>0. PICK i : i = picker[p].mine
    OBVIOUS
  <2>1. i \in Instances /\ Known(i) /\ terminal[i] = "none"
    BY <1>4, <2>0, Fields DEF SpawnKitty, OwnerInv, At
  <2>2. /\ terminal'[i] = "alive"
        /\ \A j \in Instances \ {i} : terminal'[j] = terminal[j]
        /\ UNCHANGED ledger
        /\ spawned' = [spawned EXCEPT ![ledger[i].req] = @ + 1]
    BY <1>4, <2>0, <2>1 DEF SpawnKitty
  <2>3. Reserved(r)' = Reserved(r)
    BY <2>2 DEF Reserved
  <2>4. CASE ledger[i].req = r
    <3>1. i \in Reserved(r)
        BY <2>1, <2>4 DEF Reserved
    <3>2. \A j \in Reserved(r) : j = i
        BY <2>1, <2>4, LedgerAssumption DEF Reserved, LedgerInv, RequestNamesOneLaunch
    <3>3. spawned[r] = 0
        BY <1>1, <2>1, <3>1
    <3>4. spawned'[r] = 1
        BY <2>2, <2>4, <3>3
    <3>5. QED
        BY <2>2, <2>3, <3>1, <3>2, <3>4
  <2>5. CASE ledger[i].req # r
    <3>1. i \notin Reserved(r)
        BY <2>5 DEF Reserved
    <3>2. spawned'[r] = spawned[r]
        BY <2>2, <2>5
    <3>3. QED
        BY <1>1, <2>2, <2>3, <3>1, <3>2 DEF Reserved
  <2>6. QED
    BY <2>4, <2>5
<1>5. ASSUME NEW p \in Pickers, Picker(p) \/ Stop(p), ~SpawnKitty(p)
      PROVE  UNCHANGED <<terminal, spawned>>
    BY <1>5 DEF Picker, Stop, Start, Judge, Apply, Choose, Settle, GoReserve, Focus, ReserveNew,
        ReserveJoins, Rejoin, PersistDispatch, DispatchFails, AckTerminal, procs
<1>6. ASSUME NEW i \in Instances, Viewer(i) \/ Environment(i)
      PROVE  /\ UNCHANGED spawned
             /\ \A j \in Instances : terminal'[j] = "none" <=> terminal[j] = "none"
    BY <1>6 DEF Viewer, ViewerStarts, ViewerReads, ViewerAcks, ViewerFails, ClientStarts, AckClient,
        ReportExit, WaitFails, Dismissed, Environment, ClientExits, TerminalEnds, TerminalAlive
<1>7. QED
    BY <1>3, <1>4, <1>5, <1>6 DEF Next

-----------------------------------------------------------------------------
(* Retired launches.                                                       *)

(* A launch that is over stays over. *)
LEMMA OverStays ==
    ASSUME Inv, Next, NEW k \in Instances, Known(k), Over(k)
    PROVE  Over(k)'
<1> USE DEF Inv, TypeOK, LedgerTypeOK
<1>1. CASE client[k] = "dead" \/ terminal[k] = "dead"
    BY <1>1, ProcessesStay DEF Over
<1>2. CASE client[k] = "none" /\ viewer[k] \in {"held", "gone"}
  <2>1. ASSUME NEW i \in Instances, Viewer(i) \/ Environment(i)
        PROVE  client'[k] = "none" /\ viewer'[k] \in {"held", "gone"}
    <3>1. CASE i = k
        BY <1>2, <2>1, <3>1 DEF Viewer, ViewerStarts, ViewerReads, ViewerAcks, ViewerFails,
            ClientStarts, AckClient, ReportExit, WaitFails, Dismissed, Environment, ClientExits,
            TerminalEnds, ViewerMoves, ClientAlive
    <3>2. CASE i # k
        BY <1>2, <2>1, <3>2 DEF Viewer, ViewerStarts, ViewerReads, ViewerAcks, ViewerFails,
            ClientStarts, AckClient, ReportExit, WaitFails, Dismissed, Environment, ClientExits,
            TerminalEnds, ViewerMoves
    <3>3. QED
        BY <3>1, <3>2
  <2>2. ASSUME NEW p \in Pickers, Picker(p) \/ Stop(p)
        PROVE  client'[k] = "none" /\ viewer'[k] \in {"held", "gone"}
    BY <1>2, <2>2 DEF Picker, Stop, Start, Judge, Apply, Choose, Settle, GoReserve, Focus,
        ReserveNew, ReserveJoins, Rejoin, PersistDispatch, SpawnKitty, DispatchFails, AckTerminal,
        procs
  <2>3. QED
    BY <2>1, <2>2 DEF Next, Over
<1>3. CASE /\ terminal[k] = "none"
           /\ \A p \in Pickers : (At(p, "dispatch") \/ At(p, "spawn")) => picker[p].mine # k
  <2>1. ASSUME NEW i \in Instances, Viewer(i) \/ Environment(i)
        PROVE  Over(k)'
    <3>1. terminal'[k] = "none"
        BY <1>3, <2>1 DEF Viewer, ViewerStarts, ViewerReads, ViewerAcks, ViewerFails,
            ClientStarts, AckClient, ReportExit, WaitFails, Dismissed, Environment, ClientExits,
            TerminalEnds, TerminalAlive
    <3>2. QED
        BY <1>3, <2>1, <3>1, PickersAlone DEF Over, At
  <2>2. ASSUME NEW p \in Pickers, Picker(p) \/ Stop(p)
        PROVE  Over(k)'
    <3>1. terminal'[k] = "none"
      <4>1. CASE SpawnKitty(p)
        BY <1>3, <4>1 DEF SpawnKitty, OwnerInv
      <4>2. QED
        BY <1>3, <2>2, <4>1 DEF Picker, Stop, Start, Judge, Apply, Choose, Settle, GoReserve, Focus,
            ReserveNew, ReserveJoins, Rejoin, PersistDispatch, DispatchFails, AckTerminal, procs
    <3>2. (At(p, "dispatch") \/ At(p, "spawn"))' => picker'[p].mine # k
      <4>1. \/ picker'[p].pc \notin {"dispatch", "spawn"}
            \/ picker'[p].mine = picker[p].mine /\ picker[p].pc = "dispatch"
            \/ ledger[picker'[p].mine] = Absent
        BY <2>2, OwnerMoves DEF Reserve
      <4>2. QED
        BY <1>3, <4>1, AbsentType DEF At, Known, ActiveStates, RetiredStates
    <3>3. \A q \in Pickers \ {p} : picker'[q] = picker[q]
        BY <2>2, OwnStep
    <3>4. QED
        BY <1>3, <3>1, <3>2, <3>3 DEF Over, At
  <2>3. QED
    BY <2>1, <2>2 DEF Next
<1>4. QED
    BY <1>1, <1>2, <1>3 DEF Over

(* A state recorded for i changes no other record. *)
LEMMA RecordedState ==
    ASSUME ledger \in [Instances -> Entry], NEW i, NEW s, TriesToRecord(i, s),
           NEW k \in Instances, ledger'[k].state # ledger[k].state
    PROVE  k = i /\ ledger[k].state \in ActiveStates /\ ledger'[k].state = s
<1>1. ASSUME NEW e \in Entry
      PROVE  Merged(e, s, {}).state = IF e.state \in ActiveStates THEN s ELSE e.state
    BY DEF Merged, Entry
<1>2. ledger' = [ledger EXCEPT ![i] = Merged(ledger[i], s, {})]
    BY DEF Recorded, TriesToRecord, Swallowed
<1>3. QED
    BY <1>1, <1>2

LEMMA AcknowledgedState ==
    ASSUME ledger \in [Instances -> Entry], NEW i, NEW role, Acknowledged(i, role)
    PROVE  \A k \in Instances : ledger'[k].state = ledger[k].state
BY DEF Acknowledged, Merged, Entry

(* A launch is retired when it is over, or by a misjudgement. *)
LEMMA RetirementIsOver ==
    ASSUME Inv, Next, NEW k \in Instances,
           ledger[k].state \notin RetiredStates, ledger'[k].state \in RetiredStates
    PROVE  Over(k) \/ Over(k)' \/ k \in misjudged'
<1> USE DEF Inv, TypeOK, LedgerTypeOK
<1>0. ledger'[k].state # ledger[k].state /\ ~UNCHANGED ledger
    OBVIOUS
<1>1. ASSUME NEW p \in Pickers, Apply(p)
      PROVE  Over(k) \/ k \in misjudged'
  <2> DEFINE i == picker[p].at
  <2>1. /\ i \in Instances /\ Known(i)
        /\ picker[p].verdict \in (ActiveStates \cup {"exited"}) \ {"reserved"}
        /\ picker[p].verdict = "exited" =>
               client[i] = "dead" \/ terminal[i] = "dead" \/ ~OwnerAlive(i)
    BY <1>1 DEF VerdictInv, Apply
  <2>2. TriesToRecord(i, picker[p].verdict)
    BY <1>1 DEF Apply, TriesToRecord
  <2>3. k = i /\ ledger[k].state \in ActiveStates /\ picker[p].verdict = "exited"
    BY <1>0, <2>1, <2>2, RecordedState DEF ActiveStates, RetiredStates
  <2>4. CASE MayBeRunning(k)
    BY <1>1, <2>3, <2>4 DEF Apply
  <2>5. CASE ~MayBeRunning(k)
    <3>1. client[k] = "dead" \/ terminal[k] = "dead" \/ ledger[k].state = "reserved"
        BY <2>3, <2>5 DEF MayBeRunning
    <3>2. ledger[k].state = "reserved" => terminal[k] = "none"
        BY DEF ProcessInv
    <3>3. ~OwnerAlive(k) => \A q \in Pickers : picker[q].mine # k
        BY DEF OwnerAlive
    <3>4. QED
        BY <2>1, <2>3, <3>1, <3>2, <3>3 DEF Over
  <2>6. QED
    BY <2>4, <2>5
<1>2. ASSUME NEW p \in Pickers, DispatchFails(p)
      PROVE  Over(k)'
  <2>1. k = picker[p].mine
    BY <1>0, <1>2, RecordedState DEF DispatchFails
  <2>2. terminal'[k] = "none"
    BY <1>2, <2>1 DEF OwnerInv, DispatchFails, procs
  <2>3. picker'[p].pc \notin {"dispatch", "spawn"} /\ \A q \in Pickers \ {p} : picker'[q] = picker[q]
    BY <1>2, LeaveFields DEF DispatchFails
  <2>4. \A q \in Pickers \ {p} : picker[q].mine # k
    BY <2>1, LaunchAssumption DEF OwnerInv
  <2>5. QED
    BY <2>2, <2>3, <2>4 DEF Over, At
<1>3. ASSUME NEW i \in Instances, ViewerFails(i)
      PROVE  Over(k)'
  <2>1. k = i
    BY <1>0, <1>3, RecordedState DEF ViewerFails
  <2>2. QED
    BY <1>3, <2>1 DEF ViewerFails, ViewerMoves, ProcessInv, Over
<1>4. ASSUME NEW i \in Instances, ReportExit(i)
      PROVE  Over(k)
  <2>1. k = i
    BY <1>0, <1>4, RecordedState DEF ReportExit
  <2>2. QED
    BY <1>4, <2>1 DEF ReportExit, Over
<1>5. ASSUME NEW i, TriesToRecord(i, "uncertain") \/ TriesToRecord(i, "dispatching")
      PROVE  FALSE
    BY <1>0, <1>5, RecordedState DEF RetiredStates
<1>6. ASSUME NEW i, NEW role, Acknowledged(i, role)
      PROVE  FALSE
    BY <1>0, <1>6, AcknowledgedState
<1>7. ASSUME NEW i, NEW r, NEW a, NEW n, Reserve(i, r, a, n)
      PROVE  FALSE
    BY <1>0, <1>7 DEF Reserve, RetiredStates
<1>8. ASSUME NEW p \in Pickers, Picker(p) \/ Stop(p)
      PROVE  Apply(p) \/ DispatchFails(p)
  <2>1. Recorded(picker[p].mine, "dispatching") => TriesToRecord(picker[p].mine, "dispatching")
    BY DEF TriesToRecord
  <2>2. QED
    BY <1>0, <1>5, <1>6, <1>7, <1>8, <2>1 DEF Picker, Stop, Start, Judge, Choose, Settle, GoReserve, Focus,
        ReserveNew, ReserveJoins, Rejoin, PersistDispatch, SpawnKitty, AckTerminal
<1>9. ASSUME NEW i \in Instances, Viewer(i) \/ Environment(i)
      PROVE  ViewerFails(i) \/ ReportExit(i)
    BY <1>0, <1>5, <1>6, <1>9 DEF Viewer, ViewerStarts, ViewerReads, ViewerAcks,
        ClientStarts, AckClient, WaitFails, Dismissed, Environment, ClientExits, TerminalEnds
<1>10. QED
    BY <1>1, <1>2, <1>3, <1>4, <1>8, <1>9 DEF Next

(* Only a reservation gives a record its request. *)
LEMMA RequestStep ==
    ASSUME Inv, Next, NEW k \in Instances, ledger'[k].req # ledger[k].req
    PROVE  \E p \in Pickers, n \in 1..MaxRecords :
                Reserve(k, picker[p].intent.req, picker[p].intent.req \in Additional, n)
<1> USE DEF Inv, TypeOK, LedgerTypeOK
<1>1. ASSUME NEW i, NEW s, Recorded(i, s) \/ TriesToRecord(i, s)
      PROVE  FALSE
    BY <1>1, RecordedEvidence
<1>2. ASSUME NEW i, NEW role, Acknowledged(i, role)
      PROVE  FALSE
  <2>1. ASSUME NEW e \in Entry
        PROVE  Merged(e, e.state, {role}).req = e.req
    BY DEF Merged, Entry
  <2>2. QED
    BY <1>2, <2>1 DEF Acknowledged
<1>3. ASSUME NEW p \in Pickers, ReserveNew(p)
      PROVE  \E n \in 1..MaxRecords :
                Reserve(k, picker[p].intent.req, picker[p].intent.req \in Additional, n)
  <2>1. PICK i \in Instances, n \in 1..MaxRecords :
            Reserve(i, picker[p].intent.req, picker[p].intent.req \in Additional, n)
    BY <1>3 DEF ReserveNew
  <2>2. i = k
    BY <2>1 DEF Reserve
  <2>3. QED
    BY <2>1, <2>2
<1>4. ASSUME NEW p \in Pickers, Picker(p) \/ Stop(p)
      PROVE  ReserveNew(p)
    BY <1>1, <1>2, <1>4 DEF Picker, Stop, Start, Judge, Apply, Choose, Settle, GoReserve, Focus,
        ReserveJoins, Rejoin, PersistDispatch, SpawnKitty, DispatchFails, AckTerminal
<1>5. ASSUME NEW i \in Instances, Viewer(i) \/ Environment(i)
      PROVE  FALSE
    BY <1>1, <1>2, <1>5 DEF Viewer, ViewerStarts, ViewerReads, ViewerAcks, ViewerFails,
        ClientStarts, AckClient, ReportExit, WaitFails, Dismissed, Environment, ClientExits,
        TerminalEnds
<1>6. QED
    BY <1>3, <1>4, <1>5 DEF Next

(* An ordinary Open reserves only when every launch there is has retired. *)
LEMMA FirstOpenFindsAllRetired ==
    ASSUME Inv, Next, NEW j \in Instances, ledger[j] = Absent, j \in FirstOpens'
    PROVE  \A i \in Instances \ {j} :
                /\ Known(i) => ledger[i].state \in RetiredStates
                /\ ledger'[i] = ledger[i]
<1> USE DEF Inv, TypeOK, LedgerTypeOK
<1>1. ledger'[j].req \in Requests \ Additional
    BY DEF FirstOpens
<1>2. PICK p \in Pickers, n \in 1..MaxRecords :
            Reserve(j, picker[p].intent.req, picker[p].intent.req \in Additional, n)
    BY <1>1, RequestStep, AbsentType, LedgerAssumption
<1>3. ledger'[j].req = picker[p].intent.req
    BY <1>2 DEF Reserve
<1>4. Running = {}
    BY <1>1, <1>2, <1>3 DEF Reserve
<1>5. QED
    BY <1>2, <1>4 DEF Running, Known, Reserve

LEMMA RetiredStep ==
    ASSUME Inv, Next
    PROVE  RetiredInv'
<1> USE DEF Inv, TypeOK, LedgerTypeOK
<1>1. misjudged \subseteq misjudged'
  <2>1. ASSUME NEW p \in Pickers, Picker(p) \/ Stop(p)
        PROVE  misjudged \subseteq misjudged'
    BY <2>1 DEF Picker, Stop, Start, Judge, Apply, Choose, Settle, GoReserve, Focus, ReserveNew,
        ReserveJoins, Rejoin, PersistDispatch, SpawnKitty, DispatchFails, AckTerminal
  <2>2. QED
    BY <2>1, PickersAlone DEF Next
<1>2. ASSUME NEW k \in Instances, ledger'[k].state \in RetiredStates
      PROVE  Over(k)' \/ k \in misjudged'
  <2>1. CASE ledger[k].state \in RetiredStates
    <3>1. Known(k)
        BY <2>1, AbsentType DEF ProcessInv, RetiredStates
    <3>2. QED
        BY <1>1, <2>1, <3>1, OverStays DEF RetiredInv
  <2>2. CASE ledger[k].state \notin RetiredStates
    <3>1. Known(k)
      <4>1. CASE ledger[k] = Absent
        <5>1. ledger'[k].req # NoRequest
            BY <1>2, LedgerStep DEF LedgerInv, Nameless
        <5>2. PICK p \in Pickers, n \in 1..MaxRecords :
                Reserve(k, picker[p].intent.req, picker[p].intent.req \in Additional, n)
            BY <4>1, <5>1, RequestStep, AbsentType
        <5>3. QED
            BY <1>2, <5>2 DEF Reserve, RetiredStates
      <4>2. QED
        BY <4>1 DEF ProcessInv
    <3>2. QED
        BY <1>2, <2>2, <3>1, OverStays, RetirementIsOver
  <2>3. QED
    BY <2>1, <2>2
<1>3. ASSUME NEW i \in FirstOpens', NEW j \in FirstOpens', i # j
      PROVE  ledger'[i].state \in RetiredStates \/ ledger'[j].state \in RetiredStates
  <2>0. i \in Instances /\ j \in Instances /\ ledger'[i].req \in Requests \ Additional
        /\ ledger'[j].req \in Requests \ Additional
    BY <1>3 DEF FirstOpens
  <2>1. CASE Known(i) /\ Known(j)
    <3>1. ledger'[i].req = ledger[i].req /\ ledger'[j].req = ledger[j].req
          /\ (ledger[i].state \in RetiredStates => ledger'[i].state \in RetiredStates)
          /\ (ledger[j].state \in RetiredStates => ledger'[j].state \in RetiredStates)
        BY <2>0, <2>1, Records, Stays
    <3>2. QED
        BY <1>3, <2>0, <3>1 DEF RetiredInv, FirstOpens
  <2>2. ASSUME NEW a \in {i, j}, NEW b \in {i, j}, a # b, ~Known(a)
        PROVE  ledger'[b].state \in RetiredStates
    <3>1. ledger[a] = Absent /\ a \in Instances /\ b \in Instances /\ a \in FirstOpens'
        BY <1>3, <2>0, <2>2 DEF ProcessInv
    <3>2. (Known(b) => ledger[b].state \in RetiredStates) /\ ledger'[b] = ledger[b]
        BY <2>2, <3>1, FirstOpenFindsAllRetired
    <3>3. Known(b)
      <4>1. ledger[b].req # NoRequest
        BY <2>0, <3>2, LedgerAssumption
      <4>2. QED
        BY <3>1, <4>1, AbsentType DEF ProcessInv
    <3>4. QED
        BY <3>2, <3>3
  <2>3. QED
    BY <1>3, <2>1, <2>2
<1>4. QED
    BY <1>2, <1>3 DEF RetiredInv

-----------------------------------------------------------------------------

LEMMA Starts == Init => Inv
<1> SUFFICES ASSUME Init PROVE Inv
    OBVIOUS
<1> USE DEF Init
<1>1. LedgerInv /\ LedgerTypeOK
    BY InitInv DEF LedgerInv
<1>2. TypeOK
    BY <1>1, OffType DEF TypeOK
<1>3. \A i \in Instances : ledger[i] = Absent
    BY DEF LedgerInit
<1>4. OwnerInv
    BY OffFields DEF OwnerInv, At
<1>5. ProcessInv
    BY <1>3, AbsentType DEF ProcessInv
<1>6. RetiredInv
    BY <1>3, AbsentType, LedgerAssumption DEF RetiredInv, RetiredStates, FirstOpens
<1>7. SpawnInv
    BY <1>3, AbsentType, LedgerAssumption DEF SpawnInv, Reserved
<1>8. ASSUME NEW p \in Pickers
      PROVE  CopyInv(p) /\ VerdictInv(p)
    BY OffFields DEF CopyInv, VerdictInv, At
<1>9. QED
    BY <1>1, <1>2, <1>4, <1>5, <1>6, <1>7, <1>8 DEF Inv

LEMMA InvStays == Inv /\ [Next]_vars => Inv'
<1> SUFFICES ASSUME Inv, [Next]_vars PROVE Inv'
    OBVIOUS
<1>1. CASE Next
  <2>1. LedgerInv' /\ LedgerTypeOK'
    BY <1>1, LedgerStep
  <2>2. QED
    BY <1>1, <2>1, TypeStep, OwnerStep, ProcessStep, SpawnStep, RetiredStep, CopyStep, VerdictStep DEF Inv
<1>2. CASE UNCHANGED vars
    BY <1>2 DEF vars, procs, Inv, TypeOK, LedgerTypeOK, LedgerInv, Nameless, RequestNamesOneLaunch,
        OrdinalsDistinct, Running, OwnerInv, ProcessInv, SpawnInv, Reserved, RetiredInv, FirstOpens, Over, CopyInv,
        VerdictInv, OwnerAlive, Known, At, Opens
<1>3. QED
    BY <1>1, <1>2

(* What pickers hold, records say and processes do stays in step, in any   *)
(* order and whichever of them dies (actions.py, registry.py, viewer.py).  *)
THEOREM Invariant == Spec => []Inv
BY Starts, InvStays, PTL DEF Spec

(* Every variable keeps its kind.                                          *)
THEOREM TypeCorrect == Spec => []TypeOK
<1>1. Inv => TypeOK
    BY DEF Inv
<1>2. QED
    BY <1>1, Invariant, PTL

(* Pickers and viewers, with every fault they meet, do to the records only *)
(* what the ledger allows: what is proved of the ledger holds of them.     *)
THEOREM KeepsTheLedger == Spec => LedgerSpec
<1>1. Inv /\ [Next]_vars => [LedgerNext]_ledger
    BY Records, RecordsAreLedger DEF vars
<1>2. Init => LedgerInit
    BY DEF Init
<1>3. QED
    BY <1>1, <1>2, Invariant, PTL DEF Spec, LedgerSpec

(* Kitty is spawned at most once for a request, for any number of replays, *)
(* callbacks and deaths: reserve hands a launch to one owner, and only the *)
(* owner of a launch without a terminal spawns one (reserve, _dispatch).   *)
THEOREM OneTerminal == Spec => []OneTerminalPerRequest
<1>1. Inv => OneTerminalPerRequest
    BY DEF Inv, SpawnInv, OneTerminalPerRequest
<1>2. QED
    BY <1>1, Invariant, PTL

(* A window in which a client runs is not over. *)
LEMMA AttachedIsNotOver ==
    ASSUME Inv, NEW i \in Instances, Attached(i), ledger[i].state \in RetiredStates
    PROVE  i \in misjudged
<1>1. viewer[i] # "none"
    BY DEF Inv, ProcessInv, Attached, ClientAlive
<1>2. QED
    BY DEF Inv, RetiredInv, Over, Attached, ClientAlive, TerminalAlive

(* Two ordinary Opens never run two clients of one target, for any number  *)
(* of pickers, requests and launches, unless a launch was retired on an    *)
(* old copy of its record (actions.open_target, registry.reserve).         *)
THEOREM OneClient == Spec => []OneClientPerTarget
<1>1. Inv => OneClientPerTarget
  <2> SUFFICES ASSUME Inv, NEW i \in FirstOpens, NEW j \in FirstOpens, Attached(i), Attached(j), i # j
               PROVE  {i, j} \cap misjudged # {}
    BY DEF OneClientPerTarget
  <2>1. ledger[i].state \in RetiredStates \/ ledger[j].state \in RetiredStates
    BY DEF Inv, RetiredInv
  <2>2. i \in Instances /\ j \in Instances
    BY DEF FirstOpens
  <2>3. QED
    BY <2>1, <2>2, AttachedIsNotOver
<1>2. QED
    BY <1>1, Invariant, PTL

(* An ordinary Open reserves nothing while a client runs in any window of  *)
(* the target, with the same exception (registry.reserve).                 *)
THEOREM OpensFindClients == Spec => FirstOpenFindsClients
<1> DEFINE Finds == \A i, j \in Instances :
                        /\ ledger[j] = Absent /\ ledger'[j] # Absent
                        /\ ledger'[j].req \notin Additional
                        /\ Attached(i)
                        => i \in misjudged
<1>1. Inv /\ [Next]_vars => [Finds]_vars
  <2> SUFFICES ASSUME Inv, Next, NEW i \in Instances, NEW j \in Instances, ledger[j] = Absent,
                      ledger'[j] # Absent, ledger'[j].req \notin Additional, Attached(i)
               PROVE  i \in misjudged
    OBVIOUS
  <2>1. j \in FirstOpens'
    <3>1. Known(j)'
        BY ProcessStep DEF ProcessInv
    <3>2. QED
        BY <3>1 DEF Known, FirstOpens
  <2>2. Known(i)
    BY DEF Inv, ProcessInv, Attached, TerminalAlive
  <2>3. i # j
    BY <2>2, AbsentType DEF Known, ActiveStates, RetiredStates
  <2>4. ledger[i].state \in RetiredStates
    BY <2>1, <2>2, <2>3, FirstOpenFindsAllRetired
  <2>5. QED
    BY <2>4, AttachedIsNotOver
<1>2. QED
    BY <1>1, Invariant, PTL DEF Spec, FirstOpenFindsClients

(* Neither Kitty nor the client is started for a retired launch, with the  *)
(* same exception (actions._dispatch, viewer.run_viewer).                  *)
THEOREM NothingAfterRetirement == Spec => RetiredStartsNothing
<1> DEFINE Starting == \A i \in Instances :
                        \/ terminal'[i] = "alive" /\ terminal[i] = "none"
                        \/ client'[i] = "alive" /\ client[i] = "none"
                        => ledger[i].state \in ActiveStates \/ i \in misjudged
<1>1. Inv /\ [Next]_vars => [Starting]_vars
  <2> SUFFICES ASSUME Inv, Next, NEW i \in Instances,
                      \/ terminal'[i] = "alive" /\ terminal[i] = "none"
                      \/ client'[i] = "alive" /\ client[i] = "none"
               PROVE  ledger[i].state \in ActiveStates \/ i \in misjudged
    OBVIOUS
  <2> USE DEF Inv, TypeOK
  <2>1. ASSUME NEW p \in Pickers, SpawnKitty(p), i = picker[p].mine
        PROVE  Known(i) /\ ~Over(i)
    BY <2>1, LaunchAssumption DEF SpawnKitty, OwnerInv, At, Over, ProcessInv
  <2>2. ASSUME ClientStarts(i)
        PROVE  Known(i) /\ ~Over(i)
    BY <2>2 DEF ClientStarts, ProcessInv, Over
  <2>3. (\E p \in Pickers : SpawnKitty(p) /\ i = picker[p].mine) \/ ClientStarts(i)
    <3>1. ASSUME NEW p \in Pickers, Picker(p) \/ Stop(p)
          PROVE  SpawnKitty(p) /\ i = picker[p].mine
        BY <3>1 DEF Picker, Stop, Start, Judge, Apply, Choose, Settle, GoReserve, Focus, ReserveNew,
            ReserveJoins, Rejoin, PersistDispatch, SpawnKitty, DispatchFails, AckTerminal, procs
    <3>2. ASSUME NEW j \in Instances, Viewer(j) \/ Environment(j)
          PROVE  ClientStarts(i)
        BY <3>2 DEF Viewer, ViewerStarts, ViewerReads, ViewerAcks, ViewerFails, ClientStarts, AckClient,
            ReportExit, WaitFails, Dismissed, Environment, ClientExits, TerminalEnds
    <3>3. QED
        BY <3>1, <3>2 DEF Next
  <2>4. Known(i) /\ ~Over(i)
    BY <2>1, <2>2, <2>3
  <2>5. QED
    BY <2>4 DEF RetiredInv, Known
<1>2. QED
    BY <1>1, Invariant, PTL DEF Spec, RetiredStartsNothing

-----------------------------------------------------------------------------
(* How far DispatchedIsNotPresumedDead is violated.                        *)

(* A dispatched launch is found exited with neither of its processes gone  *)
(* only if the picker that dispatched it has ended: an Open in progress    *)
(* never loses the launch it is opening to another picker's reconcile,     *)
(* however old that one's copies are (registry.reconcile, owner.alive).    *)
OnlyOrphansArePresumedDead ==
    [][\A i \in Instances :
          ledger[i].state \in ActiveStates \ {"reserved"} /\ ledger'[i].state = "exited"
          => client[i] = "dead" \/ terminal[i] = "dead" \/ ~OwnerAlive(i)]_vars

THEOREM OwnedLaunchesAreSafe == Spec => OnlyOrphansArePresumedDead
<1> DEFINE Safe == \A i \in Instances :
                ledger[i].state \in ActiveStates \ {"reserved"} /\ ledger'[i].state = "exited"
                => client[i] = "dead" \/ terminal[i] = "dead" \/ ~OwnerAlive(i)
<1>1. Inv /\ [Next]_vars => [Safe]_vars
  <2> SUFFICES ASSUME Inv, Next, NEW k \in Instances,
                      ledger[k].state \in ActiveStates, ledger'[k].state = "exited"
               PROVE  client[k] = "dead" \/ terminal[k] = "dead" \/ ~OwnerAlive(k)
    OBVIOUS
  <2> USE DEF Inv, TypeOK, LedgerTypeOK
  <2>0. ledger'[k].state # ledger[k].state /\ ~UNCHANGED ledger
    BY DEF ActiveStates
  <2>1. ASSUME NEW i, NEW s, s # "exited", TriesToRecord(i, s)
        PROVE  FALSE
    BY <2>0, <2>1, RecordedState
  <2>2. ASSUME NEW i, NEW role, Acknowledged(i, role)
        PROVE  FALSE
    BY <2>0, <2>2, AcknowledgedState
  <2>3. ASSUME NEW i, NEW r, NEW a, NEW n, Reserve(i, r, a, n)
        PROVE  FALSE
    BY <2>0, <2>3 DEF Reserve
  <2>4. ASSUME NEW p \in Pickers, Apply(p)
        PROVE  client[k] = "dead" \/ terminal[k] = "dead" \/ ~OwnerAlive(k)
    <3>1. TriesToRecord(picker[p].at, picker[p].verdict)
        BY <2>4 DEF Apply, TriesToRecord
    <3>2. k = picker[p].at /\ picker[p].verdict = "exited"
        BY <2>0, <3>1, RecordedState
    <3>3. QED
        BY <2>4, <3>2 DEF VerdictInv, Apply
  <2>5. ASSUME NEW i \in Instances, ReportExit(i)
        PROVE  client[k] = "dead"
    <3>1. k = i
        BY <2>0, <2>5, RecordedState DEF ReportExit
    <3>2. QED
        BY <2>5, <3>1 DEF ReportExit
  <2>6. ASSUME NEW p \in Pickers, Picker(p) \/ Stop(p)
        PROVE  Apply(p)
    <3>1. Recorded(picker[p].mine, "dispatching") => TriesToRecord(picker[p].mine, "dispatching")
        BY DEF TriesToRecord
    <3>2. QED
        BY <2>0, <2>1, <2>2, <2>3, <2>6, <3>1 DEF Picker, Stop, Start, Judge, Choose, Settle, GoReserve,
            Focus, ReserveNew, ReserveJoins, Rejoin, PersistDispatch, SpawnKitty, DispatchFails,
            AckTerminal
  <2>7. ASSUME NEW i \in Instances, Viewer(i) \/ Environment(i)
        PROVE  ReportExit(i)
    BY <2>0, <2>1, <2>2, <2>7 DEF Viewer, ViewerStarts, ViewerReads, ViewerAcks, ViewerFails,
        ClientStarts, AckClient, WaitFails, Dismissed, Environment, ClientExits, TerminalEnds
  <2>8. QED
    BY <2>4, <2>5, <2>6, <2>7 DEF Next
<1>2. QED
    BY <1>1, Invariant, PTL DEF Spec, OnlyOrphansArePresumedDead
=============================================================================
