----------------------------- MODULE RegistryProofs -----------------------------
(***************************************************************************)
(* Proofs about the record files of one target: the inductive invariant,   *)
(* and what the files promise the callers: the replies a call can give,    *)
(* which launches they find, and the record limit.                         *)
(***************************************************************************)
EXTENDS Registry, FiniteSetTheorems, TLAPS

-----------------------------------------------------------------------------
(* The inductive invariant.                                                *)

(* What the names of the files say agrees with what the files hold.        *)
FilesInv ==
    /\ \A i \in Instances : active[i] # NoFile =>
            /\ active[i].inst = i
            /\ active[i].req = made[i]
            /\ active[i].state \in ActiveStates
    /\ \A r \in Requests : tomb[r] # NoFile =>
            /\ tomb[r].req = r
            /\ made[tomb[r].inst] = r
            /\ tomb[r].state \in RetiredStates
    /\ \A i \in Instances : index[i] # NoRequest => index[i] = made[i] /\ HasTomb(i)
    /\ \A i \in quarantined : active[i] = NoFile /\ made[i] # NoRequest

DamageInv ==
    /\ badActive \subseteq Files
    /\ \A r \in badTomb : tomb[r] # NoFile
    /\ \A i \in badIndex : index[i] # NoRequest

(* The call in progress was made for a launch or a request that exists ... *)
CallInv ==
    /\ job.call.op \in {"reserve", "find"} =>
            job.call.req \in Requests /\ tomb[job.call.req] = NoFile
    /\ job.call.op = "update" =>
            job.call.inst \in Instances /\ made[job.call.inst] # NoRequest

(* ... has listed exactly the files it has read, each with the verdict     *)
(* that its tombstone still supports ...                                   *)
ListInv ==
    /\ Files = job.todo \cup job.listed
    /\ job.todo \cap job.listed = {}
    /\ job.conflicts \subseteq job.listed
    /\ \A i \in job.listed : i \notin badActive

VerdictInv ==
    \A i \in job.listed :
        /\ i \in job.conflicts => Conflicts(i)
        /\ i \notin job.conflicts => Untombed(i)

(* ... and retires a launch of its own, in the order of _archive_record.   *)
RetireInv ==
    /\ job.rec \in Record
    /\ job.rec.inst \in Files \ badActive
    /\ job.rec.req = made[job.rec.inst]
    /\ job.rec.state \in RetiredStates
    /\ job.pc = "tomb" =>
            /\ job.todo = {}
            /\ job.call.op = "update"
            /\ job.call.inst = job.rec.inst
            /\ job.call.state \in RetiredStates
            /\ job.rec = Changed(active[job.rec.inst])
            /\ tomb[job.rec.req] = NoFile
    /\ job.pc # "tomb" =>
            tomb[job.rec.req] # NoFile /\ tomb[job.rec.req].inst = job.rec.inst
    /\ job.pc = "unlink" => index[job.rec.inst] = job.rec.req

JobInv ==
    Busy =>
        /\ CallInv
        /\ job.pc # "fault" => ListInv
        /\ job.pc = "scan" => VerdictInv
        /\ job.pc \in {"tomb", "index", "unlink"} =>
              RetireInv /\ (job.rec.inst \in job.todo => VerdictInv)

Inv == /\ TypeOK /\ FilesInv /\ DamageInv
       /\ EveryLaunchFindable /\ OneLaunchPerRequest
       /\ JobInv

-----------------------------------------------------------------------------
(* Facts about the forms the steps are built from.                         *)

LEMMA IdleIsNoJob ==
    /\ ~(Idle \in Job)
    /\ \A c : Started(c) # Idle
  BY DEF Idle, Job, Started

LEMMA CallsTyped ==
    ASSUME NEW c \in Calls, TypeOK
    PROVE  /\ c \in Call
           /\ c.op \in {"reserve", "find"} => c.req \in Requests
           /\ c.op = "update" => c.inst \in Instances /\ made[c.inst] # NoRequest
<1>1. CASE \E r \in Requests, a \in BOOLEAN : c = ReserveCall(r, a)
  BY <1>1 DEF ReserveCall, Call, Keep
<1>2. CASE \E r \in Requests : c = FindCall(r)
  BY <1>2 DEF FindCall, Call, Keep
<1>3. CASE c = RecordsCall
  BY <1>3 DEF RecordsCall, Call, Keep
<1>4. CASE \E i \in {j \in Instances : made[j] # NoRequest}, s \in CallStates :
                c = UpdateCall(i, s, {})
  BY <1>4 DEF UpdateCall, Call, Keep
<1>5. CASE \E i \in {j \in Instances : made[j] # NoRequest}, role \in Roles :
                c = UpdateCall(i, Keep, {role})
  BY <1>5 DEF UpdateCall, Call, Keep
<1> QED BY <1>1, <1>2, <1>3, <1>4, <1>5 DEF Calls

(* A step that ends the call and leaves the files alone.                   *)
LEMMA FinishInv ==
    ASSUME Inv, job' = Idle, UNCHANGED <<files, damage, made>>
    PROVE  Inv'
<1> USE DEF files, damage
<1>1. TypeOK' BY DEF Inv, TypeOK, Busy, Idle
<1>2. FilesInv' BY DEF Inv, FilesInv, HasTomb
<1>3. DamageInv' BY DEF Inv, DamageInv, Files
<1>4. EveryLaunchFindable' BY DEF Inv, EveryLaunchFindable, HasTomb
<1>5. OneLaunchPerRequest' BY DEF Inv, OneLaunchPerRequest
<1>6. JobInv' BY DEF JobInv, Busy
<1> QED BY <1>1, <1>2, <1>3, <1>4, <1>5, <1>6 DEF Inv

(* A step of the call that leaves the files alone keeps what is said of    *)
(* them.                                                                   *)
LEMMA QuietInv ==
    ASSUME Inv, UNCHANGED <<files, damage, made>>
    PROVE  /\ FilesInv' /\ DamageInv' /\ EveryLaunchFindable' /\ OneLaunchPerRequest'
           /\ Files' = Files
           /\ \A i \in Instances : /\ Untombed(i)' = Untombed(i)
                                   /\ TombedHere(i)' = TombedHere(i)
                                   /\ Conflicts(i)' = Conflicts(i)
           /\ job' \in Job \/ job' = Idle => TypeOK'
<1> USE DEF files, damage
<1>1. FilesInv' /\ EveryLaunchFindable' /\ OneLaunchPerRequest'
  BY DEF Inv, FilesInv, HasTomb, EveryLaunchFindable, OneLaunchPerRequest
<1>2. DamageInv' /\ Files' = Files BY DEF Inv, DamageInv, Files
<1>3. \A i \in Instances : /\ Untombed(i)' = Untombed(i)
                           /\ TombedHere(i)' = TombedHere(i)
                           /\ Conflicts(i)' = Conflicts(i)
  BY DEF Untombed, TombedHere, Conflicts
<1>4. job' \in Job \/ job' = Idle => TypeOK' BY DEF Inv, TypeOK, Busy
<1> QED BY <1>1, <1>2, <1>3, <1>4

-----------------------------------------------------------------------------
(* One lemma per step: it preserves the invariant.                         *)

LEMMA BeginScanInv == ASSUME Inv, NEW c \in Calls, BeginScan(c) PROVE Inv'
<1>1. job' = Started(c) /\ UNCHANGED <<files, damage, made>>
  BY DEF BeginScan
<1>2. job' \in Job
  BY <1>1, CallsTyped DEF Inv, Started, Job, Files
<1>3. /\ FilesInv' /\ DamageInv' /\ EveryLaunchFindable' /\ OneLaunchPerRequest'
      /\ TypeOK' /\ Files' = Files
  BY <1>1, <1>2, QuietInv
<1>4. JobInv'
  BY <1>1, <1>3, CallsTyped
     DEF Inv, BeginScan, NeedsScan, JobInv, CallInv, ListInv, VerdictInv, Started, files,
         damage
<1> QED BY <1>3, <1>4 DEF Inv

LEMMA ScanTombedInv == ASSUME Inv, NEW i \in Instances, ScanTombed(i) PROVE Inv'
<1> USE DEF ScanTombed, Scanning
<1>1. /\ Busy /\ job \in Job /\ UNCHANGED <<files, damage, made>>
      /\ i \in Files /\ active[i] \in Record /\ active[i].inst = i
      /\ tomb[active[i].req] \in Record
      /\ job' = [job EXCEPT !.pc = "index", !.rec = tomb[active[i].req]]
      /\ tomb[active[i].req].req = active[i].req /\ tomb[active[i].req].inst = i
      /\ active[i].req = made[i] /\ tomb[active[i].req].state \in RetiredStates
  BY DEF Inv, TypeOK, JobInv, ListInv, Files, FilesInv, TombedHere, Untombed, Record
<1>2. job' \in Job /\ Busy'
  BY <1>1 DEF Job, Busy, Idle
<1>3. /\ FilesInv' /\ DamageInv' /\ EveryLaunchFindable' /\ OneLaunchPerRequest'
      /\ TypeOK' /\ Files' = Files
      /\ \A j \in Instances : Untombed(j)' = Untombed(j) /\ Conflicts(j)' = Conflicts(j)
  BY <1>1, <1>2, QuietInv
<1>4. /\ job'.call = job.call /\ job'.todo = job.todo /\ job'.listed = job.listed
      /\ job'.conflicts = job.conflicts /\ job'.pc = "index"
      /\ job'.rec = tomb[active[i].req]
  BY <1>1 DEF Job
<1>5. CallInv' /\ ListInv' /\ VerdictInv'
  BY <1>1, <1>3, <1>4 DEF Inv, JobInv, CallInv, ListInv, VerdictInv, files, damage, Job
<1>6. RetireInv'
  BY <1>1, <1>3, <1>4 DEF RetireInv, files, damage, Files, Untombed, TombedHere
<1> QED BY <1>3, <1>4, <1>5, <1>6 DEF Inv, JobInv

LEMMA ScanConflictInv == ASSUME Inv, NEW i \in Instances, ScanConflict(i) PROVE Inv'
<1> USE DEF ScanConflict, Scanning
<1>1. /\ Busy /\ job \in Job /\ UNCHANGED <<files, damage, made>>
      /\ job' = [job EXCEPT !.todo = @ \ {i}, !.listed = @ \cup {i},
                            !.conflicts = @ \cup {i}]
  BY DEF Inv, TypeOK
<1>2. /\ job' \in Job /\ Busy'
      /\ job'.call = job.call /\ job'.todo = job.todo \ {i}
      /\ job'.listed = job.listed \cup {i}
      /\ job'.conflicts = job.conflicts \cup {i} /\ job'.pc = "scan"
  <2> DEFINE next == [job EXCEPT !.todo = job.todo \ {i}, !.listed = job.listed \cup {i},
                                 !.conflicts = job.conflicts \cup {i}]
  <2>0. /\ job.todo \ {i} \in SUBSET Instances
        /\ job.listed \cup {i} \in SUBSET Instances
        /\ job.conflicts \cup {i} \in SUBSET Instances
    BY <1>1 DEF Job
  <2>1. next \in Job
    BY <1>1, <2>0 DEF Job
  <2>2. Busy'
    BY <1>1, <2>1, IdleIsNoJob DEF Busy
  <2> QED BY <1>1, <2>1, <2>2 DEF Job
<1>3. /\ FilesInv' /\ DamageInv' /\ EveryLaunchFindable' /\ OneLaunchPerRequest'
      /\ TypeOK' /\ Files' = Files
      /\ \A j \in Instances : Untombed(j)' = Untombed(j) /\ Conflicts(j)' = Conflicts(j)
  BY <1>1, <1>2, QuietInv
<1>4. CallInv' /\ ListInv' /\ VerdictInv'
  BY <1>1, <1>2, <1>3 DEF Inv, JobInv, CallInv, ListInv, VerdictInv, files, damage, Job
<1> QED BY <1>2, <1>3, <1>4 DEF Inv, JobInv

LEMMA ScanActiveInv == ASSUME Inv, NEW i \in Instances, ScanActive(i) PROVE Inv'
<1> USE DEF ScanActive, Scanning
<1>1. /\ Busy /\ job \in Job /\ UNCHANGED <<files, damage, made>>
      /\ job' = [job EXCEPT !.todo = @ \ {i}, !.listed = @ \cup {i}]
  BY DEF Inv, TypeOK
<1>2. /\ job' \in Job /\ Busy'
      /\ job'.call = job.call /\ job'.todo = job.todo \ {i}
      /\ job'.listed = job.listed \cup {i}
      /\ job'.conflicts = job.conflicts /\ job'.pc = "scan"
  BY <1>1, ZenonT(60) DEF Job, Busy, Idle
<1>3. /\ FilesInv' /\ DamageInv' /\ EveryLaunchFindable' /\ OneLaunchPerRequest'
      /\ TypeOK' /\ Files' = Files
      /\ \A j \in Instances : Untombed(j)' = Untombed(j) /\ Conflicts(j)' = Conflicts(j)
  BY <1>1, <1>2, QuietInv
<1>4. CallInv' /\ ListInv' /\ VerdictInv'
  BY <1>1, <1>2, <1>3 DEF Inv, JobInv, CallInv, ListInv, VerdictInv, files, damage, Job
<1> QED BY <1>2, <1>3, <1>4 DEF Inv, JobInv

LEMMA QuarantineInv == ASSUME Inv, NEW i \in Instances, Quarantine(i) PROVE Inv'
<1> USE DEF Quarantine, Scanning
<1>1. /\ Busy /\ job \in Job /\ UNCHANGED <<tomb, index, fault, badTomb, badIndex, made>>
      /\ i \in Files /\ active[i] \in Record
      /\ made[i] = active[i].req /\ made[i] # NoRequest
      /\ active' = [active EXCEPT ![i] = NoFile]
      /\ job' = [job EXCEPT !.pc = "fault"]
  BY RegistryAssumption DEF Inv, TypeOK, JobInv, ListInv, Files, FilesInv, Record
<1>2. job' \in Job /\ Busy' /\ job'.call = job.call /\ job'.pc = "fault"
  <2>1. job' \in Job /\ job'.call = job.call /\ job'.pc = "fault"
    BY <1>1 DEF Job
  <2> QED BY <2>1, IdleIsNoJob DEF Busy
<1>3. TypeOK'
  BY <1>1, <1>2 DEF Inv, TypeOK
<1>4. FilesInv' /\ EveryLaunchFindable' /\ OneLaunchPerRequest'
  BY <1>1 DEF Inv, TypeOK, FilesInv, HasTomb, EveryLaunchFindable, OneLaunchPerRequest
<1>5. DamageInv'
  BY <1>1 DEF Inv, TypeOK, DamageInv, Files
<1>6. JobInv'
  BY <1>1, <1>2 DEF Inv, JobInv, CallInv
<1> QED BY <1>3, <1>4, <1>5, <1>6 DEF Inv

LEMMA MarkFaultInv == ASSUME Inv, MarkFault PROVE Inv'
<1> USE DEF MarkFault, Finish, Answer, damage
<1>1. TypeOK' BY DEF Inv, TypeOK, Busy
<1>2. FilesInv' /\ EveryLaunchFindable' /\ OneLaunchPerRequest'
  BY DEF Inv, FilesInv, HasTomb, EveryLaunchFindable, OneLaunchPerRequest
<1>3. DamageInv' BY DEF Inv, DamageInv, Files
<1>4. JobInv' BY DEF JobInv, Busy
<1> QED BY <1>1, <1>2, <1>3, <1>4 DEF Inv

(* The tombstone appears while the active file still stands.               *)
LEMMA WriteTombInv == ASSUME Inv, WriteTomb PROVE Inv'
<1> USE DEF WriteTomb, damage
<1>1. /\ Busy /\ job \in Job /\ RetireInv /\ CallInv /\ ListInv
      /\ job.pc = "tomb" /\ job.rec \in Record /\ job.rec # NoFile
      /\ job.rec.req \in Requests /\ job.rec.inst \in Instances
      /\ tomb[job.rec.req] = NoFile /\ job.todo = {}
      /\ job.call.op = "update"
      /\ tomb' = [tomb EXCEPT ![job.rec.req] = job.rec]
      /\ job' = [job EXCEPT !.pc = "index"]
      /\ UNCHANGED <<active, index, fault, quarantined, badActive, badTomb, badIndex, made>>
  BY NoFileAssumption DEF Inv, TypeOK, JobInv, RetireInv, Record
<1>2. /\ job' \in Job /\ Busy' /\ job'.pc = "index"
      /\ job'.call = job.call /\ job'.rec = job.rec /\ job'.todo = job.todo
      /\ job'.listed = job.listed /\ job'.conflicts = job.conflicts
  <2>1. job' \in Job /\ job'.pc = "index"
    BY <1>1 DEF Job
  <2>2. Busy' BY <2>1, IdleIsNoJob DEF Busy
  <2> QED BY <1>1, <2>1, <2>2 DEF Job
<1>3. TypeOK'
  BY <1>1, <1>2 DEF Inv, TypeOK
<1>4. \A i \in Instances : HasTomb(i) => HasTomb(i)'
  BY <1>1 DEF Inv, TypeOK, HasTomb
<1>5. FilesInv'
  <2>1. \A r \in Requests : tomb'[r] # NoFile =>
            /\ tomb'[r].req = r
            /\ made[tomb'[r].inst] = r
            /\ tomb'[r].state \in RetiredStates
    BY <1>1 DEF Inv, TypeOK, FilesInv, RetireInv
  <2> QED BY <1>1, <1>4, <2>1 DEF Inv, FilesInv
<1>6. EveryLaunchFindable' /\ OneLaunchPerRequest'
  BY <1>1, <1>4 DEF Inv, EveryLaunchFindable, OneLaunchPerRequest
<1>7. DamageInv'
  BY <1>1 DEF Inv, TypeOK, DamageInv, Files
<1>8. CallInv' /\ ListInv' /\ RetireInv'
  BY <1>1, <1>2 DEF Inv, TypeOK, CallInv, ListInv, RetireInv, Files
<1> QED BY <1>1, <1>2, <1>3, <1>5, <1>6, <1>7, <1>8 DEF Inv, JobInv

(* The index appears once the tombstone it leads to is there.              *)
LEMMA EnsureIndexInv == ASSUME Inv, EnsureIndex PROVE Inv'
<1> USE DEF EnsureIndex, damage
<1>1. /\ Busy /\ job \in Job /\ RetireInv /\ CallInv /\ ListInv
      /\ job.rec.inst \in job.todo => VerdictInv
      /\ job.pc = "index" /\ job.rec \in Record
      /\ job.rec.req \in Requests /\ job.rec.inst \in Instances
      /\ index' = [index EXCEPT ![job.rec.inst] = job.rec.req]
      /\ job' = [job EXCEPT !.pc = "unlink"]
      /\ UNCHANGED <<active, tomb, fault, quarantined, badActive, badTomb, badIndex, made>>
  BY DEF Inv, TypeOK, JobInv, RetireInv, Record
<1>2. /\ job' \in Job /\ Busy' /\ job'.pc = "unlink"
      /\ job'.call = job.call /\ job'.rec = job.rec /\ job'.todo = job.todo
      /\ job'.listed = job.listed /\ job'.conflicts = job.conflicts
  <2>1. job' \in Job /\ job'.pc = "unlink"
    BY <1>1 DEF Job
  <2>2. Busy' BY <2>1, IdleIsNoJob DEF Busy
  <2> QED BY <1>1, <2>1, <2>2 DEF Job
<1>3. TypeOK'
  BY <1>1, <1>2 DEF Inv, TypeOK
<1>4. FilesInv'
  BY <1>1, RegistryAssumption DEF Inv, TypeOK, FilesInv, RetireInv, HasTomb
<1>5. EveryLaunchFindable' /\ OneLaunchPerRequest'
  BY <1>1 DEF Inv, TypeOK, EveryLaunchFindable, OneLaunchPerRequest, HasTomb, RetireInv
<1>6. DamageInv'
  BY <1>1, RegistryAssumption DEF Inv, TypeOK, DamageInv, Files
<1>7. CallInv' /\ ListInv' /\ RetireInv'
  BY <1>1, <1>2 DEF Inv, TypeOK, CallInv, ListInv, RetireInv, Files
<1>8. job'.rec.inst \in job'.todo => VerdictInv'
  BY <1>1, <1>2 DEF VerdictInv, Conflicts, Untombed, TombedHere
<1> QED BY <1>1, <1>2, <1>3, <1>4, <1>5, <1>6, <1>7, <1>8 DEF Inv, JobInv

LEMMA NextFile ==
    ASSUME NEW j \in Job, NEW x
    PROVE  LET next == [j EXCEPT !.pc = "scan", !.todo = j.todo \ {x}, !.rec = NoFile]
           IN  /\ next \in Job /\ next # Idle
               /\ next.pc = "scan" /\ next.call = j.call /\ next.todo = j.todo \ {x}
               /\ next.listed = j.listed /\ next.conflicts = j.conflicts
<1> DEFINE next == [j EXCEPT !.pc = "scan", !.todo = j.todo \ {x}, !.rec = NoFile]
<1>1. j.todo \ {x} \in SUBSET Instances BY DEF Job
<1>2. NoFile \in Record \cup {NoFile} OBVIOUS
<1>3. next \in Job BY <1>1, <1>2 DEF Job
<1>4. next # Idle BY <1>3, IdleIsNoJob
<1>5. /\ next.pc = "scan" /\ next.call = j.call /\ next.todo = j.todo \ {x}
      /\ next.listed = j.listed /\ next.conflicts = j.conflicts
  BY DEF Job
<1> QED BY <1>3, <1>4, <1>5

(* The active file goes once both of the others are there.                 *)
LEMMA UnlinkInv == ASSUME Inv, Unlink PROVE Inv'
<1> DEFINE x == job.rec.inst
<1> USE DEF Unlink, damage
<1>1. /\ Busy /\ job \in Job /\ RetireInv /\ CallInv /\ ListInv
      /\ x \in job.todo => VerdictInv
      /\ job.rec \in Record /\ x \in Instances /\ x \in Files /\ x \notin badActive
      /\ HasTomb(x) /\ index[x] = made[x]
      /\ active' = [active EXCEPT ![x] = NoFile]
      /\ UNCHANGED <<tomb, index, fault, quarantined, badActive, badTomb, badIndex, made>>
  BY RegistryAssumption DEF Inv, TypeOK, JobInv, RetireInv, Record, HasTomb
<1>2. ASSUME x \in job.todo PROVE JobInv'
  <2>1. job' = [job EXCEPT !.pc = "scan", !.todo = job.todo \ {x}, !.rec = NoFile]
    BY <1>2
  <2>2. Busy'
    BY <1>1, <2>1, NextFile DEF Busy
  <2>3. /\ job'.pc = "scan" /\ job'.call = job.call /\ job'.todo = job.todo \ {x}
        /\ job'.listed = job.listed /\ job'.conflicts = job.conflicts
    BY <1>1, <2>1, NextFile
  <2>4. CallInv' /\ ListInv'
    BY <1>1, <1>2, <2>3 DEF Inv, TypeOK, CallInv, ListInv, Files
  <2>5. VerdictInv'
    BY <1>1, <1>2, <2>3
       DEF Inv, TypeOK, ListInv, Files, VerdictInv, Conflicts, Untombed, TombedHere
  <2> QED BY <2>2, <2>3, <2>4, <2>5 DEF JobInv
<1>3. ASSUME x \notin job.todo PROVE JobInv'
  BY <1>3 DEF Finish, Answer, JobInv, Busy
<1>4. TypeOK'
  <2>1. Busy' => job' \in Job
    <3>1. CASE x \in job.todo
      <4>1. job' = [job EXCEPT !.pc = "scan", !.todo = job.todo \ {x}, !.rec = NoFile]
        BY <3>1
      <4> QED BY <1>1, <4>1, NextFile
    <3>2. CASE x \notin job.todo
      BY <3>2 DEF Finish, Answer, Busy
    <3> QED BY <3>1, <3>2
  <2> QED BY <1>1, <2>1 DEF Inv, TypeOK
<1>5. FilesInv'
  BY <1>1 DEF Inv, TypeOK, FilesInv, HasTomb
<1>6. EveryLaunchFindable' /\ OneLaunchPerRequest'
  BY <1>1 DEF Inv, TypeOK, EveryLaunchFindable, OneLaunchPerRequest, HasTomb
<1>7. DamageInv'
  BY <1>1 DEF Inv, TypeOK, DamageInv, Files
<1>8. JobInv' BY <1>2, <1>3
<1> QED BY <1>4, <1>5, <1>6, <1>7, <1>8 DEF Inv

LEMMA ReserveCreateInv == ASSUME Inv, ReserveCreate PROVE Inv'
<1> USE DEF ReserveCreate, Creates, Acting, damage
<1>1. PICK i \in Instances, n \in 1..MaxRecords :
        /\ made[i] = NoRequest
        /\ active' = [active EXCEPT ![i] =
                        [inst |-> i, req |-> job.call.req, ord |-> n,
                         state |-> "reserved", ev |-> {}]]
        /\ made' = [made EXCEPT ![i] = job.call.req]
        /\ Finish("created", i)
  OBVIOUS
<1> DEFINE r == job.call.req
           new == [inst |-> i, req |-> r, ord |-> n, state |-> "reserved", ev |-> {}]
<1>2. /\ job' = Idle /\ UNCHANGED <<tomb, index, fault, quarantined, badActive, badTomb, badIndex>>
      /\ r \in Requests /\ tomb[r] = NoFile /\ r # NoRequest
      /\ ListInv /\ Files = job.listed /\ Listed(r) = {}
  BY <1>1, RegistryAssumption DEF Finish, Answer, Inv, JobInv, CallInv, ListInv
<1>3. new \in Record /\ new.inst = i /\ new.req = r /\ new.state = "reserved" /\ new # NoFile
  BY <1>2, NoFileAssumption DEF Record, ActiveStates
<1>4. active' = [active EXCEPT ![i] = new] /\ made' = [made EXCEPT ![i] = r]
  BY <1>1
<1> HIDE DEF new
<1>5. TypeOK'
  BY <1>2, <1>3, <1>4 DEF Inv, TypeOK, Busy
<1>6. \A j \in Instances : HasTomb(j) => HasTomb(j)' /\ j # i
  BY <1>1, <1>2, <1>4 DEF Inv, TypeOK, HasTomb
<1>7. FilesInv'
  <2>1. \A j \in Instances : active'[j] # NoFile =>
            /\ active'[j].inst = j
            /\ active'[j].req = made'[j]
            /\ active'[j].state \in ActiveStates
    BY <1>3, <1>4 DEF Inv, TypeOK, FilesInv, ActiveStates
  <2>2. \A s \in Requests : tomb[s] # NoFile => tomb[s].inst # i /\ tomb[s].inst \in Instances
    BY <1>1, RegistryAssumption DEF Inv, TypeOK, FilesInv, Record
  <2>3. index[i] = NoRequest /\ i \notin quarantined
    BY <1>1 DEF Inv, TypeOK, FilesInv
  <2> QED BY <1>2, <1>4, <1>6, <2>1, <2>2, <2>3 DEF Inv, TypeOK, FilesInv
<1>8. EveryLaunchFindable'
  BY <1>2, <1>3, <1>4, <1>6 DEF Inv, TypeOK, EveryLaunchFindable
<1>9. \A j \in Instances : made[j] = r => j \in quarantined
  BY <1>2 DEF Inv, EveryLaunchFindable, FilesInv, Files, Listed, HasTomb
<1>10. OneLaunchPerRequest'
  BY <1>2, <1>4, <1>9 DEF Inv, TypeOK, OneLaunchPerRequest
<1>11. DamageInv'
  BY <1>2, <1>3, <1>4, ZenonT(60) DEF Inv, TypeOK, DamageInv, Files
<1>12. JobInv'
  BY <1>2 DEF JobInv, Busy
<1> QED BY <1>5, <1>7, <1>8, <1>10, <1>11, <1>12 DEF Inv

(* What an update makes of a record is a record of the same launch.        *)
LEMMA ChangedRecord ==
    ASSUME NEW record \in Record, job \in Job
    PROVE  /\ Changed(record) \in Record
           /\ Changed(record).inst = record.inst /\ Changed(record).req = record.req
           /\ Changed(record).ord = record.ord
           /\ Changed(record).ev = record.ev \cup job.call.ev
           /\ Changed(record).state
                = IF job.call.state = Keep THEN record.state ELSE job.call.state
  BY RegistryAssumption DEF Changed, Record, Job, Call

LEMMA UpdateActiveInv == ASSUME Inv, NEW i \in Instances, UpdateActive(i) PROVE Inv'
<1> USE DEF UpdateActive, Updates, Acting, damage
<1> DEFINE new == Changed(active[i])
<1>1. /\ job \in Job /\ i \in Files /\ active[i] \in Record
      /\ active[i].inst = i /\ active[i].req = made[i]
      /\ active' = [active EXCEPT ![i] = new]
      /\ new.state \in ActiveStates
      /\ job' = Idle
      /\ UNCHANGED <<tomb, index, fault, quarantined, badActive, badTomb, badIndex, made>>
  BY DEF Finish, Answer, Inv, TypeOK, JobInv, ListInv, FilesInv, Files
<1>2. new \in Record /\ new.inst = i /\ new.req = made[i] /\ new # NoFile
  BY <1>1, ChangedRecord, NoFileAssumption
<1> HIDE DEF new
<1>3. TypeOK'
  BY <1>1, <1>2 DEF Inv, TypeOK, Busy
<1>4. FilesInv' /\ EveryLaunchFindable' /\ OneLaunchPerRequest'
  BY <1>1, <1>2
     DEF Inv, TypeOK, FilesInv, HasTomb, EveryLaunchFindable, OneLaunchPerRequest, Files
<1>5. DamageInv'
  BY <1>1, <1>2 DEF Inv, TypeOK, DamageInv, Files
<1>6. JobInv'
  BY <1>1 DEF JobInv, Busy
<1> QED BY <1>3, <1>4, <1>5, <1>6 DEF Inv

LEMMA UpdateRetiresInv == ASSUME Inv, NEW i \in Instances, UpdateRetires(i) PROVE Inv'
<1> USE DEF UpdateRetires, Updates, Acting
<1> DEFINE new == Changed(active[i])
<1>1. /\ Busy /\ job \in Job /\ i \in Files \ badActive /\ active[i] \in Record
      /\ CallInv /\ ListInv /\ job.todo = {} /\ Untombed(i)
      /\ job.call.op = "update" /\ job.call.inst = i
      /\ active[i].inst = i /\ active[i].req = made[i] /\ active[i].state \in ActiveStates
      /\ new.state \in RetiredStates
      /\ job' = [job EXCEPT !.pc = "tomb", !.rec = new]
      /\ UNCHANGED <<files, damage, made>>
  BY DEF Inv, TypeOK, JobInv, ListInv, VerdictInv, FilesInv, Files
<1>2. /\ new \in Record /\ new.inst = i /\ new.req = made[i]
      /\ job.call.state \in RetiredStates
  BY <1>1, ChangedRecord DEF ActiveStates, RetiredStates
<1>3. Changed(active[i])' = new
  BY <1>1 DEF Changed, Job, files
<1> HIDE DEF new
<1>4. /\ job' \in Job /\ Busy' /\ job'.pc = "tomb"
      /\ job'.call = job.call /\ job'.rec = new /\ job'.todo = job.todo
      /\ job'.listed = job.listed /\ job'.conflicts = job.conflicts
  <2>1. job' \in Job /\ job'.pc = "tomb"
    BY <1>1, <1>2 DEF Job
  <2>2. Busy' BY <2>1, IdleIsNoJob DEF Busy
  <2> QED BY <1>1, <2>1, <2>2 DEF Job
<1>5. /\ FilesInv' /\ DamageInv' /\ EveryLaunchFindable' /\ OneLaunchPerRequest'
      /\ TypeOK' /\ Files' = Files
  BY <1>1, <1>4, QuietInv
<1>6. CallInv' /\ ListInv'
  BY <1>1, <1>4, <1>5 DEF CallInv, ListInv, files, damage
<1>7. RetireInv'
  BY <1>1, <1>2, <1>3, <1>4, <1>5 DEF RetireInv, Untombed, files, damage
<1> QED BY <1>1, <1>4, <1>5, <1>6, <1>7 DEF Inv, JobInv

LEMMA UpdateRetiredInv == ASSUME Inv, NEW i \in Instances, UpdateRetired(i) PROVE Inv'
<1> USE DEF UpdateRetired, Updates, Acting, damage
<1> DEFINE r == index[i]
           new == [tomb[r] EXCEPT !.ev = @ \cup job.call.ev]
<1>1. /\ job \in Job /\ r \in Requests /\ tomb[r] \in Record /\ tomb[r].inst = i
      /\ tomb' = [tomb EXCEPT ![r] = new]
      /\ job' = Idle
      /\ UNCHANGED <<active, index, fault, quarantined, badActive, badTomb, badIndex, made>>
  BY DEF Finish, Answer, Inv, TypeOK, Indexed
<1>2. /\ new \in Record /\ new.inst = i /\ new.req = tomb[r].req
      /\ new.state = tomb[r].state /\ new # NoFile
  BY <1>1, NoFileAssumption DEF Record, Job, Call
<1> HIDE DEF new
<1>3. TypeOK'
  BY <1>1, <1>2 DEF Inv, TypeOK, Busy
<1>4. \A j \in Instances : HasTomb(j) => HasTomb(j)'
  <2> SUFFICES ASSUME NEW j \in Instances, HasTomb(j) PROVE HasTomb(j)'
    OBVIOUS
  <2>1. made[j] \in Requests /\ made'[j] = made[j]
    BY <1>1 DEF Inv, TypeOK, HasTomb
  <2>2. CASE made[j] = r
    <3>1. tomb'[r] = new BY <1>1 DEF Inv, TypeOK
    <3>2. j = i BY <1>1, <2>2 DEF HasTomb
    <3> QED BY <1>2, <2>1, <2>2, <3>1, <3>2 DEF HasTomb
  <2>3. CASE made[j] # r
    BY <1>1, <2>1, <2>3 DEF Inv, TypeOK, HasTomb
  <2> QED BY <2>2, <2>3
<1>5. FilesInv'
  <2>1. \A s \in Requests : tomb'[s] # NoFile =>
            /\ tomb'[s].req = s
            /\ made[tomb'[s].inst] = s
            /\ tomb'[s].state \in RetiredStates
    BY <1>1, <1>2 DEF Inv, TypeOK, FilesInv, Indexed
  <2> QED BY <1>1, <1>4, <2>1 DEF Inv, FilesInv
<1>6. EveryLaunchFindable' /\ OneLaunchPerRequest'
  BY <1>1, <1>4 DEF Inv, EveryLaunchFindable, OneLaunchPerRequest
<1>7. DamageInv'
  BY <1>1, <1>2 DEF Inv, TypeOK, DamageInv, Files
<1>8. JobInv'
  BY <1>1 DEF JobInv, Busy
<1> QED BY <1>3, <1>5, <1>6, <1>7, <1>8 DEF Inv

LEMMA DamageStepInv == ASSUME Inv, Damage PROVE Inv'
<1> USE DEF Damage, files
<1>1. ~Busy /\ ~Busy' BY DEF Busy
<1>2. TypeOK' BY <1>1 DEF Inv, TypeOK, Files
<1>3. FilesInv' /\ EveryLaunchFindable' /\ OneLaunchPerRequest'
  BY DEF Inv, FilesInv, HasTomb, EveryLaunchFindable, OneLaunchPerRequest
<1>4. DamageInv' BY DEF Inv, DamageInv, Files
<1>5. JobInv' BY <1>1 DEF JobInv
<1> QED BY <1>2, <1>3, <1>4, <1>5 DEF Inv

-----------------------------------------------------------------------------
(* Every step preserves the invariant.                                     *)

LEMMA InitInv == Init => Inv
  BY RegistryAssumption
     DEF Init, Inv, TypeOK, FilesInv, DamageInv, EveryLaunchFindable, OneLaunchPerRequest,
         JobInv, Busy, Files

LEMMA StepInv == Inv /\ [Next]_vars => Inv'
<1> SUFFICES ASSUME Inv, [Next]_vars PROVE Inv'
  OBVIOUS
<1>1. CASE UNCHANGED vars
  <2>1. CASE job = Idle
    BY <1>1, <2>1, FinishInv DEF vars
  <2>2. CASE job # Idle
    <3>1. UNCHANGED <<files, damage, made>> /\ UNCHANGED job
      BY <1>1 DEF vars
    <3>2. job' \in Job
      BY <2>2, <3>1 DEF Inv, TypeOK, Busy
    <3>3. JobInv'
      BY <3>1, <2>2, QuietInv
         DEF Inv, JobInv, CallInv, ListInv, VerdictInv, RetireInv, Changed, Conflicts,
             Untombed, TombedHere, Busy, Files, files, damage
    <3> QED BY <3>1, <3>2, <3>3, QuietInv DEF Inv
  <2> QED BY <2>1, <2>2
<1>2. CASE Begin
  BY <1>2, BeginScanInv, FinishInv DEF Begin, BeginReplay, BeginRefused, Answer
<1>3. CASE Scan
  BY <1>3, QuarantineInv, ScanTombedInv, ScanConflictInv, ScanActiveInv DEF Scan
<1>4. CASE MarkFault
  BY <1>4, MarkFaultInv
<1>5. CASE Retire
  BY <1>5, WriteTombInv, EnsureIndexInv, UnlinkInv, FinishInv
     DEF Retire, IndexUnreadable, Finish, Answer
<1>6. CASE Act
  <2>1. CASE ReturnRecords \/ ReturnFound \/ ReserveReplay \/ ReserveJoin \/ ReserveFull
    BY <2>1, FinishInv
       DEF ReturnRecords, ReturnFound, ReserveReplay, ReserveJoin, ReserveFull, Finish, Answer
  <2>2. CASE ReserveCreate
    BY <2>2, ReserveCreateInv
  <2>3. ASSUME NEW i \in Instances,
               UpdateConflict(i) \/ UpdateActive(i) \/ UpdateRetires(i)
                  \/ UpdateRetired(i) \/ UpdateMissing(i)
        PROVE  Inv'
    BY <2>3, UpdateActiveInv, UpdateRetiresInv, UpdateRetiredInv, FinishInv
       DEF UpdateConflict, UpdateMissing, Finish, Answer
  <2> QED BY <1>6, <2>1, <2>2, <2>3 DEF Act
<1>7. CASE Abandon
  BY <1>7, FinishInv DEF Abandon
<1>8. CASE Damage
  BY <1>8, DamageStepInv
<1> QED BY <1>1, <1>2, <1>3, <1>4, <1>5, <1>6, <1>7, <1>8 DEF Next

-----------------------------------------------------------------------------
(* The invariant holds of every reachable state, whatever the number of    *)
(* instances, requests and damaged files.                                  *)
THEOREM Invariant == Spec => []Inv
<1> QED BY InitInv, StepInv, PTL DEF Spec

(* Every file and every call in progress has its type.                     *)
THEOREM TypeCorrect == Spec => []TypeOK
<1>1. Inv => TypeOK BY DEF Inv
<1> QED BY <1>1, Invariant, PTL

(* Whatever write of a retirement a crash interrupts, every launch can     *)
(* still be found, unless its record was quarantined.                      *)
THEOREM Findable == Spec => []EveryLaunchFindable
<1>1. Inv => EveryLaunchFindable BY DEF Inv
<1> QED BY <1>1, Invariant, PTL

(* A request replayed any number of times, between any crashes, has one    *)
(* launch.                                                                 *)
THEOREM OneLaunch == Spec => []OneLaunchPerRequest
<1>1. Inv => OneLaunchPerRequest BY DEF Inv
<1> QED BY <1>1, Invariant, PTL

-----------------------------------------------------------------------------
(* Replies.                                                                *)

(* A tombstone belongs to the launch of its request; any other launch of   *)
(* that request has been quarantined.                                      *)
TombOwner ==
    \A i \in Instances :
        made[i] # NoRequest /\ tomb[made[i]] # NoFile =>
            tomb[made[i]].inst = i \/ i \in quarantined

(* No reply is pending while a call is in progress, and the last reply     *)
(* told the truth.                                                         *)
ReplyInv ==
    /\ Busy => reply = NoReply
    /\ CorruptTombstoneIsIsolated
    /\ NoneMeansQuarantined
    /\ NeverJoinsRetired

LEMMA TombOwnerStep ==
    ASSUME Inv, TombOwner, [Next]_vars
    PROVE  TombOwner'
<1> SUFFICES ASSUME ~UNCHANGED <<tomb, made, quarantined>> PROVE TombOwner'
  BY DEF TombOwner
<1>1. \/ \E i \in Instances : Quarantine(i) \/ UpdateRetired(i)
      \/ WriteTomb \/ ReserveCreate
  BY DEF Next, vars, files, damage, Begin, BeginReplay, BeginRefused, BeginScan, Scan,
         ScanTombed, ScanConflict, ScanActive, MarkFault, Retire, EnsureIndex,
         IndexUnreadable, Unlink, Act, ReturnRecords, ReturnFound, ReserveReplay,
         ReserveJoin, ReserveFull, UpdateConflict, UpdateActive, UpdateRetires,
         UpdateMissing, Abandon, Damage
<1>2. ASSUME NEW i \in Instances, Quarantine(i) PROVE TombOwner'
  BY <1>2 DEF Quarantine, TombOwner
<1>3. ASSUME NEW i \in Instances, UpdateRetired(i) PROVE TombOwner'
  BY <1>3 DEF UpdateRetired, Indexed, TombOwner, Inv, TypeOK, Record
<1>4. CASE WriteTomb
  <2>1. /\ RetireInv /\ job.rec \in Record /\ job.rec.inst \in Files
        /\ job.rec.req \in Requests
        /\ made[job.rec.inst] = job.rec.req /\ job.rec.inst \notin quarantined
        /\ tomb' = [tomb EXCEPT ![job.rec.req] = job.rec]
        /\ UNCHANGED <<made, quarantined>>
    BY <1>4 DEF WriteTomb, Inv, JobInv, RetireInv, FilesInv, Files, Record
  <2>2. \A i \in Instances : made[i] = job.rec.req => i = job.rec.inst \/ i \in quarantined
    BY <2>1, RegistryAssumption DEF Inv, OneLaunchPerRequest, Files
  <2> QED BY <2>1, <2>2 DEF TombOwner, Inv, TypeOK
<1>5. CASE ReserveCreate
  <2>1. tomb[job.call.req] = NoFile
    BY <1>5 DEF ReserveCreate, Creates, Acting, Inv, JobInv, CallInv
  <2> QED BY <1>5, <2>1 DEF ReserveCreate, Creates, Acting, TombOwner, Inv, TypeOK
<1> QED BY <1>1, <1>2, <1>3, <1>4, <1>5

(* Most replies make no claim that could turn out wrong.                   *)
Claims == {"request_archive_corrupt", "instance_missing", "not found", "joined"}

LEMMA Unclaimed ==
    \A c, result, i : result \notin Claims /\ Answer(c, result, i) => ReplyInv'
<1> SUFFICES ASSUME NEW c, NEW result, NEW i, result \notin Claims, Answer(c, result, i)
             PROVE  ReplyInv'
  OBVIOUS
<1> QED BY DEF Claims, Answer, ReplyInv, Busy, CorruptTombstoneIsIsolated,
        NoneMeansQuarantined, NeverJoinsRetired

LEMMA NotReplied == reply' = NoReply => ReplyInv'
<1> SUFFICES ASSUME reply' = NoReply PROVE ReplyInv'
  OBVIOUS
<1>1. NoReply.result = "none yet" BY DEF NoReply
<1> QED BY <1>1 DEF ReplyInv, CorruptTombstoneIsIsolated, NoneMeansQuarantined,
        NeverJoinsRetired

LEMMA UpdateConflictReply ==
    ASSUME Inv, TombOwner, NEW i \in Instances, UpdateConflict(i)
    PROVE  ReplyInv'
<1> USE DEF UpdateConflict, Updates, Acting, files, damage
<1>1. /\ i \in job.listed /\ Conflicts(i) /\ job.call.inst = i /\ job.call.op = "update"
      /\ i \in Files /\ active[i].req = made[i] /\ i \notin quarantined
      /\ made[i] # NoRequest
  BY DEF Inv, JobInv, CallInv, ListInv, VerdictInv, FilesInv, Files
<1>2. made[i] \in badTomb
  BY <1>1 DEF TombOwner, Conflicts, Untombed, TombedHere
<1>3. /\ job' = Idle /\ reply' = [call |-> job.call, result |-> "request_archive_corrupt",
                                  inst |-> NoInstance]
      /\ UNCHANGED <<made, badTomb>>
  BY DEF Finish, Answer
<1> QED BY <1>1, <1>2, <1>3 DEF ReplyInv, Busy, CorruptTombstoneIsIsolated,
        NoneMeansQuarantined, NeverJoinsRetired, CallRequest

LEMMA UpdateMissingReply ==
    ASSUME Inv, NEW i \in Instances, UpdateMissing(i)
    PROVE  ReplyInv'
<1> USE DEF UpdateMissing, Updates, Acting, files, damage
<1>1. /\ job.call.inst = i /\ job.call.op = "update" /\ made[i] # NoRequest
      /\ i \notin Files /\ UNCHANGED <<made, badTomb, quarantined>> /\ job' = Idle
  BY DEF Inv, JobInv, CallInv, ListInv, Finish, Answer
<1>2. CASE i \notin badIndex /\ index[i] = NoRequest
  <2>1. i \in quarantined
    BY <1>1, <1>2 DEF Inv, EveryLaunchFindable, Files
  <2>2. reply' = [call |-> job.call, result |-> "instance_missing", inst |-> NoInstance]
    <3>1. NoRequest \notin badTomb
      BY RegistryAssumption DEF Inv, TypeOK
    <3> QED BY <1>2, <3>1 DEF Finish, Answer
  <2> QED BY <1>1, <2>1, <2>2 DEF ReplyInv, Busy, CorruptTombstoneIsIsolated,
          NoneMeansQuarantined, NeverJoinsRetired
<1>3. CASE i \notin badIndex /\ index[i] # NoRequest /\ index[i] \in badTomb
  <2>1. made[i] \in badTomb
    BY <1>3 DEF Inv, FilesInv
  <2>2. reply' = [call |-> job.call, result |-> "request_archive_corrupt", inst |-> NoInstance]
    BY <1>3 DEF Finish, Answer
  <2> QED BY <1>1, <2>1, <2>2 DEF ReplyInv, Busy, CorruptTombstoneIsIsolated,
          NoneMeansQuarantined, NeverJoinsRetired, CallRequest
<1>4. CASE i \in badIndex \/ (index[i] # NoRequest /\ index[i] \notin badTomb)
  <2>1. Finish("instance_archive_corrupt", NoInstance)
    BY <1>4
  <2> QED BY <2>1, Unclaimed DEF Finish, Claims
<1> QED BY <1>2, <1>3, <1>4

(* A request without a tombstone that no listed record names has, at most, *)
(* launches that were quarantined.                                         *)
LEMMA UnlistedRequest ==
    ASSUME Inv, NEW r \in Requests, tomb[r] = NoFile, Files = job.listed, Listed(r) = {}
    PROVE  \A i \in Instances : made[i] = r => i \in quarantined
<1> SUFFICES ASSUME NEW i \in Instances, made[i] = r PROVE i \in quarantined
  OBVIOUS
<1>1. r # NoRequest BY RegistryAssumption
<1>2. i \notin Files BY DEF Inv, FilesInv, Files, Listed
<1> QED BY <1>1, <1>2 DEF Inv, EveryLaunchFindable, Files, HasTomb

LEMMA ReturnFoundReply == ASSUME Inv, ReturnFound PROVE ReplyInv'
<1> USE DEF ReturnFound, Acting, files, damage
<1>1. CASE \E i \in Listed(job.call.req) : Finish("replayed", i)
  BY <1>1, Unclaimed DEF Finish, Claims
<1>2. CASE Listed(job.call.req) = {} /\ Finish("not found", NoInstance)
  <2>1. /\ tomb[job.call.req] = NoFile /\ Files = job.listed
        /\ UNCHANGED <<made, quarantined>> /\ job' = Idle
    BY <1>2 DEF Inv, JobInv, CallInv, ListInv, Finish, Answer
  <2>2. \A i \in Instances : made[i] = job.call.req => i \in quarantined
    <3>1. job.call.req \in Requests
      BY DEF Inv, JobInv, CallInv
    <3> QED BY <1>2, <2>1, <3>1, UnlistedRequest
  <2>3. reply' = [call |-> job.call, result |-> "not found", inst |-> NoInstance]
    BY <1>2 DEF Finish, Answer
  <2> QED BY <2>1, <2>2, <2>3 DEF ReplyInv, Busy, CorruptTombstoneIsIsolated,
          NoneMeansQuarantined, NeverJoinsRetired
<1> QED BY <1>1, <1>2

LEMMA ReserveJoinReply == ASSUME Inv, ReserveJoin PROVE ReplyInv'
<1> USE DEF ReserveJoin, Joins, Acting, files, damage
<1>1. ASSUME NEW i \in job.listed, Finish("joined", i) PROVE ReplyInv'
  <2>1. /\ i \in Instances /\ active[i].req = made[i]
        /\ Conflicts(i) \/ Untombed(i)
        /\ UNCHANGED <<made, tomb, badTomb>> /\ job' = Idle
    BY <1>1 DEF Inv, TypeOK, JobInv, ListInv, VerdictInv, FilesInv, Files, Finish, Answer
  <2>2. HasTomb(i) => made[i] \in badTomb
    BY <2>1 DEF HasTomb, Conflicts, Untombed, TombedHere
  <2>3. reply' = [call |-> job.call, result |-> "joined", inst |-> i]
    BY <1>1 DEF Finish, Answer
  <2> QED BY <2>1, <2>2, <2>3 DEF ReplyInv, Busy, CorruptTombstoneIsIsolated,
          NoneMeansQuarantined, NeverJoinsRetired, HasTomb
<1>2. CASE Finish("multiple_instances_refresh", NoInstance)
  BY <1>2, Unclaimed DEF Finish, Claims
<1> QED BY <1>1, <1>2

LEMMA BeginReplayReply == ASSUME NEW c \in Calls, BeginReplay(c) PROVE ReplyInv'
<1> USE DEF BeginReplay, files, damage
<1>1. CASE c.req \in badTomb
  <2>1. /\ reply' = [call |-> c, result |-> "request_archive_corrupt", inst |-> NoInstance]
        /\ job' = Idle /\ UNCHANGED <<made, badTomb>>
    BY <1>1 DEF Answer
  <2> QED BY <1>1, <2>1 DEF ReplyInv, Busy, CorruptTombstoneIsIsolated,
          NoneMeansQuarantined, NeverJoinsRetired, CallRequest
<1>2. CASE c.req \notin badTomb
  <2>1. \E i : Answer(c, "replayed", i) BY <1>2
  <2> QED BY <2>1, Unclaimed DEF Claims
<1> QED BY <1>1, <1>2

LEMMA ReplyStep ==
    ASSUME Inv, TombOwner, ReplyInv, [Next]_vars
    PROVE  ReplyInv'
<1>1. CASE UNCHANGED vars
  BY <1>1 DEF vars, files, damage, ReplyInv, Busy, CorruptTombstoneIsIsolated,
     NoneMeansQuarantined, NeverJoinsRetired, CallRequest, HasTomb
<1>2. CASE Begin
  <2> PICK c \in Calls : BeginReplay(c) \/ BeginRefused(c) \/ BeginScan(c)
    BY <1>2 DEF Begin
  <2>1. CASE BeginReplay(c) BY <2>1, BeginReplayReply
  <2>2. CASE BeginRefused(c)
    <3>1. Refusal \notin Claims BY DEF Refusal, Claims
    <3>2. \E result, i : result \notin Claims /\ Answer(c, result, i)
      BY <2>2, <3>1 DEF BeginRefused
    <3> QED BY <3>2, Unclaimed
  <2>3. CASE BeginScan(c) BY <2>3, NotReplied DEF BeginScan
  <2> QED BY <2>1, <2>2, <2>3
<1>3. CASE Scan
  BY <1>3, NotReplied
     DEF Scan, Quarantine, ScanTombed, ScanConflict, ScanActive, Scanning, ReplyInv
<1>4. CASE MarkFault
  BY <1>4, Unclaimed DEF MarkFault, Finish, Claims
<1>5. CASE Retire
  <2>1. CASE WriteTomb \/ EnsureIndex
    BY <2>1, NotReplied DEF WriteTomb, EnsureIndex, ReplyInv
  <2>2. CASE IndexUnreadable
    BY <2>2, Unclaimed DEF IndexUnreadable, Finish, Claims
  <2>3. CASE Unlink
    <3>1. Busy BY <2>3 DEF Unlink
    <3>2. UNCHANGED reply \/ \E c, i : Answer(c, "updated", i)
      BY <2>3 DEF Unlink, Finish
    <3> QED BY <3>1, <3>2, Unclaimed, NotReplied DEF Claims, ReplyInv
  <2> QED BY <1>5, <2>1, <2>2, <2>3 DEF Retire
<1>6. CASE Act
  <2>1. CASE ReturnRecords \/ ReserveReplay \/ ReserveFull \/ ReserveCreate
    BY <2>1, Unclaimed
       DEF ReturnRecords, ReserveReplay, ReserveFull, ReserveCreate, Finish, Claims
  <2>2. CASE ReturnFound BY <2>2, ReturnFoundReply
  <2>3. CASE ReserveJoin BY <2>3, ReserveJoinReply
  <2>4. ASSUME NEW i \in Instances,
               UpdateConflict(i) \/ UpdateActive(i) \/ UpdateRetires(i)
                  \/ UpdateRetired(i) \/ UpdateMissing(i)
        PROVE  ReplyInv'
    <3>1. CASE UpdateConflict(i) BY <3>1, UpdateConflictReply
    <3>2. CASE UpdateActive(i) \/ UpdateRetired(i)
      BY <3>2, Unclaimed DEF UpdateActive, UpdateRetired, Finish, Claims
    <3>3. CASE UpdateRetires(i)
      BY <3>3, NotReplied DEF UpdateRetires, Updates, Acting, ReplyInv
    <3>4. CASE UpdateMissing(i) BY <3>4, UpdateMissingReply
    <3> QED BY <2>4, <3>1, <3>2, <3>3, <3>4
  <2> QED BY <1>6, <2>1, <2>2, <2>3, <2>4 DEF Act
<1>7. CASE Abandon \/ Damage
  BY <1>7, NotReplied DEF Abandon, Damage
<1> QED BY <1>1, <1>2, <1>3, <1>4, <1>5, <1>6, <1>7 DEF Next

LEMMA ReplyInvariant == Spec => [](Inv /\ TombOwner /\ ReplyInv)
<1>1. Init => Inv /\ TombOwner /\ ReplyInv
  <2>1. Init => TombOwner
    BY DEF Init, TombOwner
  <2>2. Init => ReplyInv
    <3> SUFFICES ASSUME Init PROVE ReplyInv
      OBVIOUS
    <3>1. reply = NoReply /\ NoReply.result = "none yet" /\ ~Busy
      BY DEF Init, NoReply, Busy
    <3> QED BY <3>1 DEF ReplyInv, CorruptTombstoneIsIsolated, NoneMeansQuarantined,
            NeverJoinsRetired
  <2> QED BY <2>1, <2>2, InitInv
<1>2. Inv /\ TombOwner /\ ReplyInv /\ [Next]_vars => (Inv /\ TombOwner /\ ReplyInv)'
  BY StepInv, TombOwnerStep, ReplyStep
<1> QED BY <1>1, <1>2, PTL DEF Spec

(* A corrupt tombstone makes only its own request fail.                    *)
THEOREM TombstoneIsolation == Spec => []CorruptTombstoneIsIsolated
<1>1. ReplyInv => CorruptTombstoneIsIsolated BY DEF ReplyInv
<1> QED BY <1>1, ReplyInvariant, PTL

(* "There is no such launch" is said of quarantined launches only.         *)
THEOREM NoneIsTrue == Spec => []NoneMeansQuarantined
<1>1. ReplyInv => NoneMeansQuarantined BY DEF ReplyInv
<1> QED BY <1>1, ReplyInvariant, PTL

(* A first Open never joins a retired launch.                              *)
THEOREM JoinsRunning == Spec => []NeverJoinsRetired
<1>1. ReplyInv => NeverJoinsRetired BY DEF ReplyInv
<1> QED BY <1>1, ReplyInvariant, PTL

-----------------------------------------------------------------------------
(* The record limit.                                                       *)

LEMMA FilesFinite == IsFiniteSet(Files) /\ Cardinality(Files) \in Nat
  BY RegistryAssumption, FS_Subset, FS_CardinalityType DEF Files

LEMMA FewerFiles ==
    ASSUME NEW S, IsFiniteSet(S), NEW T \in SUBSET S, Cardinality(S) <= MaxRecords
    PROVE  Cardinality(T) <= MaxRecords
  BY RegistryAssumption, FS_Subset, FS_CardinalityType

(* No sequence of calls and crashes fills the target beyond the limit that *)
(* every scan enforces.                                                    *)
THEOREM LimitHolds == Spec => []LimitNeverLocksOut
<1>1. Init => LimitNeverLocksOut
  <2> SUFFICES ASSUME Init PROVE Cardinality(Files) <= MaxRecords
    BY DEF LimitNeverLocksOut
  <2>1. Files = {} BY DEF Init, Files
  <2> QED BY <2>1, FS_EmptySet, RegistryAssumption
<1>2. Inv /\ LimitNeverLocksOut /\ [Next]_vars => LimitNeverLocksOut'
  <2> SUFFICES ASSUME Inv, LimitNeverLocksOut, [Next]_vars PROVE LimitNeverLocksOut'
    OBVIOUS
  <2>1. CASE Files' \subseteq Files
    BY <2>1, FilesFinite, FewerFiles DEF LimitNeverLocksOut
  <2>2. CASE ReserveCreate
    <3> USE DEF ReserveCreate, Creates, Acting
    <3>1. PICK i \in Instances : Files' \subseteq Files \cup {i}
      BY <2>2 DEF Files, Inv, TypeOK
    <3>2. Files = job.listed BY <2>2 DEF Inv, JobInv, ListInv
    <3>3. Cardinality(Files) < MaxRecords BY <2>2, <3>2
    <3>4. /\ IsFiniteSet(Files \cup {i})
          /\ Cardinality(Files \cup {i}) <= Cardinality(Files) + 1
      BY FilesFinite, FS_AddElement
    <3>5. Cardinality(Files \cup {i}) <= MaxRecords
      BY <3>3, <3>4, FilesFinite, RegistryAssumption, FS_CardinalityType
    <3> QED BY <3>1, <3>4, <3>5, FewerFiles DEF LimitNeverLocksOut
  <2>3. ASSUME NEW i \in Instances, UpdateActive(i) PROVE Files' \subseteq Files
    <3>1. i \in Files
      BY <2>3 DEF UpdateActive, Updates, Acting, Inv, JobInv, ListInv
    <3> QED BY <2>3, <3>1 DEF UpdateActive, Files, Inv, TypeOK
  <2>4. ASSUME NEW i \in Instances, Quarantine(i) PROVE Files' \subseteq Files
    BY <2>4 DEF Quarantine, Files, Inv, TypeOK
  <2>5. CASE Unlink
    BY <2>1, <2>5 DEF Unlink, Files, Inv, TypeOK
  <2>6. CASE UNCHANGED active
    BY <2>1, <2>6 DEF Files
  <2>7. \/ \E i \in Instances : Quarantine(i) \/ UpdateActive(i)
        \/ Unlink \/ ReserveCreate \/ UNCHANGED active
    BY DEF Next, vars, files, Begin, BeginReplay, BeginRefused, BeginScan, Scan,
           ScanTombed, ScanConflict, ScanActive, MarkFault, Retire, WriteTomb, EnsureIndex,
           IndexUnreadable, Act, ReturnRecords, ReturnFound, ReserveReplay,
           ReserveJoin, ReserveFull, UpdateConflict, UpdateRetires, UpdateRetired,
           UpdateMissing, Abandon, Damage
  <2> QED BY <2>1, <2>2, <2>3, <2>4, <2>5, <2>6, <2>7
<1> QED BY <1>1, <1>2, Invariant, PTL DEF Spec

-----------------------------------------------------------------------------
(* After a quarantine.  QuarantineBlocksLaunches is violated; these say    *)
(* how far.                                                                *)

(* A marked target is closed: no call begins a scan, so none changes a     *)
(* record again, and none makes a launch (_records raises first).          *)
FaultIsForGood == [][fault => UNCHANGED <<files, made>>]_vars

LEMMA FaultIsIdle == (fault => ~Busy) /\ [Next]_vars => (fault => ~Busy)'
<1> SUFFICES ASSUME fault => ~Busy, [Next]_vars, fault' PROVE ~Busy'
  OBVIOUS
<1>1. CASE UNCHANGED vars
  BY <1>1 DEF vars, files, Busy
<1>2. CASE ~fault
  <2>1. MarkFault
    BY <1>2 DEF vars, files, Next, Begin, BeginReplay, BeginRefused, BeginScan, Scan, Quarantine,
           ScanTombed, ScanConflict, ScanActive, Retire, WriteTomb, EnsureIndex,
           IndexUnreadable, Unlink, Act, ReturnRecords, ReturnFound, ReserveReplay,
           ReserveJoin, ReserveFull, ReserveCreate, UpdateConflict, UpdateActive,
           UpdateRetires, UpdateRetired, UpdateMissing, Abandon, Damage
  <2> QED BY <2>1 DEF MarkFault, Finish, Answer, Busy
<1>3. CASE fault /\ Next
  <2>1. ~Busy BY <1>3
  <2>2. Begin \/ Damage
    BY <1>3, <2>1 DEF Next, Scan, Quarantine, ScanTombed, ScanConflict, ScanActive, Scanning,
           MarkFault, Retire, WriteTomb, EnsureIndex, IndexUnreadable, Unlink, Act, Acting,
           ReturnRecords, ReturnFound, ReserveReplay, ReserveJoin, Joins, ReserveFull,
           ReserveCreate, Creates, UpdateConflict, UpdateActive, UpdateRetires, UpdateRetired,
           UpdateMissing, Updates, Abandon
  <2>3. ASSUME NEW c \in Calls, BeginScan(c) PROVE FALSE
    BY <1>3, <2>3 DEF BeginScan, Refusal
  <2> QED BY <2>1, <2>2, <2>3 DEF Begin, BeginReplay, BeginRefused, Answer, Damage, Busy
<1> QED BY <1>1, <1>2, <1>3

(* Once .fault exists every record of the target stays as it is, whoever   *)
(* calls and whatever else is damaged.                                     *)
THEOREM FaultCloses == Spec => FaultIsForGood
<1>1. Init => (fault => ~Busy)
  BY DEF Init
<1>2. (fault => ~Busy) /\ [Next]_vars => [fault => UNCHANGED <<files, made>>]_vars
  <2> SUFFICES ASSUME ~Busy, fault, Next PROVE UNCHANGED <<files, made>>
    OBVIOUS
  <2>1. Begin \/ Damage
    BY DEF Next, Scan, Quarantine, ScanTombed, ScanConflict, ScanActive, Scanning,
           MarkFault, Retire, WriteTomb, EnsureIndex, IndexUnreadable, Unlink, Act, Acting,
           ReturnRecords, ReturnFound, ReserveReplay, ReserveJoin, Joins, ReserveFull,
           ReserveCreate, Creates, UpdateConflict, UpdateActive, UpdateRetires, UpdateRetired,
           UpdateMissing, Updates, Abandon
  <2> QED BY <2>1 DEF Begin, BeginReplay, BeginRefused, BeginScan, Damage
<1> QED BY <1>1, <1>2, FaultIsIdle, PTL DEF Spec, FaultIsForGood

(* The call that set a record aside goes on to mark the target: it neither *)
(* dies nor fails to write between the two.                                *)
Marks == job.pc = "fault" => MarkFault

MarkInv == /\ fault => ~Busy
           /\ quarantined # {} => fault \/ job.pc = "fault"

(* A crash or a failed write between the rename and the marker is the only *)
(* way round the promise that a quarantine "must not authorize a           *)
(* replacement first launch" (_records, registry.py:260-264).              *)
THEOREM OnlyTheGapLaunches ==
    Init /\ [][Next /\ Marks]_vars => QuarantineBlocksLaunches
<1>1. Init => Inv /\ MarkInv
  BY InitInv DEF Init, MarkInv
<1>2. Inv /\ MarkInv /\ [Next /\ Marks]_vars => Inv' /\ MarkInv'
  <2> SUFFICES ASSUME Inv, MarkInv, [Next /\ Marks]_vars, quarantined' # {}
               PROVE  fault' \/ job'.pc = "fault"
    BY FaultIsIdle, StepInv DEF MarkInv
  <2>1. CASE UNCHANGED vars
    BY <2>1 DEF vars, files, MarkInv
  <2>2. CASE Next /\ job.pc = "fault"
    BY <2>1, <2>2 DEF Marks, MarkFault
  <2>3. CASE Next /\ fault
    <3>1. Begin \/ Damage
      BY <2>3 DEF MarkInv, Next, Scan, Quarantine, ScanTombed, ScanConflict, ScanActive, Scanning,
           MarkFault, Retire, WriteTomb, EnsureIndex, IndexUnreadable, Unlink, Act, Acting,
           ReturnRecords, ReturnFound, ReserveReplay, ReserveJoin, Joins, ReserveFull,
           ReserveCreate, Creates, UpdateConflict, UpdateActive, UpdateRetires, UpdateRetired,
           UpdateMissing, Updates, Abandon
    <3> QED BY <2>3, <3>1 DEF Begin, BeginReplay, BeginRefused, BeginScan, Damage, files
  <2>4. CASE Next /\ quarantined = {} /\ job.pc # "fault"
    <3>1. PICK i \in Instances : Quarantine(i)
      BY <2>4 DEF Next, Begin, BeginReplay, BeginRefused, BeginScan, Scan,
           ScanTombed, ScanConflict, ScanActive, MarkFault, Retire, WriteTomb, EnsureIndex,
           IndexUnreadable, Unlink, Act, ReturnRecords, ReturnFound, ReserveReplay,
           ReserveJoin, ReserveFull, ReserveCreate, UpdateConflict, UpdateActive,
           UpdateRetires, UpdateRetired, UpdateMissing, Abandon, Damage, files
    <3> QED BY <3>1 DEF Quarantine, Scanning, Inv, TypeOK, Job
  <2> QED BY <2>1, <2>2, <2>3, <2>4 DEF MarkInv
<1>3. MarkInv /\ [Next /\ Marks]_vars => [quarantined # {} => made' = made]_vars
  <2> SUFFICES ASSUME MarkInv, Next, Marks, quarantined # {}, made' # made
               PROVE  FALSE
    OBVIOUS
  <2>1. ReserveCreate
    BY DEF Next, Begin, BeginReplay, BeginRefused, BeginScan, Scan, Quarantine,
           ScanTombed, ScanConflict, ScanActive, MarkFault, Retire, WriteTomb, EnsureIndex,
           IndexUnreadable, Unlink, Act, ReturnRecords, ReturnFound, ReserveReplay,
           ReserveJoin, ReserveFull, UpdateConflict, UpdateActive,
           UpdateRetires, UpdateRetired, UpdateMissing, Abandon, Damage
  <2> QED BY <2>1 DEF MarkInv, ReserveCreate, Creates, Acting
<1> QED BY <1>1, <1>2, <1>3, PTL DEF QuarantineBlocksLaunches
=============================================================================
