-------------------------------- MODULE Registry --------------------------------
(***************************************************************************)
(* The record files of one target (registry.py): <instance>.json for every *)
(* launch not yet retired, retired/<request>.json (the tombstone) and      *)
(* retired/<instance>.instance (its index) for every retired one, and the  *)
(* .fault marker left by a quarantine.                                     *)
(*                                                                         *)
(* Every call runs under the target's exclusive flock, so at most one call *)
(* is in progress and `job` is that call; a call refused by a busy lock    *)
(* touches nothing and is left out.  What is not atomic is the call itself:*)
(* each file it renames, replaces or unlinks is a step here, and between   *)
(* two steps the process may die or a file operation may raise (Abandon).  *)
(* A single file is atomic (atomic_json: temporary file, fsync, rename).   *)
(***************************************************************************)
EXTENDS Naturals, FiniteSets

CONSTANTS
    Instances, Requests, Roles, MaxRecords, NoRequest,
    NoInstance,     \* the instance of a reply that names none
    NoFile,         \* the content of a path that does not exist
    CallStates,     \* the lifecycle states the callers of update report
    MaxDamage       \* bound: files that outside causes make unreadable

ActiveStates  == {"reserved", "dispatching", "opening", "live", "uncertain"}
RetiredStates == {"exited", "failed"}

(* update without a state only merges evidence *)
Keep == "keep"

ASSUME RegistryAssumption ==
    /\ NoRequest \notin Requests
    /\ NoInstance \notin Instances
    /\ MaxRecords \in Nat \ {0}
    /\ MaxDamage \in Nat
    /\ IsFiniteSet(Instances)
    /\ CallStates \subseteq ActiveStates \cup RetiredStates

Record == [inst  : Instances,
           req   : Requests,
           ord   : 1..MaxRecords,
           state : ActiveStates \cup RetiredStates,
           ev    : SUBSET Roles]

ASSUME NoFileAssumption == NoFile \notin Record

ReserveCall(r, additional) ==
    [op |-> "reserve", req |-> r, additional |-> additional,
     inst |-> NoInstance, state |-> Keep, ev |-> {}]
FindCall(r) ==
    [op |-> "find", req |-> r, additional |-> FALSE,
     inst |-> NoInstance, state |-> Keep, ev |-> {}]
RecordsCall ==
    [op |-> "records", req |-> NoRequest, additional |-> FALSE,
     inst |-> NoInstance, state |-> Keep, ev |-> {}]
UpdateCall(i, s, E) ==
    [op |-> "update", req |-> NoRequest, additional |-> FALSE,
     inst |-> i, state |-> s, ev |-> E]

Call == [op : {"reserve", "find", "records", "update"},
         req : Requests \cup {NoRequest}, additional : BOOLEAN,
         inst : Instances \cup {NoInstance},
         state : CallStates \cup {Keep}, ev : SUBSET Roles]

VARIABLES
    active,         \* [Instances -> Record or NoFile]   <instance>.json
    tomb,           \* [Requests -> Record or NoFile]    retired/<request>.json
    index,          \* [Instances -> request or NoRequest] retired/<instance>.instance
    fault,          \* whether .fault exists
    quarantined,    \* instances whose record was renamed to .quarantined
    badActive,      \* instances whose <instance>.json cannot be read
    badTomb,        \* requests whose tombstone cannot be read
    badIndex,       \* instances whose index cannot be read
    made,           \* history: the request each identifier was created for
    job,            \* the call that holds the lock
    reply           \* what the last call returned or raised

files == <<active, tomb, index, fault, quarantined>>
damage == <<badActive, badTomb, badIndex>>
vars == <<files, damage, made, job, reply>>

Idle == [pc |-> "idle"]
NoReply == [result |-> "none yet"]

(* job.pc: "scan" reads the files of job.todo one by one into job.listed   *)
(* and, with todo empty, is ready to act; "fault" is about to write the    *)
(* .fault marker; "tomb", "index" and "unlink" are the three writes that   *)
(* retire the record job.rec.                                              *)
Busy == job # Idle

Files == {i \in Instances : active[i] # NoFile}

(* Another reader of the tombstone of active record i finds ...            *)
Untombed(i)   == tomb[active[i].req] = NoFile
TombedHere(i) == /\ ~Untombed(i)
                 /\ active[i].req \notin badTomb
                 /\ tomb[active[i].req].inst = i
Conflicts(i)  == ~Untombed(i) /\ ~TombedHere(i)

Started(c) == [pc |-> "scan", call |-> c, todo |-> Files,
               listed |-> {}, conflicts |-> {}, rec |-> NoFile]

Answer(c, result, i) ==
    /\ job' = Idle
    /\ reply' = [call |-> c, result |-> result, inst |-> i]

Finish(result, i) == Answer(job.call, result, i)

-----------------------------------------------------------------------------
(* Beginning a call: the lock is taken, and everything read before the     *)
(* first file of the scan is read.                                         *)

(* reserve and find_request answer from the tombstone, without a scan.     *)
BeginReplay(c) ==
    /\ ~Busy
    /\ c.op \in {"reserve", "find"}
    /\ tomb[c.req] # NoFile
    /\ IF c.req \in badTomb
       THEN Answer(c, "request_archive_corrupt", NoInstance)
       ELSE Answer(c, "replayed", tomb[c.req].inst)
    /\ UNCHANGED <<files, damage, made>>

(* Mutants: a reservation, or a lookup, that does not consult tombstones.  *)
NeedsScanEvenRetired(c) == c.op = "find" => tomb[c.req] = NoFile
NeedsScanToFind(c) == c.op = "reserve" => tomb[c.req] = NoFile

NeedsScan(c) == c.op \in {"reserve", "find"} => tomb[c.req] = NoFile

(* A target with a .fault marker, or with too many files, refuses to scan. *)
Refusal == IF fault THEN "target_registry_corrupt"
           ELSE IF Cardinality(Files) > MaxRecords THEN "target_record_limit"
           ELSE "none"

BeginRefused(c) ==
    /\ ~Busy
    /\ NeedsScan(c)
    /\ Refusal # "none"
    /\ Answer(c, Refusal, NoInstance)
    /\ UNCHANGED <<files, damage, made>>

BeginScan(c) ==
    /\ ~Busy
    /\ NeedsScan(c)
    /\ Refusal = "none"
    /\ job' = Started(c)
    /\ reply' = NoReply
    /\ UNCHANGED <<files, damage, made>>

(* A caller of update reports a state or the identity of one process. *)
Calls ==
    {ReserveCall(r, a) : r \in Requests, a \in BOOLEAN}
        \cup {FindCall(r) : r \in Requests}
        \cup {RecordsCall}
        \cup UNION {{UpdateCall(i, s, {}) : s \in CallStates}
                        \cup {UpdateCall(i, Keep, {role}) : role \in Roles} :
                     i \in {j \in Instances : made[j] # NoRequest}}

Begin == \E c \in Calls : BeginReplay(c) \/ BeginRefused(c) \/ BeginScan(c)

-----------------------------------------------------------------------------
(* The scan of the active files (_records).                                *)

Scanning(i) == Busy /\ job.pc = "scan" /\ i \in job.todo

(* An unreadable record is set aside ...                                   *)
Quarantine(i) ==
    /\ Scanning(i)
    /\ i \in badActive
    /\ active' = [active EXCEPT ![i] = NoFile]
    /\ quarantined' = quarantined \cup {i}
    /\ badActive' = badActive \ {i}
    /\ job' = [job EXCEPT !.pc = "fault"]
    /\ UNCHANGED <<tomb, index, fault, badTomb, badIndex, made, reply>>

(* ... and only then is the target marked, by a write of its own.          *)
MarkFault ==
    /\ Busy /\ job.pc = "fault"
    /\ fault' = TRUE
    /\ Finish("target_registry_corrupt", NoInstance)
    /\ UNCHANGED <<active, tomb, index, quarantined, damage, made>>

(* Mutant: the crash duplicate of a retired record is taken for a launch.  *)
ScanTombedAsActive(i) ==
    /\ Scanning(i)
    /\ i \notin badActive
    /\ TombedHere(i)
    /\ job' = [job EXCEPT !.todo = @ \ {i}, !.listed = @ \cup {i}]
    /\ UNCHANGED <<files, damage, made, reply>>

(* A record whose tombstone is already there was being retired by a call   *)
(* that did not finish: finish it.  (No call writes a retired state into   *)
(* an active file, so that branch of the scan has nothing of its own.)     *)
ScanTombed(i) ==
    /\ Scanning(i)
    /\ i \notin badActive
    /\ TombedHere(i)
    /\ job' = [job EXCEPT !.pc = "index", !.rec = tomb[active[i].req]]
    /\ UNCHANGED <<files, damage, made, reply>>

(* Mutant: an unreadable tombstone makes the whole scan raise.             *)
ScanConflictRaises(i) ==
    /\ Scanning(i)
    /\ i \notin badActive
    /\ Conflicts(i)
    /\ Finish("request_archive_corrupt", NoInstance)
    /\ UNCHANGED <<files, damage, made>>

(* A tombstone that is unreadable, or another launch's, makes the record   *)
(* uncertain but stops nothing else.                                       *)
ScanConflict(i) ==
    /\ Scanning(i)
    /\ i \notin badActive
    /\ Conflicts(i)
    /\ job' = [job EXCEPT !.todo = @ \ {i}, !.listed = @ \cup {i},
                          !.conflicts = @ \cup {i}]
    /\ UNCHANGED <<files, damage, made, reply>>

ScanActive(i) ==
    /\ Scanning(i)
    /\ i \notin badActive
    /\ Untombed(i)
    /\ job' = [job EXCEPT !.todo = @ \ {i}, !.listed = @ \cup {i}]
    /\ UNCHANGED <<files, damage, made, reply>>

Scan == \E i \in Instances :
            Quarantine(i) \/ ScanTombed(i) \/ ScanConflict(i) \/ ScanActive(i)

-----------------------------------------------------------------------------
(* Retiring job.rec (_archive_record): tombstone, index, then the active   *)
(* file, in this order.                                                    *)

(* Mutant: the active file is unlinked with no index written before.       *)
WriteTombOnly ==
    /\ Busy /\ job.pc = "tomb"
    /\ tomb' = [tomb EXCEPT ![job.rec.req] = job.rec]
    /\ job' = [job EXCEPT !.pc = "unlink"]
    /\ UNCHANGED <<active, index, fault, quarantined, damage, made, reply>>

WriteTomb ==
    /\ Busy /\ job.pc = "tomb"
    /\ tomb' = [tomb EXCEPT ![job.rec.req] = job.rec]
    /\ job' = [job EXCEPT !.pc = "index"]
    /\ UNCHANGED <<active, index, fault, quarantined, damage, made, reply>>

(* Mutant: the index names the instance instead of the request.            *)
EnsureIndexOfInstance ==
    /\ Busy /\ job.pc = "index"
    /\ index' = [index EXCEPT ![job.rec.inst] = job.rec.inst]
    /\ job' = [job EXCEPT !.pc = "unlink"]
    /\ UNCHANGED <<active, tomb, fault, quarantined, damage, made, reply>>

(* _ensure_instance_index; an index that names another request raises, and *)
(* none does: an instance has one request.                                 *)
EnsureIndex ==
    /\ Busy /\ job.pc = "index"
    /\ job.rec.inst \notin badIndex
    /\ index[job.rec.inst] \in {NoRequest, job.rec.req}
    /\ index' = [index EXCEPT ![job.rec.inst] = job.rec.req]
    /\ job' = [job EXCEPT !.pc = "unlink"]
    /\ UNCHANGED <<active, tomb, fault, quarantined, damage, made, reply>>

IndexUnreadable ==
    /\ Busy /\ job.pc = "index"
    /\ job.rec.inst \in badIndex
    /\ Finish("instance_archive_corrupt", NoInstance)
    /\ UNCHANGED <<files, damage, made>>

(* The scan goes on after a record it finished retiring; an update that    *)
(* retired its own record is done.                                         *)
Unlink ==
    /\ Busy /\ job.pc = "unlink"
    /\ active' = [active EXCEPT ![job.rec.inst] = NoFile]
    /\ IF job.rec.inst \in job.todo
       THEN /\ job' = [job EXCEPT !.pc = "scan", !.todo = @ \ {job.rec.inst},
                                  !.rec = NoFile]
            /\ UNCHANGED reply
       ELSE Finish("updated", job.rec.inst)
    /\ UNCHANGED <<tomb, index, fault, quarantined, damage, made>>

Retire == WriteTomb \/ EnsureIndex \/ IndexUnreadable \/ Unlink

-----------------------------------------------------------------------------
(* With every file read, the call does what it was made for.               *)

Acting(op) == Busy /\ job.pc = "scan" /\ job.todo = {} /\ job.call.op = op

Listed(r) == {i \in job.listed : active[i].req = r}

ReturnRecords ==
    /\ Acting("records")
    /\ Finish("listed", NoInstance)
    /\ UNCHANGED <<files, damage, made>>

ReturnFound ==
    /\ Acting("find")
    /\ \/ \E i \in Listed(job.call.req) : Finish("replayed", i)
       \/ Listed(job.call.req) = {} /\ Finish("not found", NoInstance)
    /\ UNCHANGED <<files, damage, made>>

(* reserve: a request already listed is replayed, ...                      *)
ReserveReplay ==
    /\ Acting("reserve")
    /\ \E i \in Listed(job.call.req) : Finish("replayed", i)
    /\ UNCHANGED <<files, damage, made>>

(* ... a first Open joins the launch already there, ...                    *)
Joins == /\ Acting("reserve")
         /\ Listed(job.call.req) = {}
         /\ ~job.call.additional
         /\ job.listed # {}

ReserveJoin ==
    /\ Joins
    /\ \/ \E i \in job.listed : job.listed = {i} /\ Finish("joined", i)
       \/ /\ Cardinality(job.listed) > 1
          /\ Finish("multiple_instances_refresh", NoInstance)
    /\ UNCHANGED <<files, damage, made>>

Creates == /\ Acting("reserve")
           /\ Listed(job.call.req) = {}
           /\ job.call.additional \/ job.listed = {}

ReserveFull ==
    /\ Creates
    /\ Cardinality(job.listed) >= MaxRecords
    /\ Finish("target_record_limit", NoInstance)
    /\ UNCHANGED <<files, damage, made>>

FreeOrdinals == (1..MaxRecords) \ {active[i].ord : i \in job.listed}

(* Mutant: the next number after as many as are listed.                    *)
NextAfterListed(n) == n = Cardinality(job.listed) + 1

LeastFree(n) == n \in FreeOrdinals /\ \A m \in FreeOrdinals : n <= m

(* Mutant: the limit is checked one record too late.                       *)
ReserveCreateOneMore ==
    /\ Creates
    /\ Cardinality(job.listed) <= MaxRecords
    /\ \E i \in Instances :
        /\ made[i] = NoRequest
        /\ active' = [active EXCEPT ![i] =
                        [inst |-> i, req |-> job.call.req, ord |-> MaxRecords,
                         state |-> "reserved", ev |-> {}]]
        /\ made' = [made EXCEPT ![i] = job.call.req]
        /\ Finish("created", i)
    /\ UNCHANGED <<tomb, index, fault, quarantined, damage>>

(* ... and otherwise a new identifier is reserved with the least ordinal   *)
(* no listed record has.                                                   *)
ReserveCreate ==
    /\ Creates
    /\ Cardinality(job.listed) < MaxRecords
    /\ \E i \in Instances, n \in 1..MaxRecords :
        /\ made[i] = NoRequest
        /\ LeastFree(n)
        /\ active' = [active EXCEPT ![i] =
                        [inst |-> i, req |-> job.call.req, ord |-> n,
                         state |-> "reserved", ev |-> {}]]
        /\ made' = [made EXCEPT ![i] = job.call.req]
        /\ Finish("created", i)
    /\ UNCHANGED <<tomb, index, fault, quarantined, damage>>

(* Mutant: evidence is replaced, not merged.                               *)
ChangedReplacing(record) ==
    [record EXCEPT !.state = IF job.call.state = Keep THEN @ ELSE job.call.state,
                   !.ev    = job.call.ev]

(* update of a listed record: {**current.value, **changes}                 *)
Changed(record) ==
    [record EXCEPT !.state = IF job.call.state = Keep THEN @ ELSE job.call.state,
                   !.ev    = @ \cup job.call.ev]

Updates(i) == Acting("update") /\ job.call.inst = i

UpdateConflict(i) ==
    /\ Updates(i)
    /\ i \in job.conflicts
    /\ Finish("request_archive_corrupt", NoInstance)
    /\ UNCHANGED <<files, damage, made>>

UpdateActive(i) ==
    /\ Updates(i)
    /\ i \in job.listed \ job.conflicts
    /\ Changed(active[i]).state \in ActiveStates
    /\ active' = [active EXCEPT ![i] = Changed(@)]
    /\ Finish("updated", i)
    /\ UNCHANGED <<tomb, index, fault, quarantined, damage, made>>

UpdateRetires(i) ==
    /\ Updates(i)
    /\ i \in job.listed \ job.conflicts
    /\ Changed(active[i]).state \in RetiredStates
    /\ job' = [job EXCEPT !.pc = "tomb", !.rec = Changed(active[i])]
    /\ UNCHANGED <<files, damage, made, reply>>

(* update of a record that is no longer listed: it is found through its    *)
(* index, its state is kept and only the evidence is added to the          *)
(* tombstone.                                                              *)
Indexed(i) == /\ i \notin badIndex
              /\ index[i] # NoRequest
              /\ index[i] \notin badTomb
              /\ tomb[index[i]] # NoFile
              /\ tomb[index[i]].inst = i

(* Mutant: a late update overwrites the outcome as well.                   *)
UpdateRetiredOutcome(i) ==
    /\ Updates(i)
    /\ i \notin job.listed
    /\ Indexed(i)
    /\ tomb' = [tomb EXCEPT ![index[i]] = Changed(@)]
    /\ Finish("updated", i)
    /\ UNCHANGED <<active, index, fault, quarantined, damage, made>>

UpdateRetired(i) ==
    /\ Updates(i)
    /\ i \notin job.listed
    /\ Indexed(i)
    /\ tomb' = [tomb EXCEPT ![index[i]].ev = @ \cup job.call.ev]
    /\ Finish("updated", i)
    /\ UNCHANGED <<active, index, fault, quarantined, damage, made>>

UpdateMissing(i) ==
    /\ Updates(i)
    /\ i \notin job.listed
    /\ ~Indexed(i)
    /\ Finish(CASE i \in badIndex -> "instance_archive_corrupt"
                [] i \notin badIndex /\ index[i] = NoRequest -> "instance_missing"
                [] i \notin badIndex /\ index[i] \in badTomb -> "request_archive_corrupt"
                [] OTHER -> "instance_archive_corrupt", NoInstance)
    /\ UNCHANGED <<files, damage, made>>

Act == \/ ReturnRecords \/ ReturnFound
       \/ ReserveReplay \/ ReserveJoin \/ ReserveFull \/ ReserveCreate
       \/ \E i \in Instances : \/ UpdateConflict(i) \/ UpdateActive(i)
                               \/ UpdateRetires(i)  \/ UpdateRetired(i)
                               \/ UpdateMissing(i)

-----------------------------------------------------------------------------
(* The process that holds the lock dies, or a file operation raises: what  *)
(* was written stays, the rest of the call does not happen.                *)
Abandon ==
    /\ Busy
    /\ job' = Idle
    /\ reply' = NoReply
    /\ UNCHANGED <<files, damage, made>>

Damaged == Cardinality(badActive) + Cardinality(badTomb)
             + Cardinality(badIndex) + Cardinality(quarantined)

(* A file becomes unreadable from outside (another version, a user): only  *)
(* between calls, which is when a call can tell the difference.            *)
Damage ==
    /\ ~Busy
    /\ Damaged < MaxDamage
    /\ \/ \E i \in Files \ badActive :
            badActive' = badActive \cup {i} /\ UNCHANGED <<badTomb, badIndex>>
       \/ \E r \in Requests \ badTomb :
            /\ tomb[r] # NoFile
            /\ badTomb' = badTomb \cup {r}
            /\ UNCHANGED <<badActive, badIndex>>
       \/ \E i \in Instances \ badIndex :
            /\ index[i] # NoRequest
            /\ badIndex' = badIndex \cup {i}
            /\ UNCHANGED <<badActive, badTomb>>
    /\ reply' = NoReply
    /\ UNCHANGED <<files, made, job>>

Init ==
    /\ active = [i \in Instances |-> NoFile]
    /\ tomb = [r \in Requests |-> NoFile]
    /\ index = [i \in Instances |-> NoRequest]
    /\ fault = FALSE
    /\ quarantined = {}
    /\ badActive = {} /\ badTomb = {} /\ badIndex = {}
    /\ made = [i \in Instances |-> NoRequest]
    /\ job = Idle
    /\ reply = NoReply

Next == Begin \/ Scan \/ MarkFault \/ Retire \/ Act \/ Abandon \/ Damage

Spec == Init /\ [][Next]_vars

-----------------------------------------------------------------------------
(* The ledger these files stand for.  The tombstone decides as soon as it  *)
(* is written; the active file decides until then.                         *)

HasTomb(i) == /\ made[i] # NoRequest
              /\ tomb[made[i]] # NoFile
              /\ tomb[made[i]].inst = i

HasActive(i) == active[i] # NoFile /\ i \notin badActive

AsEntry(record, state) ==
    [req |-> record.req, ord |-> record.ord, state |-> state, ev |-> record.ev]

Entries == [i \in Instances |->
    IF made[i] = NoRequest
    THEN [req |-> NoRequest, ord |-> 0, state |-> "absent", ev |-> {}]
    ELSE IF HasTomb(i)
    THEN AsEntry(tomb[made[i]],
                 IF made[i] \in badTomb THEN "sealed" ELSE tomb[made[i]].state)
    ELSE IF HasActive(i)
    THEN AsEntry(active[i], active[i].state)
    ELSE [req |-> NoRequest, ord |-> 0, state |-> "lost", ev |-> {}]]

Ledger == INSTANCE LaunchLedger WITH ledger <- Entries

-----------------------------------------------------------------------------
(* Properties                                                              *)

Job == [pc : {"scan", "fault", "tomb", "index", "unlink"}, call : Call,
        todo : SUBSET Instances, listed : SUBSET Instances,
        conflicts : SUBSET Instances, rec : Record \cup {NoFile}]

(* The files hold records of the right shape and the call in progress is   *)
(* one of the calls.                                                       *)
TypeOK ==
    /\ active \in [Instances -> Record \cup {NoFile}]
    /\ tomb \in [Requests -> Record \cup {NoFile}]
    /\ index \in [Instances -> Requests \cup {NoRequest}]
    /\ fault \in BOOLEAN
    /\ quarantined \in SUBSET Instances
    /\ badActive \in SUBSET Instances
    /\ badTomb \in SUBSET Requests
    /\ badIndex \in SUBSET Instances
    /\ made \in [Instances -> Requests \cup {NoRequest}]
    /\ Busy => job \in Job

(* Whatever write a crash interrupts, a launch that was reserved can still *)
(* be found: by its active file, or by its request's tombstone together    *)
(* with the index that leads a late acknowledgement there.  Only a         *)
(* quarantined record is out of reach (_archive_record's order of writes). *)
EveryLaunchFindable ==
    \A i \in Instances :
        made[i] # NoRequest =>
            \/ active[i] # NoFile
            \/ HasTomb(i) /\ index[i] = made[i]
            \/ i \in quarantined

(* No crash and no replay makes a second launch for a request, unless the  *)
(* record of one of the two was quarantined (reserve, find_request).       *)
OneLaunchPerRequest ==
    \A i, j \in Instances :
        made[i] = made[j] /\ made[i] # NoRequest =>
            i = j \/ i \in quarantined \/ j \in quarantined

CallRequest(c) == IF c.op = "update" THEN made[c.inst] ELSE c.req

(* "A corrupt request tombstone blocks that request's replay, but cannot   *)
(* quarantine or stall other instance requests" (_records).                *)
CorruptTombstoneIsIsolated ==
    reply.result = "request_archive_corrupt" =>
        CallRequest(reply.call) \in badTomb

(* A caller that asks for a launch by its instance or by its request is    *)
(* told that there is none only if its record was quarantined, in whatever *)
(* state an interrupted retirement left the files (update, find_request).  *)
NoneMeansQuarantined ==
    /\ reply.result = "instance_missing" => reply.call.inst \in quarantined
    /\ reply.result = "not found" =>
           \A i \in Instances : made[i] = reply.call.req => i \in quarantined

(* A first Open never joins a launch that has already been retired, even   *)
(* when a crash left its active file behind (reserve after _records).      *)
NeverJoinsRetired ==
    reply.result = "joined" =>
        LET i == reply.inst IN HasTomb(i) => made[i] \in badTomb

(* The record limit refuses new launches only.  If the files could exceed  *)
(* it, every call would raise target_record_limit before it could retire   *)
(* one, and the target would be locked out for good (reserve, _records).   *)
LimitNeverLocksOut == Cardinality(Files) <= MaxRecords

(* The files implement the ledger: every step of every call is one ledger  *)
(* step or none, and a crash between two writes is none.                   *)
ImplementsLedger == Ledger!LedgerSpec

(* The outcome of a retired launch is final: an update that arrives late,  *)
(* or after a crash in the middle of the retirement, neither resurrects it *)
(* nor changes exited into failed or back (update).                        *)
OutcomeIsFinal == Ledger!OutcomeIsFinal

(* Two launches that are running at the same time never carry the same     *)
(* window number (reserve's ordinal).                                      *)
OrdinalsDistinct == Ledger!OrdinalsDistinct

(* "Quarantine is scoped to this target and must not authorize a           *)
(* replacement first launch" (_records).                                   *)
QuarantineBlocksLaunches ==
    [][quarantined # {} => made' = made]_vars
=============================================================================
