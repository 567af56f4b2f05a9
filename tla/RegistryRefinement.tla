--------------------------- MODULE RegistryRefinement ---------------------------
(***************************************************************************)
(* Proof that the record files implement the ledger: whatever crash or     *)
(* damage comes between two file writes, the launches the files stand for  *)
(* (Entries) change only as LaunchLedger allows.                           *)
(***************************************************************************)
EXTENDS RegistryProofs

LEMMA SameEntries ==
    ASSUME UNCHANGED <<active, tomb, badActive, badTomb, made>>
    PROVE  Entries' = Entries
  BY DEF Entries, HasTomb, HasActive, AsEntry

-----------------------------------------------------------------------------
(* The entry an identifier stands for, case by case.                       *)

LEMMA EntryOf ==
    ASSUME NEW i \in Instances
    PROVE  /\ made[i] = NoRequest =>
                Entries[i] = [req |-> NoRequest, ord |-> 0, state |-> "absent", ev |-> {}]
           /\ made[i] # NoRequest /\ HasTomb(i) =>
                Entries[i] = AsEntry(tomb[made[i]],
                               IF made[i] \in badTomb THEN "sealed" ELSE tomb[made[i]].state)
           /\ made[i] # NoRequest /\ ~HasTomb(i) /\ HasActive(i) =>
                Entries[i] = AsEntry(active[i], active[i].state)
           /\ made[i] # NoRequest /\ ~HasTomb(i) /\ ~HasActive(i) =>
                Entries[i] = [req |-> NoRequest, ord |-> 0, state |-> "lost", ev |-> {}]
  BY DEF Entries

(* What the ledger sees of a launch follows from its files.                *)
LEMMA EntryFacts ==
    ASSUME Inv, NEW i \in Instances
    PROVE  /\ Entries[i].req # NoRequest => Entries[i].req = made[i]
           /\ Entries[i].req # NoRequest => HasTomb(i) \/ HasActive(i)
           /\ Entries[i].state \in ActiveStates =>
                 ~HasTomb(i) /\ HasActive(i) /\ Entries[i].ord = active[i].ord
<1>1. CASE made[i] = NoRequest
  BY <1>1, EntryOf DEF ActiveStates
<1>2. CASE made[i] # NoRequest /\ HasTomb(i)
  <2>1. /\ Entries[i].req = tomb[made[i]].req
        /\ Entries[i].state \in {"sealed", tomb[made[i]].state}
    BY <1>2 DEF Entries, AsEntry
  <2>2. /\ made[i] \in Requests /\ tomb[made[i]].req = made[i]
        /\ tomb[made[i]].state \in RetiredStates
    BY <1>2 DEF Inv, TypeOK, FilesInv, HasTomb
  <2> QED BY <1>2, <2>1, <2>2 DEF ActiveStates, RetiredStates
<1>3. CASE made[i] # NoRequest /\ ~HasTomb(i) /\ HasActive(i)
  <2>1. Entries[i].req = active[i].req /\ Entries[i].ord = active[i].ord
    BY <1>3 DEF Entries, AsEntry
  <2>2. active[i].req = made[i]
    BY <1>3 DEF Inv, FilesInv, HasActive
  <2> QED BY <1>3, <2>1, <2>2
<1>4. CASE made[i] # NoRequest /\ ~HasTomb(i) /\ ~HasActive(i)
  BY <1>4, EntryOf DEF ActiveStates
<1> QED BY <1>1, <1>2, <1>3, <1>4

(* A step that changes the files of one launch changes that entry alone.   *)
LEMMA OneEntry ==
    ASSUME NEW i \in Instances,
           \A j \in Instances \ {i} : Entries'[j] = Entries[j]
    PROVE  Entries' = [Entries EXCEPT ![i] = Entries'[i]]
  BY DEF Entries

-----------------------------------------------------------------------------
(* Steps that the ledger does not see.                                     *)

LEMMA QuarantineRefines ==
    ASSUME Inv, NEW i \in Instances, Quarantine(i) PROVE Entries' = Entries
  BY DEF Quarantine, Inv, TypeOK, Entries, HasTomb, HasActive, AsEntry

LEMMA UnlinkRefines == ASSUME Inv, Unlink PROVE Entries' = Entries
<1> DEFINE x == job.rec.inst
<1>1. /\ active' = [active EXCEPT ![x] = NoFile] /\ x \in Instances
      /\ UNCHANGED <<tomb, badActive, badTomb, made>>
      /\ HasTomb(x)
  BY RegistryAssumption
     DEF Unlink, damage, Inv, TypeOK, JobInv, RetireInv, Record, HasTomb, Files
<1> HIDE DEF x
<1>2. \A j \in Instances : HasTomb(j)' = HasTomb(j)
  BY <1>1 DEF HasTomb
<1>3. \A j \in Instances : ~HasTomb(j) => active'[j] = active[j] /\ HasActive(j)' = HasActive(j)
  BY <1>1 DEF HasActive, Inv, TypeOK
<1> QED BY <1>1, <1>2, <1>3 DEF Entries, AsEntry

-----------------------------------------------------------------------------
(* Steps that are one step of the ledger.                                  *)

LEMMA ReserveRefines ==
    ASSUME Inv, ReserveCreate
    PROVE  \E i \in Instances, n \in 1..MaxRecords :
                Ledger!Reserve(i, job.call.req, job.call.additional, n)
<1> USE DEF ReserveCreate, Creates, Acting, damage
<1> DEFINE r == job.call.req
           new(i, n) == [inst |-> i, req |-> r, ord |-> n,
                         state |-> "reserved", ev |-> {}]
<1>1. PICK i \in Instances, n \in 1..MaxRecords :
        /\ made[i] = NoRequest
        /\ LeastFree(n)
        /\ active' = [active EXCEPT ![i] = new(i, n)]
        /\ made' = [made EXCEPT ![i] = r]
  OBVIOUS
<1>2. /\ UNCHANGED <<tomb, badActive, badTomb>>
      /\ r \in Requests /\ tomb[r] = NoFile /\ Files = job.listed /\ Listed(r) = {}
      /\ job.call.additional \/ job.listed = {}
      /\ Cardinality(job.listed) < MaxRecords
  BY DEF Inv, JobInv, CallInv, ListInv
<1>3. Ledger!Absent = Entries[i]
  BY <1>1, EntryOf DEF Ledger!Absent
<1>4. Ledger!Reserved(r) = {}
  <2> SUFFICES ASSUME NEW j \in Instances, Entries[j].req = r PROVE FALSE
    BY DEF Ledger!Reserved
  <2>1. made[j] = r /\ (HasTomb(j) \/ HasActive(j))
    BY <1>2, EntryFacts, RegistryAssumption
  <2>2. j \in quarantined
    BY <1>2, <2>1, UnlistedRequest
  <2> QED BY <1>2, <2>1, <2>2 DEF Inv, FilesInv, HasTomb, HasActive
<1>5. /\ Ledger!Running \subseteq job.listed
      /\ \A j \in Ledger!Running : j \in Instances /\ Entries[j].ord = active[j].ord
  BY <1>2, EntryFacts DEF Ledger!Running, HasActive, Files, Ledger!ActiveStates, ActiveStates
<1>6. job.call.additional \/ Ledger!Running = {}
  BY <1>2, <1>5
<1>7. Cardinality(Ledger!Running) < MaxRecords
  BY <1>2, <1>5, FilesFinite, FS_Subset, FS_CardinalityType, RegistryAssumption
<1>8. n \in (1..MaxRecords) \ Ledger!UsedOrdinals
  BY <1>1, <1>5 DEF LeastFree, FreeOrdinals, Ledger!UsedOrdinals
<1>9. Entries' = [Entries EXCEPT ![i] =
                    [req |-> r, ord |-> n, state |-> "reserved", ev |-> {}]]
  <2>1. Entries'[i] = [req |-> r, ord |-> n, state |-> "reserved", ev |-> {}]
    <3>1. /\ made'[i] = r /\ r # NoRequest /\ active'[i] = new(i, n)
          /\ tomb'[r] = NoFile
      BY <1>1, <1>2, RegistryAssumption DEF Inv, TypeOK
    <3>2. new(i, n) # NoFile
      BY <1>2, NoFileAssumption DEF Record, ActiveStates
    <3>3. i \notin badActive'
      BY <1>1, <1>2, RegistryAssumption DEF Inv, DamageInv, FilesInv, TypeOK, Files, Record
    <3> QED BY <3>1, <3>2, <3>3, SMTT(30) DEF Entries, HasTomb, HasActive, AsEntry
  <2>2. \A j \in Instances \ {i} : Entries'[j] = Entries[j]
    BY <1>1, <1>2 DEF Entries, HasTomb, HasActive, AsEntry, Inv, TypeOK
  <2> QED BY <2>1, <2>2, OneEntry
<1>10. Ledger!Cardinality(Ledger!Running) = Cardinality(Ledger!Running)
  BY DEF Ledger!Cardinality, Cardinality
<1>11. Ledger!Reserve(i, r, job.call.additional, n)
  BY <1>3, <1>4, <1>6, <1>7, <1>8, <1>9, <1>10 DEF Ledger!Reserve
<1> QED BY <1>11

LEMMA MergedActive ==
    ASSUME NEW q, NEW o, NEW a \in ActiveStates, NEW A, NEW s, NEW E
    PROVE  Ledger!Merged([req |-> q, ord |-> o, state |-> a, ev |-> A], s, E)
             = [req |-> q, ord |-> o, state |-> s, ev |-> A \cup E]
<1> DEFINE before == [req |-> q, ord |-> o, state |-> a, ev |-> A]
           after  == [req : {q}, ord : {o}, state : {s}, ev : {A \cup E}]
<1>1. a \in Ledger!ActiveStates BY DEF Ledger!ActiveStates, ActiveStates
<1>2. before \in [req : {q}, ord : {o}, state : {a}, ev : {A}] OBVIOUS
<1>3. [before EXCEPT !.state = s, !.ev = A \cup E] \in after
  BY <1>2
<1>4. \A e \in after : e = [req |-> q, ord |-> o, state |-> s, ev |-> A \cup E] OBVIOUS
<1>5. Ledger!Merged(before, s, E) = [before EXCEPT !.state = s, !.ev = A \cup E]
  BY <1>1 DEF Ledger!Merged
<1> QED BY <1>3, <1>4, <1>5

LEMMA MergedRetired ==
    ASSUME NEW q, NEW o, NEW a \in RetiredStates, NEW A, NEW s, NEW E
    PROVE  Ledger!Merged([req |-> q, ord |-> o, state |-> a, ev |-> A], s, E)
             = [req |-> q, ord |-> o, state |-> a, ev |-> A \cup E]
<1> DEFINE before == [req |-> q, ord |-> o, state |-> a, ev |-> A]
           after  == [req : {q}, ord : {o}, state : {a}, ev : {A \cup E}]
<1>1. a \notin Ledger!ActiveStates BY DEF Ledger!ActiveStates, RetiredStates
<1>2. before \in [req : {q}, ord : {o}, state : {a}, ev : {A}] OBVIOUS
<1>3. [before EXCEPT !.state = a, !.ev = A \cup E] \in after
  BY <1>2
<1>4. \A e \in after : e = [req |-> q, ord |-> o, state |-> a, ev |-> A \cup E] OBVIOUS
<1>5. Ledger!Merged(before, s, E) = [before EXCEPT !.state = a, !.ev = A \cup E]
  BY <1>1 DEF Ledger!Merged
<1> QED BY <1>3, <1>4, <1>5

(* An update that retires a launch takes effect with its tombstone.        *)
LEMMA WriteTombRefines ==
    ASSUME Inv, WriteTomb
    PROVE  \E i \in Instances : Ledger!Update(i, job.call.state, job.call.ev)
<1> DEFINE x == job.rec.inst
           r == job.rec.req
<1>1. /\ x \in Instances /\ r \in Requests /\ made[x] = r /\ r # NoRequest
      /\ x \in Files /\ x \notin badActive /\ active[x] \in Record /\ job \in Job
      /\ active[x].state \in ActiveStates
      /\ job.rec = Changed(active[x]) /\ job.rec \in Record
      /\ job.rec.state \in RetiredStates /\ job.call.state \in RetiredStates
      /\ tomb[r] = NoFile /\ r \notin badTomb
      /\ tomb' = [tomb EXCEPT ![r] = job.rec]
      /\ UNCHANGED <<active, badActive, badTomb, made>>
  BY RegistryAssumption
     DEF WriteTomb, damage, Inv, TypeOK, JobInv, RetireInv, FilesInv, DamageInv, Files, Record
<1>2. Entries[x] = AsEntry(active[x], active[x].state)
  BY <1>1, EntryOf DEF HasTomb, HasActive, Files
<1>3. Entries'[x] = AsEntry(job.rec, job.rec.state)
  <2>1. tomb'[r] = job.rec /\ job.rec # NoFile
    BY <1>1, NoFileAssumption DEF Inv, TypeOK
  <2> QED BY <1>1, <2>1 DEF Entries, HasTomb
<1>4. /\ job.rec.req = active[x].req /\ job.rec.ord = active[x].ord
      /\ job.rec.ev = active[x].ev \cup job.call.ev
      /\ job.rec.state = job.call.state
  BY <1>1, ChangedRecord, RegistryAssumption
     DEF Keep, ActiveStates, RetiredStates
<1>5. Entries'[x] = Ledger!Merged(Entries[x], job.call.state, job.call.ev)
  <2> DEFINE e == AsEntry(active[x], active[x].state)
  <2>1. /\ e = [req |-> active[x].req, ord |-> active[x].ord, state |-> active[x].state,
                ev |-> active[x].ev]
        /\ e.state \in Ledger!ActiveStates
    BY <1>1 DEF AsEntry, Ledger!ActiveStates, ActiveStates
  <2>2. AsEntry(job.rec, job.rec.state)
          = [req |-> active[x].req, ord |-> active[x].ord, state |-> job.call.state,
             ev |-> active[x].ev \cup job.call.ev]
    BY <1>4 DEF AsEntry
  <2>3. Ledger!Merged(e, job.call.state, job.call.ev) = AsEntry(job.rec, job.rec.state)
    BY <1>1, <2>2, MergedActive DEF AsEntry
  <2> QED BY <1>2, <1>3, <2>3
<1>6. \A j \in Instances \ {x} : Entries'[j] = Entries[j]
  <2> SUFFICES ASSUME NEW j \in Instances, j # x PROVE Entries'[j] = Entries[j]
    OBVIOUS
  <2>1. HasTomb(j)' = HasTomb(j) /\ (HasTomb(j) => made[j] # r)
    BY <1>1 DEF HasTomb, Inv, TypeOK
  <2> QED BY <1>1, <2>1 DEF Entries, HasActive, AsEntry, Inv, TypeOK
<1>7. Entries[x].state \in Ledger!ActiveStates
  BY <1>1, <1>2 DEF AsEntry, Ledger!ActiveStates, ActiveStates
<1> HIDE DEF x
<1>8. Entries' = [Entries EXCEPT ![x] =
                    Ledger!Merged(Entries[x], job.call.state, job.call.ev)]
  BY <1>1, <1>5, <1>6, OneEntry
<1> QED BY <1>1, <1>7, <1>8 DEF Ledger!Update

LEMMA UpdateActiveRefines ==
    ASSUME Inv, NEW i \in Instances, UpdateActive(i)
    PROVE  \E s \in ActiveStates : Ledger!Update(i, s, job.call.ev)
<1> DEFINE old == active[i]
           new == Changed(old)
<1>1. /\ job \in Job /\ i \in Files /\ i \notin badActive
      /\ old \in Record /\ made[i] = old.req /\ made[i] # NoRequest
      /\ old.state \in ActiveStates /\ new.state \in ActiveStates
      /\ active' = [active EXCEPT ![i] = new]
      /\ tomb[made[i]] = NoFile
      /\ UNCHANGED <<tomb, badActive, badTomb, made>>
  BY RegistryAssumption
     DEF UpdateActive, Updates, Acting, damage, Inv, TypeOK, JobInv, ListInv, VerdictInv,
         FilesInv, Files, Untombed, Record
<1>2. /\ new \in Record /\ new # NoFile /\ new.req = old.req /\ new.ord = old.ord
      /\ new.ev = old.ev \cup job.call.ev
  BY <1>1, ChangedRecord, NoFileAssumption
<1>3. Entries[i] = [req |-> old.req, ord |-> old.ord, state |-> old.state, ev |-> old.ev]
  BY <1>1 DEF Entries, HasTomb, HasActive, Files, AsEntry
<1> HIDE DEF new
<1>4. active'[i] = new
  BY <1>1 DEF Inv, TypeOK
<1>5. Entries'[i] = [req |-> new.req, ord |-> new.ord, state |-> new.state, ev |-> new.ev]
  BY <1>1, <1>2, <1>4 DEF Entries, HasTomb, HasActive, AsEntry
<1>6. Entries'[i] = Ledger!Merged(Entries[i], new.state, job.call.ev)
  BY <1>1, <1>2, <1>3, <1>5, MergedActive
<1>7. \A j \in Instances \ {i} : Entries'[j] = Entries[j]
  BY <1>1 DEF Entries, HasTomb, HasActive, AsEntry, Inv, TypeOK
<1>8. Entries' = [Entries EXCEPT ![i] = Ledger!Merged(Entries[i], new.state, job.call.ev)]
  BY <1>6, <1>7, OneEntry
<1>9. Entries[i].state \in Ledger!ActiveStates
  BY <1>1, <1>3 DEF Ledger!ActiveStates, ActiveStates
<1> QED BY <1>1, <1>8, <1>9 DEF Ledger!Update

LEMMA UpdateRetiredRefines ==
    ASSUME Inv, NEW i \in Instances, UpdateRetired(i)
    PROVE  Ledger!Update(i, "exited", job.call.ev)
<1> DEFINE r == index[i]
           old == tomb[r]
           new == [old EXCEPT !.ev = @ \cup job.call.ev]
<1>1. /\ job \in Job /\ r \in Requests /\ r = made[i] /\ r # NoRequest /\ r \notin badTomb
      /\ old \in Record /\ old # NoFile /\ old.inst = i /\ old.state \in RetiredStates
      /\ tomb' = [tomb EXCEPT ![r] = new]
      /\ UNCHANGED <<active, badActive, badTomb, made>>
  BY RegistryAssumption
     DEF UpdateRetired, Updates, Acting, damage, Inv, TypeOK, FilesInv, Indexed
<1>2. /\ new \in Record /\ new # NoFile /\ new.inst = i /\ new.req = old.req
      /\ new.ord = old.ord /\ new.state = old.state /\ new.ev = old.ev \cup job.call.ev
  BY <1>1, NoFileAssumption DEF Record, Job, Call
<1> HIDE DEF new
<1>3. Entries[i] = [req |-> old.req, ord |-> old.ord, state |-> old.state, ev |-> old.ev]
  BY <1>1 DEF Entries, HasTomb, AsEntry
<1>4. tomb'[r] = new
  BY <1>1 DEF Inv, TypeOK
<1>5. Entries'[i] = [req |-> new.req, ord |-> new.ord, state |-> new.state, ev |-> new.ev]
  BY <1>1, <1>2, <1>4 DEF Entries, HasTomb, AsEntry
<1>6. Entries'[i] = Ledger!Merged(Entries[i], "exited", job.call.ev)
  BY <1>1, <1>2, <1>3, <1>5, MergedRetired
<1>7. \A j \in Instances \ {i} : Entries'[j] = Entries[j]
  <2> SUFFICES ASSUME NEW j \in Instances, j # i PROVE Entries'[j] = Entries[j]
    OBVIOUS
  <2>1. CASE made[j] = r
    BY <1>1, <1>2, <1>4, <2>1 DEF Entries, HasTomb, HasActive, AsEntry
  <2>2. CASE made[j] # r
    <3>1. made[j] \in Requests => tomb'[made[j]] = tomb[made[j]]
      BY <1>1, <2>2 DEF Inv, TypeOK
    <3> QED BY <1>1, <2>2, <3>1 DEF Entries, HasTomb, HasActive, AsEntry, Inv, TypeOK
  <2> QED BY <2>1, <2>2
<1>8. Entries' = [Entries EXCEPT ![i] = Ledger!Merged(Entries[i], "exited", job.call.ev)]
  BY <1>6, <1>7, OneEntry
<1>9. Entries[i].state \in Ledger!RetiredStates
  BY <1>1, <1>3 DEF Ledger!RetiredStates, RetiredStates
<1> QED BY <1>8, <1>9 DEF Ledger!Update

(* Damage loses a launch, seals the outcome of a retired one, or, when the *)
(* file was no longer the one that decides, changes nothing.               *)
LEMMA DamageRefines ==
    ASSUME Inv, Damage
    PROVE  Entries' = Entries \/ \E i \in Instances : Ledger!Lose(i) \/ Ledger!Seal(i)
<1> USE DEF Damage, files
<1>1. ASSUME NEW i \in Files \ badActive, badActive' = badActive \cup {i},
             UNCHANGED <<badTomb, badIndex>>
      PROVE  Entries' = Entries \/ Ledger!Lose(i)
  <2>1. i \in Instances /\ made[i] # NoRequest /\ active[i].state \in ActiveStates
    BY <1>1, RegistryAssumption DEF Files, Inv, TypeOK, FilesInv, Record
  <2>2. \A j \in Instances \ {i} : Entries'[j] = Entries[j]
    BY <1>1 DEF Entries, HasTomb, HasActive, AsEntry
  <2>3. CASE HasTomb(i)
    <3>1. Entries'[i] = Entries[i]
      BY <1>1, <2>1, <2>3 DEF Entries, HasTomb, AsEntry
    <3> QED BY <2>2, <3>1 DEF Entries
  <2>4. CASE ~HasTomb(i)
    <3>1. Entries'[i] = Ledger!Lost
      BY <1>1, <2>1, <2>4 DEF Entries, HasTomb, HasActive, Ledger!Lost
    <3>2. Entries[i].state \in Ledger!ActiveStates
      BY <1>1, <2>1, <2>4
         DEF Entries, HasActive, Files, AsEntry, Ledger!ActiveStates, ActiveStates
    <3>3. Entries' = [Entries EXCEPT ![i] = Ledger!Lost]
      BY <2>1, <2>2, <3>1, OneEntry
    <3> QED BY <3>2, <3>3 DEF Ledger!Lose
  <2> QED BY <2>3, <2>4
<1>2. ASSUME NEW r \in Requests, r \notin badTomb, tomb[r] # NoFile,
             badTomb' = badTomb \cup {r}, UNCHANGED <<badActive, badIndex>>
      PROVE  Ledger!Seal(tomb[r].inst)
  <2> DEFINE i == tomb[r].inst
  <2>1. /\ i \in Instances /\ made[i] = r /\ r # NoRequest
        /\ tomb[r] \in Record /\ tomb[r].state \in RetiredStates
    BY <1>2, RegistryAssumption DEF Inv, TypeOK, FilesInv, Record
  <2>2. HasTomb(i)
    BY <1>2, <2>1 DEF HasTomb
  <2>3. Entries[i] = [req |-> tomb[r].req, ord |-> tomb[r].ord, state |-> tomb[r].state,
                      ev |-> tomb[r].ev]
    BY <1>2, <2>1, <2>2 DEF Entries, AsEntry
  <2>4. Entries'[i] = [req |-> tomb[r].req, ord |-> tomb[r].ord, state |-> "sealed",
                       ev |-> tomb[r].ev]
    BY <1>2, <2>1, <2>2 DEF Entries, HasTomb, AsEntry
  <2>5. \A j \in Instances \ {i} : Entries'[j] = Entries[j]
    BY <1>2, <2>1 DEF Entries, HasTomb, HasActive, AsEntry
  <2> HIDE DEF i
  <2>6. Entries'[i] = [Entries[i] EXCEPT !.state = "sealed"]
    BY <2>3, <2>4
  <2>7. Entries' = [Entries EXCEPT ![i] = [Entries[i] EXCEPT !.state = "sealed"]]
    BY <2>1, <2>5, <2>6, OneEntry
  <2>8. Entries[i].state \in Ledger!RetiredStates
    BY <2>1, <2>3 DEF Ledger!RetiredStates, RetiredStates
  <2> QED BY <2>7, <2>8 DEF Ledger!Seal, i
<1>3. CASE UNCHANGED <<badActive, badTomb>>
  BY <1>3, SameEntries
<1>4. \A r \in Requests : tomb[r] # NoFile => tomb[r].inst \in Instances
  BY DEF Inv, TypeOK, Record
<1> QED BY <1>1, <1>2, <1>3, <1>4 DEF Files

-----------------------------------------------------------------------------

LEMMA InitRefines == Init => Ledger!LedgerInit
<1> SUFFICES ASSUME Init PROVE Entries = [i \in Instances |-> Ledger!Absent]
  BY DEF Ledger!LedgerInit
<1> QED BY DEF Init, Entries, Ledger!Absent

LEMMA StepRefines ==
    ASSUME Inv, [Next]_vars
    PROVE  [Ledger!LedgerNext]_Entries
<1> USE DEF Ledger!ActiveStates, Ledger!RetiredStates
<1>1. CASE UNCHANGED <<active, tomb, badActive, badTomb, made>>
  BY <1>1, SameEntries
<1>2. ASSUME NEW i \in Instances, Quarantine(i) PROVE Entries' = Entries
  BY <1>2, QuarantineRefines
<1>3. CASE Unlink
  BY <1>3, UnlinkRefines
<1>4. CASE ReserveCreate
  <2>1. job.call.req \in Requests /\ job.call.additional \in BOOLEAN
    BY <1>4 DEF ReserveCreate, Creates, Acting, Inv, TypeOK, JobInv, CallInv, Job, Call
  <2> QED BY <1>4, <2>1, ReserveRefines DEF Ledger!LedgerNext
<1>5. CASE WriteTomb
  <2>1. /\ job.call.ev \in SUBSET Roles
        /\ job.call.state \in RetiredStates
    BY <1>5 DEF WriteTomb, Inv, TypeOK, JobInv, RetireInv, Job, Call
  <2> QED BY <1>5, <2>1, WriteTombRefines DEF Ledger!LedgerNext, RetiredStates
<1>6. ASSUME NEW i \in Instances, UpdateActive(i) PROVE Ledger!LedgerNext
  <2>1. job.call.ev \in SUBSET Roles
    BY <1>6 DEF UpdateActive, Updates, Acting, Inv, TypeOK, Job, Call
  <2> QED BY <1>6, <2>1, UpdateActiveRefines DEF Ledger!LedgerNext, ActiveStates
<1>7. ASSUME NEW i \in Instances, UpdateRetired(i) PROVE Ledger!LedgerNext
  <2>1. job.call.ev \in SUBSET Roles
    BY <1>7 DEF UpdateRetired, Updates, Acting, Inv, TypeOK, Job, Call
  <2> QED BY <1>7, <2>1, UpdateRetiredRefines DEF Ledger!LedgerNext
<1>8. CASE Damage
  BY <1>8, DamageRefines DEF Ledger!LedgerNext
<1>9. \/ UNCHANGED <<active, tomb, badActive, badTomb, made>>
      \/ \E i \in Instances : Quarantine(i) \/ UpdateActive(i) \/ UpdateRetired(i)
      \/ Unlink \/ ReserveCreate \/ WriteTomb \/ Damage
  BY DEF Next, vars, files, damage, Begin, BeginReplay, BeginRefused, BeginScan, Scan,
         ScanTombed, ScanConflict, ScanActive, MarkFault, Retire, EnsureIndex,
         IndexUnreadable, Act, ReturnRecords, ReturnFound, ReserveReplay,
         ReserveJoin, ReserveFull, UpdateConflict, UpdateRetires, UpdateMissing, Abandon
<1> QED BY <1>1, <1>2, <1>3, <1>4, <1>5, <1>6, <1>7, <1>8, <1>9

(* The record files implement the ledger, through any crash between two    *)
(* writes and any damage to a file.                                        *)
THEOREM FilesImplementLedger == Spec => ImplementsLedger
<1>1. Init => Ledger!LedgerInit
  BY InitRefines
<1>2. Inv /\ [Next]_vars => [Ledger!LedgerNext]_Entries
  BY StepRefines
<1> QED BY <1>1, <1>2, Invariant, PTL DEF Spec, ImplementsLedger, Ledger!LedgerSpec

-----------------------------------------------------------------------------
(* What is proved of the ledger holds of the launches the files stand for. *)

Proved == INSTANCE LedgerProofs WITH ledger <- Entries

LEMMA LedgerConstants == Proved!LedgerAssumption
  BY RegistryAssumption DEF Proved!LedgerAssumption, Proved!IsFiniteSet, IsFiniteSet

LEMMA SameLedger == Ledger!LedgerSpec => Proved!LedgerSpec
<1>1. Ledger!LedgerInit => Proved!LedgerInit
  BY DEF Ledger!LedgerInit, Proved!LedgerInit, Ledger!Absent, Proved!Absent
<1>2. [Ledger!LedgerNext]_Entries => [Proved!LedgerNext]_Entries
  <2>1. \A i : Ledger!Seal(i) <=> Proved!Seal(i)
    BY DEF Ledger!Seal, Proved!Seal, Ledger!RetiredStates, Proved!RetiredStates
  <2>2. \A i : Ledger!Lose(i) <=> Proved!Lose(i)
    BY DEF Ledger!Lose, Proved!Lose, Ledger!ActiveStates, Proved!ActiveStates,
           Ledger!Lost, Proved!Lost
  <2>3. \A i, s, E : Ledger!Update(i, s, E) <=> Proved!Update(i, s, E)
    BY DEF Ledger!Update, Proved!Update, Ledger!ActiveStates, Proved!ActiveStates,
           Ledger!RetiredStates, Proved!RetiredStates, Ledger!Merged, Proved!Merged
  <2>4. \A i, r, a, n : Ledger!Reserve(i, r, a, n) <=> Proved!Reserve(i, r, a, n)
    <3>1. Ledger!Running = Proved!Running
      BY DEF Ledger!Running, Proved!Running, Ledger!ActiveStates, Proved!ActiveStates
    <3>2. Ledger!Cardinality(Ledger!Running) = Proved!Cardinality(Proved!Running)
      BY <3>1 DEF Ledger!Cardinality, Proved!Cardinality
    <3>3. Ledger!UsedOrdinals = Proved!UsedOrdinals
      BY <3>1 DEF Ledger!UsedOrdinals, Proved!UsedOrdinals
    <3> QED BY <3>1, <3>2, <3>3 DEF Ledger!Reserve, Proved!Reserve, Ledger!Absent,
            Proved!Absent, Ledger!Reserved, Proved!Reserved
  <2> QED BY <2>1, <2>2, <2>3, <2>4
          DEF Ledger!LedgerNext, Proved!LedgerNext, Ledger!ActiveStates,
              Proved!ActiveStates, Ledger!RetiredStates, Proved!RetiredStates
<1> QED BY <1>1, <1>2, PTL DEF Ledger!LedgerSpec, Proved!LedgerSpec

(* Two launches that run at the same time carry different window numbers.  *)
THEOREM WindowNumbers == Spec => []OrdinalsDistinct
<1>1. Proved!LedgerSpec => []Proved!OrdinalsDistinct
  BY Proved!LedgerOrdinals, LedgerConstants
<1>2. Proved!OrdinalsDistinct => OrdinalsDistinct
  BY DEF Proved!OrdinalsDistinct, OrdinalsDistinct, Ledger!OrdinalsDistinct,
         Ledger!Running, Proved!Running, Ledger!ActiveStates, Proved!ActiveStates
<1> QED BY <1>1, <1>2, FilesImplementLedger, SameLedger, PTL DEF ImplementsLedger

(* The outcome of a retired launch is final.                               *)
THEOREM FinalOutcome == Spec => OutcomeIsFinal
<1>1. Proved!LedgerSpec => Proved!OutcomeIsFinal
  BY Proved!LedgerOutcome, LedgerConstants
<1>2. Proved!OutcomeIsFinal => OutcomeIsFinal
  BY DEF Proved!OutcomeIsFinal, OutcomeIsFinal, Ledger!OutcomeIsFinal,
         Ledger!RetiredStates, Proved!RetiredStates
<1> QED BY <1>1, <1>2, FilesImplementLedger, SameLedger DEF ImplementsLedger
=============================================================================
