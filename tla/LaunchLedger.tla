------------------------------ MODULE LaunchLedger ------------------------------
(***************************************************************************)
(* What the launch registry of one target promises to the pickers and      *)
(* viewers that share it, with no files, no lock and no crash: a ledger    *)
(* with one entry per launch instance.                                     *)
(*                                                                         *)
(* An entry is created by a reservation, keeps the request it was reserved *)
(* for, moves freely among the active states, and stops for good in one of *)
(* the two retired states; process evidence is only ever added to it.      *)
(* Registry.tla shows that the record files implement this ledger, and     *)
(* Launch.tla runs the pickers, the viewers and their processes over it.   *)
(***************************************************************************)
EXTENDS Naturals, FiniteSets

CONSTANTS
    Instances,      \* instance identifiers (uuid4): each names one launch
    Requests,       \* idempotency keys carried by the open requests
    Roles,          \* the process identities a record collects as evidence
    MaxRecords,     \* registry.MAX_RECORDS
    NoRequest       \* the request of an entry that names none

ASSUME LedgerAssumption ==
    /\ NoRequest \notin Requests
    /\ MaxRecords \in Nat \ {0}
    /\ IsFiniteSet(Instances)

ActiveStates  == {"reserved", "dispatching", "opening", "live", "uncertain"}
RetiredStates == {"exited", "failed"}

(* "sealed": retired, but its tombstone can no longer be read.  "lost": its *)
(* record was unreadable before it was retired.                             *)
EntryStates == ActiveStates \cup RetiredStates \cup {"absent", "sealed", "lost"}

Entry == [req   : Requests \cup {NoRequest},
          ord   : 0..MaxRecords,
          state : EntryStates,
          ev    : SUBSET Roles]

Absent == [req |-> NoRequest, ord |-> 0, state |-> "absent", ev |-> {}]
Lost   == [req |-> NoRequest, ord |-> 0, state |-> "lost",   ev |-> {}]

VARIABLE ledger     \* [Instances -> Entry]

(* The instances a first Open finds running: at most one normally, more by *)
(* explicit additional Opens.                                              *)
Running == {i \in Instances : ledger[i].state \in ActiveStates}

Reserved(r) == {i \in Instances : ledger[i].req = r}

UsedOrdinals == {ledger[i].ord : i \in Running}

-----------------------------------------------------------------------------

LedgerInit == ledger = [i \in Instances |-> Absent]

(* Mutant: a first Open does not look for a launch already running.        *)
ReserveBeside(i, r, additional, n) ==
    /\ ledger[i] = Absent
    /\ Reserved(r) = {}
    /\ n \in (1..MaxRecords) \ UsedOrdinals
    /\ ledger' = [ledger EXCEPT ![i] =
                    [req |-> r, ord |-> n, state |-> "reserved", ev |-> {}]]

(* A new launch: the request is new to the ledger, a first Open finds      *)
(* nothing running, and the ordinal labels no other running window.        *)
Reserve(i, r, additional, n) ==
    /\ ledger[i] = Absent
    /\ Reserved(r) = {}
    /\ additional \/ Running = {}
    /\ Cardinality(Running) < MaxRecords
    /\ n \in (1..MaxRecords) \ UsedOrdinals
    /\ ledger' = [ledger EXCEPT ![i] =
                    [req |-> r, ord |-> n, state |-> "reserved", ev |-> {}]]

(* What an update does to an entry: the evidence is merged, and the state  *)
(* is taken only by an entry that has not been retired.                    *)
Merged(e, s, E) ==
    [e EXCEPT !.state = IF @ \in ActiveStates THEN s ELSE @,
              !.ev    = @ \cup E]

Update(i, s, E) ==
    /\ ledger[i].state \in ActiveStates \cup RetiredStates
    /\ ledger' = [ledger EXCEPT ![i] = Merged(@, s, E)]

(* The two ways an entry becomes unreadable, neither done by the program.  *)
Seal(i) ==
    /\ ledger[i].state \in RetiredStates
    /\ ledger' = [ledger EXCEPT ![i].state = "sealed"]

Lose(i) ==
    /\ ledger[i].state \in ActiveStates
    /\ ledger' = [ledger EXCEPT ![i] = Lost]

LedgerNext ==
    \E i \in Instances :
        \/ \E r \in Requests, additional \in BOOLEAN, n \in 1..MaxRecords :
                Reserve(i, r, additional, n)
        \/ \E s \in ActiveStates \cup RetiredStates, E \in SUBSET Roles :
                Update(i, s, E)
        \/ Seal(i)
        \/ Lose(i)

LedgerSpec == LedgerInit /\ [][LedgerNext]_ledger

-----------------------------------------------------------------------------

LedgerTypeOK == ledger \in [Instances -> Entry]

(* A request, however often it is replayed, names one launch: no two       *)
(* entries were reserved for the same request                              *)
(* (registry.Registry.reserve, find_request).                              *)
RequestNamesOneLaunch ==
    \A i, j \in Instances :
        ledger[i].req = ledger[j].req /\ ledger[i].req # NoRequest => i = j

(* The windows of one target that run at the same time carry different     *)
(* ordinals: the number shown beside a row tells the windows apart.        *)
OrdinalsDistinct ==
    \A i, j \in Running : ledger[i].ord = ledger[j].ord => i = j

(* A retired launch never runs again and never changes its outcome         *)
(* ("Late acknowledgements ... must never resurrect a terminal request or  *)
(* change its outcome", registry.update).                                  *)
OutcomeIsFinal ==
    [][\A i \in Instances :
          ledger[i].state \in RetiredStates =>
              ledger'[i].state \in {ledger[i].state, "sealed"}]_ledger
=============================================================================
