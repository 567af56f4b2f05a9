------------------------------ MODULE LedgerProofs ------------------------------
(***************************************************************************)
(* Proofs about the ledger: its type, and the three promises made to the   *)
(* callers of the registry.                                                *)
(***************************************************************************)
EXTENDS LaunchLedger, TLAPS

(* The invariant is inductive once it also says that an entry which is not *)
(* in the ledger, or was lost, names no request.                           *)
Nameless ==
    \A i \in Instances :
        ledger[i].state \in ActiveStates \cup RetiredStates => ledger[i].req # NoRequest

LedgerInv == LedgerTypeOK /\ Nameless /\ RequestNamesOneLaunch /\ OrdinalsDistinct

(* The ledger always maps every identifier to an entry.                    *)
LEMMA InitInv == LedgerInit => LedgerInv
  BY LedgerAssumption DEF LedgerInit, LedgerInv, LedgerTypeOK, Entry, Absent,
     EntryStates, ActiveStates, RetiredStates, Nameless, RequestNamesOneLaunch,
     OrdinalsDistinct, Running

LEMMA StepInv == LedgerInv /\ [LedgerNext]_ledger => LedgerInv'
<1> SUFFICES ASSUME LedgerInv, [LedgerNext]_ledger PROVE LedgerInv'
  OBVIOUS
<1> USE LedgerAssumption DEF LedgerInv, LedgerTypeOK, Nameless
<1>1. CASE UNCHANGED ledger
  BY <1>1 DEF RequestNamesOneLaunch, OrdinalsDistinct, Running
<1>2. ASSUME NEW i \in Instances, NEW r \in Requests, NEW a \in BOOLEAN,
             NEW n \in 1..MaxRecords, Reserve(i, r, a, n)
      PROVE  LedgerInv'
  <2>1. LedgerTypeOK' /\ Nameless'
    BY <1>2 DEF Reserve, Entry, EntryStates, ActiveStates, RetiredStates
  <2>2. RequestNamesOneLaunch'
    BY <1>2 DEF Reserve, Reserved, RequestNamesOneLaunch
  <2>3. OrdinalsDistinct'
    BY <1>2 DEF Reserve, UsedOrdinals, Running, OrdinalsDistinct, ActiveStates
  <2> QED BY <2>1, <2>2, <2>3
<1>3. ASSUME NEW i \in Instances, NEW s \in ActiveStates \cup RetiredStates,
             NEW E \in SUBSET Roles, Update(i, s, E)
      PROVE  LedgerInv'
  <2>1. /\ Merged(ledger[i], s, E) \in Entry
        /\ Merged(ledger[i], s, E).req = ledger[i].req
        /\ Merged(ledger[i], s, E).ord = ledger[i].ord
        /\ Merged(ledger[i], s, E).state \in ActiveStates => ledger[i].state \in ActiveStates
    BY DEF Merged, Entry, EntryStates, ActiveStates, RetiredStates
  <2>2. LedgerTypeOK' /\ Nameless'
    BY <1>3, <2>1 DEF Update
  <2>3. RequestNamesOneLaunch'
    BY <1>3, <2>1 DEF Update, RequestNamesOneLaunch
  <2>4. OrdinalsDistinct'
    BY <1>3, <2>1 DEF Update, OrdinalsDistinct, Running
  <2> QED BY <2>2, <2>3, <2>4
<1>4. ASSUME NEW i \in Instances, Seal(i)
      PROVE  LedgerInv'
  BY <1>4 DEF Seal, Entry, EntryStates, ActiveStates, RetiredStates,
     RequestNamesOneLaunch, OrdinalsDistinct, Running
<1>5. ASSUME NEW i \in Instances, Lose(i)
      PROVE  LedgerInv'
  BY <1>5 DEF Lose, Lost, Entry, EntryStates, ActiveStates, RetiredStates,
     RequestNamesOneLaunch, OrdinalsDistinct, Running
<1> QED BY <1>1, <1>2, <1>3, <1>4, <1>5 DEF LedgerNext

(* Every reachable ledger satisfies the invariant.                         *)
THEOREM LedgerInvariant == LedgerSpec => []LedgerInv
<1>1. LedgerInit => LedgerInv
  BY InitInv
<1>2. LedgerInv /\ [LedgerNext]_ledger => LedgerInv'
  BY StepInv
<1> QED BY <1>1, <1>2, PTL DEF LedgerSpec

(* A request names one launch, for any number of instances and requests.   *)
THEOREM LedgerRequests == LedgerSpec => []RequestNamesOneLaunch
<1>1. LedgerInv => RequestNamesOneLaunch
  BY DEF LedgerInv
<1> QED BY <1>1, LedgerInvariant, PTL

(* Launches that run at the same time carry different window numbers.      *)
THEOREM LedgerOrdinals == LedgerSpec => []OrdinalsDistinct
<1>1. LedgerInv => OrdinalsDistinct
  BY DEF LedgerInv
<1> QED BY <1>1, LedgerInvariant, PTL

(* The outcome of a retired launch is final.                               *)
THEOREM LedgerOutcome == LedgerSpec => OutcomeIsFinal
<1> DEFINE Final == \A i \in Instances :
                        ledger[i].state \in RetiredStates =>
                            ledger'[i].state \in {ledger[i].state, "sealed"}
<1>1. LedgerInv /\ [LedgerNext]_ledger => [Final]_ledger
  <2> SUFFICES ASSUME LedgerInv, LedgerNext PROVE Final
    OBVIOUS
  <2> USE DEF LedgerInv, LedgerTypeOK, Entry
  <2>1. ASSUME NEW i \in Instances, NEW r \in Requests, NEW a \in BOOLEAN,
               NEW n \in 1..MaxRecords, Reserve(i, r, a, n)
        PROVE  Final
    BY <2>1 DEF Reserve, Absent, RetiredStates
  <2>2. ASSUME NEW i \in Instances, NEW s \in ActiveStates \cup RetiredStates,
               NEW E \in SUBSET Roles, Update(i, s, E)
        PROVE  Final
    BY <2>2 DEF Update, Merged, ActiveStates, RetiredStates
  <2>3. ASSUME NEW i \in Instances, Seal(i) PROVE Final
    BY <2>3 DEF Seal
  <2>4. ASSUME NEW i \in Instances, Lose(i) PROVE Final
    BY <2>4 DEF Lose, ActiveStates, RetiredStates
  <2> QED BY <2>1, <2>2, <2>3, <2>4 DEF LedgerNext
<1> QED BY <1>1, LedgerInvariant, PTL DEF LedgerSpec, OutcomeIsFinal
=============================================================================
