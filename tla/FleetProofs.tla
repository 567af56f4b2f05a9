------------------------------ MODULE FleetProofs ------------------------------
(***************************************************************************)
(* Proofs about Fleet: its safety properties, for any number of hosts,     *)
(* routes and threads, and any deadlines.                                  *)
(***************************************************************************)
EXTENDS Fleet, TLAPS

(* What read_fleet has published it has told of once, it publishes a host  *)
(* as answering or unreachable only if its thread returned that, and it    *)
(* leaves the pool only when all is told.                                  *)
MainInv ==
    /\ \A h \in Hosts : told[h] = IF result[h] = "none" THEN 0 ELSE 1
    /\ \A h \in batch : result[h] = "none" /\ thread[h] = "done"
    /\ \A h \in Hosts : result[h] \in {"answer", "unreachable"} => result[h] = answer[h]
    /\ main \in {"exit", "returned"} => \A h \in Hosts : result[h] # "none"

(* A thread between two probes has left no helper behind whose marker      *)
(* arrived, and one that found every route closed never had any.           *)
ThreadInv ==
    \A h \in Hosts :
        /\ thread[h] = "done" <=> answer[h] # "none"
        /\ thread[h] # "ssh" => ~reached[h]
        /\ thread[h] = "ssh" => helped[h] = IF reached[h] THEN 1 ELSE 0
        /\ thread[h] \notin {"ssh", "done"} => helped[h] = 0
        /\ helped[h] <= 1
        /\ answer[h] = "unreachable" => helped[h] = 0
        /\ thread[h] = "route" => h # Local

(* The pool was left when its threads had ended, with no host in its queue *)
(* that one could still take.                                              *)
PoolInv ==
    main = "returned" \/ (main = "raised" /\ alarm = "set") =>
        \A h \in Hosts : thread[h] \in {"done", "cancelled"}

Inv == TypeOK /\ MainInv /\ ThreadInv /\ PoolInv

LEMMA InitInv == Init => Inv
<1>1. ASSUME Init PROVE TypeOK
  <2>1. 0 \in 0..FleetTimeout /\ 0 \in Nat
    BY FleetAssumption
  <2>2. /\ clock \in 0..FleetTimeout
        /\ cancelled \in BOOLEAN /\ alarm \in {"set", "rung"}
    BY <1>1, <2>1 DEF Init
  <2>3. /\ due \in [Hosts -> 0..FleetTimeout] /\ tried \in [Hosts -> Nat]
    BY <1>1, <2>1 DEF Init
  <2>4. /\ reached \in [Hosts -> BOOLEAN]
        /\ told \in [Hosts -> Nat] /\ helped \in [Hosts -> Nat]
        /\ result \in [Hosts -> Results \cup {"none"}]
        /\ answer \in [Hosts -> Answers \cup {"none"}]
    BY <1>1 DEF Init
  <2> QED BY <1>1, <2>2, <2>3, <2>4 DEF Init, TypeOK
<1>2. Init => MainInv
  BY DEF Init, MainInv, Answers
<1>3. Init => ThreadInv /\ PoolInv
  BY DEF Init, ThreadInv, PoolInv
<1> QED BY <1>1, <1>2, <1>3 DEF Inv

(* A thread's return, from any state that owes the helper no more than its *)
(* own probe.                                                              *)
LEMMA ReturnsInv ==
    ASSUME Inv, NEW h \in Hosts, NEW kind \in Answers, thread[h] \in {"start", "route", "ssh"},
           kind = "unreachable" => thread[h] # "ssh", Returns(h, kind)
    PROVE  Inv'
<1>1. UNCHANGED <<clock, cancelled, alarm, main, batch, result, told, helped>>
  BY DEF Returns, world, mainVars
<1>2. /\ thread' = [thread EXCEPT ![h] = "done"] /\ answer' = [answer EXCEPT ![h] = kind]
      /\ due' = [due EXCEPT ![h] = 0] /\ tried' = [tried EXCEPT ![h] = 0]
      /\ reached' = [reached EXCEPT ![h] = FALSE]
  BY DEF Returns, Goes
<1>3. TypeOK'
  BY <1>1, <1>2, FleetAssumption DEF Inv, TypeOK
<1>4. MainInv'
  BY <1>1, <1>2 DEF Inv, TypeOK, MainInv, ThreadInv, Answers
<1>5. ThreadInv'
  <2>1. ASSUME NEW k \in Hosts, k # h PROVE
          /\ thread'[k] = thread[k] /\ answer'[k] = answer[k] /\ reached'[k] = reached[k]
    BY <1>2, <2>1 DEF Inv, TypeOK
  <2>2. thread'[h] = "done" /\ answer'[h] = kind /\ ~reached'[h]
    BY <1>2 DEF Inv, TypeOK
  <2> QED BY <1>1, <2>1, <2>2 DEF Inv, TypeOK, ThreadInv, Answers
<1>6. PoolInv'
  BY <1>1, <1>2 DEF Inv, TypeOK, PoolInv
<1> QED BY <1>3, <1>4, <1>5, <1>6 DEF Inv

(* Every other step of a thread. *)
LEMMA ThreadStep ==
    ASSUME Inv, NEW h \in Hosts, Thread(h) \/ Reach(h)
    PROVE  Inv'
<1> USE FleetAssumption
<1>1. ASSUME Begin(h) PROVE Inv'
  <2>1. /\ thread' = [thread EXCEPT ![h] = "start"] /\ thread[h] = "queued"
        /\ UNCHANGED <<clock, cancelled, alarm, main, batch, result, told, tried,
                       reached, answer, helped>>
        /\ due' \in [Hosts -> 0..FleetTimeout]
    BY <1>1 DEF Begin, At, Goes, world, mainVars, Inv, TypeOK
  <2>2. TypeOK' BY <2>1 DEF Inv, TypeOK
  <2>3. MainInv' /\ ThreadInv' /\ PoolInv'
    BY <2>1 DEF Inv, TypeOK, MainInv, ThreadInv, PoolInv
  <2> QED BY <2>2, <2>3 DEF Inv
<1>2. ASSUME RunLocal(h) PROVE Inv'
  <2>1. /\ thread' = [thread EXCEPT ![h] = "ssh"] /\ thread[h] = "start"
        /\ reached' = [reached EXCEPT ![h] = TRUE]
        /\ helped' = [helped EXCEPT ![h] = helped[h] + 1]
        /\ UNCHANGED <<clock, cancelled, alarm, main, batch, result, told, tried,
                       due, answer>>
    BY <1>2 DEF RunLocal, At, Goes, world, mainVars
  <2>2. TypeOK' BY <2>1 DEF Inv, TypeOK
  <2>3. MainInv' /\ ThreadInv' /\ PoolInv'
    BY <2>1 DEF Inv, TypeOK, MainInv, ThreadInv, PoolInv
  <2> QED BY <2>2, <2>3 DEF Inv
<1>3. ASSUME OutOfTime(h) PROVE Inv'
  BY <1>3, ReturnsInv DEF OutOfTime, Loop, At, Answers
<1>4. ASSUME NextRoute(h) PROVE Inv'
  <2>1. /\ thread' = [thread EXCEPT ![h] = "ssh"] /\ thread[h] \in {"start", "route"}
        /\ h \in Remote /\ tried[h] < Routes[h] /\ tried' = [tried EXCEPT ![h] = tried[h] + 1]
        /\ UNCHANGED <<clock, cancelled, alarm, main, batch, result, told, due,
                       reached, answer, helped>>
    BY <1>4 DEF NextRoute, Loop, At, Goes, world, mainVars, Remote, Inv, ThreadInv
  <2>2. TypeOK'
    <3>1. tried[h] + 1 \in Nat
      BY <2>1 DEF Inv, TypeOK
    <3> QED BY <2>1, <3>1 DEF Inv, TypeOK
  <2>3. MainInv' /\ ThreadInv' /\ PoolInv'
    BY <2>1 DEF Inv, TypeOK, MainInv, ThreadInv, PoolInv
  <2> QED BY <2>2, <2>3 DEF Inv
<1>5. ASSUME NoRoute(h) PROVE Inv'
  BY <1>5, ReturnsInv DEF NoRoute, Loop, At, Answers
<1>6. ASSUME Unreached(h) \/ LosesMarker(h) PROVE Inv'
  <2>1. /\ thread' = [thread EXCEPT ![h] = "route"] /\ thread[h] = "ssh" /\ h # Local
        /\ UNCHANGED <<clock, cancelled, alarm, main, batch, result, told, tried,
                       due, answer>>
    BY <1>6 DEF Unreached, LosesMarker, At, Goes, world, mainVars
  <2>2. /\ reached' = [reached EXCEPT ![h] = FALSE]
        /\ helped' = [helped EXCEPT ![h] = 0]
    BY <1>6 DEF Unreached, LosesMarker, At, Inv, TypeOK, ThreadInv
  <2>3. TypeOK' BY <2>1, <2>2 DEF Inv, TypeOK
  <2>4. MainInv' /\ ThreadInv' /\ PoolInv'
    BY <2>1, <2>2 DEF Inv, TypeOK, MainInv, ThreadInv, PoolInv
  <2> QED BY <2>3, <2>4 DEF Inv
<1>7. ASSUME Answered(h) \/ Refused(h) \/ CutOff(h) \/ Breaks(h) PROVE Inv'
  BY <1>7, ReturnsInv DEF Answered, Refused, CutOff, Breaks, Loop, At, Answers
<1>8. ASSUME Reach(h) PROVE Inv'
  <2>1. /\ reached' = [reached EXCEPT ![h] = TRUE] /\ thread[h] = "ssh"
        /\ helped' = [helped EXCEPT ![h] = 1]
        /\ UNCHANGED <<clock, cancelled, alarm, main, batch, result, told, tried,
                       due, answer, thread>>
    <3>1. thread[h] = "ssh" /\ ~reached[h]
      BY <1>8 DEF Reach, At
    <3>2. helped[h] = 0
      BY <3>1 DEF Inv, ThreadInv
    <3> QED BY <1>8, <3>1, <3>2 DEF Reach, world, mainVars
  <2>2. TypeOK' BY <2>1 DEF Inv, TypeOK
  <2>3. MainInv' /\ ThreadInv' /\ PoolInv'
    BY <2>1 DEF Inv, TypeOK, MainInv, ThreadInv, PoolInv
  <2> QED BY <2>2, <2>3 DEF Inv
<1> QED BY <1>1, <1>2, <1>3, <1>4, <1>5, <1>6, <1>7, <1>8 DEF Thread

(* A step of the caller that publishes one host's result. *)
LEMMA PublishedInv ==
    ASSUME Inv, NEW h \in Hosts, NEW kind \in Results, result[h] = "none",
           kind \in {"answer", "unreachable"} => kind = answer[h],
           Published(h, kind), UNCHANGED <<clock, threadVars>>,
           cancelled' \in BOOLEAN, alarm' \in {"set", "rung"},
           main \in {"wait", "expire"}, main' \in {main, "raising"}
    PROVE  Inv'
<1>1. UNCHANGED <<clock, thread, due, tried, reached, answer, helped>>
  BY DEF threadVars
<1>2. TypeOK'
  BY <1>1 DEF Published, Inv, TypeOK
<1>3. MainInv'
  <2>1. ASSUME NEW k \in Hosts, k # h PROVE result'[k] = result[k] /\ told'[k] = told[k]
    BY <2>1 DEF Published, Inv, TypeOK
  <2>2. result'[h] = kind /\ told'[h] = 1 /\ kind # "none"
    BY DEF Published, Inv, TypeOK, MainInv, Results, Answers
  <2>3. batch' = batch \ {h}
    BY DEF Published
  <2> QED BY <1>1, <2>1, <2>2, <2>3 DEF Inv, TypeOK, MainInv, Results, Answers
<1>4. ThreadInv' /\ PoolInv'
  BY <1>1 DEF Inv, ThreadInv, PoolInv
<1> QED BY <1>2, <1>3, <1>4 DEF Inv

LEMMA MainStep == ASSUME Inv, Main PROVE Inv'
<1>1. ASSUME Take PROVE Inv'
  <2>1. /\ UNCHANGED <<clock, cancelled, alarm, main, result, told,
                       thread, due, tried, reached, answer, helped>>
        /\ batch' = {h \in Open : thread[h] = "done"} /\ main = "wait"
    BY <1>1 DEF Take, At, world, threadVars
  <2> QED BY <2>1 DEF Open, Inv, TypeOK, MainInv, ThreadInv, PoolInv
<1>2. ASSUME Publish PROVE Inv'
  <2>1. PICK h \in batch : Published(h, answer[h])
    BY <1>2 DEF Publish
  <2>2. h \in Hosts /\ result[h] = "none" /\ answer[h] \in Results
    BY DEF Inv, TypeOK, MainInv, ThreadInv, Results
  <2>3. UNCHANGED <<clock, threadVars>> /\ cancelled' \in BOOLEAN /\ alarm' \in {"set", "rung"}
    BY <1>2 DEF Publish, world, Inv, TypeOK
  <2> QED BY <1>2, <2>1, <2>2, <2>3, PublishedInv DEF Publish
<1>3. ASSUME Expire PROVE Inv'
  <2>1. PICK h \in Open : Published(h, "expired")
    BY <1>3 DEF Expire
  <2>2. UNCHANGED <<clock, threadVars>> /\ cancelled' \in BOOLEAN /\ alarm' \in {"set", "rung"}
    BY <1>3 DEF Expire, world, Inv, TypeOK
  <2> QED BY <1>3, <2>1, <2>2, PublishedInv DEF Expire, Open, Results
<1>4. ASSUME CancelOne PROVE Inv'
  <2>1. PICK h \in Hosts : thread[h] = "queued" /\ thread' = [thread EXCEPT ![h] = "cancelled"]
    BY <1>4 DEF CancelOne, At, Goes
  <2>2. UNCHANGED <<clock, cancelled, alarm, main, batch, result, told,
                    due, tried, reached, answer, helped>>
    BY <1>4 DEF CancelOne, world, mainVars
  <2> QED BY <2>1, <2>2 DEF Inv, TypeOK, MainInv, ThreadInv, PoolInv
<1>5. ASSUME AllPublished \/ DeadlinePasses \/ AllCancelled \/ AllExpired \/ Leave PROVE Inv'
  <2>1. UNCHANGED <<clock, cancelled, alarm, batch, result, told,
                    thread, due, tried, reached, answer, helped>>
    BY <1>5 DEF AllPublished, DeadlinePasses, AllCancelled, AllExpired, Leave, world, threadVars
  <2>2. /\ main' \in {"cancel", "expire", "exit", "returned", "raised"}
        /\ main' = "exit" => Open = {}
        /\ main' = "returned" => main = "exit"
        /\ main' \in {"returned", "raised"} =>
                \A h \in Hosts : thread[h] \in {"done", "cancelled"}
    BY <1>5 DEF AllPublished, DeadlinePasses, AllCancelled, AllExpired, Leave
  <2> QED BY <2>1, <2>2 DEF Open, Inv, TypeOK, MainInv, ThreadInv, PoolInv
<1> QED BY <1>1, <1>2, <1>3, <1>4, <1>5 DEF Main

(* Time, signals and the alarm leave results and threads alone. *)
LEMMA WorldStep == ASSUME Inv, Tick \/ Signal \/ Alarm PROVE Inv'
<1>1. UNCHANGED <<result, told, thread, due, tried, reached, answer, helped>>
  BY DEF Tick, Signal, Alarm, mainVars, threadVars
<1>2. /\ clock' \in 0..FleetTimeout /\ cancelled' \in BOOLEAN
  <2>1. CASE Tick
    BY <2>1, FleetAssumption DEF Tick, Inv, TypeOK
  <2>2. CASE Signal \/ Alarm
    BY <2>2 DEF Signal, Alarm, Inv, TypeOK
  <2> QED BY <2>1, <2>2
<1>3. \/ UNCHANGED <<main, batch, alarm>>
      \/ /\ alarm' = "rung" /\ batch' = {}
         /\ main' \in {"cancel", "raising", "raised"}
  BY DEF Tick, Signal, Alarm, Ended, Inv, TypeOK, mainVars
<1> QED BY <1>1, <1>2, <1>3 DEF Inv, TypeOK, MainInv, ThreadInv, PoolInv

(* An alarm taken for the failure of one host publishes that host. *)
LEMMA SwallowedStep == ASSUME Inv, AlarmInResult PROVE Inv'
<1>1. PICK h \in batch : Published(h, "failed")
  BY DEF AlarmInResult
<1>2. h \in Hosts /\ result[h] = "none" /\ "failed" \in Results
  BY DEF Inv, TypeOK, MainInv, Results, Answers
<1> QED BY <1>1, <1>2, PublishedInv DEF AlarmInResult

(* The invariant, by induction over the steps. *)
THEOREM Invariant == Spec => []Inv
<1>1. ASSUME Inv, [Next]_vars PROVE Inv'
  <2>1. CASE UNCHANGED vars
    BY <1>1, <2>1 DEF vars, world, mainVars, threadVars,
                      Inv, TypeOK, MainInv, ThreadInv, PoolInv
  <2> QED BY <1>1, <2>1, ThreadStep, MainStep, WorldStep, SwallowedStep DEF Next
<1> QED BY InitInv, <1>1, PTL DEF Spec

(* Deadlines stay within the fleet's (the first of them in Begin). *)
THEOREM TypeCorrect == Spec => []TypeOK
<1>1. Inv => TypeOK BY DEF Inv
<1> QED BY <1>1, Invariant, PTL

(* Every host is published at most once, and exactly once by a read that   *)
(* returns, for any number of hosts that finish, hang or are cancelled     *)
(* around the deadline.                                                    *)
THEOREM EveryHostOnce == Spec => []ToldOnce
<1>1. Inv => ToldOnce BY DEF Inv, TypeOK, MainInv, ToldOnce
<1> QED BY <1>1, Invariant, PTL

(* Falling back from route to route starts the helper at most once, but    *)
(* for lost markers.                                                       *)
THEOREM OneHelper == Spec => []HelpedOnce
<1>1. Inv => HelpedOnce BY DEF Inv, ThreadInv, HelpedOnce
<1> QED BY <1>1, Invariant, PTL

(* A host reported as unreachable was not reached. *)
THEOREM HonestUnreachable == Spec => []UnreachableIsTrue
<1>1. Inv => UnreachableIsTrue
  BY DEF Inv, MainInv, ThreadInv, UnreachableIsTrue, Answers
<1> QED BY <1>1, Invariant, PTL

(* No thread is left behind by a read that the alarm did not interrupt.    *)
THEOREM PoolIsLeft == Spec => []NothingRunsOn
<1>1. Inv => NothingRunsOn BY DEF Inv, PoolInv, NothingRunsOn, Busy
<1> QED BY <1>1, Invariant, PTL
=============================================================================
