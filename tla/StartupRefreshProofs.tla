-------------------------- MODULE StartupRefreshProofs --------------------------
(***************************************************************************)
(* Proofs about the startup refresh, for any number of openings, any limit *)
(* and whichever signals come: the lease, the ticket and what menus show.  *)
(***************************************************************************)
EXTENDS StartupRefresh, TLAPS

(* The lease: one opening's descriptor is open at most; a worker holds it  *)
(* as long as it runs, its launcher from taking it to closing it.          *)
Before == {"off", "stale", "fresh", "probe", "reserve", "frame", "render", "shown"}

LeaseInv ==
    /\ \A k, l \in Launchers : holders[k] # {} /\ holders[l] # {} => k = l
    /\ \A l \in Launchers :
        /\ worker[l] \notin {"none", "gone"} <=> "worker" \in holders[l]
        /\ "launcher" \in holders[l] =>
               launcher[l] \in {"probe", "reserve", "frame", "render", "shown", "report",
                                "handover"}
        /\ launcher[l] \in {"probe", "reserve", "report", "handover"} =>
               "launcher" \in holders[l]
        /\ launcher[l] \in Before => worker[l] = "none"

(* Whoever holds the lease and has written a ticket finds it there.        *)
TicketInv ==
    \A l \in Launchers :
        /\ holders[l] # {} /\ launcher[l] \notin {"probe", "reserve"} =>
               ticket # NoTicket /\ ticket.by = l
        /\ launcher[l] = "reserve" => MayReserve

(* How far a worker is says what it has committed; and complete is true.   *)
CommitInv ==
    /\ \A l \in Launchers :
        /\ worker[l] = "none" => l \notin committed
        /\ worker[l] = "leave" => l \in committed \cup cancelled
        /\ worker[l] \in {"finish", "return"} => l \in committed
    /\ ticket # NoTicket /\ ticket.state = "complete" => ticket.by \in committed

(* A menu's last look at the ticket was true, and its rows came after it.  *)
MenuInv ==
    /\ \A l \in Launchers :
        /\ launcher[l] \in {"off", "stale", "fresh", "probe", "reserve", "frame"} =>
               menu[l].pc = "closed"
        /\ menu[l].status = "complete" => menu[l].of \in committed
    /\ LastRedrawIsCurrent

Inv == TypeOK /\ LeaseInv /\ TicketInv /\ CommitInv /\ MenuInv

-----------------------------------------------------------------------------

LEMMA InitInv == Init => Inv
<1> SUFFICES ASSUME Init PROVE Inv
    OBVIOUS
<1>1. TypeOK
    BY RefreshAssumption DEF Init, TypeOK, Closed
<1>2. LeaseInv /\ TicketInv /\ CommitInv
    BY DEF Init, LeaseInv, TicketInv, CommitInv, Before
<1>3. MenuInv
    BY DEF Init, MenuInv, LastRedrawIsCurrent, Closed
<1>4. QED
    BY <1>1, <1>2, <1>3 DEF Inv

(* What a resolved ticket is. *)
LEMMA ResolvesTicket ==
    ASSUME ticket \in Tickets!Ticket \cup {NoTicket},
           NEW state \in {"complete", "failed"}, Resolves(state)
    PROVE  /\ ticket' \in Tickets!Ticket \cup {NoTicket}
           /\ ticket = NoTicket => ticket' = NoTicket
           /\ ticket # NoTicket => /\ ticket' # NoTicket /\ ticket'.by = ticket.by
                                   /\ ticket'.state = state
BY RefreshAssumption DEF Resolves, Tickets!Ticket

LEMMA StatusType ==
    ASSUME ticket \in Tickets!Ticket \cup {NoTicket}
    PROVE  /\ Status \in {"none", "pending", "complete", "failed"}
           /\ Whose \in Launchers \cup {NoTicket}
           /\ Status = "complete" => ticket # NoTicket /\ ticket.state = "complete" /\ Whose = ticket.by
BY DEF Status, Whose, Tickets!Ticket

(* What a menu reads and draws keeps it a menu. *)
AMenu == [pc : {"closed", "idle", "redraw", "join"},
          status : {"none", "pending", "complete", "failed"},
          of : Launchers \cup {NoTicket},
          seen : SUBSET Launchers, rows : BOOLEAN, armed : BOOLEAN]

LEMMA CallbackType ==
    ASSUME menu \in [Launchers -> AMenu], ticket \in Tickets!Ticket \cup {NoTicket},
           NEW l \in Launchers, ReadFrame(l) \/ Poll(l) \/ AltR(l) \/ Wait(l)
    PROVE  menu' \in [Launchers -> AMenu]
<1>0. Status \in {"none", "pending", "complete", "failed"} /\ Whose \in Launchers \cup {NoTicket}
    BY StatusType
<1>1. CASE ReadFrame(l)
  <2> DEFINE r == [menu[l] EXCEPT !.status = Status, !.of = Whose]
  <2>1. menu[l] \in AMenu
    OBVIOUS
  <2>2. r \in AMenu
    BY <1>0, <2>1 DEF AMenu
  <2>3. menu' = [menu EXCEPT ![l] = r]
    BY <1>1 DEF ReadFrame
  <2> HIDE DEF r
  <2>4. QED
    BY <2>2, <2>3
<1>2. ASSUME NEW pc \in {"closed", "idle", "redraw", "join"},
             menu' = [menu EXCEPT ![l].pc = pc, ![l].status = Status, ![l].of = Whose]
      PROVE  menu' \in [Launchers -> AMenu]
  <2> DEFINE r == [menu[l] EXCEPT !.pc = pc, !.status = Status, !.of = Whose]
  <2>1. menu[l] \in AMenu
    OBVIOUS
  <2>2. r \in AMenu
    BY <1>0, <2>1 DEF AMenu
  <2>3. menu' = [menu EXCEPT ![l] = r]
    BY <1>2
  <2> HIDE DEF r
  <2>4. QED
    BY <2>2, <2>3
<1>3. CASE Poll(l) \/ AltR(l)
    BY <1>2, <1>3 DEF Poll, AltR
<1>4. CASE Wait(l)
  <2>1. (IF Status = "pending" THEN "join" ELSE "redraw") \in
            {"closed", "idle", "redraw", "join"}
    OBVIOUS
  <2>2. QED
    BY <1>2, <1>4, <2>1 DEF Wait
<1>5. QED
    BY <1>1, <1>3, <1>4

LEMMA DrawType ==
    ASSUME menu \in [Launchers -> AMenu], committed \in SUBSET Launchers,
           NEW l \in Launchers, Draws(l)
    PROVE  menu' \in [Launchers -> AMenu]
<1>1. PICK rows \in BOOLEAN :
        menu' = [menu EXCEPT ![l].pc = "idle", ![l].rows = rows, ![l].seen = committed,
                             ![l].armed = menu[l].status = "pending" /\ ~rows]
    BY DEF Draws, Rows
<1>2. (menu[l].status = "pending" /\ ~rows) \in BOOLEAN
    OBVIOUS
<1> DEFINE armed == menu[l].status = "pending" /\ ~rows
           r == [menu[l] EXCEPT !.pc = "idle", !.rows = rows, !.seen = committed,
                                !.armed = armed]
<1> HIDE DEF armed
<1>3. r \in AMenu
  <2>1. menu[l] \in AMenu /\ armed \in BOOLEAN
    BY <1>2 DEF armed
  <2>2. QED
    BY <2>1 DEF AMenu
<1>4. menu' = [menu EXCEPT ![l] = r]
    BY <1>1 DEF armed
<1> HIDE DEF r
<1>5. QED
    BY <1>3, <1>4

-----------------------------------------------------------------------------
(* Types.                                                                  *)

LEMMA TypeStep ==
    ASSUME Inv, Next
    PROVE  TypeOK'
<1>0. menu \in [Launchers -> AMenu] /\ ticket \in Tickets!Ticket \cup {NoTicket}
    BY DEF Inv, TypeOK, AMenu
<1> USE DEF Inv, TypeOK
<1>1. CASE Tick
    BY <1>1, RefreshAssumption DEF Tick, processes, catalog
<1>2. ASSUME NEW l \in Launchers, Launcher(l) \/ EndLauncher(l)
      PROVE  TypeOK'
  <2>1. CASE Load(l) \/ TakeLease(l) \/ GiveBack(l) \/ Join(l)
    BY <2>1 DEF Load, TakeLease, GiveBack, Join, At, Goes, Drops, catalog
  <2>2. CASE WriteTicket(l)
    <3>1. now + Limit \in 0..MaxTime
        BY <2>2, RefreshAssumption DEF WriteTicket, At, TicketInv, MayReserve
    <3>2. QED
        BY <2>2, <3>1 DEF WriteTicket, At, Goes, catalog, Tickets!Ticket
  <2>3. CASE ReadFrame(l)
    <3>1. menu' \in [Launchers -> AMenu]
        BY <2>3, <1>0, CallbackType
    <3>2. QED
        BY <2>3, <3>1 DEF ReadFrame, At, Goes, catalog, AMenu
  <2>4. CASE ShowFrame(l)
    <3>1. menu' \in [Launchers -> AMenu]
      <4>1. CASE Draws(l)
        BY <4>1, DrawType DEF AMenu
      <4>2. CASE menu' = [menu EXCEPT ![l] = Closed]
        BY <4>2 DEF Closed, AMenu
      <4>3. QED
        BY <2>4, <4>1, <4>2 DEF ShowFrame
    <3>2. QED
        BY <2>4, <3>1 DEF ShowFrame, At, Goes, catalog, AMenu
  <2>5. CASE StartWorker(l) \/ WorkerFails(l) \/ Handover(l)
    BY <2>5 DEF StartWorker, WorkerFails, Handover, At, Goes, Drops, catalog
  <2>6. CASE Report(l)
    BY <2>6, ResolvesTicket DEF Report, At, Goes, catalog
  <2>7. CASE EndLauncher(l)
    BY <2>7 DEF EndLauncher, At, Goes, Drops, Closed, catalog
  <2>8. QED
    BY <1>2, <2>1, <2>2, <2>3, <2>4, <2>5, <2>6, <2>7 DEF Launcher
<1>3. ASSUME NEW l \in Launchers, Worker(l) \/ Publish(l) \/ Terminate(l) \/ Kill(l)
      PROVE  TypeOK'
  <2>1. CASE Boot(l) \/ FleetRead(l) \/ RefreshFails(l) \/ Leave(l) \/ ReturnZero(l)
    BY <2>1 DEF Boot, FleetRead, RefreshFails, Leave, ReturnZero, Does, Moves, catalog
  <2>2. CASE Commit(l)
    BY <2>2 DEF Commit, Commits, Does, Moves
  <2>3. CASE Finish(l) \/ FinishFailed(l)
    <3>1. ticket' \in Tickets!Ticket \cup {NoTicket}
        BY <2>3, ResolvesTicket DEF Finish, FinishFailed
    <3>2. QED
        BY <2>3, <3>1 DEF Finish, FinishFailed, Does, Moves, catalog
  <2>4. CASE Close(l) \/ Kill(l)
    BY <2>4 DEF Close, Kill, Ends, Does, Moves, Drops, catalog
  <2>5. CASE Publish(l) \/ Terminate(l)
    BY <2>5 DEF Publish, Terminate, processes, catalog
  <2>6. QED
    BY <1>3, <2>1, <2>2, <2>3, <2>4, <2>5 DEF Worker
<1>4. ASSUME NEW l \in Launchers, Alarm(l)
      PROVE  TypeOK'
  <2>1. ticket' \in Tickets!Ticket \cup {NoTicket}
    BY <1>4, ResolvesTicket DEF Alarm
  <2>2. published' \in SUBSET Launchers /\ committed' \in SUBSET published'
    BY <1>4 DEF Alarm, Commits, catalog
  <2>3. worker' \in [Launchers -> {"none", "boot", "fleet", "commit", "leave",
                                 "finish", "return", "fail", "close", "gone"}]
    BY <1>4 DEF Alarm, Moves
  <2>4. QED
    BY <1>4, <2>1, <2>2, <2>3 DEF Alarm
<1>5. ASSUME NEW l \in Launchers, Menu(l) \/ AltR(l) \/ CloseMenu(l)
      PROVE  TypeOK'
  <2>1. menu' \in [Launchers -> AMenu]
    <3>1. CASE Poll(l) \/ AltR(l) \/ Wait(l)
        BY <3>1, <1>0, CallbackType
    <3>2. CASE Redraw(l)
        BY <3>2, DrawType DEF Redraw, AMenu
    <3>3. CASE CloseMenu(l)
        BY <3>3 DEF CloseMenu, Closed, AMenu
    <3>5. QED
        BY <1>5, <3>1, <3>2, <3>3 DEF Menu
  <2>2. UNCHANGED <<now, holders, ticket, processes, catalog>>
    BY <1>5 DEF Menu, Poll, AltR, Wait, Redraw, CloseMenu
  <2>3. QED
    BY <2>1, <2>2 DEF processes, catalog, AMenu
<1>6. QED
    BY <1>1, <1>2, <1>3, <1>4, <1>5 DEF Next

-----------------------------------------------------------------------------
(* The lease.                                                              *)

LEMMA LeaseStep ==
    ASSUME Inv, Next
    PROVE  LeaseInv'
<1> USE DEF Inv, TypeOK, LeaseInv, Before
<1>1. CASE UNCHANGED <<holders, launcher, worker>>
    BY <1>1
<1>2. ASSUME NEW l \in Launchers, Launcher(l) \/ EndLauncher(l)
      PROVE  LeaseInv'
  <2>1. CASE Load(l) \/ Join(l) \/ WriteTicket(l) \/ ReadFrame(l) \/ ShowFrame(l)
            \/ WorkerFails(l) \/ Report(l)
    <3>1. UNCHANGED <<holders, worker>>
        BY <2>1 DEF Load, Join, WriteTicket, ReadFrame, ShowFrame, WorkerFails, Report
    <3>2. CASE ~WorkerFails(l)
        BY <2>1, <3>1, <3>2 DEF Load, Join, WriteTicket, ReadFrame, ShowFrame, Report, At, Goes
    <3>3. CASE WorkerFails(l)
      <4>1. holders[l] = {"launcher"}
        BY <3>3 DEF WorkerFails, At
      <4>2. QED
        BY <3>1, <3>3, <4>1 DEF WorkerFails, At, Goes
    <3>4. QED
        BY <3>2, <3>3
  <2>2. CASE TakeLease(l)
    BY <2>2 DEF TakeLease, LeaseFree, At, Goes
  <2>3. CASE GiveBack(l) \/ Handover(l)
    BY <2>3 DEF GiveBack, Handover, At, Goes, Drops
  <2>4. CASE StartWorker(l)
    BY <2>4, SMTT(30) DEF StartWorker, At, Goes
  <2>5. CASE EndLauncher(l)
    BY <2>5 DEF EndLauncher, At, Goes, Drops
  <2>6. QED
    BY <1>2, <2>1, <2>2, <2>3, <2>4, <2>5 DEF Launcher
<1>3. ASSUME NEW l \in Launchers, NEW pc, pc \notin {"none", "gone"},
             worker[l] \notin {"none", "gone"}, Moves(l, pc), UNCHANGED <<holders, launcher>>
      PROVE  LeaseInv'
    BY <1>3 DEF Moves
<1>4. ASSUME NEW l \in Launchers, Worker(l) \/ Kill(l)
      PROVE  LeaseInv'
  <2>1. CASE Close(l) \/ Kill(l)
    BY <2>1 DEF Close, Kill, Ends, Does, Moves, Drops
  <2>2. CASE ~(Close(l) \/ Kill(l))
    BY <1>3, <1>4, <2>2 DEF Worker, Boot, FleetRead, RefreshFails, Commit, Leave, Finish,
            ReturnZero, FinishFailed, Does
  <2>3. QED
    BY <2>1, <2>2
<1>5. ASSUME NEW l \in Launchers, Alarm(l)
      PROVE  LeaseInv'
    BY <1>3, <1>5 DEF Alarm, Does
<1>6. QED
    BY <1>1, <1>2, <1>4, <1>5 DEF Next, Tick, Publish, Terminate, Menu, Poll, Wait, Redraw,
            AltR, CloseMenu, processes

(* Two workers never run at the same time.                                 *)
LEMMA LeaseMeansOneWorker == LeaseInv => OneWorker
BY DEF LeaseInv, OneWorker

-----------------------------------------------------------------------------
(* The ticket.                                                             *)

(* Only the holder of the lease writes the ticket, and it resolves its own. *)
LEMMA HolderOwns ==
    ASSUME Inv, NEW l \in Launchers,
           launcher[l] = "report" \/ worker[l] \in {"boot", "fleet", "commit", "leave",
                                                     "finish", "return", "fail"}
    PROVE  ticket # NoTicket /\ ticket.by = l /\ holders[l] # {}
BY DEF Inv, LeaseInv, TicketInv, Before

LEMMA TicketStep ==
    ASSUME Inv, Next
    PROVE  TicketInv'
<1> USE DEF Inv, TypeOK, TicketInv
<1>1. ASSUME NEW k \in Launchers, NEW state \in {"complete", "failed"}, Resolves(state),
             ticket # NoTicket
      PROVE  ticket' # NoTicket /\ ticket'.by = ticket.by
    BY <1>1, ResolvesTicket
<1>2. ASSUME ticket' = ticket \/ (ticket # NoTicket => ticket' # NoTicket /\ ticket'.by = ticket.by),
             \A k \in Launchers : holders'[k] # {} => holders[k] # {},
             UNCHANGED launcher, UNCHANGED now
      PROVE  TicketInv'
    BY <1>2 DEF MayReserve
<1>3. CASE Tick
    BY <1>3, RefreshAssumption DEF Tick, MayReserve, At, processes
<1>4. ASSUME NEW l \in Launchers, Launcher(l) \/ EndLauncher(l)
      PROVE  TicketInv'
  <2>1. CASE Load(l) \/ GiveBack(l) \/ Join(l) \/ Handover(l) \/ EndLauncher(l)
    BY <2>1 DEF Load, GiveBack, Join, Handover, EndLauncher, At, Goes, Drops, MayReserve, LeaseInv, Before
  <2>2. CASE TakeLease(l)
    BY <2>2 DEF TakeLease, LeaseFree, At, Goes, MayReserve
  <2>3. CASE WriteTicket(l)
    <3>1. ticket' # NoTicket /\ ticket'.by = l
      <4>1. now + Limit \in 0..MaxTime
        BY <2>3, RefreshAssumption DEF WriteTicket, At, MayReserve
      <4>2. QED
        BY <2>3, <4>1, RefreshAssumption DEF WriteTicket
    <3>2. \A k \in Launchers : holders[k] # {} => k = l
        BY <2>3 DEF WriteTicket, At, LeaseInv
    <3>3. QED
        BY <2>3, <3>1, <3>2 DEF WriteTicket, At, Goes, MayReserve
  <2>4. CASE ReadFrame(l) \/ ShowFrame(l) \/ WorkerFails(l)
    BY <2>4 DEF ReadFrame, ShowFrame, WorkerFails, At, Goes, MayReserve
  <2>5. CASE StartWorker(l)
    BY <2>5 DEF StartWorker, At, Goes, MayReserve
  <2>6. CASE Report(l)
    <3>1. ticket # NoTicket => ticket' # NoTicket /\ ticket'.by = ticket.by
        BY <2>6, ResolvesTicket DEF Report
    <3>2. QED
        BY <2>6, <3>1 DEF Report, At, Goes, MayReserve
  <2>7. QED
    BY <1>4, <2>1, <2>2, <2>3, <2>4, <2>5, <2>6 DEF Launcher
<1>5. ASSUME NEW l \in Launchers,
             Worker(l) \/ Publish(l) \/ Alarm(l) \/ Terminate(l) \/ Kill(l)
      PROVE  TicketInv'
  <2>1. ticket' = ticket \/ (ticket # NoTicket => ticket' # NoTicket /\ ticket'.by = ticket.by)
    BY <1>5, ResolvesTicket DEF Worker, Boot, FleetRead, RefreshFails, Commit, Leave, Finish,
        ReturnZero, FinishFailed, Close, Publish, Alarm, Terminate, Kill
  <2>2. holders' = holders \/ Drops(l, "worker")
    BY <1>5 DEF Worker, Boot, FleetRead, RefreshFails, Commit, Leave, Finish,
        ReturnZero, FinishFailed, Close, Publish, Alarm, Terminate, Kill, Ends
  <2>3. \A k \in Launchers : holders'[k] # {} => holders[k] # {}
    BY <2>2 DEF Drops
  <2>4. UNCHANGED launcher /\ UNCHANGED now
    BY <1>5 DEF Worker, Boot, FleetRead, RefreshFails, Commit, Leave, Finish,
        ReturnZero, FinishFailed, Close, Publish, Alarm, Terminate, Kill, processes
  <2>5. QED
    BY <1>2, <2>1, <2>3, <2>4
<1>6. CASE UNCHANGED <<now, holders, ticket, processes, catalog>>
    BY <1>2, <1>6 DEF processes
<1>7. QED
    BY <1>3, <1>4, <1>5, <1>6 DEF Next, Menu, Poll, Wait, Redraw, AltR, CloseMenu

-----------------------------------------------------------------------------
(* What was committed.                                                     *)

LEMMA CommitStep ==
    ASSUME Inv, Next
    PROVE  CommitInv'
<1> USE DEF Inv, TypeOK, CommitInv
<1>1. CASE UNCHANGED <<ticket, worker, cancelled, committed>>
    BY <1>1
<1>2. ASSUME NEW l \in Launchers, Launcher(l)
      PROVE  CommitInv'
  <2>1. CASE WriteTicket(l)
    <3>1. ticket' # NoTicket => ticket'.state = "pending"
        BY <2>1 DEF WriteTicket
    <3>2. QED
        BY <2>1, <3>1 DEF WriteTicket, catalog
  <2>2. CASE StartWorker(l)
    BY <2>2 DEF StartWorker, Moves, catalog
  <2>3. CASE Report(l)
    <3>1. ticket' # NoTicket => ticket'.state = "failed"
        BY <2>3, ResolvesTicket DEF Report
    <3>2. QED
        BY <2>3, <3>1 DEF Report, catalog
  <2>4. QED
    BY <1>1, <1>2, <2>1, <2>2, <2>3 DEF Launcher, Load, TakeLease, GiveBack, Join, ReadFrame,
        ShowFrame, WorkerFails, Handover, catalog
<1>3. ASSUME NEW l \in Launchers, Worker(l) \/ Terminate(l) \/ Kill(l)
      PROVE  CommitInv'
  <2>1. CASE Boot(l) \/ FleetRead(l) \/ RefreshFails(l) \/ ReturnZero(l)
    BY <2>1 DEF Boot, FleetRead, RefreshFails, ReturnZero, Does, Moves, catalog
  <2>2. CASE Commit(l)
    BY <2>2 DEF Commit, Commits, Does, Moves
  <2>3. CASE Leave(l)
    BY <2>3 DEF Leave, Does, Moves, catalog
  <2>4. CASE Finish(l)
    <3>1. ticket.by = l /\ l \in committed /\ ticket # NoTicket
        BY <2>4, HolderOwns DEF Finish, Does
    <3>2. ticket' # NoTicket /\ ticket'.by = l
        BY <2>4, <3>1, ResolvesTicket DEF Finish
    <3>3. QED
        BY <2>4, <3>1, <3>2 DEF Finish, Does, Moves, catalog
  <2>5. CASE FinishFailed(l)
    <3>1. ticket' # NoTicket => ticket'.state = "failed" \/ ticket' = ticket
        BY <2>5, ResolvesTicket DEF FinishFailed
    <3>2. QED
        BY <2>5, <3>1 DEF FinishFailed, Does, Moves, catalog
  <2>6. CASE Close(l) \/ Kill(l)
    BY <2>6 DEF Close, Kill, Ends, Does, Moves, catalog
  <2>7. CASE Terminate(l)
    BY <2>7 DEF Terminate, catalog
  <2>8. QED
    BY <1>3, <2>1, <2>2, <2>3, <2>4, <2>5, <2>6, <2>7 DEF Worker
<1>4. ASSUME NEW l \in Launchers, Alarm(l)
      PROVE  CommitInv'
  <2>1. worker[l] \in {"fleet", "commit", "leave", "finish", "return", "fail"}
    BY <1>4 DEF Alarm, Does
  <2>2. PICK pc \in {"fleet", "fail", "close"} : worker' = [worker EXCEPT ![l] = pc]
                /\ (pc = "fleet" => worker[l] = "fleet")
    BY <1>4 DEF Alarm, Moves, Does
  <2>3. committed \subseteq committed' /\ committed' \subseteq committed \cup {l}
    BY <1>4 DEF Alarm, Commits, catalog
  <2>4. cancelled \subseteq cancelled'
    BY <1>4 DEF Alarm
  <2>5. ticket' # NoTicket /\ ticket'.state = "complete" => ticket' = ticket
    BY <1>4, ResolvesTicket DEF Alarm
  <2>6. QED
    BY <2>1, <2>2, <2>3, <2>4, <2>5 DEF Moves
<1>5. QED
    BY <1>1, <1>2, <1>3, <1>4 DEF Next, Tick, EndLauncher, Publish, Menu, Poll, Wait, Redraw,
        AltR, CloseMenu, processes, catalog

(* The catalog loses no commit. *)
LEMMA CommitsStay ==
    ASSUME Next PROVE committed \subseteq committed'
<1>1. ASSUME NEW l \in Launchers, Launcher(l) \/ EndLauncher(l)
      PROVE  UNCHANGED committed
  BY <1>1 DEF EndLauncher, Launcher, Load, TakeLease, GiveBack, Join, WriteTicket, ReadFrame,
      ShowFrame, StartWorker, WorkerFails, Report, Handover, catalog
<1>2. ASSUME NEW l \in Launchers, Boot(l) \/ FleetRead(l) \/ RefreshFails(l) \/ Leave(l)
                                \/ Finish(l) \/ ReturnZero(l) \/ FinishFailed(l) \/ Close(l)
      PROVE  UNCHANGED committed
  BY <1>2 DEF Boot, FleetRead, RefreshFails, Leave, Finish, ReturnZero, FinishFailed, Close,
      catalog
<1>3. ASSUME NEW l \in Launchers, Publish(l) \/ Terminate(l) \/ Kill(l) \/ Menu(l)
                                \/ AltR(l) \/ CloseMenu(l)
      PROVE  UNCHANGED committed
  BY <1>3 DEF Publish, Terminate, Kill, Menu, Poll, Wait, Redraw, AltR, CloseMenu, catalog
<1>4. ASSUME NEW l \in Launchers, Commit(l) \/ Alarm(l)
      PROVE  UNCHANGED committed \/ Commits(l)
  BY <1>4 DEF Commit, Alarm, catalog
<1>5. ASSUME NEW l \in Launchers, Commits(l) PROVE committed \subseteq committed'
  BY <1>5 DEF Commits
<1>6. Tick => UNCHANGED committed
  BY DEF Tick, catalog
<1> QED BY <1>1, <1>2, <1>3, <1>4, <1>5, <1>6 DEF Next, Worker

-----------------------------------------------------------------------------
(* The menus.                                                              *)

(* The menus other than l are as they were. *)
LEMMA OtherMenus ==
    ASSUME Inv, NEW l \in Launchers, Launcher(l) \/ EndLauncher(l) \/ Menu(l) \/ AltR(l) \/ CloseMenu(l)
    PROVE  \A k \in Launchers \ {l} : menu'[k] = menu[k] /\ launcher'[k] = launcher[k]
BY ZenonT(60) DEF Inv, TypeOK, Launcher, EndLauncher, Load, TakeLease, GiveBack, Join, WriteTicket, ReadFrame,
    ShowFrame, StartWorker, WorkerFails, Report, Handover, Menu, Poll, Wait, Redraw, AltR,
    CloseMenu, Draws, Goes, processes

(* What one menu is owed. *)
MenuOwed(l) ==
    /\ launcher[l] \in {"off", "stale", "fresh", "probe", "reserve", "frame"} =>
           menu[l].pc = "closed"
    /\ menu[l].status = "complete" => menu[l].of \in committed
    /\ menu[l].pc = "idle" /\ menu[l].status = "complete" => menu[l].of \in menu[l].seen

LEMMA MenuInvIsOwed == MenuInv <=> \A l \in Launchers : MenuOwed(l)
BY DEF MenuInv, MenuOwed, LastRedrawIsCurrent

(* A callback reads the ticket: what it takes for complete is committed. *)
LEMMA ReadIsOwed ==
    ASSUME Inv, NEW l \in Launchers, menu \in [Launchers -> AMenu],
           menu'[l].status = Status, menu'[l].of = Whose, menu'[l].pc # "idle",
           committed' = committed,
           launcher'[l] \notin {"off", "stale", "fresh", "probe", "reserve", "frame"}
    PROVE  MenuOwed(l)'
BY StatusType DEF Inv, TypeOK, CommitInv, MenuOwed

LEMMA DrawIsOwed ==
    ASSUME Inv, NEW l \in Launchers, menu \in [Launchers -> AMenu], Draws(l),
           committed' = committed,
           launcher'[l] \notin {"off", "stale", "fresh", "probe", "reserve", "frame"}
    PROVE  MenuOwed(l)'
<1>1. menu'[l].seen = committed /\ menu'[l].status = menu[l].status /\ menu'[l].of = menu[l].of
    BY DEF Draws, AMenu
<1>2. QED
    BY <1>1, MenuInvIsOwed DEF Inv, MenuOwed

LEMMA MenuStep ==
    ASSUME Inv, Next
    PROVE  MenuInv'
<1>0. menu \in [Launchers -> AMenu] /\ launcher \in [Launchers ->
            {"off", "stale", "fresh", "probe", "reserve", "frame",
             "render", "shown", "report", "handover", "open", "ended"}]
    BY DEF Inv, TypeOK, AMenu
<1>1. \A l \in Launchers : MenuOwed(l)
    BY MenuInvIsOwed DEF Inv
<1>2. committed \subseteq committed'
    BY CommitsStay
<1>3. SUFFICES ASSUME NEW k \in Launchers PROVE MenuOwed(k)'
    BY DEF MenuInv, MenuOwed, LastRedrawIsCurrent
<1>4. CASE menu'[k] = menu[k] /\ launcher'[k] = launcher[k]
    BY <1>1, <1>2, <1>4 DEF MenuOwed
<1>5. CASE Launcher(k) \/ EndLauncher(k)
  <2>1. CASE Load(k) \/ TakeLease(k) \/ GiveBack(k) \/ Join(k) \/ WriteTicket(k)
            \/ StartWorker(k) \/ WorkerFails(k) \/ Report(k) \/ Handover(k)
    BY <2>1, <1>0, <1>1, <1>2 DEF Load, TakeLease, GiveBack, Join, WriteTicket, StartWorker,
        WorkerFails, Report, Handover, At, Goes, MenuOwed
  <2>2. CASE ReadFrame(k)
    <3>1. menu'[k].status = Status /\ menu'[k].of = Whose /\ menu'[k].pc = menu[k].pc
        BY <2>2, <1>0 DEF ReadFrame, AMenu
    <3>2. menu[k].pc = "closed"
        BY <2>2, <1>1 DEF ReadFrame, At, MenuOwed
    <3>3. launcher'[k] = "render" /\ committed' = committed
        BY <2>2, <1>0 DEF ReadFrame, Goes, catalog
    <3>4. QED
        BY <1>0, <3>1, <3>2, <3>3, ReadIsOwed
  <2>3. CASE ShowFrame(k)
    <3>1. launcher'[k] = "shown" /\ committed' = committed
        BY <2>3, <1>0 DEF ShowFrame, Goes, catalog
    <3>2. CASE Draws(k)
        BY <3>1, <3>2, <1>0, DrawIsOwed
    <3>3. CASE menu' = [menu EXCEPT ![k] = Closed]
        BY <3>1, <3>3, <1>0 DEF Closed, MenuOwed
    <3>4. QED
        BY <2>3, <3>2, <3>3 DEF ShowFrame
  <2>4. CASE EndLauncher(k)
    <3>1. launcher'[k] = "ended" /\ menu'[k] \in {menu[k], Closed}
        BY <2>4, <1>0 DEF EndLauncher, Goes
    <3>2. QED
        BY <3>1, <1>1, <1>2 DEF MenuOwed, Closed
  <2>5. QED
    BY <1>5, <2>1, <2>2, <2>3, <2>4 DEF Launcher
<1>6. CASE Menu(k) \/ AltR(k) \/ CloseMenu(k)
  <2>1. UNCHANGED <<launcher, committed>>
    BY <1>6 DEF Menu, Poll, Wait, Redraw, AltR, CloseMenu, processes, catalog
  <2>2. CASE CloseMenu(k)
    BY <2>1, <2>2, <1>0 DEF CloseMenu, Closed, MenuOwed
  <2>3. menu[k].pc # "closed" => launcher[k] \notin
            {"off", "stale", "fresh", "probe", "reserve", "frame"}
    BY <1>1 DEF MenuOwed
  <2>4. CASE Poll(k) \/ Wait(k) \/ AltR(k)
    <3>1. menu'[k].status = Status /\ menu'[k].of = Whose /\ menu'[k].pc # "idle"
        BY <2>4, <1>0 DEF Poll, Wait, AltR, AMenu
    <3>2. menu[k].pc # "closed"
        BY <2>4 DEF Poll, Wait, AltR
    <3>3. QED
        BY <1>0, <2>1, <2>3, <3>1, <3>2, ReadIsOwed
  <2>5. CASE Redraw(k)
    BY <1>0, <2>1, <2>3, <2>5, DrawIsOwed DEF Redraw
  <2>6. QED
    BY <1>6, <2>2, <2>4, <2>5 DEF Menu
<1>7. QED
  <2>1. ASSUME NEW l \in Launchers, l # k,
               Launcher(l) \/ EndLauncher(l) \/ Menu(l) \/ AltR(l) \/ CloseMenu(l)
        PROVE  MenuOwed(k)'
    BY <1>4, <2>1, OtherMenus
  <2>2. CASE Tick \/ \E l \in Launchers :
                Worker(l) \/ Publish(l) \/ Alarm(l) \/ Terminate(l) \/ Kill(l)
    BY <1>4, <2>2 DEF Tick, Worker, Boot, FleetRead, RefreshFails, Commit, Leave, Finish,
        ReturnZero, FinishFailed, Close, Publish, Alarm, Terminate, Kill, processes
  <2>3. QED
    BY <1>5, <1>6, <2>1, <2>2 DEF Next

-----------------------------------------------------------------------------

LEMMA InvStep == Inv /\ [Next]_vars => Inv'
<1> SUFFICES ASSUME Inv, [Next]_vars PROVE Inv'
    OBVIOUS
<1>1. CASE Next
    BY <1>1, TypeStep, LeaseStep, TicketStep, CommitStep, MenuStep DEF Inv
<1>2. CASE UNCHANGED vars
    BY <1>2 DEF vars, processes, catalog, Inv, TypeOK, LeaseInv, Before, TicketInv, MayReserve,
        CommitInv, MenuInv, LastRedrawIsCurrent, Tickets!Ticket
<1>3. QED
    BY <1>1, <1>2

(* The lease, the ticket, the commits and the menus stay in step, whatever *)
(* dies and whenever (startup_refresh.py, launcher.py).                    *)
THEOREM Invariant == Spec => []Inv
BY InitInv, InvStep, PTL DEF Spec

(* Every variable keeps its kind; published holds what is committed.       *)
THEOREM TypeCorrect == Spec => []TypeOK
<1>1. Inv => TypeOK
    BY DEF Inv
<1>2. QED
    BY <1>1, Invariant, PTL

(* However many openings, kills and expired deadlines: one worker at a     *)
(* time refreshes the catalog (startup_refresh.acquire, run_worker).       *)
THEOREM NeverTwoWorkers == Spec => []OneWorker
<1>1. Inv => OneWorker
    BY LeaseMeansOneWorker DEF Inv
<1>2. QED
    BY <1>1, Invariant, PTL

(* finish_refresh, which looks at no owner, only ever meets the ticket of  *)
(* the opening it works for.                                               *)
THEOREM AlwaysResolvesItsOwn == Spec => []ResolvesItsOwn
<1>1. Inv => ResolvesItsOwn
    BY HolderOwns DEF ResolvesItsOwn
<1>2. QED
    BY <1>1, Invariant, PTL

(* A menu that was told complete shows the fleet that refresh read.        *)
THEOREM RedrawsAreCurrent == Spec => []LastRedrawIsCurrent
<1>1. Inv => LastRedrawIsCurrent
    BY DEF Inv, MenuInv
<1>2. QED
    BY <1>1, Invariant, PTL

-----------------------------------------------------------------------------
(* The refresh keeps the promise of the ticket.                            *)

LEMMA TicketInit == Init => Tickets!TicketInit
BY DEF Init, Tickets!TicketInit

(* A ticket that is resolved is resolved as the promise allows. *)
LEMMA ResolvedMaps ==
    ASSUME NEW state \in {"complete", "failed"}, Resolves(state), ticket # NoTicket,
           state = "complete" => ticket.by \in committed, UNCHANGED committed
    PROVE  Tickets!Resolved
BY DEF Resolves, Tickets!Resolved

LEMMA TicketMaps ==
    ASSUME Inv, Next
    PROVE  Tickets!TicketNext \/ UNCHANGED <<ticket, committed>>
<1>1. CASE UNCHANGED <<ticket, committed>>
    BY <1>1
<1>2. ASSUME NEW l \in Launchers, WriteTicket(l)
      PROVE  Tickets!TicketNext
  <2>1. now + Limit \in 0..MaxTime
    BY <1>2, RefreshAssumption DEF WriteTicket, At, MayReserve, Inv, TypeOK, TicketInv
  <2>2. l \notin committed
    BY <1>2 DEF WriteTicket, At, Inv, LeaseInv, Before, CommitInv
  <2>3. QED
    BY <1>2, <2>1, <2>2 DEF WriteTicket, catalog, Tickets!TicketNext, Tickets!Reserved
<1>3. ASSUME NEW l \in Launchers, Commit(l) \/ Alarm(l)
      PROVE  Tickets!TicketNext \/ UNCHANGED <<ticket, committed>>
  <2>1. worker[l] \in {"fleet", "commit", "leave", "finish", "return", "fail"}
    BY <1>3 DEF Commit, Alarm, Does
  <2>2. ticket # NoTicket /\ ticket.by = l
    BY <2>1, HolderOwns
  <2>3. CASE Commits(l) /\ UNCHANGED ticket
    BY <2>2, <2>3 DEF Commits, Tickets!TicketNext, Tickets!Committed
  <2>4. CASE Resolves("failed") /\ UNCHANGED catalog
    BY <2>2, <2>4, ResolvedMaps DEF catalog, Tickets!TicketNext
  <2>5. QED
    BY <1>3, <2>3, <2>4 DEF Commit, Alarm, catalog
<1>4. ASSUME NEW l \in Launchers, Report(l) \/ Finish(l) \/ FinishFailed(l)
      PROVE  Tickets!TicketNext \/ UNCHANGED <<ticket, committed>>
  <2>1. ticket # NoTicket /\ ticket.by = l
    BY <1>4, HolderOwns DEF Report, Finish, FinishFailed, At, Does
  <2>2. Finish(l) => l \in committed
    BY DEF Inv, CommitInv, Finish, Does
  <2>3. CASE Report(l) \/ FinishFailed(l)
    BY <2>1, <2>3, ResolvedMaps DEF Report, FinishFailed, catalog, Tickets!TicketNext
  <2>4. CASE Finish(l)
    BY <2>1, <2>2, <2>4, ResolvedMaps DEF Finish, catalog, Tickets!TicketNext
  <2>5. QED
    BY <1>4, <2>3, <2>4
<1>5. QED
    BY <1>1, <1>2, <1>3, <1>4, ZenonT(60) DEF Next, Tick, EndLauncher, Launcher, Load, TakeLease, GiveBack,
        Join, ReadFrame, ShowFrame, StartWorker, WorkerFails, Handover, Worker, Boot, FleetRead,
        RefreshFails, Leave, ReturnZero, Close, Publish, Terminate, Kill, Menu, Poll, Wait,
        Redraw, AltR, CloseMenu, processes, catalog

(* Whatever dies, the ticket is reserved and resolved as the menus that    *)
(* watch it are promised: complete only once its fleet is committed.       *)
THEOREM KeepsTheTicket == Spec => ImplementsTicket
<1>1. Inv /\ [Next]_vars => [Tickets!TicketNext]_<<ticket, committed>>
    BY TicketMaps DEF vars, catalog
<1>2. QED
    BY <1>1, TicketInit, Invariant, PTL DEF Spec, ImplementsTicket, Tickets!TicketSpec

(* What the ticket promises, by the promise alone: complete is never said  *)
(* of a fleet that is not in the catalog.                                  *)
THEOREM TicketTellsTheTruth == Tickets!TicketSpec => []Tickets!CompleteIsCommitted
<1> DEFINE Typed == ticket \in Tickets!Ticket \cup {NoTicket}
           Kept == Typed /\ Tickets!CompleteIsCommitted
<1>1. Tickets!TicketInit => Kept
    BY RefreshAssumption DEF Tickets!TicketInit, Tickets!CompleteIsCommitted
<1>2. Kept /\ [Tickets!TicketNext]_<<ticket, committed>> => Kept'
  <2> SUFFICES ASSUME Kept, Tickets!TicketNext PROVE Kept'
    BY DEF Tickets!CompleteIsCommitted
  <2>1. ASSUME NEW l \in Launchers, Tickets!Reserved(l) PROVE Kept'
    BY <2>1 DEF Tickets!Reserved, Tickets!Ticket, Tickets!CompleteIsCommitted
  <2>2. ASSUME NEW l \in Launchers, Tickets!Committed(l) PROVE Kept'
    BY <2>2 DEF Tickets!Committed, Tickets!CompleteIsCommitted
  <2>3. CASE Tickets!Resolved
    BY <2>3 DEF Tickets!Resolved, Tickets!Ticket, Tickets!CompleteIsCommitted
  <2>4. QED
    BY <2>1, <2>2, <2>3 DEF Tickets!TicketNext
<1>3. QED
    BY <1>1, <1>2, PTL DEF Tickets!TicketSpec

(* So the startup refresh says complete only of a fleet it has committed   *)
(* (_direct-refresh: finish_refresh follows a refresh that returned).      *)
THEOREM CompleteIsTrue == Spec => []Tickets!CompleteIsCommitted
BY KeepsTheTicket, TicketTellsTheTruth DEF ImplementsTicket

-----------------------------------------------------------------------------
(* After the alarm.  CannotPublishLate is violated; these say how far.     *)

(* A worker whose alarm went off is on its way out, or goes on with a read *)
(* that swallowed it; either way its work counts as cancelled.             *)
Fired ==
    \A l \in Launchers : alarm[l] = "fired" =>
        worker[l] \in {"fleet", "commit", "leave", "fail", "close"} /\ l \in cancelled

LEMMA FiredStep ==
    ASSUME Inv, Next, Fired
    PROVE  Fired'
<1> DEFINE Late == {"fleet", "commit", "leave", "fail", "close"}
<1> SUFFICES ASSUME NEW l \in Launchers, alarm'[l] = "fired"
             PROVE  worker'[l] \in Late /\ l \in cancelled'
    BY DEF Fired
<1> USE DEF Inv, TypeOK
<1>2. CASE UNCHANGED <<worker, alarm, cancelled>>
    BY <1>2 DEF Fired
<1>3. ASSUME NEW k \in Launchers, StartWorker(k)
      PROVE  worker'[l] \in Late /\ l \in cancelled'
  <2>1. worker[k] = "none"
    BY <1>3 DEF StartWorker, At, LeaseInv, Before
  <2>2. alarm[l] = "fired" /\ worker[l] \in Late /\ l \in cancelled
    BY <1>3 DEF StartWorker, Fired
  <2>3. l # k
    BY <2>1, <2>2
  <2>4. QED
    BY <1>3, <2>2, <2>3 DEF StartWorker
<1>4. ASSUME NEW k \in Launchers, Terminate(k)
      PROVE  worker'[l] \in Late /\ l \in cancelled'
    BY <1>4 DEF Terminate, Fired
<1>5. ASSUME NEW k \in Launchers, k # l, Worker(k) \/ Alarm(k) \/ Kill(k)
      PROVE  worker'[l] \in Late /\ l \in cancelled'
  <2>1. worker'[l] = worker[l] /\ alarm'[l] = alarm[l]
        /\ (l \in cancelled => l \in cancelled')
    BY <1>5 DEF Worker, Boot, FleetRead, RefreshFails, Commit, Leave, Finish, ReturnZero,
        FinishFailed, Close, Alarm, Kill, Ends, Moves, Does
  <2>2. QED
    BY <2>1 DEF Fired
<1>6. CASE Alarm(l)
    BY <1>6 DEF Alarm, Moves, Does
<1>7. CASE Worker(l)
  <2>1. ~Close(l) /\ ~Boot(l) /\ alarm' = alarm /\ cancelled' = cancelled
    BY <1>7 DEF Worker, Boot, FleetRead, RefreshFails, Commit, Leave, Finish, ReturnZero,
        FinishFailed, Close, Ends, Moves, Does, Fired
  <2>2. worker[l] \in Late /\ l \in cancelled
    BY <2>1 DEF Fired
  <2>3. worker'[l] \in Late
    BY <1>7, <2>1, <2>2 DEF Worker, FleetRead, RefreshFails, Commit, Leave, Finish, ReturnZero,
        FinishFailed, Moves, Does
  <2>4. QED
    BY <2>1, <2>2, <2>3
<1>8. CASE Kill(l)
    BY <1>8 DEF Kill, Ends
<1>9. QED
    BY <1>2, <1>3, <1>4, <1>5, <1>6, <1>7, <1>8 DEF Next, Tick, Launcher, Load, TakeLease, GiveBack,
        Join, WriteTicket, ReadFrame, ShowFrame, WorkerFails, Report, Handover, EndLauncher,
        Publish, Menu, Poll, Wait, Redraw, AltR, CloseMenu, processes

(* What a worker does after its alarm may show in rows, but it never       *)
(* declares its refresh complete: whatever it is doing, and even if        *)
(* read_fleet swallowed the alarm, it leaves passive_probe_signals         *)
(* cancelled (refresh_worker, process.py).                                 *)
LateIsNeverComplete ==
    [][\A l \in Launchers :
          /\ alarm[l] = "fired"
          /\ ticket' # NoTicket /\ ticket'.by = l /\ ticket'.state = "complete"
          => ticket' = ticket]_vars

THEOREM NothingCompletedLate == Spec => LateIsNeverComplete
<1> DEFINE Kept == \A l \in Launchers :
                /\ alarm[l] = "fired"
                /\ ticket' # NoTicket /\ ticket'.by = l /\ ticket'.state = "complete"
                => ticket' = ticket
<1>1. Init => Fired
    BY DEF Init, Fired
<1>2. Inv /\ Fired /\ [Next]_vars => Fired'
  <2>1. CASE UNCHANGED vars
    BY <2>1 DEF vars, processes, Fired
  <2>2. QED
    BY <2>1, FiredStep
<1>3. Inv /\ Fired /\ [Next]_vars => [Kept]_vars
  <2> SUFFICES ASSUME Inv, Fired, Next, NEW l \in Launchers, alarm[l] = "fired",
                      ticket' # NoTicket, ticket'.by = l, ticket'.state = "complete"
               PROVE  ticket' = ticket
    OBVIOUS
  <2> USE DEF Inv, TypeOK
  <2>1. ~Finish(l)
    BY DEF Fired, Finish, Does
  <2>2. ASSUME NEW k \in Launchers, Finish(k), ticket' # ticket
        PROVE  FALSE
    <3>1. ticket # NoTicket /\ ticket.by = k
        BY <2>2, HolderOwns DEF Finish, Does
    <3>2. ticket'.by = k
        BY <2>2, <3>1, ResolvesTicket DEF Finish
    <3>3. QED
        BY <2>1, <2>2, <3>2
  <2>3. ASSUME NEW k \in Launchers, WriteTicket(k)
        PROVE  ticket'.state = "pending"
    BY <2>3 DEF WriteTicket
  <2>4. ASSUME NEW k \in Launchers, Report(k) \/ FinishFailed(k) \/ Alarm(k), ticket' # ticket
        PROVE  ticket'.state = "failed"
    <3>1. Resolves("failed")
        BY <2>4 DEF Report, FinishFailed, Alarm
    <3>2. QED
        BY <2>4, <3>1, ResolvesTicket DEF Resolves
  <2>5. \/ UNCHANGED ticket
        \/ \E k \in Launchers : Finish(k) \/ WriteTicket(k) \/ Report(k) \/ FinishFailed(k) \/ Alarm(k)
    BY DEF Next, Tick, Launcher, Load, TakeLease, GiveBack, Join, ReadFrame,
        ShowFrame, StartWorker, WorkerFails, Handover, EndLauncher, Worker, Boot, FleetRead,
        RefreshFails, Commit, Leave, ReturnZero, Close, Publish, Terminate, Kill, Menu, Poll,
        Wait, Redraw, AltR, CloseMenu
  <2>6. QED
    BY <2>2, <2>3, <2>4, <2>5
<1>4. QED
    BY <1>1, <1>2, <1>3, Invariant, PTL DEF Spec, LateIsNeverComplete
=============================================================================
