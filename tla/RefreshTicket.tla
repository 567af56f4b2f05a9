------------------------------ MODULE RefreshTicket ------------------------------
(***************************************************************************)
(* What the startup refresh promises to the menus that watch its ticket,   *)
(* with no lock, no process and no alarm: one ticket at a time, written    *)
(* anew by every reservation, resolved for the reservation it belongs to   *)
(* and for no other, and complete only when the catalog has the fleet that *)
(* reservation was made to read.                                           *)
(***************************************************************************)
EXTENDS Naturals

CONSTANTS Launchers, NoTicket, Deadlines

VARIABLES ticket, committed

Ticket == [state : {"pending", "complete", "failed"}, by : Launchers,
           deadline : Deadlines]

TicketInit == ticket = NoTicket /\ committed = {}

(* A ticket is written anew while the one before may be in any state: its  *)
(* refresh may have died.                                                  *)
Reserved(l) ==
    /\ \E d \in Deadlines : ticket' = [state |-> "pending", by |-> l, deadline |-> d]
    /\ l \notin committed
    /\ UNCHANGED committed

(* Nothing is committed on behalf of a ticket that has been replaced. *)
Committed(l) ==
    /\ ticket # NoTicket /\ ticket.by = l
    /\ committed' = committed \cup {l}
    /\ UNCHANGED ticket

Resolved ==
    /\ ticket # NoTicket
    /\ \/ ticket' = [ticket EXCEPT !.state = "complete"] /\ ticket.by \in committed
       \/ ticket' = [ticket EXCEPT !.state = "failed"]
    /\ UNCHANGED committed

TicketNext == Resolved \/ \E l \in Launchers : Reserved(l) \/ Committed(l)

TicketSpec == TicketInit /\ [][TicketNext]_<<ticket, committed>>

(* A ticket that says complete tells the truth: the fleet its reservation  *)
(* was made to read is in the catalog (finish_refresh).                    *)
CompleteIsCommitted ==
    ticket # NoTicket /\ ticket.state = "complete" => ticket.by \in committed
=============================================================================
