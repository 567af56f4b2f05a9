-------------------------------- MODULE MCFleet --------------------------------
(* Model checking instance of Fleet: one host with a second route, and     *)
(* fewer threads than hosts.                                               *)
EXTENDS Fleet, TLC

CONSTANTS self, h1, h2

MCRoutes == (h1 :> 2) @@ (h2 :> 1)
=============================================================================
