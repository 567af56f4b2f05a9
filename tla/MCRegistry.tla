------------------------------ MODULE MCRegistry ------------------------------
(* Model checking instance of Registry. *)
EXTENDS Registry, TLC

CONSTANTS i1, i2, i3, r1, r2, r3, client

MCSymmetry == Permutations({i1, i2, i3}) \cup Permutations(Requests)
=============================================================================
