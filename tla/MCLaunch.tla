------------------------------- MODULE MCLaunch -------------------------------
(* Model checking instance of Launch. *)
EXTENDS Launch, TLC

CONSTANTS i1, i2, r1, r2, r3, p1, p2

MCSymmetry == Permutations(Instances) \cup Permutations(Pickers) \cup Permutations(Requests)

(* with one of the requests in the New window mode *)
MCSymmetryModes == Permutations(Instances) \cup Permutations(Pickers)
=============================================================================
