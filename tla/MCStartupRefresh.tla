--------------------------- MODULE MCStartupRefresh ---------------------------
(* Model checking instance of StartupRefresh. *)
EXTENDS StartupRefresh, TLC

CONSTANTS l1, l2

MCSymmetry == Permutations(Launchers)
=============================================================================
