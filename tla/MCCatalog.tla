------------------------------- MODULE MCCatalog -------------------------------
(* Model checking instance of Catalog. *)
EXTENDS Catalog, TLC

CONSTANTS h1, h2, r1, r2, u1, u2, d0, d1, d2, codex

MCSymmetry == Permutations(Refreshers) \cup Permutations(Users) \cup Permutations(Homes \ {DefaultHome})
=============================================================================
