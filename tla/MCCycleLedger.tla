--------------------------- MODULE MCCycleLedger ---------------------------
(* CycleLedger for TLC. *)
EXTENDS CycleLedger, TLC

CONSTANTS w1, w2

MCWorkers == {w1, w2}
Symmetry == Permutations(MCWorkers)
=============================================================================
