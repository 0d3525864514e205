------------------------------ MODULE MCBatcher ------------------------------
(* Batcher for TLC: two callers, batches of two, a buffer of three.         *)
EXTENDS Batcher

CONSTANTS a1, a2, s1, s2

MCCallers == {a1, a2}
MCSlots == {s1, s2}
=============================================================================
