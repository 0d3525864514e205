-------------------------- MODULE MCSessionBilling --------------------------
(* SessionBilling for TLC: one or two command goroutines and the monitor.   *)
EXTENDS SessionBilling, TLC

CONSTANTS w1, w2

MCWorkers == {w1, w2}
Symmetry == Permutations(MCWorkers)

(* The overlap the settlement flag is there for.                            *)
MCSettlement == Harmless \cup {{"stop", "bill"}}

(* An attach that finds its session attached.                               *)
MCLate == Harmless \cup {{"late"}}
=============================================================================
