----------------------------- MODULE MCKeyPool -----------------------------
(* KeyPool for TLC: two keys of different capacity and weight, two          *)
(* connections at a time; the counters may pass HalveAt.                    *)
EXTENDS KeyPool, TLC

CONSTANTS c1, c2

MCAttempts == {c1, c2}
MCMaxConn == <<1, 2>>
MCWeight == <<2, 1>>
Symmetry == Permutations(MCAttempts)
=============================================================================
