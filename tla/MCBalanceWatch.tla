--------------------------- MODULE MCBalanceWatch ---------------------------
(* BalanceWatch for TLC: two warnings; windows, billing and the balance that *)
(* is enough keep their proportions.                                         *)
EXTENDS BalanceWatch
MCThreshold == [critical |-> 3, warning |-> 7]
MCWindow == [critical |-> 3, warning |-> 4]
MCStart == {8}
=============================================================================
