--------------------------- MODULE MCQuotaLedger ---------------------------
(* Two charges of seconds and one of summaries on two cycles for TLC; and,   *)
(* for ExpiryCircle.cfg, on three, of which the first has nothing left.      *)
EXTENDS QuotaLedger
CONSTANTS a, b, s
MCReqs == {a, b, s}
MCKind == [r \in MCReqs |-> IF r = s THEN "summary" ELSE "seconds"]
MCNeed == [r \in MCReqs |-> CASE r = a -> 2 [] r = b -> 1 [] r = s -> 3]
MCTotal == <<2, 1>>
MCTier == <<"PAYG", "PRO">>
ThreeTotal == <<0, 2, 1>>
ThreeTier == <<"PRO", "PAYG", "PRO">>

\* Transactions never wait for each other in a circle. Not so: a pass locks the
\* Pro cycles that have not ended before the increments lock what ends earlier.
NoCircle == \A S \in SUBSET Reqs : ~Circle(S)
=============================================================================
