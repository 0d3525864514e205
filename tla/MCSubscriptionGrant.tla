---------------------- MODULE MCSubscriptionGrant ----------------------
(* Two Premium subscriptions of one user for TLC.                  *)
EXTENDS SubscriptionGrant
CONSTANTS s1, s2, w1, w2
MCSubs == {s1, s2}
MCTier == [s \in MCSubs |-> "premium"]
OneWorker == {w1}
TwoWorkers == {w1, w2}
=============================================================================
