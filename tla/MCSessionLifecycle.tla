------------------------- MODULE MCSessionLifecycle -------------------------
(* SessionLifecycle for TLC: one goroutine besides the readers.              *)
EXTENDS SessionLifecycle

CONSTANT w1
MCWorkers == {w1}
\* Behaviours are followed up to the first clean-up of a wrong session, and
\* after a late start as long as the session is the only one.
Followed == ~spoiled /\ \A s \in Sessions : sess[s].late => sess[2].conn = "none"
=============================================================================
