--------------------------- MODULE FinalResults ----------------------------
(* What the path of transcription results promises for final results: each   *)
(* that was accepted is stored at most once, and as long as nothing is       *)
(* broken (the session lives, its results are not superseded, the database   *)
(* accepts inserts) it is not dropped on the way. Order is not promised.     *)
EXTENDS Naturals

CONSTANT Ids        \* names of results

VARIABLES
    flight,     \* accepted and neither stored nor dropped
    stored,     \* in the database
    broken      \* dropping has become possible

fvars == <<flight, stored, broken>>

FInit == flight = {} /\ stored = {} /\ broken = FALSE

Accept(i) ==
    /\ i \notin flight \cup stored
    /\ flight' = flight \cup {i}
    /\ UNCHANGED <<stored, broken>>

Store(S) ==
    /\ S \subseteq flight
    /\ flight' = flight \ S /\ stored' = stored \cup S
    /\ UNCHANGED broken

\* The break itself may drop what is in flight.
Drop(S) ==
    /\ S \subseteq flight
    /\ flight' = flight \ S /\ broken' = TRUE
    /\ UNCHANGED stored

FNext == (\E i \in Ids : Accept(i)) \/ (\E S \in SUBSET Ids : Store(S) \/ Drop(S))

FSpec == FInit /\ [][FNext]_fvars
=============================================================================
