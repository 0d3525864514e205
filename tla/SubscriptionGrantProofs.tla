---------------------- MODULE SubscriptionGrantProofs ----------------------
(* Theorems about SubscriptionGrant, for any subscriptions, lengths and      *)
(* bounds. They are for a single worker: with two, TLC finds both broken.    *)
EXTENDS SubscriptionGrant, FiniteSetTheorems, TLAPS

Serial == \A v, w \in Workers : v = w

LEMMA Numbers ==
    /\ Subs # {} /\ Tier \in [Subs -> Tiers]
    /\ Length \in Nat /\ Length > 0 /\ Window \in Nat
BY GrantAssumption

LEMMA MaxInt == ASSUME NEW s \in Subs PROVE MaxOf(s) \in Int
BY Numbers DEF MaxOf

(* The types the argument needs: times are integers and cycles are finite.   *)
Row == [status : {"active", "expired", "canceled"}, next : Int, granted : Int, renew : BOOLEAN]
Cycle == [id : Int, sub : Subs, start : Int, canceled : BOOLEAN]
Job == [sub : Subs, granted : Int, at : Int, end : Int]
Labels == {Idle, "look", "postpone", "start", "commit", "full", "renewal", "advance"}
Hired == pc \in [Workers -> Labels] /\ work \in [Workers -> Job]
Stored ==
    /\ now \in Nat /\ sub \in [Subs -> Row]
    /\ cycles \subseteq Cycle /\ IsFiniteSet(cycles)
Typed == Hired /\ Stored

(* Nothing begins in the future; a worker that is to create a cycle has seen *)
(* that none of the tier runs, and that there is room for one more.          *)
Begun ==
    /\ \A c \in cycles : c.start <= now
    /\ \A w \in Workers : work[w].at <= now
Bare == \A w \in Workers : pc[w] \in {"start", "commit"} =>
    \A c \in cycles : Effective(c) => ~Same(c, work[w].sub)
Room == \A w \in Workers : pc[w] = "commit" /\ Tier[work[w].sub] = "premium" =>
    Cardinality(Counted(work[w].sub)) < MaxOf(work[w].sub)
Inv == Typed /\ Begun /\ Bare /\ Room /\ CoveredOnce /\ WithinLimit

LEMMA NoJobTyped == NoJob \in Job /\ NoJob.at = 0
<1>1. (CHOOSE s \in Subs : TRUE) \in Subs
  BY Numbers
<1> QED
  BY <1>1 DEF NoJob, Job

LEMMA CountedFinite ==
    ASSUME Typed, NEW s \in Subs
    PROVE  IsFiniteSet(Counted(s)) /\ Cardinality(Counted(s)) \in Int
<1>1. IsFiniteSet(cycles) /\ Counted(s) \in SUBSET cycles
  BY DEF Typed, Stored, Counted
<1>2. IsFiniteSet(Counted(s))
  BY <1>1, FS_Subset
<1> QED
  BY <1>2, FS_CardinalityType

(* An effective cycle covers every grant that is for now or for earlier.     *)
LEMMA Covers ==
    ASSUME Typed, Begun, NEW w \in Workers, NEW c \in cycles, Effective(c), Same(c, work[w].sub)
    PROVE  c \in Covering(work[w])
<1>1. work[w].at \in Int /\ work[w].at <= now /\ c \in Cycle /\ now \in Nat
  BY DEF Typed, Hired, Stored, Begun, Job
<1>2. End(c) \in Int /\ now < End(c)
  BY <1>1, Numbers DEF End, Cycle, Effective
<1> QED
  BY <1>1, <1>2 DEF Covering

(* There is one cycle that covers a grant, so there is a latest end.         *)
LEMMA LatestInt ==
    ASSUME Typed, CoveredOnce, NEW w \in Workers, Covering(work[w]) # {}
    PROVE  Latest(Covering(work[w])) \in Int
<1>1. PICK c \in Covering(work[w]) : TRUE
  OBVIOUS
<1>2. \A d \in Covering(work[w]) : d = c
  BY <1>1 DEF Covering, CoveredOnce, Same
<1>3. End(c) \in Int
  BY <1>1, Numbers DEF Covering, Typed, Stored, Cycle, End
<1>4. Covering(work[w]) = {c}
  BY <1>1, <1>2
<1>5. \E e \in {End(d) : d \in {c}} : \A d \in {c} : End(d) <= e
  BY <1>3
<1>6. Latest({c}) \in {End(d) : d \in {c}}
  BY <1>5 DEF Latest
<1> QED
  BY <1>3, <1>4, <1>6
-----------------------------------------------------------------------------
LEMMA InitInv == Init => Inv
<1> SUFFICES ASSUME Init PROVE Inv
  OBVIOUS
<1>1. Typed
  BY NoJobTyped, FS_EmptySet DEF Init, Typed, Hired, Stored, Row, Labels
<1>2. Begun /\ Bare /\ Room /\ CoveredOnce
  BY NoJobTyped DEF Init, Begun, Bare, Room, CoveredOnce, Idle
<1>3. ASSUME NEW s \in Subs PROVE Cardinality(Counted(s)) <= MaxOf(s)
  <2>1. Counted(s) = {} /\ Cardinality({}) = 0
    BY FS_EmptySet DEF Init, Counted
  <2>2. (Window + Length - 1) \div Length >= 0
    BY Numbers
  <2> QED
    BY <2>1, <2>2 DEF MaxOf
<1> QED
  BY <1>1, <1>2, <1>3 DEF Inv, WithinLimit

(* A step that leaves the cycles and the clock alone, and at which no worker *)
(* comes to create a cycle, keeps everything that is said of the cycles.     *)
LEMMA Elsewhere ==
    ASSUME Inv, Typed', UNCHANGED <<now, cycles>>,
           \A w \in Workers : work'[w].at <= now,
           \A w \in Workers : pc'[w] \in {"start", "commit"} =>
               pc'[w] = pc[w] /\ work'[w] = work[w]
    PROVE  Inv'
<1>1. \A s \in Subs : Counted(s)' = Counted(s)
  BY DEF Counted
<1>2. Begun' /\ Bare' /\ CoveredOnce'
  BY DEF Inv, Begun, Bare, CoveredOnce, Effective, End
<1>3. Room'
  BY <1>1 DEF Inv, Typed, Hired, Job, Room, MaxOf
<1>4. WithinLimit'
  BY <1>1 DEF Inv, WithinLimit, MaxOf
<1> QED
  BY <1>2, <1>3, <1>4 DEF Inv

LEMMA DoneTyped ==
    ASSUME Inv, NEW w \in Workers, Done(w)
    PROVE  /\ Hired' /\ \A v \in Workers : work'[v].at <= now
           /\ \A v \in Workers : pc'[v] \in {"start", "commit"} => pc'[v] = pc[v] /\ work'[v] = work[v]
<1>1. 0 <= now
  BY DEF Inv, Typed, Stored
<1> QED
  BY <1>1, NoJobTyped DEF Inv, Begun, Typed, Hired, Done, Labels, Idle

(* The grant of a worker, from the list of those due to the next one.        *)
LEMMA GrantInv ==
    ASSUME Inv, NEW w \in Workers,
           \/ \E s \in Subs : Fetch(w, s)
           \/ Postpone(w) \/ Renewal(w) \/ Advance(w) \/ Crash(w)
    PROVE  Inv'
<1>1. CASE \E s \in Subs : Fetch(w, s)
  <2>1. PICK s \in Subs : Fetch(w, s)
    BY <1>1
  <2>2. PICK at \in {sub[s].next, now} :
            Begin(w, [sub |-> s, granted |-> sub[s].granted, at |-> at, end |-> 0])
    BY <2>1 DEF Fetch
  <2>3. at \in Int /\ at <= now /\ sub[s].granted \in Int
    BY <2>1 DEF Fetch, Inv, Typed, Stored, Row
  <2>4. [sub |-> s, granted |-> sub[s].granted, at |-> at, end |-> 0] \in Job
    BY <2>3 DEF Job
  <2>5. /\ Hired' /\ \A v \in Workers : work'[v].at <= now
        /\ \A v \in Workers : pc'[v] \in {"start", "commit"} => pc'[v] = pc[v] /\ work'[v] = work[v]
    BY <2>2, <2>3, <2>4 DEF Begin, Inv, Typed, Begun, Hired, Labels
  <2> QED
    BY <2>1, <2>5, Elsewhere DEF Fetch, Inv, Typed, Stored
<1>2. CASE Postpone(w) \/ Advance(w)
  <2>1. \A next, granted \in Int : Moved(work[w].sub, next, granted) => sub' \in [Subs -> Row]
    BY DEF Inv, Typed, Hired, Stored, Job, Moved, Row
  <2>2. work[w] \in Job
    BY DEF Inv, Typed, Hired
  <2>3. /\ Until(work[w]) \in Int /\ NextAt(work[w]) \in Int
        /\ work[w].granted \in Int /\ Counting(work[w]) \in Int
    BY <2>2, Numbers DEF Job, Until, NextAt, Counting
  <2>4. sub' \in [Subs -> Row]
    BY <1>2, <2>1, <2>3 DEF Postpone, Advance
  <2>5. UNCHANGED <<now, cycles>> /\ Done(w)
    BY <1>2 DEF Postpone, Advance
  <2> QED
    BY <2>4, <2>5, DoneTyped, Elsewhere DEF Inv, Typed, Stored
<1>3. CASE Renewal(w)
  <2>1. sub' \in [Subs -> Row]
    BY <1>3 DEF Renewal, Inv, Typed, Hired, Stored, Job, Row
  <2> QED
    BY <1>3, <2>1, DoneTyped, Elsewhere DEF Renewal, Inv, Typed, Stored
<1>4. CASE Crash(w)
  BY <1>4, DoneTyped, Elsewhere DEF Crash, Inv, Typed, Stored
<1> QED
  BY <1>1, <1>2, <1>3, <1>4

LEMMA LookInv == ASSUME Inv, NEW w \in Workers, Look(w) PROVE Inv'
<1>1. UNCHANGED <<now, sub, cycles>> /\ pc[w] = "look"
  BY DEF Look
<1>2. CASE Covering(work[w]) = {} /\ Go(w, "start")
  <2>1. Typed' /\ Begun' /\ CoveredOnce' /\ WithinLimit'
    BY <1>1, <1>2 DEF Go, Inv, Typed, Hired, Stored, Labels, Begun, CoveredOnce, Effective, End,
       WithinLimit, Counted, MaxOf
  <2>2. \A c \in cycles : Effective(c) => ~Same(c, work[w].sub)
    BY <1>2, Covers DEF Inv
  <2>3. Bare'
    BY <1>1, <1>2, <2>2 DEF Go, Inv, Typed, Hired, Bare, Effective, End
  <2>4. Room'
    BY <1>1, <1>2 DEF Go, Inv, Typed, Hired, Room, Counted, MaxOf
  <2> QED
    BY <2>1, <2>3, <2>4 DEF Inv
<1>3. CASE /\ Covering(work[w]) # {} /\ pc' = [pc EXCEPT ![w] = "postpone"]
           /\ work' = [work EXCEPT ![w].end = Latest(Covering(work[w]))]
  <2>1. Latest(Covering(work[w])) \in Int
    BY <1>3, LatestInt DEF Inv
  <2>2. work[w] \in Job /\ work'[w] = [work[w] EXCEPT !.end = Latest(Covering(work[w]))]
    BY <1>3 DEF Inv, Typed, Hired
  <2>3. work'[w] \in Job /\ work'[w].at = work[w].at
    BY <2>1, <2>2 DEF Job
  <2>4. Hired' /\ \A v \in Workers : work'[v].at <= now
    BY <1>3, <2>3 DEF Inv, Typed, Hired, Labels, Begun
  <2>5. \A v \in Workers : pc'[v] \in {"start", "commit"} => pc'[v] = pc[v] /\ work'[v] = work[v]
    BY <1>3 DEF Inv, Typed, Hired
  <2> QED
    BY <1>1, <2>4, <2>5, Elsewhere DEF Inv, Typed, Stored
<1> QED
  BY <1>2, <1>3 DEF Look

LEMMA StartInv == ASSUME Inv, NEW w \in Workers, Start(w) PROVE Inv'
<1>1. /\ UNCHANGED <<now, sub, cycles, work>> /\ pc[w] = "start"
      /\ pc' = [pc EXCEPT ![w] = IF Limited(work[w]) THEN "full" ELSE "commit"]
  BY DEF Start, Go
<1>2. Typed' /\ Begun' /\ CoveredOnce' /\ WithinLimit' /\ Bare'
  BY <1>1 DEF Inv, Typed, Hired, Stored, Labels, Begun, CoveredOnce, Effective, End,
     WithinLimit, Counted, MaxOf, Bare
<1>3. \A v \in Workers : Counted(work[v].sub)' = Counted(work[v].sub)
  BY <1>1 DEF Counted
<1>4. ASSUME ~Limited(work[w]), Tier[work[w].sub] = "premium"
      PROVE  Cardinality(Counted(work[w].sub)) < MaxOf(work[w].sub)
  <2>1. work[w].sub \in Subs
    BY DEF Inv, Typed, Hired, Job
  <2>2. ~(Cardinality(Counted(work[w].sub)) >= MaxOf(work[w].sub))
    BY <1>4 DEF Limited
  <2> QED
    BY <2>1, <2>2, CountedFinite, MaxInt DEF Inv
<1>5. Room'
  BY <1>1, <1>3, <1>4 DEF Inv, Typed, Hired, Room, MaxOf
<1> QED
  BY <1>2, <1>5 DEF Inv

LEMMA FullInv == ASSUME Inv, NEW w \in Workers, Full(w) PROVE Inv'
<1>1. sub' \in [Subs -> Row]
  BY DEF Full, Inv, Typed, Hired, Stored, Job, Row
<1>2. Hired' /\ UNCHANGED <<now, cycles, work>>
      /\ \A v \in Workers : pc'[v] \in {"start", "commit"} => pc'[v] = pc[v]
  BY DEF Full, Go, Inv, Typed, Hired, Labels
<1> QED
  BY <1>1, <1>2, Elsewhere DEF Inv, Typed, Stored, Begun

(* The one step that creates a cycle; here no other worker may be about to.  *)
LEMMA CommitInv == ASSUME Serial, Inv, NEW w \in Workers, Commit(w) PROVE Inv'
<1> DEFINE new == [id |-> Cardinality(cycles) + 1, sub |-> work[w].sub,
                   start |-> work[w].at, canceled |-> FALSE]
<1>1. UNCHANGED <<now, sub>> /\ pc[w] = "commit"
  BY DEF Commit
<1>2. CASE Done(w) /\ UNCHANGED cycles
  BY <1>1, <1>2, DoneTyped, Elsewhere DEF Inv, Typed, Stored
<1>3. CASE cycles' = cycles \cup {new} /\ Go(w, "advance")
  <2>1. new \in Cycle /\ new.start <= now /\ new.sub \in Subs
    <3>1. Cardinality(cycles) \in Nat
      BY FS_CardinalityType DEF Inv, Typed, Stored
    <3>2. work[w] \in Job /\ work[w].at <= now
      BY DEF Inv, Typed, Hired, Begun
    <3> QED
      BY <3>1, <3>2 DEF Job, Cycle
  <2>2. Typed'
    BY <1>1, <1>3, <2>1, FS_AddElement DEF Go, Inv, Typed, Hired, Stored, Labels
  <2>3. Begun'
    BY <1>1, <1>3, <2>1 DEF Go, Inv, Begun
  <2>4. \A v \in Workers : pc'[v] = "advance"
    BY <1>3 DEF Serial, Go, Inv, Typed, Hired
  <2>5. Bare' /\ Room'
    BY <2>4 DEF Bare, Room
  <2>6. CoveredOnce'
    <3>1. \A c \in cycles : Effective(c) => Tier[c.sub] # Tier[new.sub]
      BY <1>1 DEF Inv, Bare, Same
    <3> QED
      BY <1>1, <1>3, <3>1 DEF CoveredOnce, Effective, End, Same, Inv
  <2>7. ASSUME NEW s \in Subs, Tier[s] = "premium"
        PROVE  Cardinality(Counted(s)') <= MaxOf(s)
    <3>1. CASE s = new.sub
      <4>1. Cardinality(Counted(s)) < MaxOf(s)
        BY <1>1, <2>7, <3>1 DEF Inv, Room
      <4>2. Counted(s)' = Counted(s) \cup {new}
        BY <1>3, <3>1 DEF Counted
      <4>3. Cardinality(Counted(s) \cup {new}) <= Cardinality(Counted(s)) + 1
        <5>1. IsFiniteSet(Counted(s)) /\ Cardinality(Counted(s)) \in Int
          BY CountedFinite DEF Inv
        <5>2. Cardinality(Counted(s) \cup {new}) =
                IF new \in Counted(s) THEN Cardinality(Counted(s)) ELSE Cardinality(Counted(s)) + 1
          BY <5>1, FS_AddElement
        <5> QED
          BY <5>1, <5>2
      <4>4. IsFiniteSet(Counted(s) \cup {new})
        BY CountedFinite, FS_AddElement DEF Inv
      <4>5. Cardinality(Counted(s) \cup {new}) \in Int
        BY <4>4, FS_CardinalityType
      <4> QED
        BY <4>1, <4>2, <4>3, <4>5, CountedFinite, MaxInt DEF Inv
    <3>2. CASE s # new.sub
      <4>1. Counted(s)' = Counted(s)
        BY <1>3, <3>2 DEF Counted
      <4> QED
        BY <2>7, <4>1 DEF Inv, WithinLimit
    <3> QED
      BY <3>1, <3>2
  <2> QED
    BY <2>2, <2>3, <2>5, <2>6, <2>7 DEF Inv, WithinLimit, MaxOf
<1> QED
  BY <1>2, <1>3 DEF Commit

LEMMA CancelInv == ASSUME Inv, NEW s \in Subs, Cancel(s) PROVE Inv'
<1>1. sub' \in [Subs -> Row]
  BY DEF Cancel, Inv, Typed, Stored, Row
<1> QED
  BY <1>1, Elsewhere DEF Cancel, Inv, Typed, Hired, Stored, Begun

(* A cancelled cycle keeps its subscription and its start.                   *)
LEMMA CancelCyclesInv == ASSUME Inv, NEW s \in Subs, CancelCycles(s) PROVE Inv'
<1>1. PICK active \in SUBSET Counted(s) :
          cycles' = (cycles \ active) \cup {[c EXCEPT !.canceled = TRUE] : c \in active}
  BY DEF CancelCycles
<1> DEFINE off == [c \in active |-> [c EXCEPT !.canceled = TRUE]]
           gone == {[c EXCEPT !.canceled = TRUE] : c \in active}
<1>2. UNCHANGED <<now, sub, pc, work>>
  BY DEF CancelCycles
<1>3. active \subseteq cycles /\ cycles \subseteq Cycle /\ IsFiniteSet(cycles)
  BY DEF Counted, Inv, Typed, Stored
<1>4. \A c \in active : /\ [c EXCEPT !.canceled = TRUE] \in Cycle
                         /\ [c EXCEPT !.canceled = TRUE].canceled
                         /\ [c EXCEPT !.canceled = TRUE].start = c.start
  BY <1>3 DEF Cycle
<1>5. IsFiniteSet(cycles')
  <2>1. IsFiniteSet(active) /\ IsFiniteSet(cycles \ active)
    BY <1>3, FS_Subset
  <2>2. off \in Surjection(active, gone)
    BY DEF Surjection
  <2>3. IsFiniteSet(gone)
    BY <2>1, <2>2, FS_Surjection
  <2> QED
    BY <1>1, <2>1, <2>3, FS_Union
<1>6. Typed'
  BY <1>1, <1>2, <1>3, <1>4, <1>5 DEF Inv, Typed, Hired, Stored
<1>7. Begun'
  BY <1>1, <1>2, <1>3, <1>4 DEF Inv, Begun
<1>8. \A c \in cycles' : ~c.canceled => c \in cycles
  BY <1>1, <1>4
<1>9. Bare' /\ CoveredOnce'
  BY <1>2, <1>8 DEF Inv, Bare, CoveredOnce, Effective, End
<1>10. ASSUME NEW r \in Subs
       PROVE  Cardinality(Counted(r)') <= Cardinality(Counted(r)) /\ Cardinality(Counted(r)') \in Int
  <2>1. Counted(r)' \in SUBSET Counted(r) /\ IsFiniteSet(Counted(r))
    BY <1>8, CountedFinite DEF Counted, Inv
  <2> QED
    BY <2>1, FS_Subset, FS_CardinalityType
<1>11. \A r \in Subs : Cardinality(Counted(r)) \in Int /\ MaxOf(r) \in Int /\ MaxOf(r)' = MaxOf(r)
  BY CountedFinite, MaxInt DEF Inv, MaxOf
<1>12. WithinLimit'
  BY <1>10, <1>11 DEF Inv, WithinLimit
<1>13. Room'
  <2> SUFFICES ASSUME NEW w \in Workers, pc[w] = "commit",
                      NEW r \in Subs, r = work[w].sub, Tier[r] = "premium"
               PROVE  Cardinality(Counted(r)') < MaxOf(r)
    BY <1>2 DEF Room, Counted, MaxOf, Inv, Typed, Hired, Job
  <2>1. Cardinality(Counted(r)) < MaxOf(r)
    BY DEF Inv, Room
  <2> QED
    BY <1>10, <1>11, <2>1
<1> QED
  BY <1>6, <1>7, <1>9, <1>12, <1>13 DEF Inv

(* As time passes cycles end, and none begins.                               *)
LEMMA TickInv == ASSUME Inv, Tick PROVE Inv'
<1>1. now' = now + 1 /\ UNCHANGED <<sub, cycles, pc, work>>
  BY DEF Tick
<1>2. now \in Nat /\ \A c \in cycles : c.start <= now /\ c.start \in Int /\ End(c) \in Int
  BY Numbers DEF Inv, Typed, Stored, Begun, Cycle, End
<1>3. Typed' /\ Begun'
  BY <1>1, <1>2 DEF Inv, Typed, Hired, Stored, Begun, Job
<1>4. \A c \in cycles : Effective(c)' => Effective(c)
  BY <1>1, <1>2 DEF Effective, End
<1>5. CoveredOnce' /\ Bare'
  BY <1>1, <1>4 DEF Inv, CoveredOnce, Bare, Same
<1>6. Room' /\ WithinLimit'
  BY <1>1 DEF Inv, Room, WithinLimit, Counted, MaxOf
<1> QED
  BY <1>3, <1>5, <1>6 DEF Inv

LEMMA StepInv == ASSUME Serial, Inv, [Next]_vars PROVE Inv'
<1>1. CASE UNCHANGED vars
  BY <1>1 DEF vars, Inv, Typed, Hired, Stored, Begun, Bare, Room, CoveredOnce, WithinLimit,
     Effective, End, Counted, MaxOf
<1>2. ASSUME NEW w \in Workers, Step(w) \/ Crash(w) PROVE Inv'
  BY <1>2, GrantInv, LookInv, StartInv, CommitInv, FullInv DEF Step
<1>3. ASSUME NEW s \in Subs, Cancel(s) \/ CancelCycles(s) PROVE Inv'
  BY <1>3, CancelInv, CancelCyclesInv
<1> QED
  BY <1>1, <1>2, <1>3, TickInv DEF Next

LEMMA InvAlways == ASSUME Serial PROVE Spec => []Inv
<1>1. Inv /\ [Next]_vars => Inv'
  BY StepInv
<1> QED
  BY <1>1, InitInv, PTL DEF Spec
-----------------------------------------------------------------------------
(* With one worker no two cycles of a tier ever run at the same time,        *)
(* whatever crashes between the check and the creation and whatever the user *)
(* cancels.                                                                  *)
THEOREM OneCycleAtATime == ASSUME Serial PROVE Spec => []CoveredOnce
<1>1. Inv => CoveredOnce
  BY DEF Inv
<1> QED
  BY <1>1, InvAlways, PTL

(* With one worker a Premium subscription never has more cycles than fit in  *)
(* its window, however often a grant is repeated.                            *)
THEOREM NeverOverLimit == ASSUME Serial PROVE Spec => []WithinLimit
<1>1. Inv => WithinLimit
  BY DEF Inv
<1> QED
  BY <1>1, InvAlways, PTL
=============================================================================
