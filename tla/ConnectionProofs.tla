------------------------- MODULE ConnectionProofs -------------------------
(* Theorems about the remote connections of a session: the API keys they    *)
(* hold (KeyPool), for any number of keys and attempts and any thresholds   *)
(* that satisfy PoolAssumption; and the audio that goes over them           *)
(* (AudioPath), for any number of packets, connections, attempts and        *)
(* faults, and any sizes of the queues.                                     *)
EXTENDS KeyPool, AudioPath, FiniteSetTheorems, WellFoundedInduction, TLAPS

-----------------------------------------------------------------------------
(* The pool of keys                                                         *)

(* The ranks stay inside 0..NumKeys-1 when a key moves to the back. *)
LEMMA MoveToBackType ==
    ASSUME rank \in [Keys -> 0..(NumKeys - 1)], NEW k \in Keys
    PROVE  MoveToBack(k) \in [Keys -> 0..(NumKeys - 1)]
<1>1. ASSUME NEW j \in Keys
      PROVE  (CASE j = k             -> NumKeys - 1
                [] rank[j] > rank[k] -> rank[j] - 1
                [] OTHER             -> rank[j]) \in 0..(NumKeys - 1)
  <2>1. rank[j] \in 0..(NumKeys - 1) /\ rank[k] \in 0..(NumKeys - 1)
    OBVIOUS
  <2>2. NumKeys \in Nat \ {0}
    BY PoolAssumption
  <2>3. CASE j = k
    BY <2>2, <2>3
  <2>4. CASE j # k /\ rank[j] > rank[k]
    BY <2>1, <2>2, <2>4
  <2>5. CASE j # k /\ ~(rank[j] > rank[k])
    BY <2>1, <2>2, <2>5
  <2> QED
    BY <2>3, <2>4, <2>5
<1> QED
  BY <1>1 DEF MoveToBack

(* The history counters stay between 0 and NumKeys. *)
LEMMA CountPassedType ==
    ASSUME passed \in [Keys -> 0..NumKeys], NEW k \in Keys
    PROVE  CountPassed(k) \in [Keys -> 0..NumKeys]
BY PoolAssumption DEF CountPassed

(* Halving keeps a counter a natural number. *)
LEMMA AgedType ==
    ASSUME NEW count \in [Keys -> Nat]
    PROVE  Aged(count) \in [Keys -> Nat]
<1>1. \A n \in Nat : n \div 2 \in Nat
  OBVIOUS
<1> QED
  BY <1>1 DEF Aged

(* Every step of the manager and of its connections keeps the types. *)
LEMMA TypeStep == PoolTypeOK /\ [PoolNext]_poolVars => PoolTypeOK'
<1> USE PoolAssumption DEF PoolTypeOK
<1> SUFFICES ASSUME PoolTypeOK, [PoolNext]_poolVars PROVE PoolTypeOK'
  OBVIOUS
<1>1. ASSUME NEW c \in Attempts, GetAPIKey(c) PROVE PoolTypeOK'
  <2>1. PICK k \in Keys :
          /\ cur' = [cur EXCEPT ![k] = @ + 1]
          /\ total' = [total EXCEPT ![k] = @ + 1]
          /\ rank' = MoveToBack(k)
          /\ cursor' = IF strategy = "round_robin" THEN k % NumKeys ELSE cursor
          /\ passed' = CountPassed(k)
          /\ key' = [key EXCEPT ![c] = k]
          /\ phase' = [phase EXCEPT ![c] = "dialing"]
    BY <1>1 DEF GetAPIKey
  <2>2. k % NumKeys \in 0..(NumKeys - 1)
    BY SMTT(30) DEF Keys
  <2>3. rank' \in [Keys -> 0..(NumKeys - 1)]
    BY <2>1, MoveToBackType
  <2>4. passed' \in [Keys -> 0..NumKeys]
    BY <2>1, CountPassedType
  <2>5. cursor' \in 0..(NumKeys - 1)
    BY <2>1, <2>2
  <2>6. UNCHANGED <<healthy, failed, strategy>>
    BY <1>1 DEF GetAPIKey
  <2>7. cur' \in [Keys -> Nat] /\ total' \in [Keys -> Nat]
    BY <2>1
  <2>8. /\ phase' \in [Attempts -> {"idle", "dialing", "connected", "reporting"}]
        /\ key' \in [Attempts -> {0} \cup Keys]
        /\ \A d \in Attempts : phase'[d] # "idle" => key'[d] \in Keys
    BY <2>1
  <2> QED
    BY <2>3, <2>4, <2>5, <2>6, <2>7, <2>8
<1>2. ASSUME NEW c \in Attempts, Dialed(c) PROVE PoolTypeOK'
  BY <1>2 DEF Dialed, manager
<1>3. ASSUME NEW c \in Attempts, DialFailed(c) PROVE PoolTypeOK'
  <2>1. cur' \in [Keys -> Nat]
    BY <1>3 DEF DialFailed, GivenBack
  <2> QED
    BY <1>3, <2>1 DEF DialFailed
<1>4. ASSUME NEW k \in Keys, RecordFailure(k)
      PROVE  failed' \in [Keys -> Nat] /\ healthy' \in [Keys -> BOOLEAN]
  BY <1>4 DEF RecordFailure
<1>5. ASSUME NEW c \in Attempts, ReportDialFailure(c) PROVE PoolTypeOK'
  <2>1. failed' \in [Keys -> Nat] /\ healthy' \in [Keys -> BOOLEAN]
    BY <1>4, <1>5 DEF ReportDialFailure
  <2> QED
    BY <1>5, <2>1 DEF ReportDialFailure
<1>6. ASSUME NEW c \in Attempts, WriteFailed(c) PROVE PoolTypeOK'
  <2>1. failed' \in [Keys -> Nat] /\ healthy' \in [Keys -> BOOLEAN]
    BY <1>4, <1>6 DEF WriteFailed
  <2> QED
    BY <1>6, <2>1 DEF WriteFailed
<1>7. ASSUME NEW c \in Attempts, CleanupConnection(c) PROVE PoolTypeOK'
  <2>1. cur' \in [Keys -> Nat]
    BY <1>7 DEF CleanupConnection, GivenBack
  <2> QED
    BY <1>7, <2>1 DEF CleanupConnection
<1>8. ASSUME PerformHealthCheck PROVE PoolTypeOK'
  <2>1. total' \in [Keys -> Nat] /\ failed' \in [Keys -> Nat]
    BY <1>8, AgedType DEF PerformHealthCheck
  <2>2. healthy' \in [Keys -> BOOLEAN]
    BY <1>8 DEF PerformHealthCheck
  <2> QED
    BY <1>8, <2>1, <2>2 DEF PerformHealthCheck
<1>9. CASE UNCHANGED poolVars
  BY <1>9 DEF poolVars
<1> QED
  BY <1>1, <1>2, <1>3, <1>5, <1>6, <1>7, <1>8, <1>9 DEF PoolNext

(* The manager's counters and the connections' states keep their types. *)
THEOREM TypeCorrect == PoolSpec => []PoolTypeOK
<1>1. PoolInit => PoolTypeOK
  BY PoolAssumption DEF PoolInit, PoolTypeOK, Keys, Strategies
<1> QED
  BY <1>1, TypeStep, PTL DEF PoolSpec

-----------------------------------------------------------------------------
(* An unhealthy key is never selected, and its failure rate stays at about  *)
(* one half through every halving of its counters.                          *)

LEMMA HalvingKeepsRatio ==
    ASSUME NEW f \in Nat, NEW t \in Nat, 2 * f >= t - 1
    PROVE  2 * (f \div 2) >= (t \div 2) - 1
OBVIOUS

(* A rate of about one half never falls under the recovery threshold. *)
LEMMA RatioPreventsRecovery ==
    ASSUME PoolTypeOK, UnhealthyRatio, NEW k \in Keys, ~healthy[k]
    PROVE  ~Recovers(k)
<1>1. /\ total[k] \in Nat /\ failed[k] \in Nat
      /\ total[k] > MinSample /\ 2 * failed[k] >= total[k] - 1
  BY DEF PoolTypeOK, UnhealthyRatio
<1>2. MinSample \in Nat /\ MinSample >= 2
  BY PoolAssumption
<1> QED
  BY <1>1, <1>2 DEF Recovers

LEMMA RatioStep == PoolTypeOK /\ UnhealthyRatio /\ [PoolNext]_poolVars => UnhealthyRatio'
<1> SUFFICES ASSUME PoolTypeOK, UnhealthyRatio, [PoolNext]_poolVars,
                    NEW k \in Keys, ~healthy'[k]
             PROVE  /\ total'[k] > MinSample
                    /\ 2 * failed'[k] >= total'[k] - 1
  BY DEF UnhealthyRatio
<1>t. /\ healthy[k] \in BOOLEAN
      /\ healthy \in [Keys -> BOOLEAN]
      /\ total \in [Keys -> Nat] /\ failed \in [Keys -> Nat]
      /\ total[k] \in Nat /\ failed[k] \in Nat
  BY DEF PoolTypeOK
<1>r. ~healthy[k] => total[k] > MinSample /\ 2 * failed[k] >= total[k] - 1
  BY DEF UnhealthyRatio
<1>c. MinSample \in Nat /\ HalveAt \in Nat /\ HalveAt >= 2 * MinSample + 1
  BY PoolAssumption
<1>1. ASSUME NEW c \in Attempts, GetAPIKey(c)
      PROVE  total'[k] > MinSample /\ 2 * failed'[k] >= total'[k] - 1
  <2>1. PICK g \in Keys : Selected(g) /\ total' = [total EXCEPT ![g] = @ + 1]
    BY <1>1 DEF GetAPIKey
  <2>2. healthy' = healthy /\ failed' = failed
    BY <1>1 DEF GetAPIKey
  <2>3. g # k
    BY <2>1, <2>2 DEF Selected, Available
  <2> QED
    BY <2>1, <2>2, <2>3, <1>t, <1>r
<1>2. ASSUME NEW j \in Keys, RecordFailure(j), UNCHANGED total
      PROVE  total'[k] > MinSample /\ 2 * failed'[k] >= total'[k] - 1
  <2>1. CASE j # k
    BY <1>2, <2>1, <1>t, <1>r DEF RecordFailure
  <2>2. CASE j = k
    <3>1. failed'[k] = failed[k] + 1 /\ total'[k] = total[k]
      BY <1>2, <2>2, <1>t DEF RecordFailure
    <3>2. healthy'[k] = (healthy[k] /\ ~(total[k] > MinSample /\ 2 * failed'[k] > total[k]))
      BY <1>2, <2>2, <1>t DEF RecordFailure
    <3> QED
      BY <3>1, <3>2, <1>t, <1>r, <1>c
  <2> QED
    BY <2>1, <2>2
<1>3. ASSUME PerformHealthCheck
      PROVE  total'[k] > MinSample /\ 2 * failed'[k] >= total'[k] - 1
  <2>1. ~healthy[k]
    BY <1>3 DEF PerformHealthCheck
  <2>2. CASE total[k] > HalveAt
    <3>1. total'[k] = total[k] \div 2 /\ failed'[k] = failed[k] \div 2
      BY <1>3, <2>2 DEF PerformHealthCheck, Aged
    <3>2. 2 * (failed[k] \div 2) >= (total[k] \div 2) - 1
      BY <1>t, <1>r, <2>1, HalvingKeepsRatio
    <3>3. total[k] \div 2 > MinSample
      BY <1>t, <1>c, <2>2
    <3> QED
      BY <3>1, <3>2, <3>3
  <2>3. CASE ~(total[k] > HalveAt)
    <3>1. total'[k] = total[k] /\ failed'[k] = failed[k]
      BY <1>3, <2>3 DEF PerformHealthCheck, Aged
    <3> QED
      BY <3>1, <2>1, <1>r
  <2> QED
    BY <2>2, <2>3
<1>4. ASSUME UNCHANGED <<healthy, total, failed>>
      PROVE  total'[k] > MinSample /\ 2 * failed'[k] >= total'[k] - 1
  BY <1>4, <1>r
<1>5. ASSUME NEW c \in Attempts, ReportDialFailure(c) \/ WriteFailed(c)
      PROVE  total'[k] > MinSample /\ 2 * failed'[k] >= total'[k] - 1
  <2>1. key[c] \in Keys /\ RecordFailure(key[c]) /\ UNCHANGED total
    BY <1>5 DEF ReportDialFailure, WriteFailed, PoolTypeOK
  <2> QED
    BY <2>1, <1>2
<1> QED
  BY <1>1, <1>3, <1>4, <1>5
     DEF PoolNext, poolVars, manager, Dialed, DialFailed, CleanupConnection

(* A key once marked unhealthy stays so: no run of the pool ever takes the *)
(* recovery branch of performHealthCheck.                                   *)
THEOREM UnhealthyNeverRecovers == PoolSpec => UnhealthyIsPermanent
<1>1. PoolInit => UnhealthyRatio
  BY DEF PoolInit, UnhealthyRatio
<1>2. PoolTypeOK /\ UnhealthyRatio /\ [PoolNext]_poolVars
        => [\A k \in Keys : ~healthy[k] => ~healthy'[k]]_poolVars
  <2> SUFFICES ASSUME PoolTypeOK, UnhealthyRatio, PoolNext, NEW k \in Keys, ~healthy[k]
               PROVE  ~healthy'[k]
    OBVIOUS
  <2>t. healthy \in [Keys -> BOOLEAN]
    BY DEF PoolTypeOK
  <2>1. ASSUME NEW j \in Keys, RecordFailure(j) PROVE ~healthy'[k]
    BY <2>1, <2>t DEF RecordFailure
  <2>2. ASSUME PerformHealthCheck PROVE ~healthy'[k]
    BY <2>2, RatioPreventsRecovery DEF PerformHealthCheck
  <2>3. ASSUME NEW c \in Attempts, ReportDialFailure(c) \/ WriteFailed(c)
        PROVE  ~healthy'[k]
    <3>1. key[c] \in Keys /\ RecordFailure(key[c])
      BY <2>3 DEF ReportDialFailure, WriteFailed, PoolTypeOK
    <3> QED
      BY <3>1, <2>1
  <2>4. ASSUME UNCHANGED healthy PROVE ~healthy'[k]
    BY <2>4
  <2> QED
    BY <2>2, <2>3, <2>4
       DEF PoolNext, manager, GetAPIKey, Dialed, DialFailed, CleanupConnection
<1> QED
  BY <1>1, <1>2, RatioStep, TypeCorrect, PTL DEF PoolSpec, UnhealthyIsPermanent

-----------------------------------------------------------------------------
(* No slot leaks: CurrentConnections counts the connections holding a key. *)

LEMMA HoldersFinite == \A k \in Keys : IsFiniteSet(Holders(k))
BY PoolAssumption, FS_Subset DEF Holders

(* A connection that takes key k joins its holders and no others. *)
LEMMA HolderJoins ==
    ASSUME PoolTypeOK, NEW c \in Attempts, NEW k \in Keys, phase[c] = "idle",
           phase' = [phase EXCEPT ![c] = "dialing"],
           key' = [key EXCEPT ![c] = k]
    PROVE  /\ c \notin Holders(k)
           /\ Holders(k)' = Holders(k) \cup {c}
           /\ \A j \in Keys \ {k} : Holders(j)' = Holders(j)
BY DEF PoolTypeOK, Holders

(* A connection that stops holding its key leaves that key's holders. *)
LEMMA HolderLeaves ==
    ASSUME PoolTypeOK, NEW c \in Attempts, phase[c] \in {"dialing", "connected"},
           NEW k \in Keys, key[c] = k, NEW s \in {"idle", "reporting"},
           phase' = [phase EXCEPT ![c] = s],
           \A d \in Attempts \ {c} : key'[d] = key[d]
    PROVE  /\ c \in Holders(k)
           /\ Holders(k)' = Holders(k) \ {c}
           /\ \A j \in Keys \ {k} : Holders(j)' = Holders(j)
BY DEF PoolTypeOK, Holders

LEMMA SlotsStep == PoolTypeOK /\ SlotsMatchHolders /\ [PoolNext]_poolVars => SlotsMatchHolders'
<1> SUFFICES ASSUME PoolTypeOK, SlotsMatchHolders, [PoolNext]_poolVars,
                    NEW j \in Keys
             PROVE  cur'[j] = Cardinality(Holders(j)')
  BY DEF SlotsMatchHolders
<1>t. cur \in [Keys -> Nat] /\ cur[j] = Cardinality(Holders(j)) /\ IsFiniteSet(Holders(j))
  BY HoldersFinite DEF PoolTypeOK, SlotsMatchHolders
<1>1. ASSUME NEW c \in Attempts, GetAPIKey(c) PROVE cur'[j] = Cardinality(Holders(j)')
  <2>1. PICK k \in Keys : /\ cur' = [cur EXCEPT ![k] = @ + 1]
                          /\ key' = [key EXCEPT ![c] = k]
                          /\ phase' = [phase EXCEPT ![c] = "dialing"]
    BY <1>1 DEF GetAPIKey
  <2>2. phase[c] = "idle"
    BY <1>1 DEF GetAPIKey
  <2>3. /\ c \notin Holders(k)
        /\ Holders(k)' = Holders(k) \cup {c}
        /\ \A i \in Keys \ {k} : Holders(i)' = Holders(i)
    BY <2>1, <2>2, HolderJoins
  <2>4. CASE j = k
    <3>1. Cardinality(Holders(j) \cup {c}) = Cardinality(Holders(j)) + 1
      BY <1>t, <2>3, <2>4, FS_AddElement
    <3> QED
      BY <3>1, <1>t, <2>1, <2>3, <2>4
  <2>5. CASE j # k
    BY <1>t, <2>1, <2>3, <2>5
  <2> QED
    BY <2>4, <2>5
<1>2. ASSUME NEW c \in Attempts, phase[c] \in {"dialing", "connected"},
             NEW s \in {"idle", "reporting"}, phase' = [phase EXCEPT ![c] = s],
             \A d \in Attempts \ {c} : key'[d] = key[d],
             cur' = GivenBack(key[c])
      PROVE  cur'[j] = Cardinality(Holders(j)')
  <2>k. PICK k \in Keys : key[c] = k
    BY <1>2 DEF PoolTypeOK
  <2>1. /\ c \in Holders(k)
        /\ Holders(k)' = Holders(k) \ {c}
        /\ \A i \in Keys \ {k} : Holders(i)' = Holders(i)
    BY <1>2, <2>k, HolderLeaves
  <2>2. CASE j = k
    <3>1. Cardinality(Holders(j) \ {c}) = Cardinality(Holders(j)) - 1
      BY <1>t, <2>1, <2>2, FS_RemoveElement
    <3>2. cur[j] # 0
      BY <1>t, <2>1, <2>2, FS_EmptySet
    <3>3. cur'[j] = cur[j] - 1
      BY <1>2, <1>t, <2>k, <2>2, <3>2 DEF GivenBack
    <3> QED
      BY <3>1, <3>3, <1>t, <2>1, <2>2
  <2>3. CASE j # k
    BY <1>2, <1>t, <2>k, <2>1, <2>3 DEF GivenBack
  <2> QED
    BY <2>2, <2>3
<1>3. ASSUME NEW c \in Attempts, DialFailed(c) PROVE cur'[j] = Cardinality(Holders(j)')
  BY <1>2, <1>3 DEF DialFailed
<1>4. ASSUME NEW c \in Attempts, CleanupConnection(c)
      PROVE  cur'[j] = Cardinality(Holders(j)')
  <2>1. \A d \in Attempts \ {c} : key'[d] = key[d]
    BY <1>4 DEF CleanupConnection, PoolTypeOK
  <2> QED
    BY <1>2, <1>4, <2>1 DEF CleanupConnection
<1>5. ASSUME NEW c \in Attempts, Dialed(c) PROVE cur'[j] = Cardinality(Holders(j)')
  <2>1. Holders(j)' = Holders(j)
    BY <1>5 DEF Dialed, Holders, PoolTypeOK
  <2> QED
    BY <1>5, <1>t, <2>1 DEF Dialed, manager
<1>6. ASSUME NEW c \in Attempts, ReportDialFailure(c)
      PROVE  cur'[j] = Cardinality(Holders(j)')
  <2>1. Holders(j)' = Holders(j)
    BY <1>6 DEF ReportDialFailure, Holders, PoolTypeOK
  <2> QED
    BY <1>6, <1>t, <2>1 DEF ReportDialFailure
<1>7. ASSUME UNCHANGED <<cur, phase, key>> PROVE cur'[j] = Cardinality(Holders(j)')
  BY <1>7, <1>t DEF Holders
<1> QED
  BY <1>1, <1>3, <1>4, <1>5, <1>6, <1>7
     DEF PoolNext, poolVars, WriteFailed, PerformHealthCheck

(* CurrentConnections of every key is the number of its holders, always. *)
THEOREM NoSlotLeaks == PoolSpec => []SlotsMatchHolders
<1>1. PoolInit => SlotsMatchHolders
  <2> SUFFICES ASSUME PoolInit, NEW k \in Keys PROVE cur[k] = Cardinality(Holders(k))
    BY DEF SlotsMatchHolders
  <2>1. Holders(k) = {}
    BY DEF PoolInit, Holders
  <2> QED
    BY <2>1, FS_EmptySet DEF PoolInit
<1> QED
  BY <1>1, SlotsStep, TypeCorrect, PTL DEF PoolSpec
-----------------------------------------------------------------------------
(* Round-robin.  A grant moves the cursor past the key it takes, so a key   *)
(* that was passed over comes nearer to the cursor by more than the count   *)
(* of grants that passed it.                                                *)

(* What round-robin keeps of every key, available or not: the grants that   *)
(* passed it and the places the cursor still has to move to reach it        *)
(* together stay below the number of keys. *)
WithinOneTurn ==
    strategy = "round_robin" =>
        \A k \in Keys : passed[k] + StepsFromCursor(k) < NumKeys

(* The remainder the scan computes, without the division. *)
LEMMA PlacesAhead ==
    ASSUME NEW n \in Nat \ {0}, NEW k \in 1..n, NEW c \in 0..(n - 1)
    PROVE  (k - 1 - c) % n = IF k - 1 >= c THEN k - 1 - c ELSE k - 1 - c + n
<1>1. CASE k - 1 >= c
  BY <1>1
<1>2. CASE k - 1 < c
  <2>1. (k - 1 - c) % n \in 0..(n - 1)
    OBVIOUS
  <2>2. (k - 1 - c + n) % n = k - 1 - c + n
    BY <1>2
  <2> QED
    BY <1>2
<1> QED
  BY <1>1, <1>2

LEMMA CursorPast ==
    ASSUME NEW n \in Nat \ {0}, NEW k \in 1..n
    PROVE  k % n = IF k = n THEN 0 ELSE k
OBVIOUS

(* A key that is not nearer to the cursor than the granted one is nearer to *)
(* the place behind it, by all the places the cursor moved. *)
LEMMA PassedComesNearer ==
    ASSUME NEW n \in Nat \ {0}, NEW k \in 1..n, NEW j \in 1..n, NEW c \in 0..(n - 1),
           j # k, (k - 1 - c) % n <= (j - 1 - c) % n
    PROVE  (j - 1 - (k % n)) % n < (j - 1 - c) % n
<1> DEFINE d == k % n
<1>1. d \in 0..(n - 1) /\ d = IF k = n THEN 0 ELSE k
  <2>1. k % n = IF k = n THEN 0 ELSE k
    BY CursorPast
  <2> QED
    BY <2>1
<1>2. (j - 1 - d) % n = IF j - 1 >= d THEN j - 1 - d ELSE j - 1 - d + n
  BY <1>1, PlacesAhead
<1>3. /\ (j - 1 - c) % n = IF j - 1 >= c THEN j - 1 - c ELSE j - 1 - c + n
      /\ (k - 1 - c) % n = IF k - 1 >= c THEN k - 1 - c ELSE k - 1 - c + n
  BY PlacesAhead
<1> HIDE DEF d
<1>4. (j - 1 - d) % n < (j - 1 - c) % n
  BY <1>1, <1>2, <1>3
<1> QED
  BY <1>4 DEF d

(* A grant keeps every key within one turn: of the granted and of the       *)
(* unavailable keys the count starts again, the others come nearer.         *)
LEMMA GrantWithinOneTurn ==
    ASSUME PoolTypeOK, WithinOneTurn, strategy = "round_robin",
           NEW k \in Keys, Selected(k), NEW j \in Keys,
           cursor' = k % NumKeys, passed' = CountPassed(k)
    PROVE  passed'[j] + ((j - 1 - cursor') % NumKeys) < NumKeys
<1>1. /\ NumKeys \in Nat \ {0} /\ cursor \in 0..(NumKeys - 1)
      /\ k \in 1..NumKeys /\ j \in 1..NumKeys /\ passed[j] \in 0..NumKeys
  BY PoolAssumption DEF PoolTypeOK, Keys
<1>2. passed'[j] = IF j = k \/ j \notin Available THEN 0
                   ELSE IF passed[j] < NumKeys THEN passed[j] + 1 ELSE passed[j]
  BY DEF CountPassed
<1>3. (j - 1 - cursor') % NumKeys \in 0..(NumKeys - 1)
  <2>1. cursor' \in 0..(NumKeys - 1)
    BY <1>1
  <2> QED
    BY <1>1, <2>1
<1>4. CASE j = k \/ j \notin Available
  BY <1>1, <1>2, <1>3, <1>4
<1>5. CASE j # k /\ j \in Available
  <2>1. StepsFromCursor(k) <= StepsFromCursor(j)
    BY <1>5 DEF Selected, SelectRoundRobin
  <2>2. (j - 1 - cursor') % NumKeys < (j - 1 - cursor) % NumKeys
    BY <1>1, <1>5, <2>1, PassedComesNearer DEF StepsFromCursor
  <2>3. passed[j] + ((j - 1 - cursor) % NumKeys) < NumKeys
    BY DEF WithinOneTurn, StepsFromCursor
  <2>4. (j - 1 - cursor) % NumKeys \in 0..(NumKeys - 1)
    BY <1>1
  <2>5. passed'[j] <= passed[j] + 1
    BY <1>1, <1>2, <1>5
  <2> QED
    BY <1>1, <1>2, <1>3, <2>2, <2>3, <2>4, <2>5
<1> QED
  BY <1>4, <1>5

LEMMA TurnStep == PoolTypeOK /\ WithinOneTurn /\ [PoolNext]_poolVars => WithinOneTurn'
<1> SUFFICES ASSUME PoolTypeOK, WithinOneTurn, [PoolNext]_poolVars,
                    strategy' = "round_robin", NEW j \in Keys
             PROVE  passed'[j] + ((j - 1 - cursor') % NumKeys) < NumKeys
  BY DEF WithinOneTurn, StepsFromCursor
<1>1. ASSUME NEW c \in Attempts, GetAPIKey(c)
      PROVE  passed'[j] + ((j - 1 - cursor') % NumKeys) < NumKeys
  <2>1. strategy = "round_robin"
    BY <1>1 DEF GetAPIKey
  <2>2. PICK k \in Keys : Selected(k) /\ cursor' = k % NumKeys /\ passed' = CountPassed(k)
    BY <1>1, <2>1 DEF GetAPIKey
  <2> QED
    BY <2>1, <2>2, GrantWithinOneTurn
<1>2. CASE UNCHANGED <<strategy, cursor, passed>>
  BY <1>2 DEF WithinOneTurn, StepsFromCursor
<1>3. ASSUME NEW c \in Attempts,
             \/ Dialed(c) \/ DialFailed(c) \/ ReportDialFailure(c)
             \/ WriteFailed(c) \/ CleanupConnection(c)
      PROVE  UNCHANGED <<strategy, cursor, passed>>
  BY <1>3 DEF Dialed, DialFailed, ReportDialFailure, WriteFailed, CleanupConnection,
              manager
<1>4. CASE PerformHealthCheck \/ UNCHANGED poolVars
  BY <1>2, <1>4 DEF PerformHealthCheck, poolVars
<1> QED
  BY <1>1, <1>2, <1>3, <1>4 DEF PoolNext

(* Under round-robin a key that stays available is granted before every     *)
(* other key has been granted once more, for any number of keys.            *)
THEOREM RoundRobinIsFair == PoolSpec => []RoundRobinStarvesNone
<1>1. PoolInit => WithinOneTurn
  <2> SUFFICES ASSUME PoolInit, NEW k \in Keys
               PROVE  0 + ((k - 1 - 0) % NumKeys) < NumKeys
    BY DEF PoolInit, WithinOneTurn, StepsFromCursor
  <2> QED
    BY PoolAssumption DEF Keys
<1>2. PoolTypeOK /\ WithinOneTurn => RoundRobinStarvesNone
  <2> SUFFICES ASSUME PoolTypeOK, WithinOneTurn, strategy = "round_robin", NEW k \in Keys
               PROVE  passed[k] < NumKeys
    BY DEF RoundRobinStarvesNone
  <2>1. (k - 1 - cursor) % NumKeys \in 0..(NumKeys - 1) /\ passed[k] \in 0..NumKeys
    BY PoolAssumption, SMTT(30) DEF PoolTypeOK, Keys
  <2>2. passed[k] + ((k - 1 - cursor) % NumKeys) < NumKeys
    BY DEF WithinOneTurn, StepsFromCursor
  <2> QED
    BY <2>1, <2>2, PoolAssumption
<1> QED
  BY <1>1, <1>2, TurnStep, TypeCorrect, PTL DEF PoolSpec

-----------------------------------------------------------------------------
(* The audio of a session                                                   *)

(* Types, and what is known of the places in each state of the goroutines.  *)
SomePacket == 0..MaxPackets
SomeConn == 0..MaxConns
ConnType ==
    [st : {"none", "open", "stopping", "closed"}, peer : {"up", "broken", "bye"},
     queue : Seq(Packets), hand : SomePacket, sender : {"run", "done"},
     recv : {"off", "reading", "reconnecting", "detach", "clear", "ended", "missed"}]
LinkType == [ready : BOOLEAN, connecting : BOOLEAN, transcribing : BOOLEAN,
             remote : SomeConn, failing : BOOLEAN]
ReaderType == [pc : {"idle", "pick", "buffer", "put", "sent", "failed"}, p : SomePacket, c : SomeConn]
FlushType == [pc : {"idle", "drain", "check", "put", "wait", "end"}, c : SomeConn, batch : Seq(Packets)]
ReconType ==
    [pc : {"idle", "begin", "close", "dial", "config", "drop", "store", "ready", "receive",
           "done", "failed"},
     by : {"audio", "receiver"}, of : SomeConn, own : SomeConn, new : SomeConn, tries : Nat]

Typed ==
    /\ sent \in SomePacket /\ link \in LinkType /\ buffer \in Seq(Packets)
    /\ reader \in ReaderType /\ flush \in FlushType /\ recon \in ReconType
    /\ conn \in [Conns -> ConnType] /\ listed \in SomeConn
    /\ over \in BOOLEAN /\ faults \in Nat
    /\ heard \in [Packets -> Nat] /\ spilt \subseteq Packets

Used(c) == c \in Conns => conn[c].st # "none"
ReaderRight ==
    /\ reader.pc \in {"pick", "buffer", "put"} <=> reader.p # 0
    /\ reader.pc \in {"put", "sent", "failed"} => reader.c # 0
    /\ Used(reader.c)
FlushRight ==
    /\ flush.pc \in {"drain", "check", "put", "wait"} => flush.c # 0
    /\ flush.pc \notin {"check", "put"} => flush.batch = << >>
    /\ flush.pc = "put" => flush.batch # << >>
    /\ Used(flush.c)
ReconRight ==
    /\ recon.pc # "idle" => recon.of # 0
    /\ recon.pc \in {"config", "drop", "store", "ready", "receive", "done"} => recon.new # 0
    /\ Used(recon.of) /\ Used(recon.new)
ConnRight ==
    /\ \A c \in Conns : conn[c].st = "none" => conn[c] = Unused
    /\ Used(link.remote) /\ Used(listed)
Right == Typed /\ ReaderRight /\ FlushRight /\ ReconRight /\ ConnRight

LEMMA Sizes ==
    /\ MaxPackets \in Nat /\ QueueSize \in Nat /\ BufferSize \in Nat /\ Tries \in Nat
    /\ MaxConns \in Nat /\ MaxConns # 0 /\ MaxFaults \in Nat
    /\ SomePacket = Packets \cup {0} /\ SomeConn = Conns \cup {0} /\ 0 \notin Packets /\ 0 \notin Conns
    /\ 1 \in Conns
BY AudioAssumption DEF SomePacket, SomeConn, Packets, Conns

LEMMA UnusedType ==
    /\ Unused \in ConnType /\ Unused.st = "none" /\ Unused.queue = << >> /\ Unused.hand = 0
    /\ Opened \in ConnType /\ Opened.st = "open" /\ Opened.queue = << >> /\ Opened.hand = 0
    /\ Opened.recv = "off" /\ Opened.peer = "up"
<1>1. 0 \in SomePacket /\ << >> \in Seq(Packets)
  BY Sizes
<1>2. Unused \in ConnType
  BY <1>1 DEF Unused, ConnType
<1>3. Opened \in ConnType
  BY <1>2 DEF Opened, ConnType
<1> QED
  BY <1>2, <1>3 DEF Unused, Opened

(* A step that changes one connection leaves all that are used in use. *)
LEMMA OneConn ==
    ASSUME Typed, NEW c \in Conns, NEW k \in ConnType, conn' = [conn EXCEPT ![c] = k]
    PROVE  /\ conn' \in [Conns -> ConnType] /\ conn'[c] = k
           /\ \A d \in Conns : d # c => conn'[d] = conn[d]
BY DEF Typed

(* What a step keeps of what it does not touch. *)
Keeps == \A c \in Conns : conn[c].st # "none" => conn'[c].st # "none"

LEMMA InitRight == Init => Right
<1> SUFFICES ASSUME Init PROVE Right
  OBVIOUS
<1>1. conn \in [Conns -> ConnType] /\ \A c \in Conns : conn[c] = IF c = 1 THEN [Opened EXCEPT !.recv = "reading"] ELSE Unused
  <2>1. [Opened EXCEPT !.recv = "reading"] \in ConnType
    BY UnusedType DEF ConnType
  <2> QED
    BY <2>1, UnusedType DEF Init
<1>2. conn[1].st = "open"
  BY <1>1, Sizes DEF Opened, Unused
<1>3. /\ link \in LinkType /\ link.remote = 1 /\ reader \in ReaderType /\ reader.pc = "idle" /\ reader.p = 0 /\ reader.c = 0
      /\ flush \in FlushType /\ flush.pc = "idle" /\ flush.c = 0 /\ flush.batch = << >>
      /\ recon \in ReconType /\ recon.pc = "idle" /\ recon.of = 0 /\ recon.new = 0
  <2>1. link \in LinkType /\ link.remote = 1
    BY Sizes DEF Init, LinkType
  <2>2. reader \in ReaderType /\ reader.pc = "idle" /\ reader.p = 0 /\ reader.c = 0
    BY Sizes DEF Init, ReaderType, NoReader
  <2>3. flush \in FlushType /\ flush.pc = "idle" /\ flush.c = 0 /\ flush.batch = << >>
    <3>1. << >> \in Seq(Packets)
      OBVIOUS
    <3> QED
      BY <3>1, Sizes DEF Init, FlushType
  <2>4. recon \in ReconType /\ recon.pc = "idle" /\ recon.of = 0 /\ recon.new = 0
    BY Sizes DEF Init, ReconType, NoRecon
  <2> QED
    BY <2>1, <2>2, <2>3, <2>4
<1>4. /\ sent \in SomePacket /\ buffer \in Seq(Packets) /\ listed = 1 /\ over \in BOOLEAN
      /\ faults \in Nat /\ heard \in [Packets -> Nat] /\ spilt = {}
  <2>1. << >> \in Seq(Packets)
    OBVIOUS
  <2> QED
    BY <2>1, Sizes DEF Init
<1>5. Typed
  BY <1>1, <1>3, <1>4, Sizes DEF Typed
<1>6. \A c \in Conns : conn[c].st = "none" => conn[c] = Unused
  BY <1>1, <1>2
<1>7. Used(1) /\ Used(0)
  BY <1>2, Sizes DEF Used
<1> QED
  BY <1>3, <1>4, <1>5, <1>6, <1>7 DEF Right, ReaderRight, FlushRight, ReconRight, ConnRight

(* The shapes of the steps: of the reader and its buffer, of a connection,  *)
(* of the reconnect. *)
LEMMA KeptRight ==
    ASSUME Right, Typed', Keeps, NEW S \in SUBSET {"reader", "flush", "recon"},
           "reader" \in S \/ UNCHANGED reader,
           "flush" \in S \/ UNCHANGED flush,
           "recon" \in S \/ UNCHANGED recon,
           "reader" \in S => ReaderRight',
           "flush" \in S => FlushRight',
           "recon" \in S => ReconRight',
           Used(link.remote)', Used(listed)',
           \A c \in Conns : conn'[c].st = "none" => conn'[c] = Unused
    PROVE  Right'
<1>1. \A c \in SomeConn : Used(c) => (c \in Conns => conn'[c].st # "none")
  BY DEF Used, Keeps
<1>2. /\ reader.c \in SomeConn /\ flush.c \in SomeConn /\ recon.of \in SomeConn /\ recon.new \in SomeConn
  BY DEF Right, Typed, ReaderType, FlushType, ReconType
<1>3. ReaderRight'
  BY <1>1, <1>2 DEF Right, ReaderRight, Used
<1>4. FlushRight'
  BY <1>1, <1>2 DEF Right, FlushRight, Used
<1>5. ReconRight'
  BY <1>1, <1>2 DEF Right, ReconRight, Used
<1> QED
  BY <1>3, <1>4, <1>5 DEF Right, ConnRight

Tame == /\ conn' \in [Conns -> ConnType] /\ Keeps
        /\ \A c \in Conns : conn'[c].st = "none" => conn'[c] = Unused

LEMMA TameStep ==
    ASSUME Right, NEW c \in Conns, NEW k \in ConnType, k.st # "none", conn' = [conn EXCEPT ![c] = k]
    PROVE  Tame
BY OneConn DEF Tame, Keeps, Right, ConnRight

LEMMA TameSame == ASSUME Right, UNCHANGED conn PROVE Tame
BY DEF Tame, Keeps, Right, ConnRight, Typed

LEMMA UsedStays == ASSUME Tame, NEW c, Used(c) PROVE c \in Conns => conn'[c].st # "none"
BY DEF Tame, Keeps, Used

LEMMA StoppingType ==
    ASSUME NEW k \in ConnType
    PROVE  /\ Stopping(k) \in ConnType
           /\ Stopping(k).st = IF k.st = "open" THEN "stopping" ELSE k.st
           /\ Stopping(k).queue = k.queue /\ Stopping(k).hand = k.hand
           /\ Stopping(k).sender = k.sender /\ Stopping(k).recv = k.recv /\ Stopping(k).peer = k.peer
BY DEF Stopping, ConnType

(* Steps of the reader. *)
LEMMA ReaderTypes ==
    ASSUME Right
    PROVE  /\ reader.p \in SomePacket /\ reader.c \in SomeConn
           /\ reader.pc \in {"pick", "buffer", "put"} => reader.p \in Packets
           /\ reader.pc \in {"put", "sent", "failed"} => reader.c \in Conns /\ conn[reader.c].st # "none"
           /\ reader = [pc |-> reader.pc, p |-> reader.p, c |-> reader.c]
BY Sizes DEF Right, Typed, ReaderType, ReaderRight, Used

LEMMA ReaderStep ==
    ASSUME Right, Tame, UNCHANGED <<flush, recon>>,
           reader' \in ReaderType,
           reader'.pc \in {"pick", "buffer", "put"} <=> reader'.p # 0,
           reader'.pc \in {"put", "sent", "failed"} => reader'.c # 0,
           reader'.c \in Conns => conn'[reader'.c].st # "none",
           UNCHANGED listed, link' \in LinkType, link'.remote = link.remote,
           sent' \in SomePacket, buffer' \in Seq(Packets), over' \in BOOLEAN,
           UNCHANGED <<faults, heard>>, spilt' \subseteq Packets
    PROVE  Right'
<1>1. Typed'
  BY DEF Right, Typed, Tame
<1>2. ReaderRight'
  BY DEF ReaderRight, Used
<1>3. Used(link.remote)' /\ Used(listed)'
  BY UsedStays DEF Right, ConnRight, Used
<1>4. {"reader"} \in SUBSET {"reader", "flush", "recon"}
  OBVIOUS
<1> QED
  BY <1>1, <1>2, <1>3, <1>4, KeptRight DEF Tame

LEMMA EnqueueTypes ==
    ASSUME Right, NEW c \in Conns, conn[c].st # "none", NEW p \in Packets, Enqueue(c, p)
    PROVE  Tame
<1>1. conn[c] \in ConnType /\ Append(conn[c].queue, p) \in Seq(Packets)
  BY DEF Right, Typed, ConnType
<1>2. PICK k : k = [conn[c] EXCEPT !.queue = Append(@, p)]
  OBVIOUS
<1>3. k \in ConnType /\ k.st = conn[c].st
  BY <1>1, <1>2 DEF ConnType
<1>4. conn' = [conn EXCEPT ![c] = k]
  BY <1>2 DEF Enqueue
<1> QED
  BY <1>3, <1>4, TameStep

LEMMA ArriveRight == ASSUME Right, Arrive PROVE Right'
<1>1. /\ UNCHANGED <<link, buffer, flush, recon, conn, listed, over, faults, heard>>
      /\ sent' = sent + 1 /\ sent' \in Packets /\ sent' \in SomePacket /\ sent' # 0
  <2>1. sent \in Nat /\ sent < MaxPackets
    BY Sizes DEF Arrive, Right, Typed, SomePacket
  <2> QED
    BY <2>1, Sizes DEF Arrive, Packets
<1>2. spilt' \subseteq Packets
  BY <1>1 DEF Arrive, Spill, Right, Typed
<1>3. \/ UNCHANGED reader
      \/ /\ reader' \in ReaderType /\ reader'.pc \in {"buffer", "pick"}
         /\ reader'.p # 0 /\ reader'.c = 0
  BY <1>1, Sizes DEF Arrive, ReaderType
<1>4. /\ reader' \in ReaderType
      /\ reader'.pc \in {"pick", "buffer", "put"} <=> reader'.p # 0
      /\ reader'.pc \in {"put", "sent", "failed"} => reader'.c # 0
      /\ reader'.c \in Conns => conn[reader'.c].st # "none"
  BY <1>3, Sizes DEF Right, ReaderRight, Used, Typed
<1>5. link \in LinkType /\ buffer \in Seq(Packets) /\ over \in BOOLEAN
  BY DEF Right, Typed
<1> QED
  BY <1>1, <1>2, <1>4, <1>5, TameSame, ReaderStep

LEMMA PickRight == ASSUME Right, Pick PROVE Right'
<1>1. UNCHANGED <<sent, link, buffer, flush, recon, conn, listed, over, faults, heard>> /\ reader.pc = "pick"
  BY DEF Pick
<1>2. reader.p \in Packets /\ reader.c \in SomeConn /\ reader \in ReaderType /\ Used(reader.c) /\ Used(link.remote)
      /\ link.remote \in SomeConn
  BY <1>1, ReaderTypes DEF Right, Typed, ReaderRight, ConnRight, LinkType
<1>3. spilt' \subseteq Packets
  BY <1>2 DEF Pick, Spill, Right, Typed
<1>4. /\ reader' \in ReaderType
      /\ reader'.pc \in {"pick", "buffer", "put"} <=> reader'.p # 0
      /\ reader'.pc \in {"put", "sent", "failed"} => reader'.c # 0
      /\ reader'.c \in Conns => conn[reader'.c].st # "none"
  <2>1. CASE reader' = [reader EXCEPT !.pc = "buffer"]
    BY <1>2, <2>1, Sizes DEF ReaderType, Used
  <2>2. CASE ~HasClosed(link.remote) /\ reader' = [reader EXCEPT !.pc = "put", !.c = link.remote]
    BY <1>2, <2>2, Sizes DEF ReaderType, HasClosed
  <2>3. CASE ~HasClosed(link.remote) /\ reader' = [pc |-> "failed", p |-> 0, c |-> link.remote]
    BY <1>2, <2>3, Sizes DEF ReaderType, HasClosed
  <2> QED
    BY <2>1, <2>2, <2>3 DEF Pick
<1>5. sent \in SomePacket /\ link \in LinkType /\ buffer \in Seq(Packets) /\ over \in BOOLEAN
  BY DEF Right, Typed
<1> QED
  BY <1>1, <1>3, <1>4, <1>5, TameSame, ReaderStep

LEMMA BufferRight == ASSUME Right, Buffer PROVE Right'
<1>1. UNCHANGED <<sent, link, flush, recon, conn, listed, faults, heard, spilt>> /\ reader.pc = "buffer"
  BY DEF Buffer
<1>2. reader.p \in Packets /\ reader.c \in SomeConn /\ reader \in ReaderType /\ Used(reader.c)
  BY <1>1, ReaderTypes DEF Right, Typed, ReaderRight
<1>3. /\ reader' \in ReaderType
      /\ reader'.pc \in {"pick", "buffer", "put"} <=> reader'.p # 0
      /\ reader'.pc \in {"put", "sent", "failed"} => reader'.c # 0
      /\ reader'.c \in Conns => conn[reader'.c].st # "none"
  <2>1. CASE UNCHANGED reader
    BY <1>1, <1>2, <2>1, Sizes DEF Used
  <2>2. CASE reader' = NoReader
    BY <2>2, Sizes DEF NoReader, ReaderType
  <2>3. CASE reader.c # 0 /\ reader' = [reader EXCEPT !.pc = "failed", !.p = 0]
    BY <1>2, <2>3, Sizes DEF ReaderType, Used
  <2> QED
    BY <2>1, <2>2, <2>3 DEF Buffer
<1>4. sent \in SomePacket /\ link \in LinkType /\ buffer \in Seq(Packets) /\ over \in BOOLEAN /\ spilt \subseteq Packets
  BY DEF Right, Typed
<1>5. buffer' \in Seq(Packets) /\ over' \in BOOLEAN
  <2>1. CASE NoRoom(Len(buffer))
    BY <1>4, <2>1 DEF Buffer
  <2>2. CASE ~NoRoom(Len(buffer))
    BY <1>2, <1>4, <2>2 DEF Buffer
  <2> QED
    BY <2>1, <2>2
<1> QED
  BY <1>1, <1>3, <1>4, <1>5, TameSame, ReaderStep

LEMMA PutRight == ASSUME Right, Put PROVE Right'
<1>1. UNCHANGED <<sent, link, buffer, flush, recon, listed, over, faults, heard, spilt>> /\ reader.pc = "put"
  BY DEF Put
<1>2. reader.p \in Packets /\ reader.c \in Conns /\ conn[reader.c].st # "none" /\ reader \in ReaderType
  BY <1>1, ReaderTypes DEF Right, Typed
<1>3. Tame
  <2>1. CASE UNCHANGED conn
    BY <2>1, TameSame
  <2>2. CASE Enqueue(reader.c, reader.p)
    BY <1>2, <2>2, EnqueueTypes
  <2> QED
    BY <2>1, <2>2 DEF Put
<1>4. /\ reader' \in ReaderType /\ reader'.c = reader.c
      /\ reader'.pc \in {"pick", "buffer", "put"} <=> reader'.p # 0
  BY <1>2, Sizes DEF Put, ReaderType
<1>5. reader'.c # 0 /\ conn'[reader'.c].st # "none"
  BY <1>2, <1>3, <1>4, Sizes DEF Tame, Keeps
<1>6. sent \in SomePacket /\ link \in LinkType /\ buffer \in Seq(Packets) /\ over \in BOOLEAN
      /\ spilt \subseteq Packets
  BY DEF Right, Typed
<1> QED
  BY <1>1, <1>3, <1>4, <1>5, <1>6, ReaderStep

LEMMA ExpireRight == ASSUME Right, Expire PROVE Right'
<1>1. UNCHANGED <<sent, link, reader, flush, recon, conn, listed, over, heard>> /\ buffer # << >>
  BY DEF Expire
<1>2. /\ sent \in SomePacket /\ buffer' \in Seq(Packets) /\ spilt' \subseteq Packets /\ faults' \in Nat
  BY <1>1 DEF Expire, Spill, Fault, Right, Typed
<1>3. Typed'
  BY <1>1, <1>2 DEF Right, Typed
<1> QED
  BY <1>1, <1>3 DEF Right, ReaderRight, FlushRight, ReconRight, ConnRight, Used

ReaderOk == reader \in ReaderType /\ ReaderRight
FlushOk == flush \in FlushType /\ FlushRight
ReconOk == recon \in ReconType /\ ReconRight
LinkOk == link \in LinkType /\ listed \in SomeConn /\ Used(link.remote) /\ Used(listed)
DataOk == /\ sent \in SomePacket /\ buffer \in Seq(Packets) /\ over \in BOOLEAN /\ faults \in Nat
          /\ heard \in [Packets -> Nat] /\ spilt \subseteq Packets

LEMMA Rests ==
    ASSUME Right, Tame
    PROVE  /\ UNCHANGED reader => ReaderOk'
           /\ UNCHANGED flush => FlushOk'
           /\ UNCHANGED recon => ReconOk'
           /\ UNCHANGED <<listed>> /\ link' \in LinkType /\ link'.remote = link.remote => LinkOk'
           /\ UNCHANGED <<link, listed>> => LinkOk'
           /\ UNCHANGED <<sent, buffer, over, faults, heard, spilt>> => DataOk'
<1>1. ASSUME UNCHANGED reader PROVE ReaderOk'
  BY <1>1, UsedStays DEF ReaderOk, ReaderRight, Used, Right, Typed
<1>2. ASSUME UNCHANGED flush PROVE FlushOk'
  BY <1>2, UsedStays DEF FlushOk, FlushRight, Used, Right, Typed
<1>3. ASSUME UNCHANGED recon PROVE ReconOk'
  <2>1. Used(recon.of) /\ Used(recon.new) /\ recon \in ReconType
    BY DEF Right, ReconRight, Typed
  <2>2. Used(recon.of)' /\ Used(recon.new)'
    BY <1>3, <2>1, UsedStays DEF Used
  <2> QED
    BY <1>3, <2>1, <2>2 DEF ReconOk, ReconRight, Right
<1>4. ASSUME UNCHANGED listed, link' \in LinkType, link'.remote = link.remote PROVE LinkOk'
  BY <1>4, UsedStays DEF LinkOk, Used, Right, Typed, ConnRight
<1>5. UNCHANGED <<link, listed>> => LinkOk'
  BY <1>4 DEF Right, Typed
<1>6. UNCHANGED <<sent, buffer, over, faults, heard, spilt>> => DataOk'
  BY DEF DataOk, Right, Typed
<1> QED
  BY <1>1, <1>2, <1>3, <1>4, <1>5, <1>6

LEMMA Together ==
    ASSUME Right, Tame, ReaderOk', FlushOk', ReconOk', LinkOk', DataOk'
    PROVE  Right'
BY DEF Right, Tame, ReaderOk, FlushOk, ReconOk, LinkOk, DataOk, Typed, ConnRight

LEMMA FlushTypes ==
    ASSUME Right
    PROVE  /\ flush.batch \in Seq(Packets) /\ flush.c \in SomeConn
           /\ flush.pc \in {"drain", "check", "put", "wait"} => flush.c \in Conns /\ conn[flush.c].st # "none"
           /\ flush = [pc |-> flush.pc, c |-> flush.c, batch |-> flush.batch]
BY Sizes DEF Right, Typed, FlushType, FlushRight, Used

LEMMA FlushIs ==
    ASSUME Right, Tame, NEW p \in {"idle", "drain", "check", "put", "wait", "end"},
           NEW c \in SomeConn, Used(c), NEW b \in Seq(Packets),
           flush' = [pc |-> p, c |-> c, batch |-> b],
           p \in {"drain", "check", "put", "wait"} => c # 0,
           p \notin {"check", "put"} => b = << >>,
           p = "put" => b # << >>
    PROVE  FlushOk'
<1>1. Used(c)'
  BY UsedStays DEF Used
<1>2. flush' \in FlushType /\ flush'.pc = p /\ flush'.c = c /\ flush'.batch = b
  BY DEF FlushType
<1> QED
  BY <1>1, <1>2 DEF FlushOk, FlushRight, Used

LEMMA ScheduleOk ==
    ASSUME Right, Tame, NEW c \in Conns, conn[c].st # "none", Schedule(c)
    PROVE  FlushOk'
<1>1. CASE UNCHANGED flush
  BY <1>1, Rests
<1>2. CASE buffer # << >> /\ flush.pc = "idle" /\ flush' = [flush EXCEPT !.pc = "drain", !.c = c]
  <2>1. flush.batch = << >> /\ flush' = [pc |-> "drain", c |-> c, batch |-> << >>]
    BY <1>2, FlushTypes DEF Right, FlushRight
  <2>2. c \in SomeConn /\ c # 0 /\ Used(c) /\ << >> \in Seq(Packets)
    BY Sizes DEF Used
  <2> QED
    BY <2>1, <2>2, FlushIs
<1> QED
  BY <1>1, <1>2 DEF Schedule

LEMMA NoReaderOk == ASSUME reader' = NoReader PROVE ReaderOk'
BY Sizes DEF ReaderOk, ReaderRight, ReaderType, NoReader, Used

LEMMA SentRight == ASSUME Right, Sent PROVE Right'
<1>1. /\ UNCHANGED <<sent, buffer, recon, conn, listed, over, faults, heard, spilt>>
      /\ reader.pc = "sent" /\ reader' = NoReader /\ link' = [link EXCEPT !.failing = FALSE] /\ Schedule(reader.c)
  BY DEF Sent
<1>2. Tame /\ reader.c \in Conns /\ conn[reader.c].st # "none"
  BY <1>1, TameSame, ReaderTypes
<1>3. link' \in LinkType /\ link'.remote = link.remote
  BY <1>1 DEF Right, Typed, LinkType
<1> QED
  BY <1>1, <1>2, <1>3, ScheduleOk, NoReaderOk, Rests, Together

LEMMA BeginOk ==
    ASSUME Right, Tame, NEW c \in Conns, conn[c].st # "none", NEW by \in {"audio", "receiver"}, Begin(by, c)
    PROVE  ReconOk'
<1>1. recon' \in ReconType /\ recon'.of = c /\ recon'.new = 0 /\ recon'.pc = "begin"
  BY Sizes DEF Begin, NoRecon, ReconType
<1>2. Used(c)' /\ Used(0)'
  BY UsedStays, Sizes DEF Used
<1> QED
  BY <1>1, <1>2, Sizes DEF ReconOk, ReconRight, Used

LEMMA FailedRight == ASSUME Right, Failed PROVE Right'
<1>1. /\ UNCHANGED <<sent, buffer, flush, conn, listed, over, faults, heard, spilt>>
      /\ reader.pc = "failed" /\ reader' = NoReader /\ link' = [link EXCEPT !.failing = TRUE]
      /\ UNCHANGED recon \/ Begin("audio", reader.c)
  BY DEF Failed
<1>2. Tame /\ reader.c \in Conns /\ conn[reader.c].st # "none"
  BY <1>1, TameSame, ReaderTypes
<1>3. link' \in LinkType /\ link'.remote = link.remote
  BY <1>1 DEF Right, Typed, LinkType
<1>4. ReconOk'
  BY <1>1, <1>2, BeginOk, Rests
<1> QED
  BY <1>1, <1>2, <1>3, <1>4, NoReaderOk, Rests, Together

LEMMA DrainRight == ASSUME Right, Drain PROVE Right'
<1>1. /\ UNCHANGED <<sent, link, reader, recon, conn, listed, over, faults, heard, spilt>>
      /\ flush.pc = "drain" /\ buffer' = << >>
      /\ flush' = [flush EXCEPT !.pc = IF buffer = << >> THEN "end" ELSE "check", !.batch = buffer]
  BY DEF Drain, Left
<1>2. Tame /\ flush.c \in Conns /\ conn[flush.c].st # "none" /\ flush.c \in SomeConn /\ flush.c # 0 /\ Used(flush.c)
  BY <1>1, TameSame, FlushTypes, Sizes DEF Used
<1>3. buffer \in Seq(Packets)
  BY DEF Right, Typed
<1>4. PICK p : p = IF buffer = << >> THEN "end" ELSE "check"
  OBVIOUS
<1>5. flush' = [pc |-> p, c |-> flush.c, batch |-> buffer]
  BY <1>1, <1>4, FlushTypes
<1>6. FlushOk'
  BY <1>2, <1>3, <1>4, <1>5, FlushIs
<1>7. << >> \in Seq(Packets)
  OBVIOUS
<1>8. DataOk'
  BY <1>1, <1>7 DEF DataOk, Right, Typed
<1> QED
  BY <1>1, <1>2, <1>6, <1>8, Rests, Together

LEMMA RequeueOk ==
    ASSUME Right, Tame, NEW p \in {"wait", "end"}, NEW c \in Conns, conn[c].st # "none", Requeue(p, c)
    PROVE  FlushOk' /\ buffer' \in Seq(Packets) /\ over' \in BOOLEAN
<1>1. flush.batch \in Seq(Packets) /\ buffer \in Seq(Packets) /\ over \in BOOLEAN
  BY FlushTypes DEF Right, Typed
<1>2. CASE over' = TRUE /\ UNCHANGED <<flush, buffer>>
  BY <1>1, <1>2, Rests
<1>3. CASE buffer' = flush.batch \o buffer /\ UNCHANGED over /\ flush' = [pc |-> p, c |-> c, batch |-> << >>]
  <2>1. c \in SomeConn /\ c # 0 /\ Used(c) /\ << >> \in Seq(Packets)
    BY Sizes DEF Used
  <2>2. FlushOk'
    BY <1>3, <2>1, FlushIs
  <2> QED
    BY <1>1, <1>3, <2>2
<1> QED
  BY <1>2, <1>3 DEF Requeue, Requeued

LEMMA CheckRight == ASSUME Right, Check PROVE Right'
<1>1. UNCHANGED <<sent, link, reader, recon, conn, listed, faults, heard, spilt>> /\ flush.pc = "check"
  BY DEF Check
<1>2. /\ Tame /\ flush.c \in Conns /\ conn[flush.c].st # "none" /\ flush.c \in SomeConn
      /\ flush.c # 0 /\ Used(flush.c) /\ flush.batch \in Seq(Packets)
      /\ link.remote # 0 => link.remote \in Conns /\ conn[link.remote].st # "none"
  <2>1. link.remote \in SomeConn /\ Used(link.remote)
    BY DEF Right, Typed, LinkType, ConnRight
  <2> QED
    BY <1>1, <2>1, TameSame, FlushTypes, Sizes DEF Used
<1>3. buffer \in Seq(Packets) /\ over \in BOOLEAN
  BY DEF Right, Typed
<1>4. FlushOk' /\ buffer' \in Seq(Packets) /\ over' \in BOOLEAN
  <2>1. CASE /\ flush.batch = << >> /\ UNCHANGED <<buffer, over>>
             /\ flush' = [flush EXCEPT !.pc = IF buffer = << >> THEN "end" ELSE "drain"]
    <3>1. PICK p : p = IF buffer = << >> THEN "end" ELSE "drain"
      OBVIOUS
    <3>2. flush' = [pc |-> p, c |-> flush.c, batch |-> flush.batch]
      BY <2>1, <3>1, FlushTypes
    <3> QED
      BY <1>2, <1>3, <2>1, <3>1, <3>2, FlushIs
  <2>2. CASE link.remote # 0 /\ Requeue("wait", link.remote)
    BY <1>2, <2>2, RequeueOk
  <2>3. CASE Requeue("end", flush.c)
    BY <1>2, <2>3, RequeueOk
  <2>4. CASE flush.batch # << >> /\ flush' = [flush EXCEPT !.pc = "put"] /\ UNCHANGED <<buffer, over>>
    <3>1. flush' = [pc |-> "put", c |-> flush.c, batch |-> flush.batch]
      BY <2>4, FlushTypes
    <3> QED
      BY <1>2, <1>3, <2>4, <3>1, FlushIs
  <2> QED
    BY <2>1, <2>2, <2>3, <2>4 DEF Check
<1>5. DataOk'
  BY <1>1, <1>4 DEF DataOk, Right, Typed
<1> QED
  BY <1>1, <1>2, <1>4, <1>5, Rests, Together

LEMMA ReplayRight == ASSUME Right, Replay PROVE Right'
<1>1. UNCHANGED <<sent, link, reader, recon, listed, faults, heard, spilt>> /\ flush.pc = "put"
  BY DEF Replay
<1>2. /\ flush.c \in Conns /\ conn[flush.c].st # "none" /\ flush.c \in SomeConn
      /\ flush.c # 0 /\ Used(flush.c) /\ flush.batch \in Seq(Packets) /\ flush.batch # << >>
  BY <1>1, FlushTypes, Sizes DEF Used, Right, FlushRight
<1>3. buffer \in Seq(Packets) /\ over \in BOOLEAN /\ spilt \subseteq Packets
  BY DEF Right, Typed
<1>4. Head(flush.batch) \in Packets /\ Tail(flush.batch) \in Seq(Packets)
  BY <1>2
<1>5. Tame /\ FlushOk' /\ buffer' \in Seq(Packets) /\ over' \in BOOLEAN
  <2>1. CASE Requeue("wait", flush.c) /\ UNCHANGED conn
    <3>1. Tame
      BY <2>1, TameSame
    <3> QED
      BY <1>2, <1>3, <2>1, <3>1, RequeueOk
  <2>2. CASE /\ Enqueue(flush.c, Head(flush.batch)) /\ UNCHANGED <<buffer, over>>
             /\ flush' = [flush EXCEPT !.pc = "check", !.batch = Tail(@)]
    <3>1. Tame
      BY <1>2, <1>4, <2>2, EnqueueTypes
    <3>2. flush' = [pc |-> "check", c |-> flush.c, batch |-> Tail(flush.batch)]
      BY <2>2, FlushTypes
    <3> QED
      BY <1>2, <1>3, <1>4, <2>2, <3>1, <3>2, FlushIs
  <2> QED
    BY <2>1, <2>2 DEF Replay
<1>6. DataOk'
  BY <1>1, <1>5 DEF DataOk, Right, Typed
<1> QED
  BY <1>1, <1>5, <1>6, Rests, Together

LEMMA PauseRight == ASSUME Right, Pause PROVE Right'
<1>1. /\ UNCHANGED <<sent, link, buffer, reader, recon, conn, listed, over, faults, heard, spilt>>
      /\ flush.pc \in {"wait", "end"}
      /\ flush' = [flush EXCEPT !.pc = IF @ = "wait" THEN "drain" ELSE "idle"]
  BY DEF Pause
<1>2. PICK p : p = IF flush.pc = "wait" THEN "drain" ELSE "idle"
  OBVIOUS
<1>3. flush' = [pc |-> p, c |-> flush.c, batch |-> flush.batch]
  BY <1>1, <1>2, FlushTypes
<1>4. /\ flush.batch \in Seq(Packets) /\ flush.batch = << >> /\ flush.c \in SomeConn /\ Used(flush.c)
      /\ flush.pc = "wait" => flush.c # 0
  BY <1>1, FlushTypes DEF Right, FlushRight
<1>5. Tame
  BY <1>1, TameSame
<1>6. FlushOk'
  BY <1>2, <1>3, <1>4, <1>5, FlushIs
<1>7. ReaderOk' /\ ReconOk' /\ LinkOk' /\ DataOk'
  BY <1>1, <1>5, Rests
<1> QED
  BY <1>5, <1>6, <1>7, Together

(* Steps of a connection. *)
LEMMA ConnTypes ==
    ASSUME Right, NEW c \in Conns
    PROVE  /\ conn[c] \in ConnType /\ conn[c].queue \in Seq(Packets) /\ conn[c].hand \in SomePacket
           /\ conn[c].hand # 0 => conn[c].hand \in Packets
           /\ conn[c].st = "none" => conn[c] = Unused
BY Sizes DEF Right, Typed, ConnType, ConnRight

(* A step of a connection that leaves the rest alone. *)
LEMMA ConnStep ==
    ASSUME Right, NEW c \in Conns, NEW k \in ConnType, k.st # "none", conn' = [conn EXCEPT ![c] = k],
           UNCHANGED <<sent, buffer, reader, flush, listed, over>>,
           ReconOk' \/ UNCHANGED recon, link' \in LinkType, Used(link'.remote),
           faults' \in Nat, heard' \in [Packets -> Nat], spilt' \subseteq Packets
    PROVE  Right'
<1>1. Tame
  BY TameStep
<1>2. ReaderOk' /\ FlushOk' /\ ReconOk'
  BY <1>1, Rests
<1>3. LinkOk'
  BY <1>1, UsedStays DEF LinkOk, Used, Right, Typed, ConnRight
<1>4. DataOk'
  BY DEF DataOk, Right, Typed
<1> QED
  BY <1>1, <1>2, <1>3, <1>4, Together

LEMMA LinkTypes ==
    ASSUME Right
    PROVE  /\ link \in LinkType /\ Used(link.remote) /\ link.remote \in SomeConn
           /\ faults \in Nat /\ heard \in [Packets -> Nat] /\ spilt \subseteq Packets
BY DEF Right, Typed, ConnRight, LinkType

LEMMA TakeRight == ASSUME Right, NEW c \in Conns, Take(c) PROVE Right'
<1>1. /\ UNCHANGED <<sent, link, buffer, reader, flush, recon, listed, over, faults, heard, spilt>>
      /\ conn[c].st # "none" /\ conn[c].queue # << >>
      /\ conn' = [conn EXCEPT ![c].hand = Head(conn[c].queue), ![c].queue = Tail(@)]
  BY DEF Take
<1>2. PICK k : k = [conn[c] EXCEPT !.hand = Head(conn[c].queue), !.queue = Tail(@)]
  OBVIOUS
<1>3. Head(conn[c].queue) \in SomePacket /\ Tail(conn[c].queue) \in Seq(Packets)
  <2>1. Head(conn[c].queue) \in Packets
    BY <1>1, ConnTypes
  <2> QED
    BY <1>1, <2>1, ConnTypes, Sizes
<1>4. k \in ConnType /\ k.st = conn[c].st
  BY <1>2, <1>3, ConnTypes DEF ConnType
<1>5. conn' = [conn EXCEPT ![c] = k]
  BY <1>1, <1>2 DEF Right, Typed
<1> QED
  BY <1>1, <1>4, <1>5, LinkTypes, ConnStep

LEMMA WriteRight == ASSUME Right, NEW c \in Conns, Write(c) PROVE Right'
<1>1. /\ UNCHANGED <<sent, link, buffer, reader, flush, recon, listed, over, faults>>
      /\ conn[c].hand # 0 /\ conn' = [conn EXCEPT ![c].hand = 0]
      /\ \/ heard' = [heard EXCEPT ![conn[c].hand] = @ + 1] /\ UNCHANGED spilt
         \/ spilt' = spilt \cup {conn[c].hand} /\ UNCHANGED heard
  BY DEF Write, Sender, Spill
<1>2. PICK k : k = [conn[c] EXCEPT !.hand = 0]
  OBVIOUS
<1>3. k \in ConnType /\ k.st = conn[c].st
  BY <1>2, ConnTypes, Sizes DEF ConnType
<1>4. conn' = [conn EXCEPT ![c] = k]
  BY <1>1, <1>2
<1>5. conn[c].st # "none"
  BY <1>1, ConnTypes, UnusedType
<1>6. heard' \in [Packets -> Nat] /\ spilt' \subseteq Packets
  BY <1>1, ConnTypes, LinkTypes
<1> QED
  BY <1>1, <1>3, <1>4, <1>5, <1>6, LinkTypes, ConnStep

LEMMA WriteFailsRight == ASSUME Right, NEW c \in Conns, WriteFails(c) PROVE Right'
<1>1. /\ UNCHANGED <<sent, link, buffer, reader, flush, recon, listed, over, faults, heard>>
      /\ conn[c].hand # 0 /\ conn' = [conn EXCEPT ![c] = [Stopping(conn[c]) EXCEPT !.hand = 0, !.sender = "done"]]
      /\ spilt' = spilt \cup {conn[c].hand} \cup ToSet(conn[c].queue)
  BY DEF WriteFails, Sender, Spill
<1>2. PICK k : k = [Stopping(conn[c]) EXCEPT !.hand = 0, !.sender = "done"]
  OBVIOUS
<1>3. k \in ConnType /\ k.st = Stopping(conn[c]).st
  <2>1. PICK m : m = Stopping(conn[c])
    OBVIOUS
  <2>2. m \in ConnType
    BY <2>1, ConnTypes, StoppingType
  <2>3. k = [m EXCEPT !.hand = 0, !.sender = "done"]
    BY <1>2, <2>1
  <2>4. k \in ConnType /\ k.st = m.st
    BY <2>2, <2>3, Sizes DEF ConnType
  <2> QED
    BY <2>1, <2>4
<1>4. conn' = [conn EXCEPT ![c] = k]
  BY <1>1, <1>2
<1>5. conn[c].st # "none" /\ k.st # "none"
  BY <1>1, <1>3, ConnTypes, UnusedType, StoppingType
<1>6. ToSet(conn[c].queue) \subseteq Packets
  BY ConnTypes DEF ToSet
<1>7. spilt' \subseteq Packets
  BY <1>1, <1>6, ConnTypes, LinkTypes
<1> QED
  BY <1>1, <1>3, <1>4, <1>5, <1>7, LinkTypes, ConnStep

LEMMA SenderEndsRight == ASSUME Right, NEW c \in Conns, SenderEnds(c) PROVE Right'
<1>1. /\ UNCHANGED <<sent, link, buffer, reader, flush, recon, listed, over, faults, heard, spilt>>
      /\ conn[c].st \in {"stopping", "closed"} /\ conn' = [conn EXCEPT ![c].sender = "done"]
  BY DEF SenderEnds
<1>2. PICK k : k = [conn[c] EXCEPT !.sender = "done"]
  OBVIOUS
<1>3. k \in ConnType /\ k.st = conn[c].st
  BY <1>2, ConnTypes DEF ConnType
<1>4. conn' = [conn EXCEPT ![c] = k]
  BY <1>1, <1>2
<1> QED
  BY <1>1, <1>3, <1>4, LinkTypes, ConnStep

LEMMA ClosedRight == ASSUME Right, NEW c \in Conns, Closed(c) PROVE Right'
<1>1. /\ UNCHANGED <<sent, link, buffer, reader, flush, recon, listed, over, heard, spilt>>
      /\ conn[c].st = "stopping" /\ conn' = [conn EXCEPT ![c].st = "closed"]
  BY DEF Closed
<1>2. PICK k : k = [conn[c] EXCEPT !.st = "closed"]
  OBVIOUS
<1>3. k \in ConnType /\ k.st = "closed"
  BY <1>2, ConnTypes DEF ConnType
<1>4. conn' = [conn EXCEPT ![c] = k]
  BY <1>1, <1>2
<1>5. faults' \in Nat
  BY LinkTypes DEF Closed, Fault
<1> QED
  BY <1>1, <1>3, <1>4, <1>5, LinkTypes, ConnStep

LEMMA LoseRight == ASSUME Right, NEW c \in Conns, Lose(c) PROVE Right'
<1>1. /\ UNCHANGED <<sent, link, buffer, reader, flush, recon, listed, over, heard, spilt>>
      /\ conn[c].st = "open"
  BY DEF Lose
<1>2. PICK p \in {"broken", "bye"} : conn' = [conn EXCEPT ![c].peer = p]
  BY DEF Lose
<1>3. PICK k : k = [conn[c] EXCEPT !.peer = p]
  OBVIOUS
<1>4. k \in ConnType /\ k.st = "open"
  BY <1>1, <1>3, ConnTypes DEF ConnType
<1>5. conn' = [conn EXCEPT ![c] = k]
  BY <1>2, <1>3
<1>6. faults' \in Nat
  BY LinkTypes DEF Lose, Fault
<1> QED
  BY <1>1, <1>4, <1>5, <1>6, LinkTypes, ConnStep

LEMMA RecvRight ==
    ASSUME Right, NEW c \in Conns, conn[c].st # "none",
           NEW v \in {"reading", "reconnecting", "detach", "clear", "ended", "missed"},
           conn' = [conn EXCEPT ![c].recv = v],
           UNCHANGED <<sent, buffer, reader, flush, listed, over, faults, heard, spilt>>,
           UNCHANGED recon \/ Begin("receiver", c),
           link' \in LinkType, Used(link'.remote)
    PROVE  Right'
<1>1. PICK k : k = [conn[c] EXCEPT !.recv = v]
  OBVIOUS
<1>2. k \in ConnType /\ k.st = conn[c].st
  BY <1>1, ConnTypes DEF ConnType
<1>3. conn' = [conn EXCEPT ![c] = k]
  BY <1>1
<1>4. Tame
  BY <1>2, <1>3, TameStep
<1>5. ReconOk' \/ UNCHANGED recon
  BY <1>4, BeginOk
<1> QED
  BY <1>2, <1>3, <1>5, LinkTypes, ConnStep

LEMMA ReadFailsRight == ASSUME Right, NEW c \in Conns, ReadFails(c) PROVE Right'
<1>1. /\ UNCHANGED <<sent, link, buffer, reader, flush, listed, over, faults, heard, spilt>>
      /\ conn[c].recv = "reading"
  BY DEF ReadFails
<1>2. conn[c].st # "none"
  BY <1>1, ConnTypes DEF Unused
<1>3. \E v \in {"reading", "reconnecting", "detach", "clear", "ended", "missed"} :
        conn' = [conn EXCEPT ![c].recv = v]
  BY DEF ReadFails
<1>4. UNCHANGED recon \/ Begin("receiver", c)
  BY DEF ReadFails
<1> QED
  BY <1>1, <1>2, <1>3, <1>4, LinkTypes, RecvRight

LEMMA DetachRight == ASSUME Right, NEW c \in Conns, Detach(c) PROVE Right'
<1>1. /\ UNCHANGED <<sent, buffer, reader, flush, recon, listed, over, faults, heard, spilt>>
      /\ conn[c].recv = "detach" /\ conn' = [conn EXCEPT ![c].recv = "clear"] /\ link' = Without(c)
  BY DEF Detach
<1>2. conn[c].st # "none"
  BY <1>1, ConnTypes DEF Unused
<1>3. link' \in LinkType /\ Used(link'.remote)
  BY <1>1, LinkTypes, Sizes DEF Without, LinkType, Used
<1> QED
  BY <1>1, <1>2, <1>3, RecvRight

LEMMA ClearRight == ASSUME Right, NEW c \in Conns, Clear(c) PROVE Right'
<1>1. /\ UNCHANGED <<sent, buffer, reader, flush, recon, listed, over, faults, heard, spilt>>
      /\ conn[c].recv = "clear" /\ conn' = [conn EXCEPT ![c] = [Stopping(conn[c]) EXCEPT !.recv = "ended"]]
      /\ link' = Deaf(link)
  BY DEF Clear
<1>2. PICK k : k = [Stopping(conn[c]) EXCEPT !.recv = "ended"]
  OBVIOUS
<1>3. k \in ConnType /\ k.st = Stopping(conn[c]).st
  BY <1>2, ConnTypes, StoppingType DEF ConnType
<1>4. conn' = [conn EXCEPT ![c] = k]
  BY <1>1, <1>2
<1>5. conn[c].st # "none"
  BY <1>1, ConnTypes DEF Unused
<1>6. k.st # "none"
  BY <1>3, <1>5, ConnTypes, StoppingType
<1>7. link' \in LinkType /\ link'.remote = link.remote
  BY <1>1, LinkTypes DEF Deaf, LinkType
<1> QED
  BY <1>1, <1>3, <1>4, <1>6, <1>7, LinkTypes, ConnStep

(* Steps of the reconnect.  Its record is written out each time. *)
LEMMA ReconTypes ==
    ASSUME Right
    PROVE  /\ recon \in ReconType /\ Used(recon.of) /\ Used(recon.new)
           /\ recon.of \in SomeConn /\ recon.new \in SomeConn /\ recon.own \in SomeConn /\ recon.tries \in Nat
           /\ recon.pc # "idle" => recon.of \in Conns /\ conn[recon.of].st # "none"
           /\ recon.pc \in {"config", "drop", "store", "ready", "receive", "done"} =>
                recon.new \in Conns /\ conn[recon.new].st # "none"
BY Sizes DEF Right, Typed, ReconType, ReconRight, Used

LEMMA GotoOk ==
    ASSUME Right, Tame, recon.pc # "idle",
           NEW p \in {"dial", "drop", "store", "ready", "receive", "done", "failed"}, Goto(p),
           p \in {"drop", "store", "ready", "receive", "done"} => recon.new # 0
    PROVE  ReconOk'
<1>1. /\ recon' \in ReconType /\ recon'.pc = p /\ recon'.of = recon.of /\ recon'.new = recon.new
  BY ReconTypes DEF Goto, ReconType
<1>2. Used(recon.of)' /\ Used(recon.new)'
  BY <1>1, ReconTypes, UsedStays DEF Used
<1> QED
  BY <1>1, <1>2, ReconTypes, Sizes DEF ReconOk, ReconRight

LEMMA AgainOk ==
    ASSUME Right, Tame, recon.pc # "idle", recon' = AgainFrom(recon)
    PROVE  ReconOk'
<1>1. /\ recon' \in ReconType /\ recon'.pc = "dial" /\ recon'.of = recon.of /\ recon'.new = 0
  <2>1. PICK n \in Nat : n = recon.tries + 1
    BY ReconTypes
  <2>2. recon' = [recon EXCEPT !.pc = "dial", !.new = 0, !.tries = n]
    BY <2>1 DEF AgainFrom
  <2> QED
    BY <2>1, <2>2, ReconTypes, Sizes DEF ReconType
<1>2. Used(recon.of)' /\ Used(recon.new)'
  BY <1>1, ReconTypes, UsedStays, Sizes DEF Used
<1> QED
  BY <1>1, <1>2, ReconTypes, Sizes DEF ReconOk, ReconRight

LEMMA NoReconOk == ASSUME recon' = NoRecon PROVE ReconOk'
BY Sizes DEF NoRecon, ReconOk, ReconType, ReconRight, Used

LEMMA StillData == ASSUME Right, UNCHANGED still, faults' \in Nat PROVE DataOk' /\ UNCHANGED reader
BY DEF still, DataOk, Right, Typed

(* What the closing of a connection leaves. *)
LEMMA CloseTame ==
    ASSUME Right, NEW c \in SomeConn, conn[c].st # "none" \/ c = 0, Close(c)
    PROVE  Tame
<1>1. CASE c = 0
  BY <1>1, TameSame DEF Close
<1>2. CASE c # 0
  <2>1. c \in Conns /\ conn' = [conn EXCEPT ![c] = Stopping(conn[c])]
    BY <1>2, Sizes DEF Close
  <2>2. Stopping(conn[c]) \in ConnType /\ Stopping(conn[c]).st # "none"
    BY <1>2, <2>1, ConnTypes, StoppingType
  <2> QED
    BY <2>1, <2>2, TameStep
<1> QED
  BY <1>1, <1>2

LEMMA BeginReconRight == ASSUME Right, BeginRecon PROVE Right'
<1>1. /\ UNCHANGED still /\ UNCHANGED <<flush, conn, listed, faults>> /\ recon.pc = "begin"
      /\ link' = Flags(FALSE, TRUE) /\ recon' = [recon EXCEPT !.pc = "close", !.own = link.remote]
  BY DEF BeginRecon, At
<1>2. Tame
  BY <1>1, TameSame
<1>3. /\ recon' \in ReconType /\ recon'.pc = "close" /\ recon'.of = recon.of /\ recon'.new = recon.new
  BY <1>1, ReconTypes, LinkTypes DEF ReconType
<1>4. Used(recon.of)' /\ Used(recon.new)'
  BY <1>1, <1>3, ReconTypes DEF Used
<1>5. ReconOk'
  BY <1>1, <1>3, <1>4, ReconTypes, Sizes DEF ReconOk, ReconRight
<1>6. link' \in LinkType /\ link'.remote = link.remote
  BY <1>1, LinkTypes DEF Flags, LinkType
<1>7. DataOk' /\ UNCHANGED reader
  BY <1>1, LinkTypes, StillData
<1> QED
  BY <1>1, <1>2, <1>5, <1>6, <1>7, Rests, Together

LEMMA CloseOwnRight == ASSUME Right, CloseOwn PROVE Right'
<1>1. UNCHANGED still /\ UNCHANGED <<link, flush, listed, faults>> /\ recon.pc = "close"
  BY DEF CloseOwn, At
<1>2. Tame /\ ReconOk'
  <2>1. CASE Goto("dial") /\ UNCHANGED conn
    BY <1>1, <2>1, TameSame, GotoOk
  <2>2. CASE conn[recon.own].st = "open" /\ Close(recon.own) /\ UNCHANGED recon
    BY <2>2, ReconTypes, CloseTame, Rests
  <2> QED
    BY <2>1, <2>2 DEF CloseOwn
<1>3. DataOk' /\ UNCHANGED reader
  BY <1>1, LinkTypes, StillData
<1> QED
  BY <1>1, <1>2, <1>3, Rests, Together

(* The connection that is dialled is the first unused one. *)
LEMMA FirstFresh ==
    ASSUME Fresh # {}
    PROVE  (CHOOSE c \in Fresh : \A d \in Fresh : c <= d) \in Fresh
<1>1. Fresh \subseteq Nat
  BY DEF Fresh, Conns
<1>2. \E c \in Fresh : \A d \in Fresh : c <= d
  <2> DEFINE R == OpToRel(<, Nat)
  <2>1. IsWellFoundedOn(R, Nat)
    BY NatLessThanWellFounded
  <2>2. \A c, d \in Nat : d < c => <<d, c>> \in R
    BY DEF OpToRel
  <2> HIDE DEF R
  <2>3. PICK c \in Fresh : \A d \in Fresh : ~(<<d, c>> \in R)
    BY <1>1, <2>1, WFMin
  <2>4. ASSUME NEW d \in Fresh, ~(c <= d) PROVE FALSE
    <3>1. c \in Nat /\ d \in Nat /\ d < c
      <4>1. c \in Nat /\ d \in Nat
        BY <1>1
      <4> QED
        BY <2>4, <4>1
    <3>2. <<d, c>> \in R
      BY <2>2, <3>1
    <3> QED
      BY <2>3, <3>2
  <2> QED
    BY <2>4
<1> QED
  BY <1>2

LEMMA DialRight == ASSUME Right, Dial PROVE Right'
<1>1. UNCHANGED still /\ UNCHANGED <<link, flush>> /\ recon.pc = "dial"
  BY DEF Dial, At
<1>2. faults' \in Nat
  BY LinkTypes DEF Dial, Fault
<1>3. DataOk' /\ UNCHANGED reader
  BY <1>1, <1>2, StillData
<1>4. listed \in SomeConn /\ Used(listed)
  BY DEF Right, Typed, ConnRight
<1>5. Tame /\ ReconOk' /\ listed' \in SomeConn /\ Used(listed)'
  <2>1. CASE ~HasClosed(listed) /\ recon' = [recon EXCEPT !.pc = "config", !.new = listed] /\ UNCHANGED <<conn, listed>>
    <3>1. listed \in Conns /\ conn[listed].st # "none"
      BY <2>1 DEF HasClosed
    <3>2. /\ recon' \in ReconType /\ recon'.pc = "config" /\ recon'.of = recon.of /\ recon'.new = listed
      BY <2>1, <1>4, ReconTypes DEF ReconType
    <3>3. Tame
      BY <2>1, TameSame
    <3>4. Used(recon.of)' /\ Used(recon.new)' /\ Used(listed)'
      BY <2>1, <3>1, <3>2, ReconTypes DEF Used
    <3>5. ReconOk'
      BY <1>1, <3>1, <3>2, <3>4, ReconTypes, Sizes DEF ReconOk, ReconRight
    <3> QED
      BY <1>4, <2>1, <3>3, <3>4, <3>5
  <2>2. ASSUME NEW c \in Conns, conn[c].st = "none", conn' = [conn EXCEPT ![c] = Opened], listed' = c,
               recon' = [recon EXCEPT !.pc = "config", !.new = c]
        PROVE  Tame /\ ReconOk' /\ listed' \in SomeConn /\ Used(listed)'
    <3>1. Tame /\ conn'[c].st = "open"
      BY <2>2, TameStep, OneConn, UnusedType DEF Right
    <3>2. c \in SomeConn /\ c # 0
      BY Sizes
    <3>3. /\ recon' \in ReconType /\ recon'.pc = "config" /\ recon'.of = recon.of /\ recon'.new = c
      BY <2>2, <3>2, ReconTypes DEF ReconType
    <3>4. Used(recon.of)' /\ Used(recon.new)' /\ Used(listed)'
      BY <2>2, <3>1, <3>3, ReconTypes, UsedStays DEF Used
    <3>5. ReconOk'
      BY <1>1, <3>2, <3>3, <3>4, ReconTypes, Sizes DEF ReconOk, ReconRight
    <3> QED
      BY <2>2, <3>1, <3>2, <3>4, <3>5
  <2>3. CASE recon' = AgainFrom(recon) /\ UNCHANGED <<conn, listed>>
    <3>1. Tame
      BY <2>3, TameSame
    <3> QED
      BY <1>1, <1>4, <2>3, <3>1, AgainOk DEF Used
  <2>4. CASE /\ Fresh # {}
             /\ \E c \in Fresh : /\ conn' = [conn EXCEPT ![c] = Opened] /\ listed' = c
                                 /\ recon' = [recon EXCEPT !.pc = "config", !.new = c]
    BY <2>2, <2>4 DEF Fresh
  <2> QED
    BY <2>1, <2>3, <2>4, FirstFresh DEF Dial
<1>6. LinkOk'
  <2>1. link \in LinkType /\ Used(link.remote)'
    BY <1>5, LinkTypes, UsedStays, <1>1 DEF Used
  <2> QED
    BY <1>1, <1>5, <2>1 DEF LinkOk
<1>7. FlushOk' /\ ReaderOk'
  BY <1>1, <1>3, <1>5, Rests
<1> QED
  BY <1>3, <1>5, <1>6, <1>7, Together

LEMMA GiveUpRight == ASSUME Right, GiveUp PROVE Right'
<1>1. UNCHANGED still /\ UNCHANGED <<link, flush, conn, listed, faults>> /\ recon.pc = "dial" /\ Goto("failed")
  BY DEF GiveUp, At
<1>2. Tame
  BY <1>1, TameSame
<1>3. ReconOk'
  BY <1>1, <1>2, GotoOk
<1>4. DataOk' /\ UNCHANGED reader
  BY <1>1, LinkTypes, StillData
<1> QED
  BY <1>1, <1>2, <1>3, <1>4, Rests, Together

LEMMA ConfigRight == ASSUME Right, Config PROVE Right'
<1>1. /\ UNCHANGED still /\ UNCHANGED <<link, flush, conn, listed>> /\ recon.pc = "config"
      /\ Goto("store") \/ Goto("drop")
  BY DEF Config, At
<1>2. Tame /\ recon.new # 0
  BY <1>1, TameSame, ReconTypes, Sizes
<1>3. ReconOk'
  BY <1>1, <1>2, GotoOk
<1>4. faults' \in Nat
  BY LinkTypes DEF Config, Fault
<1>5. DataOk' /\ UNCHANGED reader
  BY <1>1, <1>4, StillData
<1> QED
  BY <1>1, <1>2, <1>3, <1>5, Rests, Together

LEMMA DropNewRight == ASSUME Right, DropNew PROVE Right'
<1>1. UNCHANGED still /\ UNCHANGED <<link, flush, listed, faults>> /\ recon.pc = "drop"
  BY DEF DropNew, At
<1>2. Tame /\ ReconOk'
  <2>1. CASE recon' = AgainFrom(recon) /\ UNCHANGED conn
    BY <1>1, <2>1, TameSame, AgainOk
  <2>2. CASE conn[recon.new].st = "open" /\ Close(recon.new) /\ UNCHANGED recon
    BY <2>2, ReconTypes, CloseTame, Rests
  <2> QED
    BY <2>1, <2>2 DEF DropNew
<1>3. DataOk' /\ UNCHANGED reader
  BY <1>1, LinkTypes, StillData
<1> QED
  BY <1>1, <1>2, <1>3, Rests, Together

LEMMA StoreRight == ASSUME Right, Store PROVE Right'
<1>1. /\ UNCHANGED still /\ UNCHANGED <<flush, conn, listed, faults>> /\ recon.pc = "store" /\ Goto("ready")
      /\ link' = [link EXCEPT !.remote = recon.new]
  BY DEF Store, At
<1>2. Tame /\ recon.new # 0
  BY <1>1, TameSame, ReconTypes, Sizes
<1>3. ReconOk'
  BY <1>1, <1>2, GotoOk
<1>4. DataOk' /\ UNCHANGED reader
  BY <1>1, LinkTypes, StillData
<1>5. link' \in LinkType /\ link'.remote = recon.new
  BY <1>1, LinkTypes, ReconTypes DEF LinkType
<1>6. LinkOk'
  BY <1>1, <1>5, ReconTypes DEF LinkOk, Used, Right, Typed, ConnRight
<1> QED
  BY <1>1, <1>2, <1>3, <1>4, <1>6, Rests, Together

LEMMA ReadyRight == ASSUME Right, Ready PROVE Right'
<1>1. /\ UNCHANGED still /\ UNCHANGED <<flush, conn, listed, faults>> /\ recon.pc = "ready" /\ Goto("receive")
      /\ link' = Flags(TRUE, FALSE)
  BY DEF Ready, At
<1>2. Tame /\ recon.new # 0
  BY <1>1, TameSame, ReconTypes, Sizes
<1>3. ReconOk'
  BY <1>1, <1>2, GotoOk
<1>4. DataOk' /\ UNCHANGED reader
  BY <1>1, LinkTypes, StillData
<1>5. link' \in LinkType /\ link'.remote = link.remote
  BY <1>1, LinkTypes DEF Flags, LinkType
<1> QED
  BY <1>1, <1>2, <1>3, <1>4, <1>5, Rests, Together

LEMMA ReceiveRight == ASSUME Right, Receive PROVE Right'
<1>1. /\ UNCHANGED still /\ UNCHANGED <<link, listed, faults>> /\ recon.pc = "receive" /\ Goto("done")
      /\ Schedule(recon.new) /\ conn' = [conn EXCEPT ![recon.new].recv = "reading"]
  BY DEF Receive, At
<1>2. recon.new # 0 /\ recon.new \in Conns /\ conn[recon.new].st # "none"
  BY <1>1, ReconTypes, Sizes
<1>3. PICK k : k = [conn[recon.new] EXCEPT !.recv = "reading"]
  OBVIOUS
<1>4. k \in ConnType /\ k.st = conn[recon.new].st /\ conn' = [conn EXCEPT ![recon.new] = k]
  BY <1>1, <1>2, <1>3, ConnTypes DEF ConnType
<1>5. Tame
  BY <1>2, <1>4, TameStep
<1>6. ReconOk' /\ FlushOk'
  BY <1>1, <1>2, <1>5, GotoOk, ScheduleOk
<1>7. DataOk' /\ UNCHANGED reader
  BY <1>1, LinkTypes, StillData
<1> QED
  BY <1>1, <1>5, <1>6, <1>7, Rests, Together

LEMMA ReleasedType ==
    ASSUME NEW k \in ConnType
    PROVE  /\ Released(k) \in ConnType
           /\ Released(k).st = IF k.st = "open" THEN "stopping" ELSE k.st
           /\ Released(k).queue = k.queue /\ Released(k).hand = k.hand /\ Released(k).sender = k.sender
           /\ Released(k).peer = k.peer
           /\ Released(k).recv = IF recon.by = "audio" THEN k.recv ELSE "ended"
<1>1. PICK m : m = Stopping(k)
  OBVIOUS
<1>2. /\ m \in ConnType /\ m.st = IF k.st = "open" THEN "stopping" ELSE k.st
      /\ m.queue = k.queue /\ m.hand = k.hand /\ m.sender = k.sender /\ m.recv = k.recv /\ m.peer = k.peer
  BY <1>1, StoppingType
<1>3. Released(k) = IF recon.by = "audio" THEN m ELSE [m EXCEPT !.recv = "ended"]
  BY <1>1 DEF Released
<1> QED
  BY <1>2, <1>3 DEF ConnType

LEMMA DoneRight == ASSUME Right, Done PROVE Right'
<1>1. /\ UNCHANGED still /\ UNCHANGED <<flush, listed, faults>> /\ recon.pc = "done" /\ recon' = NoRecon
      /\ link' = [link EXCEPT !.connecting = FALSE, !.failing = IF recon.by = "audio" THEN FALSE ELSE @]
      /\ conn' = [conn EXCEPT ![recon.of] = Released(conn[recon.of])]
  BY DEF Done, At, Ended
<1>2. recon.of \in Conns /\ conn[recon.of].st # "none"
  BY <1>1, ReconTypes
<1>3. Tame
  <2>1. Released(conn[recon.of]) \in ConnType /\ Released(conn[recon.of]).st # "none"
    BY <1>2, ConnTypes, ReleasedType
  <2> QED
    BY <1>1, <1>2, <2>1, TameStep
<1>4. link' \in LinkType /\ link'.remote = link.remote
  BY <1>1, LinkTypes DEF LinkType
<1>5. DataOk' /\ UNCHANGED reader
  BY <1>1, LinkTypes, StillData
<1>6. ReconOk'
  BY <1>1, NoReconOk
<1> QED
  BY <1>1, <1>3, <1>4, <1>5, <1>6, Rests, Together

LEMMA FailsRight == ASSUME Right, Fails PROVE Right'
<1>1. /\ UNCHANGED still /\ UNCHANGED <<flush, listed, faults>> /\ recon.pc = "failed" /\ recon' = NoRecon
  BY DEF Fails, At
<1>2. recon.of \in Conns /\ conn[recon.of].st # "none"
  BY <1>1, ReconTypes
<1>3. DataOk' /\ UNCHANGED reader
  BY <1>1, LinkTypes, StillData
<1>4. ReconOk'
  BY <1>1, NoReconOk
<1>5. Tame /\ LinkOk'
  <2>1. CASE /\ link' = [Lost(recon.of) EXCEPT !.failing = FALSE]
             /\ conn' = [conn EXCEPT ![recon.of] = Stopping(conn[recon.of])]
    <3>1. Stopping(conn[recon.of]) \in ConnType /\ Stopping(conn[recon.of]).st # "none"
      BY <1>2, ConnTypes, StoppingType
    <3>2. Tame
      BY <1>2, <2>1, <3>1, TameStep
    <3>3. link' \in LinkType /\ link'.remote \in {0, link.remote}
      BY <2>1, LinkTypes, Sizes DEF Lost, Deaf, Without, LinkType
    <3> QED
      BY <1>1, <3>2, <3>3, LinkTypes, UsedStays, Sizes DEF LinkOk, Used, Right, Typed, ConnRight
  <2>2. CASE /\ link' = [link EXCEPT !.connecting = FALSE]
             /\ conn' = [conn EXCEPT ![recon.of].recv = "detach"]
    <3>1. PICK k : k = [conn[recon.of] EXCEPT !.recv = "detach"]
      OBVIOUS
    <3>2. k \in ConnType /\ k.st = conn[recon.of].st /\ conn' = [conn EXCEPT ![recon.of] = k]
      BY <1>2, <2>2, <3>1, ConnTypes DEF ConnType
    <3>3. Tame
      BY <1>2, <3>2, TameStep
    <3>4. link' \in LinkType /\ link'.remote = link.remote
      BY <2>2, LinkTypes DEF LinkType
    <3> QED
      BY <1>1, <3>3, <3>4, Rests
  <2> QED
    BY <2>1, <2>2 DEF Fails
<1> QED
  BY <1>1, <1>3, <1>4, <1>5, Rests, Together

LEMMA NextRight == ASSUME Right, [Next]_vars PROVE Right'
<1>1. CASE UNCHANGED vars
  BY <1>1 DEF vars, Right, Typed, ReaderRight, FlushRight, ReconRight, ConnRight, Used
<1>2. CASE Arrive \/ Reader \/ Expire \/ Flush
  BY <1>2, ArriveRight, PickRight, BufferRight, PutRight, SentRight, FailedRight, ExpireRight,
     DrainRight, CheckRight, ReplayRight, PauseRight DEF Reader, Flush
<1>3. CASE Reconnect
  BY <1>3, BeginReconRight, CloseOwnRight, DialRight, GiveUpRight, ConfigRight, DropNewRight,
     StoreRight, ReadyRight, ReceiveRight, DoneRight, FailsRight DEF Reconnect
<1>4. ASSUME NEW c \in Conns, SenderOf(c) \/ Closed(c) \/ Lose(c) \/ ReceiverOf(c)
      PROVE  Right'
  BY <1>4, TakeRight, WriteRight, WriteFailsRight, SenderEndsRight, ClosedRight, LoseRight,
     ReadFailsRight, DetachRight, ClearRight DEF SenderOf, ReceiverOf
<1> QED
  BY <1>1, <1>2, <1>3, <1>4 DEF Next

(* The audio path is always of its type.                                    *)
LEMMA RightAlways == Spec => []Right
<1>1. Init => Right
  BY InitRight
<1> QED
  BY <1>1, NextRight, PTL DEF Spec

(* Packets in sequences. *)
Has(s, p) == \E i \in DOMAIN s : s[i] = p
Solo(s) == \A i, j \in DOMAIN s : s[i] = s[j] => i = j

LEMMA HasNone == Solo(<< >>) /\ \A p : ~Has(<< >>, p)
<1>1. DOMAIN << >> = {}
  OBVIOUS
<1> QED
  BY <1>1 DEF Has, Solo

LEMMA AppendHas ==
    ASSUME NEW T, NEW s \in Seq(T), NEW e \in T
    PROVE  /\ \A p : Has(Append(s, e), p) <=> Has(s, p) \/ p = e
           /\ Solo(s) /\ ~Has(s, e) => Solo(Append(s, e))
<1> DEFINE t == Append(s, e)
<1>1. /\ DOMAIN t = 1..(Len(s) + 1) /\ DOMAIN s = 1..Len(s) /\ Len(s) \in Nat
      /\ t[Len(s) + 1] = e /\ \A i \in 1..Len(s) : t[i] = s[i]
  OBVIOUS
<1> HIDE DEF t
<1>2. \A i \in DOMAIN t : i \in DOMAIN s \/ i = Len(s) + 1
  BY <1>1
<1>3. Len(s) + 1 \in DOMAIN t /\ \A i \in DOMAIN s : i \in DOMAIN t
  BY <1>1
<1>4. \A p : Has(t, p) <=> Has(s, p) \/ p = e
  BY <1>1, <1>2, <1>3 DEF Has
<1>5. Solo(s) /\ ~Has(s, e) => Solo(t)
  BY <1>1, <1>2, <1>3 DEF Has, Solo
<1> QED
  BY <1>4, <1>5 DEF t

LEMMA TailHas ==
    ASSUME NEW T, NEW s \in Seq(T), s # << >>, Solo(s)
    PROVE  /\ Has(s, Head(s)) /\ Solo(Tail(s))
           /\ \A p : Has(Tail(s), p) <=> Has(s, p) /\ p # Head(s)
<1> DEFINE t == Tail(s)
<1>1. /\ Len(s) \in Nat /\ Len(s) > 0 /\ DOMAIN s = 1..Len(s)
      /\ DOMAIN t = 1..(Len(s) - 1) /\ \A i \in 1..(Len(s) - 1) : t[i] = s[i + 1]
      /\ Head(s) = s[1]
  OBVIOUS
<1> HIDE DEF t
<1>2. \A i \in DOMAIN t : i + 1 \in DOMAIN s /\ i + 1 # 1 /\ t[i] = s[i + 1]
  BY <1>1
<1>3. 1 \in DOMAIN s /\ \A i \in DOMAIN s : i = 1 \/ (i - 1 \in DOMAIN t /\ t[i - 1] = s[i])
  BY <1>1
<1>4. ASSUME NEW p, Has(t, p) PROVE Has(s, p) /\ p # Head(s)
  BY <1>1, <1>2, <1>3, <1>4 DEF Has, Solo
<1>5. ASSUME NEW p, Has(s, p), p # Head(s) PROVE Has(t, p)
  BY <1>1, <1>3, <1>5 DEF Has
<1>6. Solo(t)
  BY <1>1, <1>2 DEF Solo
<1>7. Has(s, Head(s))
  BY <1>1, <1>3 DEF Has
<1> QED
  BY <1>4, <1>5, <1>6, <1>7 DEF t

LEMMA JoinHas ==
    ASSUME NEW T, NEW s \in Seq(T), NEW t \in Seq(T)
    PROVE  /\ \A p : Has(s \o t, p) <=> Has(s, p) \/ Has(t, p)
           /\ Solo(s) /\ Solo(t) /\ (\A p : ~(Has(s, p) /\ Has(t, p))) => Solo(s \o t)
<1> DEFINE u == s \o t
<1>1. /\ Len(s) \in Nat /\ Len(t) \in Nat /\ DOMAIN s = 1..Len(s)
      /\ DOMAIN t = 1..Len(t) /\ DOMAIN u = 1..(Len(s) + Len(t))
  OBVIOUS
<1>2. /\ \A i \in 1..Len(s) : u[i] = s[i]
      /\ \A i \in 1..(Len(s) + Len(t)) : i > Len(s) => u[i] = t[i - Len(s)]
  OBVIOUS
<1> HIDE DEF u
<1>3. \A i \in DOMAIN u :
        \/ i \in DOMAIN s /\ u[i] = s[i]
        \/ i - Len(s) \in DOMAIN t /\ u[i] = t[i - Len(s)]
  BY <1>1, <1>2
<1>4. /\ \A i \in DOMAIN s : i \in DOMAIN u /\ u[i] = s[i]
      /\ \A i \in DOMAIN t : i + Len(s) \in DOMAIN u /\ u[i + Len(s)] = t[i]
  <2>1. \A i \in DOMAIN s : i \in DOMAIN u /\ u[i] = s[i]
    BY <1>1, <1>2
  <2>2. ASSUME NEW i \in DOMAIN t PROVE i + Len(s) \in DOMAIN u /\ u[i + Len(s)] = t[i]
    <3>1. i + Len(s) \in 1..(Len(s) + Len(t)) /\ i + Len(s) > Len(s) /\ (i + Len(s)) - Len(s) = i
      BY <1>1
    <3> QED
      BY <1>1, <1>2, <3>1
  <2> QED
    BY <2>1, <2>2
<1>5. \A p : Has(u, p) <=> Has(s, p) \/ Has(t, p)
  BY <1>3, <1>4 DEF Has
<1>6. ASSUME Solo(s), Solo(t), \A p : ~(Has(s, p) /\ Has(t, p)) PROVE Solo(u)
  <2> SUFFICES ASSUME NEW i \in DOMAIN u, NEW j \in DOMAIN u, u[i] = u[j] PROVE i = j
    BY DEF Solo
  <2>1. CASE i \in DOMAIN s /\ j \in DOMAIN s
    BY <1>4, <1>6, <2>1 DEF Solo
  <2>2. CASE i - Len(s) \in DOMAIN t /\ j - Len(s) \in DOMAIN t
    <3>1. t[i - Len(s)] = t[j - Len(s)]
      <4>1. ASSUME NEW k \in DOMAIN u, k - Len(s) \in DOMAIN t PROVE u[k] = t[k - Len(s)]
        BY <1>1, <1>2, <4>1, SMTT(30)
      <4> QED
        BY <2>2, <4>1
    <3>2. i - Len(s) = j - Len(s)
      BY <1>6, <2>2, <3>1 DEF Solo
    <3> QED
      BY <1>1, <3>2
  <2>3. ASSUME NEW k \in DOMAIN s, NEW l \in DOMAIN t PROVE s[k] # t[l]
    BY <1>6 DEF Has
  <2> QED
    BY <1>3, <2>1, <2>2, <2>3
<1> QED
  BY <1>5, <1>6 DEF u

-----------------------------------------------------------------------------
(* Where a packet is: the place and, where there are several, whose.        *)
In(w, c, p) ==
    \/ w = "buffer" /\ c = 0 /\ Has(buffer, p)
    \/ w = "replay" /\ c = 0 /\ Has(flush.batch, p)
    \/ w = "reader" /\ c = 0 /\ reader.p = p
    \/ w = "hand" /\ c \in Conns /\ conn[c].hand = p
    \/ w = "queue" /\ c \in Conns /\ conn[c].sender = "run" /\ Has(conn[c].queue, p)
    \/ w = "heard" /\ c = 0 /\ heard[p] # 0
Nowhere(p) == \A w, c : ~In(w, c, p)
OnlyOne(p) == \A w, v, c, d : In(w, c, p) /\ In(v, d, p) => w = v /\ c = d

(* A packet that is off: given up, or in a queue that nobody reads any more. *)
Adrift(p) == \E c \in Conns : conn[c].sender = "done" /\ Has(conn[c].queue, p)
Off(p) == p \in spilt \/ Adrift(p)
(* What is in such a queue stays there. *)
Stays == \A c \in Conns : conn[c].sender = "done" =>
            conn'[c].sender = "done" /\ \A p : Has(conn[c].queue, p) => Has(conn'[c].queue, p)

(* No packet is in two places; one that is in a place was sent; one that    *)
(* was sent and is in none is off.                                          *)
Located == \A p \in Packets :
    /\ OnlyOne(p)
    /\ ~Nowhere(p) => p <= sent
    /\ over \/ p > sent \/ ~Nowhere(p) \/ Off(p)
(* Nor twice in one. *)
Singly ==
    /\ Solo(buffer) /\ Solo(flush.batch)
    /\ \A c \in Conns : conn[c].sender = "run" => Solo(conn[c].queue)
    /\ \A p \in Packets : heard[p] <= 1
Apart == Located /\ Singly

(* What a step may do with a packet: leave it, move it, give it up. *)
Unmoved(p) == \A w, c : In(w, c, p)' <=> In(w, c, p)
Moved(p) == ~Nowhere(p) /\ \E w, c : \A v, d : In(v, d, p)' <=> v = w /\ d = c
GivenUp(p) == Nowhere(p)' /\ Off(p)'
Follows(p) == Unmoved(p) \/ Moved(p) \/ GivenUp(p)

LEMMA FollowsLocated ==
    ASSUME Located, ~over, sent' = sent, spilt \subseteq spilt', Stays, \A p \in Packets : Follows(p)
    PROVE  Located'
<1> SUFFICES ASSUME NEW p \in Packets
             PROVE  /\ OnlyOne(p)' /\ (~Nowhere(p)' => p <= sent)
                    /\ p > sent \/ ~Nowhere(p)' \/ Off(p)'
  BY DEF Located
<1>1. /\ OnlyOne(p) /\ (~Nowhere(p) => p <= sent)
      /\ p > sent \/ ~Nowhere(p) \/ Off(p)'
  <2>1. Off(p) => Off(p)'
    BY DEF Off, Adrift, Stays
  <2> QED
    BY <2>1 DEF Located
<1>2. CASE Unmoved(p)
  <2>1. Nowhere(p)' <=> Nowhere(p)
    BY <1>2 DEF Unmoved, Nowhere
  <2>2. OnlyOne(p)'
    BY <1>1, <1>2 DEF Unmoved, OnlyOne
  <2> QED
    BY <1>1, <2>1, <2>2
<1>3. CASE Moved(p)
  <2>1. PICK w, c : \A v, d : In(v, d, p)' <=> v = w /\ d = c
    BY <1>3 DEF Moved
  <2>2. ~Nowhere(p)' /\ ~Nowhere(p)
    BY <1>3, <2>1 DEF Moved, Nowhere
  <2>3. OnlyOne(p)'
    BY <2>1 DEF OnlyOne
  <2> QED
    BY <1>1, <2>2, <2>3
<1>4. CASE GivenUp(p)
  BY <1>4 DEF GivenUp, Nowhere, OnlyOne
<1> QED
  BY <1>2, <1>3, <1>4 DEF Follows

(* A place keeps its packets; packets M leave one place for another, or all *)
(* places. *)
Fixed(w, c) == \A p \in Packets : In(w, c, p)' <=> In(w, c, p)
Loses(w, c, M) == \A p \in Packets : In(w, c, p)' <=> In(w, c, p) /\ p \notin M
Gains(w, c, M) == \A p \in Packets : In(w, c, p)' <=> In(w, c, p) \/ p \in M

LEMMA StayFollows ==
    ASSUME \A w, c : Fixed(w, c)
    PROVE  \A p \in Packets : Follows(p)
BY DEF Fixed, Follows, Unmoved

LEMMA MoveFollows ==
    ASSUME Located, NEW w, NEW c, NEW v, NEW d, w # v \/ c # d, NEW M,
           \A p \in Packets : p \in M => In(w, c, p),
           Loses(w, c, M), Gains(v, d, M),
           \A u, e : (u = w /\ e = c) \/ (u = v /\ e = d) \/ Fixed(u, e)
    PROVE  \A p \in Packets : Follows(p)
<1> SUFFICES ASSUME NEW p \in Packets PROVE Follows(p)
  OBVIOUS
<1>1. CASE p \in M
  <2>1. In(w, c, p) /\ OnlyOne(p)
    BY <1>1 DEF Located
  <2>2. ASSUME NEW u, NEW e PROVE In(u, e, p)' <=> u = v /\ e = d
    <3>1. CASE u = v /\ e = d
      BY <1>1, <3>1 DEF Gains
    <3>2. CASE u = w /\ e = c
      BY <1>1, <3>2 DEF Loses
    <3>3. CASE ~(u = v /\ e = d) /\ ~(u = w /\ e = c)
      <4>1. Fixed(u, e)
        BY <3>3
      <4>2. ~In(u, e, p)
        BY <2>1, <3>3 DEF OnlyOne
      <4> QED
        BY <3>3, <4>1, <4>2 DEF Fixed
    <3> QED
      BY <3>1, <3>2, <3>3
  <2>3. ~Nowhere(p)
    BY <2>1 DEF Nowhere
  <2> QED
    BY <2>2, <2>3 DEF Follows, Moved
<1>2. CASE p \notin M
  <2>1. ASSUME NEW u, NEW e PROVE In(u, e, p)' <=> In(u, e, p)
    <3>1. CASE u = v /\ e = d
      BY <1>2, <3>1 DEF Gains
    <3>2. CASE u = w /\ e = c
      BY <1>2, <3>2 DEF Loses
    <3>3. CASE Fixed(u, e)
      BY <3>3 DEF Fixed
    <3> QED
      BY <3>1, <3>2, <3>3
  <2> QED
    BY <2>1 DEF Follows, Unmoved
<1> QED
  BY <1>1, <1>2

LEMMA DropFollows ==
    ASSUME Located, NEW M, \A p \in Packets : p \in M => Off(p)',
           \A p \in M : \E w, c : In(w, c, p) /\ Loses(w, c, M),
           \A u, e : Loses(u, e, M) \/ Fixed(u, e)
    PROVE  \A p \in Packets : Follows(p)
<1> SUFFICES ASSUME NEW p \in Packets PROVE Follows(p)
  OBVIOUS
<1>1. CASE p \in M
  <2>1. PICK w, c : In(w, c, p) /\ Loses(w, c, M)
    BY <1>1
  <2>2. OnlyOne(p)
    BY DEF Located
  <2>3. ASSUME NEW u, NEW e PROVE ~In(u, e, p)'
    <3>1. CASE Loses(u, e, M)
      BY <1>1, <3>1 DEF Loses
    <3>2. CASE Fixed(u, e) /\ ~Loses(u, e, M)
      <4>1. ~(u = w /\ e = c)
        BY <2>1, <3>2
      <4>2. ~In(u, e, p)
        BY <2>1, <2>2, <4>1 DEF OnlyOne
      <4> QED
        BY <3>2, <4>2 DEF Fixed
    <3> QED
      BY <3>1, <3>2
  <2> QED
    BY <1>1, <2>3 DEF Follows, GivenUp, Nowhere
<1>2. CASE p \notin M
  <2>1. ASSUME NEW u, NEW e PROVE In(u, e, p)' <=> In(u, e, p)
    BY <1>2 DEF Loses, Fixed
  <2> QED
    BY <2>1 DEF Follows, Unmoved
<1> QED
  BY <1>1, <1>2

(* What a step leaves alone. *)
LEMMA FixedPlaces ==
    /\ UNCHANGED buffer => \A c : Fixed("buffer", c)
    /\ flush'.batch = flush.batch => \A c : Fixed("replay", c)
    /\ reader'.p = reader.p => \A c : Fixed("reader", c)
    /\ UNCHANGED heard => \A c : Fixed("heard", c)
    /\ \A c \in Conns : conn'[c].hand = conn[c].hand => Fixed("hand", c)
    /\ \A c \in Conns : conn'[c].sender = conn[c].sender /\ conn'[c].queue = conn[c].queue => Fixed("queue", c)
    /\ \A w, c : w \notin {"buffer", "replay", "reader", "hand", "queue", "heard"} => Fixed(w, c)
    /\ \A c : c \notin Conns => Fixed("hand", c) /\ Fixed("queue", c)
<1>1. UNCHANGED buffer => \A c : Fixed("buffer", c)
  BY DEF Fixed, In
<1>2. flush'.batch = flush.batch => \A c : Fixed("replay", c)
  BY DEF Fixed, In
<1>3. reader'.p = reader.p => \A c : Fixed("reader", c)
  BY DEF Fixed, In
<1>4. UNCHANGED heard => \A c : Fixed("heard", c)
  BY DEF Fixed, In
<1>5. \A c \in Conns : conn'[c].hand = conn[c].hand => Fixed("hand", c)
  BY DEF Fixed, In
<1>6. \A c \in Conns : conn'[c].sender = conn[c].sender /\ conn'[c].queue = conn[c].queue => Fixed("queue", c)
  BY DEF Fixed, In
<1>7. \A w, c : w \notin {"buffer", "replay", "reader", "hand", "queue", "heard"} => Fixed(w, c)
  BY DEF Fixed, In
<1>8. \A c : c \notin Conns => Fixed("hand", c) /\ Fixed("queue", c)
  BY DEF Fixed, In
<1> QED
  BY <1>1, <1>2, <1>3, <1>4, <1>5, <1>6, <1>7, <1>8

(* A step that moves no packet. *)
Calm == \A c \in Conns : /\ conn'[c].hand = conn[c].hand /\ conn'[c].queue = conn[c].queue
                         /\ conn'[c].sender = conn[c].sender

LEMMA CalmSame == UNCHANGED conn => Calm
BY DEF Calm

LEMMA CalmStep ==
    ASSUME Right, NEW c \in Conns, NEW k, conn' = [conn EXCEPT ![c] = k],
           k.hand = conn[c].hand, k.queue = conn[c].queue, k.sender = conn[c].sender
    PROVE  Calm
BY DEF Calm, Right, Typed

LEMMA CalmStays == ASSUME Calm PROVE Stays
BY DEF Calm, Stays

LEMMA CalmFixed ==
    ASSUME Calm
    PROVE  \A c : Fixed("hand", c) /\ Fixed("queue", c)
BY FixedPlaces DEF Calm

LEMMA FixedAll ==
    ASSUME \A c : /\ Fixed("buffer", c) /\ Fixed("replay", c) /\ Fixed("reader", c)
                  /\ Fixed("hand", c) /\ Fixed("queue", c) /\ Fixed("heard", c)
    PROVE  \A w, c : Fixed(w, c)
BY FixedPlaces

LEMMA StaysApart ==
    ASSUME Right, Apart, ~over, sent' = sent, spilt \subseteq spilt', Calm,
           UNCHANGED <<buffer, heard>>, flush'.batch = flush.batch, reader'.p = reader.p
    PROVE  Apart'
<1>1. \A w, c : Fixed(w, c)
  BY CalmFixed, FixedPlaces, FixedAll
<1>2. Located'
  BY <1>1, CalmStays, StayFollows, FollowsLocated DEF Apart
<1>3. Singly'
  BY DEF Apart, Singly, Calm
<1> QED
  BY <1>2, <1>3 DEF Apart

(* The reader *)
LEMMA ReaderIn ==
    ASSUME Right, reader.p # 0
    PROVE  reader.p \in Packets /\ In("reader", 0, reader.p)
BY ReaderTypes, Sizes DEF In

LEMMA ReaderLoses ==
    ASSUME Right, reader.p # 0, reader'.p = 0
    PROVE  Loses("reader", 0, {reader.p}) /\ \A c : c = 0 \/ Fixed("reader", c)
<1>1. reader.p \in Packets /\ 0 \notin Packets
  BY ReaderIn, Sizes
<1>2. Loses("reader", 0, {reader.p})
  BY <1>1 DEF Loses, In
<1>3. \A c : c = 0 \/ Fixed("reader", c)
  BY DEF Fixed, In
<1> QED
  BY <1>2, <1>3

LEMMA ReaderDrops ==
    ASSUME Right, Apart, ~over, sent' = sent, spilt' = spilt \cup {reader.p}, Calm,
           UNCHANGED <<buffer, heard>>, flush'.batch = flush.batch, reader.p # 0, reader'.p = 0
    PROVE  Apart'
<1>1. In("reader", 0, reader.p) /\ Loses("reader", 0, {reader.p})
  BY ReaderIn, ReaderLoses
<1>2. ASSUME NEW w, NEW c PROVE Loses(w, c, {reader.p}) \/ Fixed(w, c)
  BY <1>1, CalmFixed, FixedPlaces, ReaderLoses
<1>3. \A p \in Packets : Follows(p)
  BY <1>1, <1>2, DropFollows DEF Apart, Off
<1>4. Located'
  BY <1>3, CalmStays, FollowsLocated DEF Apart
<1>5. Singly'
  BY DEF Apart, Singly, Calm
<1> QED
  BY <1>4, <1>5 DEF Apart

LEMMA ArriveApart == ASSUME Right, Apart, ~over, Arrive PROVE Apart'
<1>1. /\ UNCHANGED <<link, buffer, flush, recon, conn, listed, over, faults, heard>>
      /\ sent' = sent + 1 /\ sent \in Nat /\ sent + 1 \in Packets /\ reader.p = 0
      /\ \/ spilt' = spilt \cup {sent + 1} /\ UNCHANGED reader
         \/ reader'.p = sent + 1 /\ UNCHANGED spilt
  BY Sizes DEF Arrive, Spill, Right, Typed, SomePacket, Packets, ReaderRight
<1>2. /\ \A c : Fixed("buffer", c) /\ Fixed("replay", c) /\ Fixed("heard", c)
      /\ \A c : Fixed("hand", c) /\ Fixed("queue", c)
  BY <1>1, CalmSame, CalmFixed, FixedPlaces
<1>3. Singly'
  BY <1>1 DEF Apart, Singly
<1>4. Nowhere(sent + 1)
  BY <1>1 DEF Apart, Located
<1>5. /\ \A p : Off(p) => Off(p)'
      /\ spilt' = spilt \cup {sent + 1} => \A p : p = sent + 1 => Off(p)'
  BY <1>1 DEF Off, Adrift
<1>6. CASE spilt' = spilt \cup {sent + 1} /\ UNCHANGED reader
  <2>1. \A w, c : Fixed(w, c)
    BY <1>2, <1>6, FixedPlaces, FixedAll
  <2>2. ASSUME NEW p \in Packets
        PROVE  /\ OnlyOne(p)' /\ (Nowhere(p)' <=> Nowhere(p))
               /\ p > sent + 1 \/ ~Nowhere(p)' \/ Off(p)'
    <3>1. \A w, c : In(w, c, p)' <=> In(w, c, p)
      BY <2>1 DEF Fixed
    <3>2. OnlyOne(p)' /\ (Nowhere(p)' <=> Nowhere(p))
      BY <3>1 DEF OnlyOne, Nowhere, Apart, Located
    <3>3. p \in Nat /\ (p > sent \/ ~Nowhere(p) \/ Off(p))
      BY DEF Packets, Apart, Located
    <3> QED
      BY <1>1, <1>6, <1>5, <3>2, <3>3
  <2>3. \A p \in Packets : ~Nowhere(p)' => p <= sent + 1
    <3> SUFFICES ASSUME NEW p \in Packets, ~Nowhere(p)' PROVE p <= sent + 1
      OBVIOUS
    <3>1. p <= sent /\ p \in Nat
      BY <2>2 DEF Apart, Located, Packets
    <3> QED
      BY <1>1, <3>1
  <2> QED
    BY <1>1, <1>3, <2>2, <2>3 DEF Apart, Located
<1>7. CASE reader'.p = sent + 1 /\ UNCHANGED spilt
  <2>1. ASSUME NEW p \in Packets, NEW w, NEW c
        PROVE  In(w, c, p)' <=> In(w, c, p) \/ (w = "reader" /\ c = 0 /\ p = sent + 1)
    <3>1. CASE w = "reader" /\ c = 0
      <4>1. In(w, c, p)' <=> p = sent + 1
        BY <1>7, <3>1 DEF In
      <4>2. ~In(w, c, p)
        BY <1>1, <3>1, Sizes DEF In
      <4> QED
        BY <3>1, <4>1, <4>2
    <3>2. CASE w = "reader" /\ c # 0
      BY <3>2 DEF In
    <3>3. CASE w # "reader"
      <4>1. Fixed(w, c)
        BY <1>2, <3>3, FixedPlaces
      <4> QED
        BY <3>3, <4>1 DEF Fixed
    <3> QED
      BY <3>1, <3>2, <3>3
  <2>2. ASSUME NEW p \in Packets
        PROVE  /\ OnlyOne(p)' /\ (~Nowhere(p)' => p <= sent + 1)
               /\ p > sent + 1 \/ ~Nowhere(p)' \/ Off(p)'
    <3>1. CASE p = sent + 1
      <4>1. \A w, c : In(w, c, p)' <=> w = "reader" /\ c = 0
        BY <1>4, <2>1, <3>1 DEF Nowhere
      <4> QED
        BY <1>1, <3>1, <4>1 DEF OnlyOne, Nowhere
    <3>2. CASE p # sent + 1
      <4>1. \A w, c : In(w, c, p)' <=> In(w, c, p)
        BY <2>1, <3>2
      <4>2. OnlyOne(p)' /\ (Nowhere(p)' <=> Nowhere(p))
        BY <4>1 DEF OnlyOne, Nowhere, Apart, Located
      <4>3. /\ p \in Nat /\ (p > sent \/ ~Nowhere(p) \/ Off(p))
            /\ ~Nowhere(p) => p <= sent
        BY DEF Packets, Apart, Located
      <4> QED
        BY <1>1, <1>7, <1>5, <3>2, <4>2, <4>3
    <3> QED
      BY <3>1, <3>2
  <2> QED
    BY <1>1, <1>3, <2>2 DEF Apart, Located
<1> QED
  BY <1>1, <1>6, <1>7

LEMMA PickApart == ASSUME Right, Apart, ~over, Pick PROVE Apart'
<1>1. UNCHANGED <<sent, link, buffer, flush, recon, conn, listed, over, faults, heard>> /\ reader.p # 0
  BY ReaderTypes, Sizes DEF Pick
<1>2. Calm
  BY <1>1, CalmSame
<1>3. CASE reader'.p = reader.p /\ UNCHANGED spilt
  BY <1>1, <1>2, <1>3, StaysApart
<1>4. CASE reader'.p = 0 /\ spilt' = spilt \cup {reader.p}
  BY <1>1, <1>2, <1>4, ReaderDrops
<1>5. reader \in ReaderType
  BY DEF Right, Typed
<1>6. \/ reader'.p = reader.p /\ UNCHANGED spilt
      \/ reader'.p = 0 /\ spilt' = spilt \cup {reader.p}
  <2>1. CASE reader' = [reader EXCEPT !.pc = "buffer"] /\ UNCHANGED spilt
    BY <1>5, <2>1 DEF ReaderType
  <2>2. CASE reader' = [reader EXCEPT !.pc = "put", !.c = link.remote] /\ UNCHANGED spilt
    BY <1>5, <2>2 DEF ReaderType
  <2>3. CASE reader' = [pc |-> "failed", p |-> 0, c |-> link.remote] /\ spilt' = spilt \cup {reader.p}
    BY <2>3
  <2> QED
    BY <2>1, <2>2, <2>3 DEF Pick, Spill
<1> QED
  BY <1>3, <1>4, <1>6

LEMMA BufferApart == ASSUME Right, Apart, ~over, Buffer PROVE Apart'
<1>1. UNCHANGED <<sent, link, flush, recon, conn, listed, faults, heard, spilt>> /\ reader.p # 0
  BY ReaderTypes, Sizes DEF Buffer
<1>2. Calm /\ \A c : Fixed("hand", c) /\ Fixed("queue", c)
  BY <1>1, CalmSame, CalmFixed
<1>3. CASE UNCHANGED <<buffer, reader>>
  BY <1>1, <1>2, <1>3, StaysApart
<1>4. CASE buffer' = Append(buffer, reader.p) /\ reader'.p = 0
  <2>1. reader.p \in Packets /\ In("reader", 0, reader.p) /\ buffer \in Seq(Packets)
    BY <1>1, ReaderIn DEF Right, Typed
  <2>2. \A p : Has(buffer', p) <=> Has(buffer, p) \/ p = reader.p
    BY <1>4, <2>1, AppendHas
  <2>3. Gains("buffer", 0, {reader.p}) /\ \A c : c = 0 \/ Fixed("buffer", c)
    BY <2>2 DEF Gains, Fixed, In
  <2>4. Loses("reader", 0, {reader.p}) /\ \A c : c = 0 \/ Fixed("reader", c)
    BY <1>1, <1>4, ReaderLoses
  <2>5. \A u, e : (u = "reader" /\ e = 0) \/ (u = "buffer" /\ e = 0) \/ Fixed(u, e)
    BY <1>1, <1>2, <2>3, <2>4, FixedPlaces
  <2>6. \A p \in Packets : Follows(p)
    BY <2>1, <2>3, <2>4, <2>5, MoveFollows DEF Apart
  <2>7. Located'
    BY <1>1, <1>2, <2>6, CalmStays, FollowsLocated DEF Apart
  <2>8. ~Has(buffer, reader.p)
    BY <2>1 DEF Apart, Located, OnlyOne, In
  <2>9. Solo(buffer')
    BY <1>4, <2>1, <2>8, AppendHas DEF Apart, Singly
  <2>10. Singly'
    BY <1>1, <2>9 DEF Apart, Singly
  <2> QED
    BY <2>7, <2>10 DEF Apart
<1>5. reader \in ReaderType
  BY DEF Right, Typed
<1>6. \/ UNCHANGED <<buffer, reader>>
      \/ buffer' = Append(buffer, reader.p) /\ reader'.p = 0
  <2>1. CASE UNCHANGED <<buffer, reader>>
    BY <2>1
  <2>2. CASE buffer' = Append(buffer, reader.p) /\ reader' = NoReader
    BY <2>2 DEF NoReader
  <2>3. CASE buffer' = Append(buffer, reader.p) /\ reader' = [reader EXCEPT !.pc = "failed", !.p = 0]
    BY <1>5, <2>3 DEF ReaderType
  <2> QED
    BY <2>1, <2>2, <2>3 DEF Buffer
<1> QED
  BY <1>3, <1>4, <1>6

(* SendAudio: the packet goes from the reader or the replay into the queue, *)
(* which nobody may read any more.                                          *)
LEMMA EnqueueApart ==
    ASSUME Right, Apart, ~over, NEW c \in Conns, conn[c].st # "none", NEW p \in Packets, Enqueue(c, p),
           NEW w \in {"reader", "replay"}, In(w, 0, p), Loses(w, 0, {p}), \A d : d = 0 \/ Fixed(w, d),
           w = "reader" => flush'.batch = flush.batch, w = "replay" => reader'.p = reader.p,
           Solo(flush'.batch), UNCHANGED <<sent, buffer, heard, spilt>>
    PROVE  Apart'
<1>1. PICK k : k = [conn[c] EXCEPT !.queue = Append(@, p)]
  OBVIOUS
<1>2. /\ conn[c].queue \in Seq(Packets) /\ k.queue = Append(conn[c].queue, p) /\ k.hand = conn[c].hand
      /\ k.sender = conn[c].sender
  BY <1>1, ConnTypes DEF ConnType
<1>3. conn'[c] = k /\ \A d \in Conns : d # c => conn'[d] = conn[d]
  BY <1>1 DEF Enqueue, Right, Typed
<1>4. /\ \A d : Fixed("hand", d) /\ (d = c \/ Fixed("queue", d))
      /\ \A d : Fixed("buffer", d) /\ Fixed("heard", d)
      /\ w = "reader" => \A d : Fixed("replay", d)
      /\ w = "replay" => \A d : Fixed("reader", d)
  BY <1>2, <1>3, FixedPlaces
<1>5. \A q : Has(k.queue, q) <=> Has(conn[c].queue, q) \/ q = p
  BY <1>2, AppendHas
<1>6. Stays
  <2>1. ASSUME NEW d \in Conns, conn[d].sender = "done"
        PROVE  conn'[d].sender = "done" /\ \A q : Has(conn[d].queue, q) => Has(conn'[d].queue, q)
    BY <1>2, <1>3, <1>5, <2>1
  <2> QED
    BY <2>1 DEF Stays
<1>7. CASE conn[c].sender = "run"
  <2>2. Gains("queue", c, {p})
    BY <1>2, <1>3, <1>5, <1>7 DEF Gains, In
  <2>3. \A u, e : (u = w /\ e = 0) \/ (u = "queue" /\ e = c) \/ Fixed(u, e)
    BY <1>4, FixedPlaces
  <2>4. \A q \in Packets : Follows(q)
    BY <2>2, <2>3, MoveFollows DEF Apart
  <2>5. Located'
    BY <1>6, <2>4, FollowsLocated DEF Apart
  <2>6. ~Has(conn[c].queue, p)
    BY <1>7 DEF Apart, Located, OnlyOne, In
  <2>7. Solo(k.queue)
    BY <1>2, <1>7, <2>6, AppendHas DEF Apart, Singly
  <2>8. Singly'
    BY <1>3, <2>7 DEF Apart, Singly
  <2> QED
    BY <2>5, <2>8 DEF Apart
<1>8. CASE conn[c].sender # "run"
  <2>1. Off(p)'
    BY <1>2, <1>3, <1>5, <1>8, ConnTypes DEF Off, Adrift, ConnType
  <2>2. Fixed("queue", c)
    BY <1>2, <1>3, <1>8 DEF Fixed, In
  <2>3. \A u, e : Loses(u, e, {p}) \/ Fixed(u, e)
    BY <1>4, <2>2, FixedPlaces
  <2>4. \A q \in Packets : Follows(q)
    BY <2>1, <2>3, DropFollows DEF Apart
  <2>5. Located'
    BY <1>6, <2>4, FollowsLocated DEF Apart
  <2>6. Singly'
    BY <1>2, <1>3, <1>8 DEF Apart, Singly
  <2> QED
    BY <2>5, <2>6 DEF Apart
<1> QED
  BY <1>7, <1>8

LEMMA PutApart == ASSUME Right, Apart, ~over, Put PROVE Apart'
<1>1. /\ UNCHANGED <<sent, link, buffer, flush, recon, listed, over, faults, heard, spilt>> /\ reader.p # 0
      /\ reader.c \in Conns /\ conn[reader.c].st # "none"
  BY ReaderTypes, Sizes DEF Put
<1>2. CASE reader'.p = reader.p /\ UNCHANGED conn
  BY <1>1, <1>2, CalmSame, StaysApart
<1>3. CASE Enqueue(reader.c, reader.p) /\ reader'.p = 0
  <2>1. /\ reader.p \in Packets /\ In("reader", 0, reader.p) /\ Loses("reader", 0, {reader.p})
        /\ \A d : d = 0 \/ Fixed("reader", d)
    BY <1>1, <1>3, ReaderIn, ReaderLoses
  <2>2. Solo(flush'.batch) /\ flush'.batch = flush.batch
    BY <1>1 DEF Apart, Singly
  <2> QED
    BY <1>1, <1>3, <2>1, <2>2, EnqueueApart
<1>4. reader \in ReaderType
  BY DEF Right, Typed
<1>5. \/ reader'.p = reader.p /\ UNCHANGED conn
      \/ Enqueue(reader.c, reader.p) /\ reader'.p = 0
  BY <1>4 DEF Put, ReaderType
<1> QED
  BY <1>2, <1>3, <1>5

LEMMA SentApart == ASSUME Right, Apart, ~over, Sent PROVE Apart'
<1>1. /\ UNCHANGED <<sent, buffer, recon, conn, listed, over, faults, heard, spilt>> /\ reader.p = 0 /\ reader'.p = 0
  BY DEF Sent, NoReader, Right, ReaderRight
<1>2. flush'.batch = flush.batch
  BY DEF Sent, Schedule, Right, Typed, FlushType
<1> QED
  BY <1>1, <1>2, CalmSame, StaysApart

LEMMA FailedApart == ASSUME Right, Apart, ~over, Failed PROVE Apart'
<1>1. /\ UNCHANGED <<sent, buffer, flush, conn, listed, over, faults, heard, spilt>> /\ reader.p = 0 /\ reader'.p = 0
  BY DEF Failed, NoReader, Right, ReaderRight
<1> QED
  BY <1>1, CalmSame, StaysApart

LEMMA ExpireApart == ASSUME Right, Apart, ~over, Expire PROVE Apart'
<1>1. /\ UNCHANGED <<sent, link, reader, flush, recon, conn, listed, over, heard>> /\ buffer # << >>
      /\ buffer' = Tail(buffer) /\ spilt' = spilt \cup {Head(buffer)}
  BY DEF Expire, Spill
<1>2. buffer \in Seq(Packets) /\ Solo(buffer)
  BY DEF Right, Typed, Apart, Singly
<1>3. /\ Has(buffer, Head(buffer)) /\ Solo(buffer')
      /\ \A p : Has(buffer', p) <=> Has(buffer, p) /\ p # Head(buffer)
  BY <1>1, <1>2, TailHas
<1>4. /\ In("buffer", 0, Head(buffer)) /\ Loses("buffer", 0, {Head(buffer)})
      /\ \A c : c = 0 \/ Fixed("buffer", c)
  BY <1>3 DEF In, Loses, Fixed
<1>5. \A u, e : Loses(u, e, {Head(buffer)}) \/ Fixed(u, e)
  BY <1>1, <1>4, CalmSame, CalmFixed, FixedPlaces
<1>6. \A p \in Packets : Follows(p)
  BY <1>1, <1>4, <1>5, DropFollows DEF Apart, Off
<1>7. Located'
  BY <1>1, <1>6, CalmSame, CalmStays, FollowsLocated DEF Apart
<1>8. Singly'
  BY <1>1, <1>3 DEF Apart, Singly
<1> QED
  BY <1>7, <1>8 DEF Apart

(* The replay *)
LEMMA DrainApart == ASSUME Right, Apart, ~over, Drain PROVE Apart'
<1>1. /\ UNCHANGED <<sent, link, reader, recon, conn, listed, over, faults, heard, spilt>>
      /\ flush.pc = "drain" /\ buffer' = << >> /\ flush'.batch = buffer
  BY FlushTypes DEF Drain, Left
<1>2. flush.batch = << >>
  BY <1>1 DEF Right, FlushRight
<1>3. PICK M : M = {p \in Packets : Has(buffer, p)}
  OBVIOUS
<1>4. /\ Loses("buffer", 0, M) /\ \A c : c = 0 \/ Fixed("buffer", c)
      /\ Gains("replay", 0, M) /\ \A c : c = 0 \/ Fixed("replay", c)
      /\ \A p \in Packets : p \in M => In("buffer", 0, p)
  BY <1>1, <1>2, <1>3, HasNone DEF Loses, Gains, Fixed, In
<1>5. \A u, e : (u = "buffer" /\ e = 0) \/ (u = "replay" /\ e = 0) \/ Fixed(u, e)
  BY <1>1, <1>4, CalmSame, CalmFixed, FixedPlaces
<1>6. \A p \in Packets : Follows(p)
  BY <1>4, <1>5, MoveFollows DEF Apart
<1>7. Located'
  BY <1>1, <1>6, CalmSame, CalmStays, FollowsLocated DEF Apart
<1>8. Singly'
  BY <1>1, HasNone DEF Apart, Singly
<1> QED
  BY <1>7, <1>8 DEF Apart

LEMMA RequeueApart ==
    ASSUME Right, Apart, ~over, NEW p, NEW c, Requeue(p, c),
           UNCHANGED <<sent, reader, conn, heard, spilt>>
    PROVE  Apart'
<1>1. CASE UNCHANGED <<flush, buffer>>
  BY <1>1, CalmSame, StaysApart
<1>2. CASE buffer' = flush.batch \o buffer /\ flush'.batch = << >>
  <2>1. flush.batch \in Seq(Packets) /\ buffer \in Seq(Packets)
    BY FlushTypes DEF Right, Typed
  <2>2. \A q : Has(buffer', q) <=> Has(flush.batch, q) \/ Has(buffer, q)
    BY <1>2, <2>1, JoinHas
  <2>3. PICK M : M = {q \in Packets : Has(flush.batch, q)}
    OBVIOUS
  <2>4. /\ Loses("replay", 0, M) /\ \A d : d = 0 \/ Fixed("replay", d)
        /\ Gains("buffer", 0, M) /\ \A d : d = 0 \/ Fixed("buffer", d)
        /\ \A q \in Packets : q \in M => In("replay", 0, q)
    BY <1>2, <2>2, <2>3, HasNone DEF Loses, Gains, Fixed, In
  <2>5. \A u, e : (u = "replay" /\ e = 0) \/ (u = "buffer" /\ e = 0) \/ Fixed(u, e)
    BY <2>4, CalmSame, CalmFixed, FixedPlaces
  <2>6. \A q \in Packets : Follows(q)
    BY <2>4, <2>5, MoveFollows DEF Apart
  <2>7. Located'
    BY <2>6, CalmSame, CalmStays, FollowsLocated DEF Apart
  <2>8. ASSUME NEW q PROVE ~(Has(flush.batch, q) /\ Has(buffer, q))
    <3> SUFFICES ASSUME Has(flush.batch, q), Has(buffer, q) PROVE FALSE
      OBVIOUS
    <3>1. q \in Packets
      BY <2>1 DEF Has
    <3>2. In("replay", 0, q) /\ In("buffer", 0, q)
      BY DEF In
    <3> QED
      BY <3>1, <3>2 DEF Apart, Located, OnlyOne
  <2>9. Solo(buffer')
    BY <1>2, <2>1, <2>8, JoinHas DEF Apart, Singly
  <2>10. Singly'
    BY <1>2, <2>9, HasNone DEF Apart, Singly
  <2> QED
    BY <2>7, <2>10 DEF Apart
<1> QED
  BY <1>1, <1>2 DEF Requeue, Requeued

LEMMA CheckApart == ASSUME Right, Apart, ~over, Check PROVE Apart'
<1>1. UNCHANGED <<sent, link, reader, recon, conn, listed, faults, heard, spilt>>
  BY DEF Check
<1>2. CASE \E p, c : Requeue(p, c)
  BY <1>1, <1>2, RequeueApart
<1>3. CASE UNCHANGED buffer /\ flush'.batch = flush.batch
  BY <1>1, <1>3, CalmSame, StaysApart
<1>4. (\E p, c : Requeue(p, c)) \/ (UNCHANGED buffer /\ flush'.batch = flush.batch)
  BY FlushTypes DEF Check
<1> QED
  BY <1>2, <1>3, <1>4

LEMMA ReplayApart == ASSUME Right, Apart, ~over, Replay PROVE Apart'
<1>1. UNCHANGED <<sent, link, reader, recon, listed, faults, heard, spilt>> /\ flush.pc = "put"
  BY DEF Replay
<1>2. /\ flush.c \in Conns /\ conn[flush.c].st # "none" /\ flush.batch \in Seq(Packets) /\ flush.batch # << >>
  BY <1>1, FlushTypes DEF Right, FlushRight
<1>3. CASE Requeue("wait", flush.c) /\ UNCHANGED conn
  BY <1>1, <1>3, RequeueApart
<1>4. CASE Enqueue(flush.c, Head(flush.batch)) /\ flush'.batch = Tail(flush.batch) /\ UNCHANGED buffer
  <2>1. Head(flush.batch) \in Packets /\ Solo(flush.batch)
    BY <1>2 DEF Apart, Singly
  <2>2. /\ Has(flush.batch, Head(flush.batch)) /\ Solo(flush'.batch)
        /\ \A p : Has(flush'.batch, p) <=> Has(flush.batch, p) /\ p # Head(flush.batch)
    BY <1>2, <1>4, <2>1, TailHas
  <2>3. /\ In("replay", 0, Head(flush.batch)) /\ Loses("replay", 0, {Head(flush.batch)})
        /\ \A c : c = 0 \/ Fixed("replay", c)
    BY <2>2 DEF In, Loses, Fixed
  <2> QED
    BY <1>1, <1>2, <1>4, <2>1, <2>2, <2>3, EnqueueApart
<1>5. \/ Requeue("wait", flush.c) /\ UNCHANGED conn
      \/ Enqueue(flush.c, Head(flush.batch)) /\ flush'.batch = Tail(flush.batch) /\ UNCHANGED buffer
  BY FlushTypes DEF Replay
<1> QED
  BY <1>3, <1>4, <1>5

LEMMA PauseApart == ASSUME Right, Apart, ~over, Pause PROVE Apart'
<1>1. /\ UNCHANGED <<sent, link, buffer, reader, recon, conn, listed, over, faults, heard, spilt>>
      /\ flush'.batch = flush.batch
  BY FlushTypes DEF Pause
<1> QED
  BY <1>1, CalmSame, StaysApart

(* A connection *)
LEMMA TakeApart == ASSUME Right, Apart, ~over, NEW c \in Conns, Take(c) PROVE Apart'
<1>1. /\ UNCHANGED <<sent, link, buffer, reader, flush, recon, listed, over, faults, heard, spilt>>
      /\ conn[c].sender = "run" /\ conn[c].hand = 0 /\ conn[c].queue # << >>
      /\ conn' = [conn EXCEPT ![c].hand = Head(conn[c].queue), ![c].queue = Tail(@)]
  BY DEF Take
<1>2. PICK k : k = [conn[c] EXCEPT !.hand = Head(conn[c].queue), !.queue = Tail(@)]
  OBVIOUS
<1>3. /\ k.hand = Head(conn[c].queue) /\ k.queue = Tail(conn[c].queue) /\ k.sender = "run"
      /\ conn[c].queue \in Seq(Packets)
  BY <1>1, <1>2, ConnTypes DEF ConnType
<1>4. conn'[c] = k /\ \A d \in Conns : d # c => conn'[d] = conn[d]
  BY <1>1, <1>2 DEF Right, Typed
<1>5. PICK h : h = Head(conn[c].queue)
  OBVIOUS
<1>6. /\ h \in Packets /\ Has(conn[c].queue, h) /\ Solo(k.queue)
      /\ \A p : Has(k.queue, p) <=> Has(conn[c].queue, p) /\ p # h
  <2>1. Solo(conn[c].queue)
    BY <1>1 DEF Apart, Singly
  <2> QED
    BY <1>1, <1>3, <1>5, <2>1, TailHas
<1>7. In("queue", c, h) /\ Loses("queue", c, {h}) /\ Gains("hand", c, {h})
  <2>1. In("queue", c, h) /\ Loses("queue", c, {h})
    BY <1>1, <1>3, <1>4, <1>6 DEF In, Loses
  <2>2. Gains("hand", c, {h})
    BY <1>1, <1>3, <1>4, <1>5, Sizes DEF In, Gains
  <2> QED
    BY <2>1, <2>2
<1>8. \A u, e : (u = "queue" /\ e = c) \/ (u = "hand" /\ e = c) \/ Fixed(u, e)
  <2>1. \A d : d # c => Fixed("hand", d) /\ Fixed("queue", d)
    BY <1>4, FixedPlaces
  <2> QED
    BY <1>1, <2>1, FixedPlaces
<1>9. \A p \in Packets : Follows(p)
  BY <1>7, <1>8, MoveFollows DEF Apart
<1>10. Stays
  BY <1>1, <1>4 DEF Stays
<1>11. Located'
  BY <1>1, <1>9, <1>10, FollowsLocated DEF Apart
<1>12. Singly'
  BY <1>1, <1>4, <1>6 DEF Apart, Singly
<1> QED
  BY <1>11, <1>12 DEF Apart

LEMMA WriteApart == ASSUME Right, Apart, ~over, NEW c \in Conns, Write(c) PROVE Apart'
<1>1. /\ UNCHANGED <<sent, link, buffer, reader, flush, recon, listed, over, faults>>
      /\ conn[c].hand # 0 /\ conn' = [conn EXCEPT ![c].hand = 0]
      /\ \/ heard' = [heard EXCEPT ![conn[c].hand] = @ + 1] /\ UNCHANGED spilt
         \/ spilt' = spilt \cup {conn[c].hand} /\ UNCHANGED heard
  BY DEF Write, Sender, Spill
<1>2. PICK k : k = [conn[c] EXCEPT !.hand = 0]
  OBVIOUS
<1>3. k.hand = 0 /\ k.queue = conn[c].queue /\ k.sender = conn[c].sender
  BY <1>2, ConnTypes DEF ConnType
<1>4. conn'[c] = k /\ \A d \in Conns : d # c => conn'[d] = conn[d]
  BY <1>1, <1>2 DEF Right, Typed
<1>5. PICK h : h = conn[c].hand
  OBVIOUS
<1>6. h \in Packets /\ 0 \notin Packets /\ heard \in [Packets -> Nat]
  BY <1>1, <1>5, ConnTypes, LinkTypes, Sizes
<1>7. In("hand", c, h) /\ Loses("hand", c, {h})
  BY <1>3, <1>4, <1>5, <1>6 DEF In, Loses
<1>8. /\ \A d : Fixed("queue", d) /\ (d = c \/ Fixed("hand", d))
      /\ \A d : Fixed("buffer", d) /\ Fixed("replay", d) /\ Fixed("reader", d)
  BY <1>1, <1>3, <1>4, FixedPlaces
<1>9. /\ Solo(buffer') /\ Solo(flush'.batch)
      /\ \A d \in Conns : conn'[d].sender = "run" => Solo(conn'[d].queue)
  BY <1>1, <1>3, <1>4 DEF Apart, Singly
<1>10. Stays
  BY <1>3, <1>4 DEF Stays
<1>11. CASE heard' = [heard EXCEPT ![h] = @ + 1] /\ UNCHANGED spilt
  <2>1. heard[h] = 0
    BY <1>6, <1>7 DEF Apart, Located, OnlyOne, In
  <2>2. heard'[h] = 1 /\ \A p \in Packets : p # h => heard'[p] = heard[p]
    BY <1>6, <1>11, <2>1
  <2>3. Gains("heard", 0, {h}) /\ \A d : d = 0 \/ Fixed("heard", d)
    BY <2>1, <2>2 DEF Gains, Fixed, In
  <2>4. \A u, e : (u = "hand" /\ e = c) \/ (u = "heard" /\ e = 0) \/ Fixed(u, e)
    BY <1>8, <2>3, FixedPlaces
  <2>5. \A p \in Packets : Follows(p)
    BY <1>7, <2>3, <2>4, MoveFollows DEF Apart
  <2>6. Located'
    BY <1>1, <1>11, <1>10, <2>5, FollowsLocated DEF Apart
  <2>7. \A p \in Packets : heard'[p] <= 1
    BY <2>2 DEF Apart, Singly
  <2> QED
    BY <1>9, <2>6, <2>7 DEF Apart, Singly
<1>12. CASE spilt' = spilt \cup {h} /\ UNCHANGED heard
  <2>1. \A u, e : Loses(u, e, {h}) \/ Fixed(u, e)
    BY <1>7, <1>8, <1>12, FixedPlaces
  <2>2. \A p \in Packets : Follows(p)
    BY <1>7, <1>12, <2>1, DropFollows DEF Apart, Off
  <2>3. Located'
    BY <1>1, <1>12, <1>10, <2>2, FollowsLocated DEF Apart
  <2>4. \A p \in Packets : heard'[p] <= 1
    BY <1>12 DEF Apart, Singly
  <2> QED
    BY <1>9, <2>3, <2>4 DEF Apart, Singly
<1> QED
  BY <1>1, <1>5, <1>11, <1>12

LEMMA WriteFailsApart == ASSUME Right, Apart, ~over, NEW c \in Conns, WriteFails(c) PROVE Apart'
<1>1. /\ UNCHANGED <<sent, link, buffer, reader, flush, recon, listed, over, faults, heard>>
      /\ conn[c].sender = "run" /\ conn[c].hand # 0
      /\ conn' = [conn EXCEPT ![c] = [Stopping(conn[c]) EXCEPT !.hand = 0, !.sender = "done"]]
      /\ spilt' = spilt \cup {conn[c].hand} \cup ToSet(conn[c].queue)
  BY DEF WriteFails, Sender, Spill
<1>2. PICK k : k = [Stopping(conn[c]) EXCEPT !.hand = 0, !.sender = "done"]
  OBVIOUS
<1>3. k.hand = 0 /\ k.sender = "done"
  <2>1. PICK m : m = Stopping(conn[c])
    OBVIOUS
  <2>2. m \in ConnType
    BY <2>1, ConnTypes, StoppingType
  <2> QED
    BY <1>2, <2>1, <2>2 DEF ConnType
<1>4. conn'[c] = k /\ \A d \in Conns : d # c => conn'[d] = conn[d]
  BY <1>1, <1>2 DEF Right, Typed
<1>5. PICK M : M = {conn[c].hand} \cup ToSet(conn[c].queue)
  OBVIOUS
<1>6. conn[c].queue \in Seq(Packets) /\ conn[c].hand \in Packets /\ 0 \notin Packets
  BY <1>1, ConnTypes, Sizes
<1>7. \A p : p \in M <=> p = conn[c].hand \/ Has(conn[c].queue, p)
  BY <1>5, <1>6 DEF ToSet, Has
<1>8. Loses("hand", c, M) /\ Loses("queue", c, M)
  BY <1>3, <1>4, <1>6, <1>7 DEF Loses, In
<1>9. \A p \in M : \E w, d : In(w, d, p) /\ Loses(w, d, M)
  <2>1. \A p \in M : In("hand", c, p) \/ In("queue", c, p)
    BY <1>1, <1>7 DEF In
  <2> QED
    BY <1>8, <2>1
<1>10. \A d : d # c => Fixed("hand", d) /\ Fixed("queue", d)
  BY <1>4, FixedPlaces
<1>11. \A u, e : Loses(u, e, M) \/ Fixed(u, e)
  BY <1>1, <1>8, <1>10, FixedPlaces
<1>12. M \cap Packets \subseteq spilt' /\ spilt \subseteq spilt'
  BY <1>1, <1>5
<1>13. \A p \in Packets : Follows(p)
  BY <1>9, <1>11, <1>12, DropFollows DEF Apart, Off
<1>14. Stays
  BY <1>1, <1>4 DEF Stays
<1>15. Located'
  BY <1>1, <1>12, <1>13, <1>14, FollowsLocated DEF Apart
<1>16. Singly'
  BY <1>1, <1>3, <1>4 DEF Apart, Singly
<1> QED
  BY <1>15, <1>16 DEF Apart

LEMMA SenderEndsApart == ASSUME Right, Apart, ~over, NEW c \in Conns, SenderEnds(c) PROVE Apart'
<1>1. /\ UNCHANGED <<sent, link, buffer, reader, flush, recon, listed, over, faults, heard, spilt>>
      /\ conn[c].queue = << >> /\ conn' = [conn EXCEPT ![c].sender = "done"]
  BY DEF SenderEnds, Drained
<1>2. PICK k : k = [conn[c] EXCEPT !.sender = "done"]
  OBVIOUS
<1>3. k.hand = conn[c].hand /\ k.sender = "done"
  BY <1>2, ConnTypes DEF ConnType
<1>4. conn'[c] = k /\ \A d \in Conns : d # c => conn'[d] = conn[d]
  BY <1>1, <1>2 DEF Right, Typed
<1>5. Fixed("queue", c)
  BY <1>1, <1>3, <1>4, HasNone DEF Fixed, In
<1>6. \A d : Fixed("hand", d) /\ Fixed("queue", d)
  BY <1>3, <1>4, <1>5, FixedPlaces
<1>7. \A w, d : Fixed(w, d)
  BY <1>1, <1>6, FixedPlaces, FixedAll
<1>8. Stays
  BY <1>1, <1>3, <1>4, HasNone DEF Stays
<1>9. Located'
  BY <1>1, <1>7, <1>8, StayFollows, FollowsLocated DEF Apart
<1>10. Singly'
  BY <1>1, <1>3, <1>4 DEF Apart, Singly
<1> QED
  BY <1>9, <1>10 DEF Apart

(* The steps that move no packet. *)
LEMMA ConnCalm ==
    ASSUME Right, Apart, ~over, NEW c \in Conns, NEW k, conn' = [conn EXCEPT ![c] = k],
           k.hand = conn[c].hand, k.queue = conn[c].queue, k.sender = conn[c].sender,
           UNCHANGED <<sent, buffer, heard, spilt>>, flush'.batch = flush.batch, reader'.p = reader.p
    PROVE  Apart'
BY CalmStep, StaysApart

LEMMA SameCalm ==
    ASSUME Right, Apart, ~over,
           UNCHANGED <<sent, buffer, heard, spilt, conn>>, flush'.batch = flush.batch, reader'.p = reader.p
    PROVE  Apart'
BY CalmSame, StaysApart

LEMMA StoppedCalm ==
    ASSUME Right, Apart, ~over, NEW c \in SomeConn, Close(c),
           UNCHANGED <<sent, buffer, heard, spilt>>, flush'.batch = flush.batch, reader'.p = reader.p
    PROVE  Apart'
<1>1. CASE c = 0
  BY <1>1, SameCalm DEF Close
<1>2. CASE c # 0
  <2>1. c \in Conns /\ conn' = [conn EXCEPT ![c] = Stopping(conn[c])]
    BY <1>2, Sizes DEF Close
  <2>2. PICK k : k = Stopping(conn[c])
    OBVIOUS
  <2>3. k.hand = conn[c].hand /\ k.queue = conn[c].queue /\ k.sender = conn[c].sender
    BY <2>1, <2>2, ConnTypes, StoppingType
  <2> QED
    BY <2>1, <2>2, <2>3, ConnCalm
<1> QED
  BY <1>1, <1>2

LEMMA ClosedLoseApart ==
    ASSUME Right, Apart, ~over, NEW c \in Conns, Closed(c) \/ Lose(c) PROVE Apart'
<1>1. UNCHANGED <<sent, buffer, heard, spilt, flush, reader>>
  BY DEF Closed, Lose
<1>2. CASE conn' = [conn EXCEPT ![c].st = "closed"]
  <2>1. PICK k : k = [conn[c] EXCEPT !.st = "closed"]
    OBVIOUS
  <2>2. k.hand = conn[c].hand /\ k.queue = conn[c].queue /\ k.sender = conn[c].sender
    BY <2>1, ConnTypes DEF ConnType
  <2> QED
    BY <1>1, <1>2, <2>1, <2>2, ConnCalm
<1>3. ASSUME NEW p, conn' = [conn EXCEPT ![c].peer = p] PROVE Apart'
  <2>1. PICK k : k = [conn[c] EXCEPT !.peer = p]
    OBVIOUS
  <2>2. k.hand = conn[c].hand /\ k.queue = conn[c].queue /\ k.sender = conn[c].sender
    BY <2>1, ConnTypes DEF ConnType
  <2> QED
    BY <1>1, <1>3, <2>1, <2>2, ConnCalm
<1> QED
  BY <1>2, <1>3 DEF Closed, Lose

LEMMA RecvCalm ==
    ASSUME Right, Apart, ~over, NEW c \in Conns, NEW r, conn' = [conn EXCEPT ![c].recv = r],
           UNCHANGED <<sent, buffer, heard, spilt>>, flush'.batch = flush.batch, reader'.p = reader.p
    PROVE  Apart'
<1>1. PICK k : k = [conn[c] EXCEPT !.recv = r]
  OBVIOUS
<1>2. k.hand = conn[c].hand /\ k.queue = conn[c].queue /\ k.sender = conn[c].sender
  BY <1>1, ConnTypes DEF ConnType
<1> QED
  BY <1>1, <1>2, ConnCalm

LEMMA ReceiverApart ==
    ASSUME Right, Apart, ~over, NEW c \in Conns, ReceiverOf(c) PROVE Apart'
<1>1. UNCHANGED <<sent, buffer, heard, spilt, flush, reader>>
  BY DEF ReceiverOf, ReadFails, Detach, Clear
<1>2. CASE Clear(c)
  <2>1. conn' = [conn EXCEPT ![c] = [Stopping(conn[c]) EXCEPT !.recv = "ended"]]
    BY <1>2 DEF Clear
  <2>2. PICK m : m = Stopping(conn[c])
    OBVIOUS
  <2>3. m \in ConnType /\ m.hand = conn[c].hand /\ m.queue = conn[c].queue /\ m.sender = conn[c].sender
    BY <2>2, ConnTypes, StoppingType
  <2>4. PICK k : k = [m EXCEPT !.recv = "ended"]
    OBVIOUS
  <2>5. k.hand = conn[c].hand /\ k.queue = conn[c].queue /\ k.sender = conn[c].sender
    BY <2>3, <2>4 DEF ConnType
  <2> QED
    BY <1>1, <2>1, <2>2, <2>4, <2>5, ConnCalm
<1>3. CASE ReadFails(c) \/ Detach(c)
  <2>1. \E r : conn' = [conn EXCEPT ![c].recv = r]
    BY <1>3 DEF ReadFails, Detach
  <2> QED
    BY <1>1, <2>1, RecvCalm
<1> QED
  BY <1>2, <1>3 DEF ReceiverOf

(* A connection that is dialled has nothing in it, as one that is unused.   *)
LEMMA DialApart == ASSUME Right, Apart, ~over, Dial PROVE Apart'
<1>1. UNCHANGED <<sent, buffer, heard, spilt, flush, reader>>
  BY DEF Dial, still
<1>2. CASE UNCHANGED conn
  BY <1>1, <1>2, SameCalm
<1>3. ASSUME NEW c \in Fresh, conn' = [conn EXCEPT ![c] = Opened] PROVE Apart'
  <2>1. c \in Conns /\ conn[c] = Unused
    BY ConnTypes DEF Fresh
  <2>2. Opened.hand = conn[c].hand /\ Opened.queue = conn[c].queue /\ Opened.sender = conn[c].sender
    BY <2>1 DEF Opened, Unused
  <2> QED
    BY <1>1, <1>3, <2>1, <2>2, ConnCalm
<1> QED
  BY <1>2, <1>3, FirstFresh DEF Dial

LEMMA ReconnectApart == ASSUME Right, Apart, ~over, Reconnect PROVE Apart'
<1>1. CASE BeginRecon \/ GiveUp \/ Config \/ Store \/ Ready
  BY <1>1, SameCalm DEF BeginRecon, GiveUp, Config, Store, Ready, still
<1>2. CASE CloseOwn \/ DropNew
  <2>1. UNCHANGED <<sent, buffer, heard, spilt, flush, reader>>
    BY <1>2 DEF CloseOwn, DropNew, still
  <2>2. UNCHANGED conn \/ Close(recon.own) \/ Close(recon.new)
    BY <1>2 DEF CloseOwn, DropNew
  <2> QED
    BY <2>1, <2>2, ReconTypes, SameCalm, StoppedCalm
<1>3. CASE Dial
  BY <1>3, DialApart
<1>4. CASE Receive
  <2>1. /\ UNCHANGED <<sent, buffer, heard, spilt, reader>>
        /\ recon.new \in Conns /\ conn' = [conn EXCEPT ![recon.new].recv = "reading"]
    BY <1>4, ReconTypes DEF Receive, At, still
  <2>2. flush'.batch = flush.batch
    BY <1>4, FlushTypes DEF Receive, Schedule
  <2> QED
    BY <2>1, <2>2, RecvCalm
<1>5. CASE Done
  <2>1. /\ UNCHANGED <<sent, buffer, heard, spilt, reader, flush>>
        /\ recon.of \in Conns /\ conn' = [conn EXCEPT ![recon.of] = Released(conn[recon.of])]
    BY <1>5, ReconTypes DEF Done, At, still
  <2>2. PICK k : k = Released(conn[recon.of])
    OBVIOUS
  <2>3. k.hand = conn[recon.of].hand /\ k.queue = conn[recon.of].queue /\ k.sender = conn[recon.of].sender
    BY <2>1, <2>2, ConnTypes, ReleasedType
  <2> QED
    BY <2>1, <2>2, <2>3, ConnCalm
<1>6. CASE Fails
  <2>1. UNCHANGED <<sent, buffer, heard, spilt, reader, flush>> /\ recon.of \in Conns
    BY <1>6, ReconTypes DEF Fails, At, still
  <2>2. Close(recon.of) \/ conn' = [conn EXCEPT ![recon.of].recv = "detach"]
    BY <1>6, <2>1, Sizes DEF Fails, Close
  <2> QED
    BY <2>1, <2>2, ReconTypes, RecvCalm, StoppedCalm
<1> QED
  BY <1>1, <1>2, <1>3, <1>4, <1>5, <1>6 DEF Reconnect

LEMMA InitApart == Init => Apart
<1> SUFFICES ASSUME Init PROVE Apart
  OBVIOUS
<1>1. /\ buffer = << >> /\ flush.batch = << >> /\ reader.p = 0 /\ sent = 0
      /\ \A p \in Packets : heard[p] = 0
  BY DEF Init, NoReader
<1>2. \A c \in Conns : conn[c].hand = 0 /\ conn[c].queue = << >>
  BY DEF Init, Opened, Unused
<1>3. \A p \in Packets : p \in Nat /\ p > 0 /\ p # 0
  BY DEF Packets
<1>4. \A p \in Packets : Nowhere(p)
  BY <1>1, <1>2, <1>3, HasNone DEF Nowhere, In
<1>5. Located
  BY <1>1, <1>3, <1>4 DEF Located, OnlyOne, Nowhere
<1>6. Singly
  BY <1>1, <1>2, HasNone DEF Singly
<1> QED
  BY <1>5, <1>6 DEF Apart

LEMMA NextApart == ASSUME Right, Apart, [Next]_vars PROVE Apart'
<1>1. CASE UNCHANGED vars
  <2>1. \A w, c, p : In(w, c, p)' <=> In(w, c, p)
    BY <1>1 DEF vars, In
  <2>2. Located'
    BY <1>1, <2>1 DEF vars, Apart, Located, OnlyOne, Nowhere, Off, Adrift
  <2>3. Singly'
    BY <1>1 DEF vars, Apart, Singly
  <2> QED
    BY <2>2, <2>3 DEF Apart
<1>2. CASE ~over /\ (Arrive \/ Reader \/ Expire \/ Flush)
  BY <1>2, ArriveApart, PickApart, BufferApart, PutApart, SentApart, FailedApart, ExpireApart,
     DrainApart, CheckApart, ReplayApart, PauseApart DEF Reader, Flush
<1>3. CASE ~over /\ Reconnect
  BY <1>3, ReconnectApart
<1>4. ASSUME ~over, NEW c \in Conns, SenderOf(c) \/ Closed(c) \/ Lose(c) \/ ReceiverOf(c)
      PROVE  Apart'
  BY <1>4, TakeApart, WriteApart, WriteFailsApart, SenderEndsApart, ClosedLoseApart, ReceiverApart
     DEF SenderOf
<1> QED
  BY <1>1, <1>2, <1>3, <1>4 DEF Next

LEMMA ApartAlways == Spec => [](Right /\ Apart)
<1>1. Init => Right /\ Apart
  BY InitRight, InitApart
<1>2. Right /\ Apart /\ [Next]_vars => Right' /\ Apart'
  BY NextRight, NextApart
<1> QED
  BY <1>1, <1>2, PTL DEF Spec

(* The places the properties name are those of the invariant.               *)
LEMMA SpotsIs == \A p, s : Spots(p, s) = {} <=> ~Has(s, p)
BY DEF Spots, Has

LEMMA SpotsOne == ASSUME NEW s, Solo(s), NEW p, NEW i \in Spots(p, s), NEW j \in Spots(p, s) PROVE i = j
BY DEF Spots, Solo

LEMMA OneSpot == ASSUME NEW e PROVE /\ Solo(<<e>>) /\ \A p : Has(<<e>>, p) <=> p = e
<1>1. DOMAIN <<e>> = {1} /\ <<e>>[1] = e
  OBVIOUS
<1> QED
  BY <1>1 DEF Solo, Has

LEMMA PlaceIs ==
    ASSUME Right, Singly, NEW p \in Packets, NEW x \in Places(p)
    PROVE  /\ In(x[1], x[2], p) /\ x = <<x[1], x[2], x[3]>>
           /\ \A y \in Places(p) : x[1] = y[1] /\ x[2] = y[2] => x[3] = y[3]
<1> DEFINE S(w, c) == CASE w = "buffer" -> Spots(p, buffer) [] w = "replay" -> Spots(p, flush.batch)
                        [] w = "reader" -> Spots(p, <<reader.p>>)
                        [] w = "hand" -> Spots(p, <<conn[c].hand>>)
                        [] w = "queue" -> Spots(p, conn[c].queue)
                        [] w = "heard" -> 1..heard[p]
<1> DEFINE At_(w, c) == \/ w \in {"buffer", "replay", "reader", "heard"} /\ c = 0
                        \/ w = "hand" /\ c \in Conns
                        \/ w = "queue" /\ c \in Conns /\ conn[c].sender = "run"
<1>1. \A y \in Places(p) : \E w, c, i : y = <<w, c, i>> /\ At_(w, c) /\ i \in S(w, c)
  <2> SUFFICES ASSUME NEW y \in Places(p) PROVE \E w, c, i : y = <<w, c, i>> /\ At_(w, c) /\ i \in S(w, c)
    OBVIOUS
  <2>1. \/ \E c \in Conns : y \in InConn(p, c)
        \/ y \in {"buffer"} \X {0} \X Spots(p, buffer)
        \/ y \in {"replay"} \X {0} \X Spots(p, flush.batch)
        \/ y \in {"reader"} \X {0} \X Spots(p, <<reader.p>>)
        \/ y \in {"heard"} \X {0} \X (1..heard[p])
    BY DEF Places
  <2>2. ASSUME NEW c \in Conns, y \in InConn(p, c)
        PROVE  \E v, d, j : y = <<v, d, j>> /\ At_(v, d) /\ j \in S(v, d)
    <3>1. CASE y \in {"hand"} \X {c} \X Spots(p, <<conn[c].hand>>)
      <4>1. PICK i \in Spots(p, <<conn[c].hand>>) : y = <<"hand", c, i>>
        BY <3>1
      <4>2. At_("hand", c) /\ i \in S("hand", c)
        OBVIOUS
      <4> QED
        BY <4>1, <4>2
    <3>2. CASE conn[c].sender = "run" /\ y \in {"queue"} \X {c} \X Spots(p, conn[c].queue)
      <4>1. PICK i \in Spots(p, conn[c].queue) : y = <<"queue", c, i>>
        BY <3>2
      <4>2. At_("queue", c) /\ i \in S("queue", c)
        BY <3>2
      <4> QED
        BY <4>1, <4>2
    <3> QED
      BY <2>2, <3>1, <3>2 DEF InConn
  <2>3. ASSUME NEW w \in {"buffer", "replay", "reader", "heard"}, y \in {w} \X {0} \X S(w, 0)
        PROVE  \E v, d, j : y = <<v, d, j>> /\ At_(v, d) /\ j \in S(v, d)
    <3>1. PICK i \in S(w, 0) : y = <<w, 0, i>>
      BY <2>3
    <3>2. At_(w, 0)
      OBVIOUS
    <3> QED
      BY <3>1, <3>2
  <2>4. /\ S("buffer", 0) = Spots(p, buffer) /\ S("replay", 0) = Spots(p, flush.batch)
        /\ S("reader", 0) = Spots(p, <<reader.p>>) /\ S("heard", 0) = 1..heard[p]
    OBVIOUS
  <2> HIDE DEF S, At_
  <2> QED
    BY <2>1, <2>2, <2>3, <2>4
<1>2. heard[p] \in Nat /\ heard[p] <= 1
  BY LinkTypes DEF Singly
<1>3. \A w, c : At_(w, c) => /\ S(w, c) # {} => In(w, c, p)
                             /\ \A i, j \in S(w, c) : i = j
  <2> SUFFICES ASSUME NEW w, NEW c, At_(w, c)
               PROVE  /\ S(w, c) # {} => In(w, c, p)
                      /\ \A i, j \in S(w, c) : i = j
    OBVIOUS
  <2>1. CASE w = "buffer"
    BY <2>1, SpotsIs, SpotsOne DEF Singly, In
  <2>2. CASE w = "replay"
    BY <2>2, SpotsIs, SpotsOne DEF Singly, In
  <2>3. CASE w = "reader"
    BY <2>3, SpotsIs, SpotsOne, OneSpot DEF In
  <2>4. CASE w = "hand"
    BY <2>4, SpotsIs, SpotsOne, OneSpot DEF In
  <2>5. CASE w = "queue"
    BY <2>5, SpotsIs, SpotsOne DEF Singly, In
  <2>6. CASE w = "heard"
    BY <1>2, <2>6 DEF In
  <2> QED
    BY <2>1, <2>2, <2>3, <2>4, <2>5, <2>6
<1> HIDE DEF S, At_
<1>4. ASSUME NEW y \in Places(p) PROVE y = <<y[1], y[2], y[3]>> /\ At_(y[1], y[2]) /\ y[3] \in S(y[1], y[2])
  BY <1>1
<1>5. In(x[1], x[2], p)
  BY <1>3, <1>4
<1>6. ASSUME NEW y \in Places(p), x[1] = y[1], x[2] = y[2] PROVE x[3] = y[3]
  BY <1>3, <1>4, <1>6
<1> QED
  BY <1>4, <1>5, <1>6

LEMMA InPlaces ==
    ASSUME Right, NEW p \in Packets, NEW w, NEW c, In(w, c, p)
    PROVE  Places(p) # {}
<1>1. CASE w = "buffer"
  <2>1. PICK i \in Spots(p, buffer) : TRUE
    BY <1>1, SpotsIs DEF In
  <2>2. <<"buffer", 0, i>> \in Places(p)
    BY <2>1 DEF Places
  <2> QED
    BY <2>2
<1>2. CASE w = "replay"
  <2>1. PICK i \in Spots(p, flush.batch) : TRUE
    BY <1>2, SpotsIs DEF In
  <2>2. <<"replay", 0, i>> \in Places(p)
    BY <2>1 DEF Places
  <2> QED
    BY <2>2
<1>3. CASE w = "reader"
  <2>1. PICK i \in Spots(p, <<reader.p>>) : TRUE
    BY <1>3, SpotsIs, OneSpot DEF In
  <2>2. <<"reader", 0, i>> \in Places(p)
    BY <2>1 DEF Places
  <2> QED
    BY <2>2
<1>4. CASE w = "hand"
  <2>1. PICK i \in Spots(p, <<conn[c].hand>>) : TRUE
    BY <1>4, SpotsIs, OneSpot DEF In
  <2>2. c \in Conns /\ <<"hand", c, i>> \in InConn(p, c)
    BY <1>4, <2>1 DEF In, InConn
  <2>3. <<"hand", c, i>> \in Places(p)
    BY <2>2 DEF Places
  <2> QED
    BY <2>3
<1>5. CASE w = "queue"
  <2>1. PICK i \in Spots(p, conn[c].queue) : TRUE
    BY <1>5, SpotsIs DEF In
  <2>2. c \in Conns /\ <<"queue", c, i>> \in InConn(p, c)
    BY <1>5, <2>1 DEF In, InConn
  <2>3. <<"queue", c, i>> \in Places(p)
    BY <2>2 DEF Places
  <2> QED
    BY <2>3
<1>6. CASE w = "heard"
  <2>1. 1 \in 1..heard[p]
    BY <1>6, LinkTypes DEF In
  <2>2. <<"heard", 0, 1>> \in Places(p)
    BY <2>1 DEF Places
  <2> QED
    BY <2>2
<1> QED
  BY <1>1, <1>2, <1>3, <1>4, <1>5, <1>6 DEF In

LEMMA ApartHanded == ASSUME Right, Apart PROVE HandedOnce
<1> SUFFICES ASSUME NEW p \in Packets, NEW x \in Places(p), NEW y \in Places(p) PROVE x = y
  BY DEF HandedOnce
<1>1. In(x[1], x[2], p) /\ In(y[1], y[2], p)
  BY PlaceIs DEF Apart
<1>2. x[1] = y[1] /\ x[2] = y[2]
  BY <1>1 DEF Apart, Located, OnlyOne
<1>3. x = <<x[1], x[2], x[3]>> /\ y = <<y[1], y[2], y[3]>> /\ x[3] = y[3]
  BY <1>2, PlaceIs DEF Apart
<1> QED
  BY <1>2, <1>3

LEMMA ApartLost == ASSUME Right, Apart PROVE OneSilentLoss
<1> SUFFICES ASSUME ~over, NEW p \in 1..sent, Places(p) = {} PROVE p \in spilt \/ Stranded(p)
  BY DEF OneSilentLoss
<1>1. p \in Packets /\ p \in Nat /\ sent \in Nat /\ ~(p > sent)
  BY Sizes DEF Right, Typed, SomePacket, Packets
<1>2. Nowhere(p)
  BY <1>1, InPlaces DEF Nowhere
<1>3. Off(p)
  BY <1>1, <1>2 DEF Apart, Located
<1> QED
  BY <1>3 DEF Off, Adrift, Has, Stranded, ToSet

(* No packet is in two places, nor twice in one, and none reaches the       *)
(* service twice, however often it is buffered, replayed, refused and put   *)
(* back (flushBufferedAudio).                                               *)
THEOREM HeardOnce == Spec => []HandedOnce
BY ApartAlways, ApartHanded, PTL

(* A packet that is nowhere was given up where the code knows of it, or was *)
(* accepted by SendAudio into the queue of a closing connection whose       *)
(* sender had ended: the one silent loss. A full queue, a replay and a      *)
(* reconnect lose nothing.                                                  *)
THEOREM OnlyOneSilentLoss == Spec => []OneSilentLoss
BY ApartAlways, ApartLost, PTL

(* What an open connection is, in each phase of the reconnect: its results  *)
(* are read, or its receiver will close it or has missed its loss; the      *)
(* reconnect will close it; or it is the new one.                           *)
Attended(c) ==
    \/ c = link.remote /\ conn[c].recv \in {"reading", "detach", "missed"}
    \/ conn[c].recv = "clear"
Expects(c) ==
    /\ recon.pc \in {"idle", "done"} => Attended(c)
    /\ recon.pc = "begin" =>
         Attended(c) \/ (c = link.remote /\ conn[c].recv \in {"reconnecting", "ended"})
    /\ recon.pc = "close" => c = recon.own \/ conn[c].recv = "clear"
    /\ recon.pc \in {"dial", "failed"} => conn[c].recv = "clear"
    /\ recon.pc \in {"config", "drop"} => c = recon.new /\ conn[c].recv \in {"off", "clear"}
    /\ recon.pc \in {"store", "ready", "receive", "done"} => c = recon.new
    /\ recon.pc \in {"ready", "receive"} => c = link.remote

(* The connection manager knows every connection that is not closed; a      *)
(* receiver that is about to close one, has one replaced or leaves one to   *)
(* a reconnect has seen it lost; a receiver waits for the reconnect it      *)
(* began; nobody reads a new connection before it is stored.                *)
Known == \A c \in Conns : conn[c].st \in {"open", "stopping"} => c = listed
Bereft == \A c \in Conns :
    conn[c].recv \in {"reconnecting", "detach", "clear", "missed"} =>
        conn[c].peer # "up" \/ conn[c].st = "closed"
Foreseen == \A c \in Conns : conn[c].st = "open" => Expects(c)
Waits == ~Free /\ recon.by = "receiver" => conn[recon.of].recv = "reconnecting"
Unread == recon.pc \in {"store", "ready", "receive"} => conn[recon.new].recv = "off"
Single == Known /\ Bereft /\ Foreseen /\ Waits /\ Unread

(* A connection only gets worse. *)
Worse(k, c) ==
    /\ k.st = "open" => conn[c].st = "open"
    /\ k.st = "stopping" => conn[c].st \in {"open", "stopping"}
    /\ conn[c].st = "closed" => k.st = "closed"
    /\ conn[c].peer # "up" => k.peer # "up"
Worn == \A c \in Conns : Worse(conn'[c], c)

LEMMA WornSame == UNCHANGED conn => Worn
BY DEF Worn, Worse

LEMMA WornStep ==
    ASSUME Right, NEW c \in Conns, NEW k, conn' = [conn EXCEPT ![c] = k], Worse(k, c)
    PROVE  /\ Worn /\ conn'[c] = k /\ \A d \in Conns : d # c => conn'[d] = conn[d]
BY DEF Worn, Worse, Right, Typed

LEMMA StoppingWorse == ASSUME Right, NEW c \in Conns PROVE Worse(Stopping(conn[c]), c)
<1>1. PICK k : k = Stopping(conn[c])
  OBVIOUS
<1>2. k.st = (IF conn[c].st = "open" THEN "stopping" ELSE conn[c].st) /\ k.peer = conn[c].peer
  BY <1>1, ConnTypes, StoppingType
<1> QED
  BY <1>1, <1>2 DEF Worse

(* What a step that makes no connection has to show. *)
LEMMA SingleParts ==
    ASSUME Single, Worn, UNCHANGED listed, Foreseen', Waits', Unread',
           \A c \in Conns : conn'[c].recv \in {"reconnecting", "detach", "clear", "missed"} =>
             \/ conn[c].recv \in {"reconnecting", "detach", "clear", "missed"}
             \/ conn'[c].peer # "up" \/ conn'[c].st = "closed"
    PROVE  Single'
<1>1. Known'
  BY DEF Single, Known, Worn, Worse
<1>2. Bereft'
  BY DEF Single, Bereft, Worn, Worse
<1> QED
  BY <1>1, <1>2 DEF Single

(* A step that leaves receivers and reconnect alone. *)
LEMMA QuietSingle ==
    ASSUME Right, Single, Worn, UNCHANGED <<listed, recon>>, link'.remote = link.remote,
           \A c \in Conns : conn'[c].recv = conn[c].recv
    PROVE  Single'
<1>1. Foreseen'
  BY DEF Single, Foreseen, Expects, Attended, Worn, Worse
<1>2. Waits' /\ Unread'
  BY ReconTypes DEF Single, Waits, Unread, Free
<1> QED
  BY <1>1, <1>2, SingleParts

LEMMA QuietStep ==
    ASSUME Right, Single, UNCHANGED <<listed, recon>>, link'.remote = link.remote,
           NEW c \in Conns, NEW k, conn' = [conn EXCEPT ![c] = k], Worse(k, c), k.recv = conn[c].recv
    PROVE  Single'
<1>1. Worn /\ \A d \in Conns : conn'[d].recv = conn[d].recv
  BY WornStep
<1> QED
  BY <1>1, QuietSingle

LEMMA QuietSame ==
    ASSUME Right, Single, UNCHANGED <<listed, recon, conn>>, link'.remote = link.remote
    PROVE  Single'
BY WornSame, QuietSingle

LEMMA QuietClose ==
    ASSUME Right, Single, NEW c \in SomeConn, Close(c), UNCHANGED <<listed, recon>>, link'.remote = link.remote
    PROVE  Single'
<1>1. CASE c = 0
  BY <1>1, QuietSame DEF Close
<1>2. CASE c # 0
  <2>1. c \in Conns /\ conn' = [conn EXCEPT ![c] = Stopping(conn[c])]
    BY <1>2, Sizes DEF Close
  <2>2. PICK k : k = Stopping(conn[c])
    OBVIOUS
  <2>3. Worse(k, c) /\ k.recv = conn[c].recv
    BY <2>1, <2>2, ConnTypes, StoppingType, StoppingWorse
  <2> QED
    BY <2>1, <2>2, <2>3, QuietStep
<1> QED
  BY <1>1, <1>2

LEMMA EnqueueSingle ==
    ASSUME Right, Single, NEW c \in Conns, NEW p, Enqueue(c, p), UNCHANGED <<listed, recon, link>>
    PROVE  Single'
<1>1. PICK k : k = [conn[c] EXCEPT !.queue = Append(@, p)]
  OBVIOUS
<1>2. Worse(k, c) /\ k.recv = conn[c].recv
  BY <1>1, ConnTypes DEF ConnType, Worse
<1> QED
  BY <1>1, <1>2, QuietStep DEF Enqueue

LEMMA ReaderSingle ==
    ASSUME Right, Single, Arrive \/ Pick \/ Buffer \/ Put \/ Sent \/ Expire PROVE Single'
<1>1. CASE Arrive \/ Pick \/ Buffer \/ Expire
  BY <1>1, QuietSame DEF Arrive, Pick, Buffer, Expire
<1>2. CASE Put
  <2>1. UNCHANGED <<listed, recon, link>> /\ reader.c \in Conns
    BY <1>2, ReaderTypes DEF Put
  <2>2. UNCHANGED conn \/ Enqueue(reader.c, reader.p)
    BY <1>2 DEF Put
  <2> QED
    BY <2>1, <2>2, QuietSame, EnqueueSingle
<1>3. CASE Sent
  <2>1. UNCHANGED <<listed, recon, conn>> /\ link'.remote = link.remote
    BY <1>3, LinkTypes DEF Sent, LinkType
  <2> QED
    BY <2>1, QuietSame
<1> QED
  BY <1>1, <1>2, <1>3

LEMMA FailedSingle == ASSUME Right, Single, Failed PROVE Single'
<1>1. UNCHANGED <<listed, conn>> /\ link'.remote = link.remote
  BY LinkTypes DEF Failed, LinkType
<1>2. CASE UNCHANGED recon
  BY <1>1, <1>2, QuietSame
<1>3. CASE Free /\ Begin("audio", reader.c)
  <2>1. recon.pc = "idle" /\ recon'.pc = "begin" /\ recon'.by = "audio"
    BY <1>3 DEF Free, Begin, NoRecon
  <2>2. Foreseen'
    BY <1>1, <2>1 DEF Single, Foreseen, Expects, Attended
  <2>3. Waits' /\ Unread'
    BY <2>1 DEF Waits, Unread
  <2> QED
    BY <1>1, <2>2, <2>3, WornSame, SingleParts
<1> QED
  BY <1>2, <1>3 DEF Failed

LEMMA FlushSingle == ASSUME Right, Single, Flush PROVE Single'
<1>1. UNCHANGED <<listed, recon, link>>
  BY DEF Flush, Drain, Check, Replay, Pause
<1>2. CASE UNCHANGED conn
  BY <1>1, <1>2, QuietSame
<1>3. CASE flush.pc = "put" /\ Enqueue(flush.c, Head(flush.batch))
  BY <1>1, <1>3, FlushTypes, EnqueueSingle
<1> QED
  BY <1>2, <1>3 DEF Flush, Drain, Check, Replay, Pause

LEMMA SenderSingle ==
    ASSUME Right, Single, NEW c \in Conns, SenderOf(c) \/ Closed(c) \/ Lose(c) PROVE Single'
<1>1. UNCHANGED <<listed, recon, link>>
  BY DEF SenderOf, Take, Write, WriteFails, SenderEnds, Closed, Lose
<1>2. \E k : conn' = [conn EXCEPT ![c] = k] /\ Worse(k, c) /\ k.recv = conn[c].recv
  <2>1. conn[c] \in ConnType
    BY ConnTypes
  <2>2. CASE Take(c)
    <3>1. PICK k : k = [conn[c] EXCEPT !.hand = Head(conn[c].queue), !.queue = Tail(@)]
      OBVIOUS
    <3>2. conn' = [conn EXCEPT ![c] = k]
      BY <2>2, <3>1 DEF Take, Right, Typed
    <3>3. Worse(k, c) /\ k.recv = conn[c].recv
      BY <2>1, <3>1 DEF ConnType, Worse
    <3> QED
      BY <3>2, <3>3
  <2>3. CASE Write(c)
    <3>1. PICK k : k = [conn[c] EXCEPT !.hand = 0]
      OBVIOUS
    <3>2. conn' = [conn EXCEPT ![c] = k]
      BY <2>3, <3>1 DEF Write
    <3>3. Worse(k, c) /\ k.recv = conn[c].recv
      BY <2>1, <3>1 DEF ConnType, Worse
    <3> QED
      BY <3>2, <3>3
  <2>4. CASE WriteFails(c)
    <3>1. PICK m : m = Stopping(conn[c])
      OBVIOUS
    <3>2. m \in ConnType /\ Worse(m, c) /\ m.recv = conn[c].recv
      BY <3>1, ConnTypes, StoppingType, StoppingWorse
    <3>3. PICK k : k = [m EXCEPT !.hand = 0, !.sender = "done"]
      OBVIOUS
    <3>4. Worse(k, c) /\ k.recv = conn[c].recv
      BY <3>2, <3>3 DEF ConnType, Worse
    <3>5. conn' = [conn EXCEPT ![c] = k]
      BY <2>4, <3>1, <3>3 DEF WriteFails
    <3> QED
      BY <3>4, <3>5
  <2>5. CASE SenderEnds(c)
    <3>1. PICK k : k = [conn[c] EXCEPT !.sender = "done"]
      OBVIOUS
    <3>2. conn' = [conn EXCEPT ![c] = k]
      BY <2>5, <3>1 DEF SenderEnds
    <3>3. Worse(k, c) /\ k.recv = conn[c].recv
      BY <2>1, <3>1 DEF ConnType, Worse
    <3> QED
      BY <3>2, <3>3
  <2>6. CASE Closed(c)
    <3>1. PICK k : k = [conn[c] EXCEPT !.st = "closed"]
      OBVIOUS
    <3>2. conn' = [conn EXCEPT ![c] = k]
      BY <2>6, <3>1 DEF Closed
    <3>3. Worse(k, c) /\ k.recv = conn[c].recv
      BY <2>1, <3>1 DEF ConnType, Worse
    <3> QED
      BY <3>2, <3>3
  <2>7. CASE Lose(c)
    <3>1. PICK p \in {"broken", "bye"} : conn' = [conn EXCEPT ![c].peer = p]
      BY <2>7 DEF Lose
    <3>2. PICK k : k = [conn[c] EXCEPT !.peer = p]
      OBVIOUS
    <3>3. Worse(k, c) /\ k.recv = conn[c].recv
      BY <2>1, <3>2 DEF ConnType, Worse
    <3> QED
      BY <3>1, <3>2, <3>3
  <2> QED
    BY <2>2, <2>3, <2>4, <2>5, <2>6, <2>7 DEF SenderOf
<1> QED
  BY <1>1, <1>2, QuietStep

(* A receiver *)
LEMMA RecvStep ==
    ASSUME Right, NEW c \in Conns, NEW r, conn' = [conn EXCEPT ![c].recv = r]
    PROVE  /\ Worn /\ conn'[c].recv = r /\ \A d \in Conns : d # c => conn'[d] = conn[d]
           /\ conn'[c].st = conn[c].st /\ conn'[c].peer = conn[c].peer
<1>1. PICK k : k = [conn[c] EXCEPT !.recv = r]
  OBVIOUS
<1>2. k.recv = r /\ k.st = conn[c].st /\ k.peer = conn[c].peer
  BY <1>1, ConnTypes DEF ConnType
<1>3. Worse(k, c)
  BY <1>2 DEF Worse
<1> QED
  BY <1>1, <1>2, <1>3, WornStep

LEMMA ReadFailsSingle == ASSUME Right, Single, NEW c \in Conns, ReadFails(c) PROVE Single'
<1>1. UNCHANGED <<listed, link>> /\ conn[c].recv = "reading" /\ conn[c] \in ConnType
  BY ConnTypes DEF ReadFails
<1>2. CASE Expected(c) /\ conn' = [conn EXCEPT ![c].recv = "detach"] /\ UNCHANGED recon
  <2>1. /\ Worn /\ conn'[c].recv = "detach" /\ \A d \in Conns : d # c => conn'[d] = conn[d]
        /\ conn'[c].st = conn[c].st /\ conn'[c].peer = conn[c].peer
    BY <1>2, RecvStep
  <2>2. conn'[c].peer # "up" \/ conn'[c].st = "closed"
    BY <1>2, <2>1 DEF Expected
  <2>3. Foreseen'
    BY <1>1, <1>2, <2>1 DEF Single, Foreseen, Expects, Attended
  <2>4. Waits' /\ Unread'
    BY <1>1, <1>2, <2>1, ReconTypes DEF Single, Waits, Unread, Free
  <2> QED
    BY <1>1, <2>1, <2>2, <2>3, <2>4, SingleParts
<1>3. CASE Unexpected(c) /\ Free /\ Begin("receiver", c) /\ conn' = [conn EXCEPT ![c].recv = "reconnecting"]
  <2>1. /\ Worn /\ conn'[c].recv = "reconnecting" /\ \A d \in Conns : d # c => conn'[d] = conn[d]
        /\ conn'[c].st = conn[c].st /\ conn'[c].peer = conn[c].peer
    BY <1>3, RecvStep
  <2>2. conn'[c].peer # "up" \/ conn'[c].st = "closed"
    BY <1>3, <2>1 DEF Unexpected
  <2>3. recon.pc = "idle" /\ recon'.pc = "begin" /\ recon'.of = c
    BY <1>3 DEF Free, Begin, NoRecon
  <2>4. Foreseen'
    BY <1>1, <2>1, <2>3 DEF Single, Foreseen, Expects, Attended
  <2>5. Waits' /\ Unread'
    BY <2>1, <2>3 DEF Waits, Unread
  <2> QED
    BY <1>1, <2>1, <2>2, <2>4, <2>5, SingleParts
<1>4. CASE Unexpected(c) /\ ~Free /\ UNCHANGED recon /\ conn' = [conn EXCEPT ![c].recv = IF c = recon.new THEN "missed" ELSE "ended"]
  <2>1. /\ Worn /\ conn'[c].recv = (IF c = recon.new THEN "missed" ELSE "ended")
        /\ \A d \in Conns : d # c => conn'[d] = conn[d]
        /\ conn'[c].st = conn[c].st /\ conn'[c].peer = conn[c].peer
    <3>1. PICK r : r = IF c = recon.new THEN "missed" ELSE "ended"
      OBVIOUS
    <3>2. conn' = [conn EXCEPT ![c].recv = r]
      BY <1>4, <3>1
    <3>3. /\ Worn /\ conn'[c].recv = r /\ \A d \in Conns : d # c => conn'[d] = conn[d]
          /\ conn'[c].st = conn[c].st /\ conn'[c].peer = conn[c].peer
      BY <3>2, RecvStep
    <3> QED
      BY <3>1, <3>3
  <2>2. recon.pc = "done" /\ conn[c].st = "open" => c = recon.new
    BY <1>1 DEF Single, Foreseen, Expects, Attended
  <2>3. Foreseen'
    BY <1>1, <1>4, <2>1, <2>2 DEF Single, Foreseen, Expects, Attended, Free
  <2>4. Waits' /\ Unread'
    BY <1>1, <1>4, <2>1, ReconTypes DEF Single, Waits, Unread, Free
  <2>5. conn'[c].peer # "up" \/ conn'[c].st = "closed"
    BY <1>4, <2>1 DEF Unexpected
  <2> QED
    BY <1>1, <2>1, <2>3, <2>4, <2>5, SingleParts
<1> QED
  BY <1>2, <1>3, <1>4 DEF ReadFails

LEMMA DetachSingle == ASSUME Right, Single, NEW c \in Conns, Detach(c) PROVE Single'
<1>1. /\ UNCHANGED <<listed, recon>> /\ conn[c].recv = "detach" /\ conn' = [conn EXCEPT ![c].recv = "clear"]
      /\ link' = Without(c)
  BY DEF Detach
<1>2. /\ Worn /\ conn'[c].recv = "clear" /\ \A d \in Conns : d # c => conn'[d] = conn[d]
      /\ conn'[c].st = conn[c].st /\ conn'[c].peer = conn[c].peer
  BY <1>1, RecvStep
<1>3. link'.remote = IF link.remote = c THEN 0 ELSE link.remote
  BY <1>1, LinkTypes DEF Without, LinkType
<1>4. recon.pc \in {"config", "drop", "store", "ready", "receive"} /\ conn[c].st = "open" => FALSE
  BY <1>1 DEF Single, Foreseen, Expects, Unread
<1>5. Foreseen'
  BY <1>1, <1>2, <1>3, <1>4 DEF Single, Foreseen, Expects, Attended
<1>6. Waits' /\ Unread'
  BY <1>1, <1>2, ReconTypes DEF Single, Waits, Unread, Free
<1> QED
  BY <1>1, <1>2, <1>5, <1>6, SingleParts

LEMMA ClearSingle == ASSUME Right, Single, NEW c \in Conns, Clear(c) PROVE Single'
<1>1. /\ UNCHANGED <<listed, recon>> /\ conn[c].recv = "clear"
      /\ conn' = [conn EXCEPT ![c] = [Stopping(conn[c]) EXCEPT !.recv = "ended"]] /\ link' = Deaf(link)
  BY DEF Clear
<1>2. PICK m : m = Stopping(conn[c])
  OBVIOUS
<1>3. m \in ConnType /\ Worse(m, c) /\ m.st # "open"
  BY <1>2, ConnTypes, StoppingType, StoppingWorse
<1>4. PICK k : k = [m EXCEPT !.recv = "ended"]
  OBVIOUS
<1>5. Worse(k, c) /\ k.recv = "ended" /\ k.st # "open"
  BY <1>3, <1>4 DEF ConnType, Worse
<1>6. Worn /\ conn'[c] = k /\ \A d \in Conns : d # c => conn'[d] = conn[d]
  BY <1>1, <1>2, <1>4, <1>5, WornStep
<1>7. link'.remote = link.remote
  BY <1>1, LinkTypes DEF Deaf, LinkType
<1>8. Foreseen'
  BY <1>1, <1>5, <1>6, <1>7 DEF Single, Foreseen, Expects, Attended
<1>9. Waits' /\ Unread'
  BY <1>1, <1>6, ReconTypes DEF Single, Waits, Unread, Free
<1> QED
  BY <1>1, <1>5, <1>6, <1>8, <1>9, SingleParts

(* The reconnect.  Most of its steps only go on to the next one.            *)
LEMMA GotoIs ==
    ASSUME Right, NEW p, Goto(p)
    PROVE  /\ recon'.pc = p /\ recon'.by = recon.by /\ recon'.of = recon.of
           /\ recon'.own = recon.own /\ recon'.new = recon.new
BY ReconTypes DEF Goto, ReconType

LEMMA StepOn ==
    ASSUME Right, Single, UNCHANGED <<conn, listed>>, recon.pc # "idle",
           recon'.by = recon.by, recon'.of = recon.of, Foreseen', Unread'
    PROVE  Single'
<1>1. Waits'
  BY DEF Single, Waits, Free
<1> QED
  BY <1>1, WornSame, SingleParts

LEMMA BeginReconSingle == ASSUME Right, Single, BeginRecon PROVE Single'
<1>1. /\ UNCHANGED <<conn, listed>> /\ recon.pc = "begin" /\ recon'.pc = "close" /\ recon'.by = recon.by
      /\ recon'.of = recon.of /\ recon'.own = link.remote
  BY ReconTypes DEF BeginRecon, At, ReconType
<1>2. Foreseen' /\ Unread'
  BY <1>1 DEF Single, Foreseen, Expects, Attended, Unread
<1> QED
  BY <1>1, <1>2, StepOn

LEMMA CloseOwnSingle == ASSUME Right, Single, CloseOwn PROVE Single'
<1>1. UNCHANGED <<listed, link>> /\ recon.pc = "close"
  BY DEF CloseOwn, At
<1>2. CASE HasClosed(recon.own) /\ Goto("dial") /\ UNCHANGED conn
  <2>1. recon'.pc = "dial" /\ recon'.by = recon.by /\ recon'.of = recon.of
    BY <1>2, GotoIs
  <2>2. Foreseen' /\ Unread'
    BY <1>1, <1>2, <2>1 DEF Single, Foreseen, Expects, Unread, HasClosed
  <2> QED
    BY <1>1, <1>2, <2>1, <2>2, StepOn
<1>3. CASE Close(recon.own) /\ UNCHANGED recon
  BY <1>1, <1>3, ReconTypes, QuietClose
<1> QED
  BY <1>2, <1>3 DEF CloseOwn

LEMMA AgainIs ==
    ASSUME Right, recon' = AgainFrom(recon)
    PROVE  recon'.pc = "dial" /\ recon'.by = recon.by /\ recon'.of = recon.of
BY ReconTypes DEF AgainFrom, ReconType

LEMMA DialSingle == ASSUME Right, Single, Dial PROVE Single'
<1>1. UNCHANGED link /\ recon.pc = "dial"
  BY DEF Dial, At
<1>2. CASE recon' = [recon EXCEPT !.pc = "config", !.new = listed] /\ UNCHANGED <<conn, listed>>
  <2>1. recon'.pc = "config" /\ recon'.by = recon.by /\ recon'.of = recon.of /\ recon'.new = listed
    BY <1>2, ReconTypes DEF ReconType
  <2>2. Foreseen' /\ Unread'
    BY <1>1, <1>2, <2>1 DEF Single, Known, Foreseen, Expects, Unread
  <2> QED
    BY <1>1, <1>2, <2>1, <2>2, StepOn
<1>3. CASE recon' = AgainFrom(recon) /\ UNCHANGED <<conn, listed>>
  <2>1. Foreseen' /\ Unread'
    BY <1>1, <1>3, AgainIs DEF Single, Foreseen, Expects, Unread
  <2> QED
    BY <1>1, <1>3, <2>1, AgainIs, StepOn
<1>4. ASSUME HasClosed(listed), NEW c \in Fresh, conn' = [conn EXCEPT ![c] = Opened], listed' = c,
             recon' = [recon EXCEPT !.pc = "config", !.new = c]
      PROVE  Single'
  <2>1. /\ recon'.pc = "config" /\ recon'.by = recon.by /\ recon'.of = recon.of /\ recon'.new = c
    BY <1>4, ReconTypes DEF ReconType
  <2>2. /\ c \in Conns /\ conn[c] = Unused /\ conn[c].st = "none" /\ conn[c].recv = "off"
        /\ conn'[c] = Opened /\ \A d \in Conns : d # c => conn'[d] = conn[d]
    BY <1>4, ConnTypes DEF Fresh, Unused, Right, Typed
  <2>3. Opened.st = "open" /\ Opened.recv = "off"
    BY UnusedType
  <2>4. \A d \in Conns : conn[d].st \notin {"open", "stopping"}
    BY <1>4 DEF Single, Known, HasClosed
  <2>5. Known' /\ Foreseen'
    BY <1>4, <2>1, <2>2, <2>3, <2>4 DEF Known, Foreseen, Expects
  <2>6. Bereft'
    BY <2>2, <2>3 DEF Single, Bereft
  <2>7. Waits' /\ Unread'
    <3>1. recon.of \in Conns /\ conn[recon.of].st # "none"
      BY <1>1, ReconTypes
    <3>2. conn'[recon.of] = conn[recon.of]
      BY <2>2, <3>1
    <3> QED
      BY <1>1, <2>1, <3>2 DEF Single, Waits, Unread, Free
  <2> QED
    BY <2>5, <2>6, <2>7 DEF Single
<1> QED
  BY <1>2, <1>3, <1>4, FirstFresh DEF Dial

LEMMA GiveUpSingle == ASSUME Right, Single, GiveUp PROVE Single'
<1>1. /\ UNCHANGED <<conn, listed, link>> /\ recon.pc = "dial" /\ recon'.pc = "failed"
      /\ recon'.by = recon.by /\ recon'.of = recon.of
  BY GotoIs DEF GiveUp, At
<1>2. Foreseen' /\ Unread'
  BY <1>1 DEF Single, Foreseen, Expects, Unread
<1> QED
  BY <1>1, <1>2, StepOn

LEMMA ConfigSingle == ASSUME Right, Single, Config PROVE Single'
<1>1. UNCHANGED <<conn, listed, link>> /\ recon.pc = "config"
  BY DEF Config, At
<1>2. CASE Accepts(recon.new) /\ conn[recon.new].peer = "up" /\ Goto("store")
  <2>1. /\ recon'.pc = "store" /\ recon'.by = recon.by /\ recon'.of = recon.of /\ recon'.new = recon.new
        /\ recon.new \in Conns
    BY <1>1, <1>2, GotoIs, ReconTypes
  <2>2. conn[recon.new].recv = "off"
    BY <1>1, <1>2, <2>1 DEF Single, Foreseen, Expects, Bereft, Accepts
  <2>3. Foreseen' /\ Unread'
    BY <1>1, <2>1, <2>2 DEF Single, Foreseen, Expects, Unread
  <2> QED
    BY <1>1, <2>1, <2>3, StepOn
<1>3. CASE Goto("drop")
  <2>1. recon'.pc = "drop" /\ recon'.by = recon.by /\ recon'.of = recon.of /\ recon'.new = recon.new
    BY <1>3, GotoIs
  <2>2. Foreseen' /\ Unread'
    BY <1>1, <2>1 DEF Single, Foreseen, Expects, Unread
  <2> QED
    BY <1>1, <2>1, <2>2, StepOn
<1> QED
  BY <1>2, <1>3 DEF Config

LEMMA DropNewSingle == ASSUME Right, Single, DropNew PROVE Single'
<1>1. UNCHANGED <<listed, link>> /\ recon.pc = "drop"
  BY DEF DropNew, At
<1>2. CASE HasClosed(recon.new) /\ recon' = AgainFrom(recon) /\ UNCHANGED conn
  <2>1. Foreseen' /\ Unread'
    BY <1>1, <1>2, AgainIs DEF Single, Foreseen, Expects, Unread, HasClosed
  <2> QED
    BY <1>1, <1>2, <2>1, AgainIs, StepOn
<1>3. CASE Close(recon.new) /\ UNCHANGED recon
  BY <1>1, <1>3, ReconTypes, QuietClose
<1> QED
  BY <1>2, <1>3 DEF DropNew

LEMMA StoreReadySingle == ASSUME Right, Single, Store \/ Ready PROVE Single'
<1>1. UNCHANGED <<conn, listed>> /\ recon.pc \in {"store", "ready"}
  BY DEF Store, Ready, At
<1>2. CASE Store
  <2>1. recon.pc = "store" /\ recon'.pc = "ready" /\ recon'.by = recon.by /\ recon'.of = recon.of /\ recon'.new = recon.new
    BY <1>2, GotoIs DEF Store, At
  <2>2. link'.remote = recon.new
    BY <1>2, LinkTypes DEF Store, LinkType
  <2>3. Foreseen' /\ Unread'
    BY <1>1, <2>1, <2>2 DEF Single, Foreseen, Expects, Unread
  <2> QED
    BY <1>1, <2>1, <2>3, StepOn
<1>3. CASE Ready
  <2>1. recon.pc = "ready" /\ recon'.pc = "receive" /\ recon'.by = recon.by /\ recon'.of = recon.of /\ recon'.new = recon.new
    BY <1>3, GotoIs DEF Ready, At
  <2>2. link'.remote = link.remote
    BY <1>3, LinkTypes DEF Ready, Flags, LinkType
  <2>3. Foreseen' /\ Unread'
    BY <1>1, <2>1, <2>2 DEF Single, Foreseen, Expects, Unread
  <2> QED
    BY <1>1, <2>1, <2>3, StepOn
<1> QED
  BY <1>2, <1>3

LEMMA ReceiveSingle == ASSUME Right, Single, Receive PROVE Single'
<1>1. /\ UNCHANGED <<listed, link>> /\ recon.pc = "receive" /\ recon.new \in Conns /\ recon'.pc = "done"
      /\ recon'.by = recon.by /\ recon'.of = recon.of /\ recon'.new = recon.new
      /\ conn' = [conn EXCEPT ![recon.new].recv = "reading"]
  BY GotoIs, ReconTypes DEF Receive, At
<1>2. Worn /\ conn'[recon.new].recv = "reading" /\ \A d \in Conns : d # recon.new => conn'[d] = conn[d]
  BY <1>1, RecvStep
<1>3. conn[recon.new].recv = "off"
  BY <1>1 DEF Single, Unread
<1>4. Foreseen'
  BY <1>1, <1>2 DEF Single, Foreseen, Expects, Attended, Worn, Worse
<1>5. Waits' /\ Unread'
  <2>1. recon.of \in Conns
    BY <1>1, ReconTypes
  <2> QED
    BY <1>1, <1>2, <1>3, <2>1 DEF Single, Waits, Unread, Free
<1> QED
  BY <1>1, <1>2, <1>4, <1>5, SingleParts

LEMMA DoneSingle == ASSUME Right, Single, Done PROVE Single'
<1>1. /\ UNCHANGED listed /\ recon.pc = "done" /\ recon'.pc = "idle" /\ recon.of \in Conns
      /\ conn' = [conn EXCEPT ![recon.of] = Released(conn[recon.of])]
  BY ReconTypes DEF Done, At, Ended, NoRecon
<1>2. link'.remote = link.remote
  BY LinkTypes DEF Done, LinkType
<1>3. PICK k : k = Released(conn[recon.of])
  OBVIOUS
<1>4. Worse(k, recon.of) /\ k.st # "open" /\ k.recv \in {conn[recon.of].recv, "ended"}
  BY <1>1, <1>3, ConnTypes, ReleasedType DEF Worse
<1>5. Worn /\ conn'[recon.of] = k /\ \A d \in Conns : d # recon.of => conn'[d] = conn[d]
  BY <1>1, <1>3, <1>4, WornStep
<1>6. Foreseen'
  BY <1>1, <1>2, <1>4, <1>5 DEF Single, Foreseen, Expects, Attended
<1>7. Waits' /\ Unread'
  BY <1>1 DEF Waits, Unread, Free
<1> QED
  BY <1>1, <1>4, <1>5, <1>6, <1>7, SingleParts

LEMMA FailsSingle == ASSUME Right, Single, Fails PROVE Single'
<1>1. /\ UNCHANGED listed /\ recon.pc = "failed" /\ recon'.pc = "idle" /\ recon.of \in Conns
  BY ReconTypes DEF Fails, At, NoRecon
<1>2. Waits' /\ Unread'
  BY <1>1 DEF Waits, Unread, Free
<1>3. \A c \in Conns : conn[c].st = "open" => conn[c].recv = "clear"
  BY <1>1 DEF Single, Foreseen, Expects
<1>4. CASE conn' = [conn EXCEPT ![recon.of] = Stopping(conn[recon.of])]
  <2>1. PICK k : k = Stopping(conn[recon.of])
    OBVIOUS
  <2>2. Worse(k, recon.of) /\ k.st # "open" /\ k.recv = conn[recon.of].recv
    BY <1>1, <2>1, ConnTypes, StoppingType, StoppingWorse
  <2>3. Worn /\ conn'[recon.of] = k /\ \A d \in Conns : d # recon.of => conn'[d] = conn[d]
    BY <1>1, <1>4, <2>1, <2>2, WornStep
  <2>4. Foreseen'
    BY <1>1, <1>3, <2>2, <2>3 DEF Foreseen, Expects, Attended
  <2> QED
    BY <1>1, <1>2, <2>2, <2>3, <2>4, SingleParts
<1>5. CASE recon.by = "receiver" /\ conn' = [conn EXCEPT ![recon.of].recv = "detach"]
  <2>1. /\ Worn /\ conn'[recon.of].recv = "detach" /\ \A d \in Conns : d # recon.of => conn'[d] = conn[d]
        /\ conn'[recon.of].st = conn[recon.of].st
    BY <1>1, <1>5, RecvStep
  <2>2. conn[recon.of].recv = "reconnecting"
    BY <1>1, <1>5 DEF Single, Waits, Free
  <2>3. Foreseen'
    BY <1>1, <1>3, <2>1, <2>2 DEF Foreseen, Expects, Attended
  <2> QED
    BY <1>1, <1>2, <2>1, <2>2, <2>3, SingleParts
<1>6. recon.by \in {"audio", "receiver"}
  BY ReconTypes DEF ReconType
<1> QED
  BY <1>4, <1>5, <1>6 DEF Fails

LEMMA InitSingle == Init => Single
<1> SUFFICES ASSUME Init PROVE Single
  OBVIOUS
<1>1. recon.pc = "idle" /\ listed = 1 /\ link.remote = 1
  BY DEF Init, NoRecon
<1>2. /\ conn[1].st = "open" /\ conn[1].recv = "reading"
      /\ \A c \in Conns : c # 1 => conn[c].st = "none" /\ conn[c].recv = "off"
  BY Sizes, UnusedType DEF Init, Opened, Unused
<1> QED
  BY <1>1, <1>2 DEF Single, Known, Bereft, Foreseen, Expects, Attended, Waits, Unread, Free

LEMMA NextSingle == ASSUME Right, Single, [Next]_vars PROVE Single'
<1>1. CASE UNCHANGED vars
  BY <1>1, QuietSame DEF vars
<1>2. CASE Arrive \/ Reader \/ Expire \/ Flush
  BY <1>2, ReaderSingle, FailedSingle, FlushSingle DEF Reader
<1>3. CASE Reconnect
  BY <1>3, BeginReconSingle, CloseOwnSingle, DialSingle, GiveUpSingle, ConfigSingle, DropNewSingle,
     StoreReadySingle, ReceiveSingle, DoneSingle, FailsSingle DEF Reconnect
<1>4. ASSUME NEW c \in Conns, SenderOf(c) \/ Closed(c) \/ Lose(c) \/ ReceiverOf(c) PROVE Single'
  BY <1>4, SenderSingle, ReadFailsSingle, DetachSingle, ClearSingle DEF ReceiverOf
<1> QED
  BY <1>1, <1>2, <1>3, <1>4 DEF Next

LEMMA SingleAlways == Spec => [](Right /\ Single)
<1>1. Init => Right /\ Single
  BY InitRight, InitSingle
<1>2. Right /\ Single /\ [Next]_vars => Right' /\ Single'
  BY NextRight, NextSingle
<1> QED
  BY <1>1, <1>2, PTL DEF Spec

LEMMA SingleOne == ASSUME Single PROVE OneConnection
<1> DEFINE live == {c \in Conns : conn[c].st = "open"}
<1>1. live \subseteq {listed}
  BY DEF Single, Known
<1>2. Cardinality(live) <= 1
  <2>1. live = {} \/ live = {listed}
    BY <1>1
  <2>2. Cardinality({}) = 0 /\ Cardinality({listed}) = 1
    BY FS_EmptySet, FS_Singleton
  <2> QED
    BY <2>1, <2>2
<1>3. Free => \A c \in live : Attended(c)
  BY DEF Single, Foreseen, Expects, Free
<1>4. \A c \in live : conn[c].peer = "up" => conn[c].recv \notin {"detach", "clear", "missed"}
  BY DEF Single, Bereft
<1> QED
  BY <1>2, <1>3, <1>4 DEF OneConnection, Attended

(* At most one connection is open, and when nobody connects and it has not  *)
(* been lost, it is the session's and its results are read.                 *)
THEOREM OneAtATime == Spec => []OneConnection
BY SingleAlways, SingleOne, PTL
=============================================================================
