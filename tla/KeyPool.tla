------------------------------- MODULE KeyPool -------------------------------
(***************************************************************************)
(* The pool of speech-service API keys: EnterpriseManager of               *)
(* internal/service/enterprise.go, and the remote connections of           *)
(* internal/service/remote_connection.go that take and give back its       *)
(* slots.  Every operation of the manager runs under em.mu, so each is one *)
(* action; a connection calls the manager in several separate steps.       *)
(*                                                                         *)
(* A key is its position in the configuration.  Two configured entries     *)
(* never share a key string here.                                          *)
(***************************************************************************)
EXTENDS Integers, FiniteSets

CONSTANTS
    NumKeys,      \* configured keys
    Attempts,     \* remote connection attempts that run concurrently
    MaxConn,      \* MaxConn[k]: APIKeyConfig.MaxConnections of key k
    Weight,       \* Weight[k]: APIKeyConfig.Weight of key k
    MinSample,    \* requests a key needs before its failure rate counts (10)
    HalveAt,      \* requests above which the counters are halved (1000)
    MaxCount      \* bound of the model on the two counters of a key

Keys == 1..NumKeys
Strategies == {"least_connections", "weighted", "round_robin"}

(* MinSample = 10 and HalveAt = 1000 in the code satisfy this. *)
ASSUME PoolAssumption ==
    /\ NumKeys \in Nat \ {0}
    /\ IsFiniteSet(Attempts)
    /\ MaxConn \in [Keys -> Nat]
    /\ Weight \in [Keys -> Nat]
    /\ MinSample \in Nat /\ MinSample >= 2
    /\ HalveAt \in Nat /\ HalveAt >= 2 * MinSample + 1
    /\ MaxCount \in Nat

VARIABLES
    healthy,      \* IsHealthy of each key
    cur,          \* CurrentConnections
    total,        \* TotalRequests
    failed,       \* FailedRequests
    rank,         \* order of LastUsed: 0 is the key unused for longest
    cursor,       \* rrCursor modulo the number of keys
    strategy,     \* em.strategy, fixed at construction
    phase,        \* what each connection is doing
    key,          \* the key each connection holds (rc.apiKey), 0 for none
    passed        \* history: grants to others since this key was last
                  \* granted or unavailable, counted up to NumKeys

manager == <<healthy, cur, total, failed, rank, cursor, strategy>>
poolVars == <<healthy, cur, total, failed, rank, cursor, strategy, phase, key, passed>>

PoolInit ==
    /\ healthy = [k \in Keys |-> TRUE]
    /\ cur = [k \in Keys |-> 0]
    /\ total = [k \in Keys |-> 0]
    /\ failed = [k \in Keys |-> 0]
    /\ rank = [k \in Keys |-> k - 1]
    /\ cursor = 0
    /\ strategy \in Strategies
    /\ phase = [c \in Attempts |-> "idle"]
    /\ key = [c \in Attempts |-> 0]
    /\ passed = [k \in Keys |-> 0]

-----------------------------------------------------------------------------
(* Selection.  All three strategies skip unhealthy and saturated keys; the  *)
(* first two break ties in favour of the key unused for longest.            *)

Available == {k \in Keys : healthy[k] /\ cur[k] < MaxConn[k]}

SelectLeastConnections(k) ==
    \A j \in Available : \/ cur[k] < cur[j]
                         \/ cur[k] = cur[j] /\ rank[k] <= rank[j]

(* weight / (connections + 1), compared by cross multiplication. *)
SelectWeighted(k) ==
    \A j \in Available :
        LET here  == Weight[k] * (cur[j] + 1)
            there == Weight[j] * (cur[k] + 1)
        IN  here > there \/ (here = there /\ rank[k] <= rank[j])

StepsFromCursor(k) == (k - 1 - cursor) % NumKeys

(* Mutant: every scan starts at the first key. *)
SelectRoundRobin_FromFirst(k) == \A j \in Available : k <= j

SelectRoundRobin(k) ==
    \A j \in Available : StepsFromCursor(k) <= StepsFromCursor(j)

Selected(k) ==
    /\ k \in Available
    /\ \/ strategy = "least_connections" /\ SelectLeastConnections(k)
       \/ strategy = "weighted" /\ SelectWeighted(k)
       \/ strategy = "round_robin" /\ SelectRoundRobin(k)

MoveToBack(k) ==
    [j \in Keys |-> CASE j = k             -> NumKeys - 1
                      [] rank[j] > rank[k] -> rank[j] - 1
                      [] OTHER             -> rank[j]]

CountPassed(k) ==
    [j \in Keys |-> IF j = k \/ j \notin Available THEN 0
                    ELSE IF passed[j] < NumKeys THEN passed[j] + 1 ELSE passed[j]]

(* A connection attempt takes a slot; without a usable key the attempt     *)
(* fails with ErrNoAvailableAPIKey and nothing changes.                     *)
GetAPIKey(c) ==
    /\ phase[c] = "idle"
    /\ \E k \in Keys :
        /\ Selected(k)
        /\ total[k] < MaxCount
        /\ cur' = [cur EXCEPT ![k] = @ + 1]
        /\ total' = [total EXCEPT ![k] = @ + 1]
        /\ rank' = MoveToBack(k)
        /\ cursor' = IF strategy = "round_robin" THEN k % NumKeys ELSE cursor
        /\ passed' = CountPassed(k)
        /\ key' = [key EXCEPT ![c] = k]
        /\ phase' = [phase EXCEPT ![c] = "dialing"]
    /\ UNCHANGED <<healthy, failed, strategy>>

-----------------------------------------------------------------------------
(* Releases and failures. *)

(* Mutant: the release of a slot is forgotten. *)
GivenBack_Keeps(k) == cur

GivenBack(k) == [cur EXCEPT ![k] = IF @ > 0 THEN @ - 1 ELSE @]

Dialed(c) ==
    /\ phase[c] = "dialing"
    /\ phase' = [phase EXCEPT ![c] = "connected"]
    /\ UNCHANGED <<manager, key, passed>>

(* The dial failed: the slot goes back first ... *)
DialFailed(c) ==
    /\ phase[c] = "dialing"
    /\ cur' = GivenBack(key[c])
    /\ phase' = [phase EXCEPT ![c] = "reporting"]
    /\ UNCHANGED <<healthy, total, failed, rank, cursor, strategy, key, passed>>

RecordFailure(k) ==
    /\ failed[k] < MaxCount
    /\ failed' = [failed EXCEPT ![k] = @ + 1]
    /\ healthy' = [healthy EXCEPT ![k] =
                      @ /\ ~(total[k] > MinSample /\ 2 * failed'[k] > total[k])]

(* ... and the failure is recorded in a second critical section. *)
ReportDialFailure(c) ==
    /\ phase[c] = "reporting"
    /\ RecordFailure(key[c])
    /\ phase' = [phase EXCEPT ![c] = "idle"]
    /\ key' = [key EXCEPT ![c] = 0]
    /\ UNCHANGED <<cur, total, rank, cursor, strategy, passed>>

(* Every failed write of an open connection counts: one connection may     *)
(* report more failures than it made requests.                              *)
WriteFailed(c) ==
    /\ phase[c] = "connected"
    /\ RecordFailure(key[c])
    /\ UNCHANGED <<cur, total, rank, cursor, strategy, phase, key, passed>>

(* cleanupConnection forgets the key before it releases it, so a key is    *)
(* given back once however often the connection is closed.                  *)
CleanupConnection(c) ==
    /\ phase[c] = "connected"
    /\ cur' = GivenBack(key[c])
    /\ key' = [key EXCEPT ![c] = 0]
    /\ phase' = [phase EXCEPT ![c] = "idle"]
    /\ UNCHANGED <<healthy, total, failed, rank, cursor, strategy, passed>>

Recovers(k) == total[k] > MinSample /\ 10 * failed[k] < 3 * total[k]

Aged(count) == [k \in Keys |-> IF total[k] > HalveAt THEN count[k] \div 2 ELSE count[k]]

(* One round of the health checker over all keys. *)
PerformHealthCheck ==
    /\ healthy' = [k \in Keys |-> healthy[k] \/ Recovers(k)]
    /\ total' = Aged(total)
    /\ failed' = Aged(failed)
    /\ UNCHANGED <<cur, rank, cursor, strategy, phase, key, passed>>

PoolNext ==
    \/ \E c \in Attempts : \/ GetAPIKey(c) \/ Dialed(c) \/ DialFailed(c)
                           \/ ReportDialFailure(c) \/ WriteFailed(c)
                           \/ CleanupConnection(c)
    \/ PerformHealthCheck

PoolSpec == PoolInit /\ [][PoolNext]_poolVars

(* The health checker's ticker goes on (StartHealthCheck), and so do the    *)
(* clients: whoever can get a key connects, leaves and comes back.          *)
FairPoolSpec ==
    /\ PoolSpec
    /\ WF_poolVars(PerformHealthCheck)
    /\ \A c \in Attempts :
          WF_poolVars(\/ GetAPIKey(c) \/ Dialed(c) \/ ReportDialFailure(c)
                      \/ CleanupConnection(c))

-----------------------------------------------------------------------------
Holders(k) == {c \in Attempts : phase[c] \in {"dialing", "connected"} /\ key[c] = k}

(* The values the manager and its connections can hold. *)
PoolTypeOK ==
    /\ healthy \in [Keys -> BOOLEAN]
    /\ cur \in [Keys -> Nat]
    /\ total \in [Keys -> Nat]
    /\ failed \in [Keys -> Nat]
    /\ rank \in [Keys -> 0..(NumKeys - 1)]
    /\ cursor \in 0..(NumKeys - 1)
    /\ strategy \in Strategies
    /\ phase \in [Attempts -> {"idle", "dialing", "connected", "reporting"}]
    /\ key \in [Attempts -> {0} \cup Keys]
    /\ \A c \in Attempts : phase[c] # "idle" => key[c] \in Keys
    /\ passed \in [Keys -> 0..NumKeys]

(* No slot leaks and none is freed twice: CurrentConnections of a key is   *)
(* the number of connections that hold it, whatever way each one ended.    *)
SlotsMatchHolders == \A k \in Keys : cur[k] = Cardinality(Holders(k))

(* Round-robin starves no key: a key that stays available is granted before *)
(* every other key has been granted once more.                             *)
RoundRobinStarvesNone ==
    strategy = "round_robin" => \A k \in Keys : k \in Available => passed[k] < NumKeys

(* What keeps an unhealthy key out for good: it is never selected, so its  *)
(* request count cannot grow, and halving both counters keeps their ratio. *)
UnhealthyRatio ==
    \A k \in Keys : ~healthy[k] => /\ total[k] > MinSample
                                   /\ 2 * failed[k] >= total[k] - 1

(* "如果失败率低于阈值，恢复健康状态" (if the failure rate is below the threshold,   *)
(* restore health; enterprise.go:378): a key that no failure is recorded of *)
(* any more recovers, while the health check runs and clients keep asking   *)
(* for keys.                                                                *)
UnhealthyRecovers ==
    \A k \in Keys : <>[][failed'[k] <= failed[k]]_failed => []<>healthy[k]

(* Why it does not: no step makes an unhealthy key healthy again, whatever  *)
(* performHealthCheck finds.                                                *)
UnhealthyIsPermanent == [][\A k \in Keys : ~healthy[k] => ~healthy'[k]]_poolVars
=============================================================================
