# Verification of the transcription service

TLA+ modules, TLC configurations and TLAPS proofs for the Go service in this
repository: real-time speech transcription over websockets, billed by the
second from prepaid quota cycles.

The code is large (about 27,000 lines of Go without tests). This project takes
the parts that keep state, run concurrently and decide about money, capacity or
data, one module per component, and follows them statement by statement between
their locks and their calls. `PROJECT.json` maps every definition to its lines,
lists the runs, the mutants that show each property can fail, the hazards and
the theorems.

## 1. Inventory

| Component | Code | State | Operations | Module |
|---|---|---|---|---|
| API key pool | `service/enterprise.go` | per key: health, open connections, request and failure counters, last use; the round-robin cursor | select a key and take a slot, release, record a failure, health check | `KeyPool` |
| Remote connection | `service/remote_connection.go` | the connection, its key, an audio queue, a sender goroutine | connect with retries, send, drain, close | slot in `KeyPool`, queue and close in `AudioPath` |
| Session billing | `service/unified_time_manager.go`, `time_manager_types.go`, `transcription_cache.go` | per user a cached `SessionInfo`: status, billing and settlement flags, consumed and persisted seconds, clocks | start, pause, resume, stop, forced stop, real-time billing, attach to a meeting | `SessionBilling` |
| Balance watch | the monitor loop and balance cache of the same files | cached balance with its age, warnings sent, clocks of the monitor | bill, check, throttled query, warn, confirm, stop by force | `BalanceWatch` |
| Transcription batcher | `service/transcription_batcher.go` | buffer, worker semaphore, wait group | add, flush, write, close | `Batcher` |
| Quota cycles | `service/account_state_service.go`, `cycle_*_service.go`, `repository/user_cycle_repository.go` | rows of `user_cycle_states` | charge, grant, reset, cancel, expire | `CycleLedger` |
| Subscription grants | `account_state_service.go`, `repository/subscription.go` | rows of `subscriptions` | list what is due, grant a cycle, postpone, advance, renew or expire, cancel | `SubscriptionGrant` |
| Summary quota and account facade | `account_state_service.go`, `account_state_facade.go`, `repository/usage_ledger.go`, `summary_ledger_repository.go` | summary counters of the cycles, `summary_ledger`, `usage_ledger` | consume a summary, consume seconds and write the books | `QuotaLedger` |
| Websocket session and manager | `service/websocket_session.go` | the session map, flags and meeting of a session, result queue and overflow, audio buffer | create, remove, close, enqueue, drain, buffer | `SessionLifecycle`, `TranscriptPath`, `AudioPath` |
| Commands and connections | `service/websocket_commands.go`, `websocket_handler.go` | flags of the session; goroutines of reader, receiver, processor, pinger | start, pause, resume, stop, disconnect, reconnect, results, audio | the same three |
| Cleanup and health | `service/unified_session_cleanup_service.go`, `session_health_checker.go` | what they found when they looked | clean up, scan for idle sessions | `SessionLifecycle` |
| Transcription storage | `repository/transcription_postgres.go` | insert queue and its workers | enqueue or refuse, collect, insert | `TranscriptPath` |
| Scheduler jobs, meeting sync, legacy session manager, STT client, time-manager services, configuration, HTTP, models | see `PROJECT.json` | | | not modelled |

How they interact. A websocket reader turns the client's commands into calls of
the time manager and audio into writes of a remote connection, which takes a
slot of the key pool. The receiver of that connection turns answers into
results, which go through the session's result queue to the processor and from
there to the client and into the batcher or the insert queue. The monitor of
the time manager charges running sessions every few seconds through the account
facade, whose transactions draw on the quota cycles, and stops a session whose
balance is used up by calling back into the websocket handler. The cleanup and
the health checker call the same stop from goroutines of their own. The expiry
job changes quota cycles with no knowledge of sessions, and a worker outside
this repository grants the cycles of subscriptions.

What is hard. Several goroutines work on one `SessionInfo` and drop its lock
between reading and writing. A stop and real-time billing may charge the same
seconds. The account service may commit a charge and report failure. Charges,
refunds, resets and expiry passes overlap in READ COMMITTED transactions and
decide on lists that are old when used. Sessions are stopped, closed and
removed in separate steps, some by the id of the user, whoever's session that
is by then. A receiver and the reader may both reconnect; the receiver of a
closed connection clears flags of the session after it has a new one. Results
pass a queue, an overflow, pending records and an insert queue, each with a
limit of its own, while starts advance the generation. The batcher hands its
buffer over between a semaphore and a wait group that are not changed together.
A key is taken, given back and blamed in separate critical sections. Grants
look, create and advance in three statements no transaction joins.
`PROJECT.json` lists these hazards line by line with the property that covers
each, or the reason there is none.

What makes each component correct:

* Key pool: a slot taken is given back once, however the connection ends; no
  usable key is starved; a bad key is kept away until it recovers (which it
  never does, see the findings).
* Session billing: no second is charged twice, an undisturbed session is
  charged to the second, one settlement at a time.
* Balance watch: a session is stopped when it cannot be paid, and never for a
  cached balance; a warning is sent in time and once.
* Batcher: every accepted record is in one place; workers and the wait group
  are accounted for; a buffered record is taken; close returns.
* Quota cycles: no cycle is overused, the seconds used are the seconds
  charged, a paid cycle completes only when exhausted and ends once.
* Grants: what is due is served, however the worker crashes, and nothing is
  granted twice.
* Quota and ledgers: neither quota is exceeded, the books agree with it, the
  increments of two transactions do not wait for each other in a circle, and
  every request is answered.
* Sessions: the session that is being read is the one registered; nobody is
  billed whom nobody can stop; no remote connection is left open; a stopped
  meeting is settled; a user who goes away is stopped.
* Results: a final result is stored at most once, in the meeting it was said
  in, and is not dropped silently; nothing stays in the queue.
* Audio: a packet is handed over once and, but for one race, lost only where
  the code gives it up; one connection at a time; a lost connection is noticed.

## 2. Modules

Every module begins with a comment that says which code it is, what one step is
and what is abstracted. `MC*.tla` gives model values and symmetry for TLC,
`*Proofs.tla` the theorems. Operators named after another with a suffix
(`Tasks_HealthForgetsTime`) are its mutants, used by no specification.

### KeyPool

`EnterpriseManager` runs each operation under `em.mu`: `GetAPIKey`,
`PerformHealthCheck` and the two halves of a failed dial (`DialFailed` releases
the slot, `ReportDialFailure` records the failure in a second critical section)
are actions. The three selection strategies are predicates on the chosen key:
`weighted` compares quotients by cross multiplication, `LastUsed` is the
permutation `rank`. A connection is `idle`, `dialing`, `connected` or
`reporting`; a write that fails counts against the key each time. A connection
that loses the race to be stored waits and gives its slot back, which is
`Dialed` followed by `CleanupConnection`.

The recovery branch of the health check is in the model (`Recovers`).
`UnhealthyRecovers` states what its comment claims: a key of which no failure is
recorded any more recovers, while the health check runs and clients keep asking
for keys (`FairPoolSpec`). The run `key_recovery` shows that it does not; a
branch that no step of the model takes is the finding. `UnhealthyIsPermanent`
says so of every step and is proved: an unhealthy key gets no requests, and
halving both counters keeps their ratio (`UnhealthyRatio`). The code's
thresholds 10 and 1000 satisfy `PoolAssumption`; the run uses 2 and 5 so that
halving happens.

Abstracted: key strings (two configured entries never share one), the clock of
`LastUsed`, `markAPIKeyFailure` (no callers).

### SessionBilling

One user's sessions on the in-memory cache, which hands out the live
`SessionInfo`: `sess` holds the objects, `cached` the one in the cache, so a
goroutine (`job`) may keep working on an object that was replaced. A step ends
where the code gives up the cache lock or a session lock or calls the account
service. Each operation is a chain of steps:

| Code | Actions |
|---|---|
| `StartTranscription` | `StartGet`, `StartCleanup`, `StartCreate` or `StartRefused` |
| `PauseTranscription`, `ResumeTranscription` | `PauseGet`, `PauseApply`, `PutBack`; `ResumeGet`, `ResumeApply`, `PutBack` |
| `StopTranscription` | `StopCommand` (or `ForceStop`, `ForceGet`), `StopRefused` or `StopSettle`, `StopFinish` |
| real-time billing | `BillList`, `BillBegin`, `BillCharged` or `BillFailed` |
| `attachMeetingToSession` | `AttachCheck`, `AttachBegin`, `AttachCharged` or `AttachFailed`, `AttachSet` |

The account service is outside: a charge succeeds, fails, or commits and
reports failure. The history `hist` counts, per session, seconds spent
transcribing and seconds charged. It stops counting (`spoiled`) when two
operations whose pair is not in `Followed` overlap on the session, when a charge
that was committed is repeated, or when an attach comes to a session that has
its meeting already. `Harmless` are the overlaps that charge no second twice
and lose none; the theorems are about any `Followed` within it. The passing run
follows the overlaps the code handles, `SettleRace.cfg` adds the pair stop and
billing, `LateAttach.cfg` the late attach. A stop beside an attach is not
harmless: a stop that finds the meeting set charges the seconds another attach
is about to charge, which takes three goroutines.

Abstracted: the balance itself, the billing multiplier, warnings and the Redis
cache (`BalanceWatch`); `GetSessionStatus`, which writes the live object and has
no callers.

### Batcher

`Add` is one critical section. A flush is `TryAcquire` or `GiveUp`, then
`FindEmpty` or `Take`, then `Spawn`, because the code takes the semaphore, the
buffer and the wait group one after the other; `Write` ends in success or
failure and gives the slot back. `Close` is `MarkClosed`, `SignalLoop`,
`CloseReturn`. A record is its number.

Fairness: weak for the tick (the ticker fires for ever), for each flusher, for
each write (its context ends after 10 s) and for `Close`; strong for
`SeeClosed`, since a Go `select` with two ready channels picks one at random
and the closed channel stays ready. Nobody is obliged to call `Add` or `Close`.
`CHECK_DEADLOCK FALSE`: after `Close` has returned the batcher really stops.

### CycleLedger

The rows of one user and the transactions on them. The database is PostgreSQL
at its default isolation (`pkg/database` opens transactions without options and
no statement says FOR UPDATE), so one SQL statement is one step: a SELECT sees
committed rows and the transaction's own (`Visible`); an UPDATE waits for the
row (`Unlocked`) and decides on its latest version; `Commit` publishes what the
transaction wrote, `Rollback` drops it, and `Abort` may happen any time (lost
connection, deadlock victim, a caller that gave up). `dirty` and `lock` are the
uncommitted versions and who wrote them.

| Code | Actions |
|---|---|
| `CheckAndExpireCycles` at the start of every transaction | `ExpireList`, `Transition` |
| `Consume`, `IncrementUsage` | `ConsumeList`, `Take` for each cycle, `Taken`, `Transition` of the emptied ones, `Commit` |
| `RecordPaygPurchase`, `Start*Subscription` | `Retire`, `Transition`, `Grant`, `Commit` |
| `ResetFreeCycle` | `Retire`, `Transition`, `Reset`, `Commit` |
| `Cancel*` | `CancelList`, `Transition`, `Commit`; `NothingToDo` |
| `ExpireAllEndedCycles`, expiry before a balance query | `SweepList`, `SweepRow` (no transaction) |

Abstracted: tiers stand for the way a cycle expires (`pro` for Pro and Pro
Mini, `payg` for PAYG, special offer and Premium, `free`); CANCELLED stands for
REFUNDED; a cycle starts when it is granted. The expiry pass may stop at any
tier, which covers an error in it and a cycle that ends while it runs. That a
user has paid before is read from another table: a reset may find either.
`Create` takes the first number no row uses; in the code an INSERT takes a
fresh id and is likewise invisible to others until the commit. The account
state and the role are computed from the rows and stored nowhere, and are left
out; the summary quota is in `QuotaLedger`.

### SessionLifecycle

The sessions of one user, numbered in the order of connects, and what the code
does with them "by user id": `cur` is the session registered at the moment,
`tm` the time manager's. A goroutine carries out a program, the sequence `todo`
of the steps it still has to take; a step ends where the code gives up a lock
or calls another component, and stands for the same function wherever that is
called. Each session has the goroutine that reads its commands and, when the
client is gone, runs `handleClientDisconnect`; `Workers` are health checker,
cleanup service and forced stop.

| Code | Programs and actions |
|---|---|
| `CreateSession`, ping loop, lost remote, first result | `Connect`, `ClientLeaves`, `PingFails`, `RemoteLost`, `FirstFinal` |
| `handleStart` | `ReadStart`, then `StartTM`, `Dial`, `Started` |
| `handlePause` | `ReadPause`, then `PauseTM`, `PauseDone` |
| `handleResume` | `ReadResume`, then `ResumeTM` or `RestartTM`, `Dial`, `Resumed`; or a start |
| `handleStop`, forced stop | `ReadStop` or `Begin`, then `StopCmd`, `StopFlags`, `Await` |
| `handleClientDisconnect` | `ReaderEnds`, then `MarkFailed`, `Return`; or, of a stopped session, `Complete`, `StopTM`, `CloseRemote` or `CloseEmpty`, `Remove`, `Close` |
| health checker | `Begin`, `StopTM`, `HealthClose`, `Remove` |
| `CleanupUserSession` | `Begin`, `StopTM`, `CloseListed` (with `Remove`), `Verify` |

What the code does goes wrong when a clean-up by user id meets a session that
is not the one it was for (`spoiled`): `RemoveSession` takes the user's entry
whichever session is there. It also goes wrong when a start comes upon a
session that is being taken down, or that was stopped before, since nothing
takes `isStopped` back (`late`). Both are marked, and the properties are about
the behaviour up to the mark: they show that nothing else goes wrong, and the
mark names the moments to repair. `AbandonedStops` is about the
behaviour up to the marks too. A start while another is running stops that
one first; the code's guard against it looks at flags that nothing sets, so it
is not there.

Abstracted: what a start or a dial fails with (it may always fail), billing
(`SessionBilling`), results and audio (below), answers to the client. A
meeting is what its `status` and its duration (`timed`) say. Snapshots are not
written, because `NotifySessionUpdated` is disabled. The model leaves out
`ResumeSession`, `IsUserConnectionActive` and `CleanupStaleConnections`, which
have no callers; the first would take the manager's lock twice, the second takes
it while it holds the session's, against the order of the rest.

### TranscriptPath and FinalResults

A result goes from the receiver (`Arrive`, `EnqueueResult`) into the queue, or
if that is full and the result is final into the overflow; the processor drains
the overflow (`Drained`), takes one result (`Select`), checks its generation
(`Check`), finds or creates the meeting (`Ensure`, `Attach`), and persists it
behind the pending records (`Persist`, `Flush`, `Put`); the inserters collect
batches and insert them (`Take`, `Tick`). Meanwhile the reader starts
(`StartReset` to `StartReceiver`), resumes (`Resume`, `ResumeReceiver`) or
flushes (`StopTake`, `StopPut`), and a receiver that lost its connection
reconnects (`Reconnect`). Every bounded place may refuse: then a final result
waits in another, or closes the session. If a batch the processor flushes is
refused and finds no room among the pending records any more, the batch is lost,
the session is closed and the processor ends (`Flush`, `Fail`). A result carries
its generation and the start it belongs to, its contents are left out.

`FinalResults` is what this promises: three sets and a flag. A final result
that was accepted is `flight` until it is `stored`, once; `Drop` is allowed
only together with `broken`. `TranscriptPath` implements it (property
`NothingLostSilently`) with the mapping of `flight` to the union of all places
a final result can be in and `broken` to `excused`, which is set where the code
gives results up knowingly: a later start, resume or reconnect supersedes what
is queued, a session is closed, records are refused by a full place, an insert
fails. Order is not promised and does not hold: the processor drains the overflow
before the queue, though the overflow holds what came later.

The wake-up signal turns out to be redundant for progress: the overflow fills
only while the queue is full, so there is always something to take, and each
result taken from the queue drains the overflow. `RightMeeting` stops at `late`,
a start that comes upon a result which has passed the check of its generation:
`resetSessionForNewStart` forgets the meeting before it advances the
generation, and the record may then be stored in the meeting of the new start.

Abstracted: an insert is of whole batches, and fails or not; other sessions
that share the insert queue only make it full (it may always be). The workers'
shutdown and the queries are left out.

### AudioPath

A packet from the client is dropped, buffered or put into the queue of the
remote connection (`Arrive`, `Pick`, `Buffer`, `Put`, `Sent`, `Failed`); the
replay (`Drain`, `Check`, `Replay`, `Pause`) sends what was buffered and puts
back what it could not send; the sender of a connection (`Take`, `Write`,
`WriteFails`, `SenderEnds`) writes to the service; a close waits for the sender
up to a limit (`Closed`). The receiver notices that the connection is gone
(`ReadFails`) and detaches it (`Detach`, `Clear`) or asks for a reconnect, as
does the reader after failures; one reconnect runs at a time (`BeginRecon` to
`Done`, or `Fails`). `SendAudio` looks whether the connection is closing and
puts the packet into the queue in two steps, as in the code (`Accepts`,
`Enqueue`). In between the sender may drain the queue and end: then `SendAudio`
returns nil for a packet that nobody will read. That such a packet is lost is
the code's doing and nobody's decision, so it is not among the `spilt` ones;
`LostKnowingly`, which says that there is no such loss, fails on it
(`SendRace.cfg`), and `OneSilentLoss` says that it is the only one (`Stranded`).

`OneConnection` speaks of connections the network has not lost. One it has lost may
for a while have no reader: its receiver is on the way to close it, or has missed
that it was the one to (`Missed`). Those are `LossIsNoticed`'s.

Faults of the network and of the service are `Lose`, a failed dial or
configuration, a drain that takes too long and a packet that gets too old; they
share the bound `MaxFaults`. `spilt` are the packets the code gives up where it
knows of them, `heard` counts what the service got.

Abstracted: keepalives, which only keep a silent connection open; starts,
pauses and stops (`SessionLifecycle`); the slot of the key (`KeyPool`). The
model ends when the session is closed because the buffer is full.

### BalanceWatch

One tick of the monitor is one unit of time and of balance. In a tick it bills
if billing is due (`ListForBilling`, `Charge`, `Clear`, `Set`, or `Doubt` when
the charge is refused) and checks (`ListForCheck`, `Look` at the cached
balance, `Echo` it into the cache, `Decide`, `Confirm` with a direct query
before it stops, `ForceStop`). Tickers are started one after the other, so an
interval of two ticks may be taken one tick late. The direct query is answered
from the answer of the same tick, if there is one, since that is kept for five
seconds. Meanwhile the user pauses and resumes, each with a query of its own
between two parts (`Toggle`, `Ask`, `Answer`), leaves, buys seconds or loses
them.

`Shared` says which cache is used: the one in memory hands out the session
itself, the one on Redis a copy which only some calls write back. `hist` keeps
what the properties need: what was transcribed and not charged, the least
balance of this tick, warnings sent, whether anything disturbed the session.

Abstracted: a failed charge takes nothing here (a charge that commits and is
reported as failed is `SessionBilling`'s), and what a stop settles. Expiry of
the Redis keys and its failures are left out.

### SubscriptionGrant

`GrantSubscriptionCycle` of each tier: the worker lists what is due (`Fetch`),
looks for a cycle of the same tier that covers the time (`Look`), moves the
next grant behind it (`Postpone`) or creates one (`Start`, `Commit`) and moves
the next grant on (`Advance`); a Premium subscription at its limit expires
(`Full`, `Renewal`). No transaction joins these statements, and `Crash` may
come between any two. The user cancels in two steps (`Cancel`, `CancelCycles`).

The worker that lists and grants is in another repository: here nothing calls
`ListDueForGrant` or `GrantSubscriptionCycle`. It is modelled as one that fetches
what is due, grants, and comes back after a failure. One worker is assumed: with two
(`Workers <- TwoWorkers`) both may look before either creates, and `CoveredOnce`
and `WithinLimit` fail. The theorems state that assumption (`Serial`).

Abstracted: how many seconds a cycle holds. Time is counted from the creation of
the subscriptions, in parts of a cycle's length.

### QuotaLedger

Charges of seconds and of summaries take from the same cycles, each in one
transaction that begins with the expiry pass, as every `UpdateWithTx` does:

| Code | Actions |
|---|---|
| `updateState`, `GetCycleSnapshot`, `CheckAndExpireCycles` | `Begin` (the clock is read once), `ListTier` for each tier with something to expire, in the code's order, `Mark` row by row, `List` when it has passed |
| `ListConsumable`, `listSummaryEligibleCompletedCycles` | `List` |
| `IncrementUsage`, `IncrementSummaryUsage` | `TakeFrom` for each cycle, `Refuse` if they do not suffice |
| end of `ConsumeSummaryQuota` | `Enough`, `Record` row by row, `CommitSummary` |
| end of `ConsumeBalances` | `Enough` (completes what it emptied and commits), or `Stale` if such a cycle was expired meanwhile |
| `Consume` of the facade, after the commit | `Find`, `WriteUsage`, `Written`, with errors only logged |
| PostgreSQL | an UPDATE waits for a row another transaction has changed (`held`, `WaitsFor`) and then decides on its latest version; `Victim` is one of a circle of waiting transactions, which the database rolls back |

`PeriodEnds` is the clock: the first `lapsed` cycles have ended. A pass marks of
Pro and Pro Mini every active cycle as soon as one of them has ended, and of
the other tiers the ended ones; the other tiers come after Pro, whatever their
expiration, so that a pass does not lock in the order in which the increments
do. A pass that finds a row no longer active stops there, which is only logged.
`Fault` is a failed statement, `CutOff` a request whose context ends.

A row that is taken from stays locked until the transaction ends. Increments go
through the cycles by expiration, `Nth`, in both kinds of charge, and by
themselves never wait in a circle. A transaction that has marked expired cycles
can: `ExpiryCircle.cfg` has two Pro cycles, of which the first has ended, and a
PAYG cycle that ends between them. A charge marks both Pro cycles and wants the
PAYG cycle; the summary holds that one, because it listed before the first Pro
cycle ended, and wants the second Pro cycle. `OnlyExpiryCircles` says that every
circle has such a transaction in it, and `Answered` that everybody is answered
all the same, some by being the victim the database chooses.

How cycles change otherwise while this happens, by purchases, resets and
cancellations, is `CycleLedger`'s, which also has the passes outside a
transaction (before a balance query, and the snapshot the facade reads after a
charge): each of their statements commits by itself, so they hold no row while
they wait. All requests are of one meeting, which is what makes them meet on the
same rows of the usage ledger. Their number is finite, not bounded.

## 3. Runs

| Run | Instance | States | Shows |
|---|---|---|---|
| `key_pool` | 2 keys (limits 1 and 2, different weights), 2 connections, all strategies, thresholds 2 and 5 | 354,000 | slots, starvation |
| `session_billing` | 2 workers and the monitor, 1 session, 2 seconds | 2,646,000 | no overcharge under the overlaps the code handles, exact charge of an undisturbed session, one settlement |
| `batcher` | 2 callers, loop, 2 slots, batches of 2, buffer of 3, 4 records | 21,000 | one place per record, every record taken, close returns |
| `cycle_ledger` | 2 workers, 2 rows, 2 ticks, purchases of 2, charges of 1 and 3, free total 1 | 2,405,000 | nothing overused, seconds accounted for, completed means exhausted, a cycle ends once |
| `session_lifecycle` | 2 connections, 1 meeting, 1 goroutine that is health checker and cleanup in turn | 702,000 | who is read is registered, nobody is billed unseen, remotes are closed, stopped meetings settled, a user who goes away is stopped or back |
| `transcript_path` | 3 results, 2 generations, queue and overflow of 1, 2 pending, batches of 2, 1 inserter | 306,000 | refinement of `FinalResults`, meetings not mixed, the queue drains |
| `subscription_grant` | 2 Premium subscriptions, cycles of 2, window of 4, 3 ticks, 1 crash, 1 worker | 171,000 | no overlap, limit kept, what is due is served |
| `quota_ledger` | seconds 2 and 1, a summary of 3, on a PAYG cycle of 2 and a Pro cycle of 1 that may both end; 1 fault | 232,000 | quotas kept, ledgers agree, increments never wait in a circle, everybody answered |
| `balance_watch` | warnings at 3 and 7, balance 8 (up to 9), 2 events, 1 fault | 834,000 | stopped only for cause and surely, warned in time and once |
| `audio_path` | 3 packets, queue of 1, buffer of 2, 2 connections, 1 attempt, 2 faults | 548,000 | packets once, one silent loss, one connection, losses noticed |
| `reconnect_deaf` | the same with 1 fault | until found | a violation, below |
| `key_recovery` | that of `key_pool`, with fairness | until found | a violation, below |

Why these bounds are enough to be interesting. KeyPool: two connections on a
key of limit 1 fill it; six requests pass both the sample threshold and the
halving. SessionBilling: two seconds let a tail follow a charged second.
Batcher: two slots with three flushers make a flush give up; four records pass
the buffer's limit. CycleLedger: a charge of 3 needs both cycles, two of 1 meet
on one cycle, and a life of one tick lets cycles end while transactions that
listed them are open. SessionLifecycle: two connections are what a reconnect
and a clean-up of the wrong session need. TranscriptPath: three results fill
queue, overflow and the processor's hand at once; two generations let a result
be superseded. SubscriptionGrant: two subscriptions of one tier cover each other's
times. QuotaLedger: the summary of 3 needs both cycles and a charge of 2 comes
into the second one when the other charge was first, so that the orders of locking
could cross; the second cycle, by expiration, is of the tier that the
pass expires first, and whoever finds a cycle ended or its list out of date is
refused. BalanceWatch: the
windows keep the proportion of the code's 30 and 60 s to its ticks of 10 s.
AudioPath: the third packet finds queue and hand full; two connections are one
reconnect. The mutants of `PROJECT.json` (one per property of a passing run)
are each found within these bounds.

Bounds that are not in the code: `MaxCount` (KeyPool counters; also
`ConsumedSeconds`, which a failing attach would raise for ever), `MaxSessions`,
`MaxMeetings`, `MaxTime`, `MaxRecords`, `MaxRows`, `MaxResults`,
`MaxGenerations`, `MaxCycles`, `MaxCrashes`, `MaxFaults`, `MaxEvents`, `Top`,
`MaxOwed`, `MaxPackets`, `MaxConns`, `MaxLapsed` (QuotaLedger). In
`session_lifecycle` a state constraint (`Followed`) ends what is followed at the
marks described above; the run therefore says nothing of behaviours past a mark.
The forced stop by the balance watch is a third thing that the other goroutine
can do: `ForcedStop.cfg` checks the four invariants with it (1,770,000
states) and is run by hand, as the liveness property is too slow on that many.

Deadlock is checked in the runs of KeyPool, SessionBilling and CycleLedger. The
others say `CHECK_DEADLOCK FALSE` because the system really may stop there, or
the instance is used up: a closed batcher, sessions that have ended, a path
whose session is closed, requests that are done, a watched session that is
gone, no time left for grants.

### Fairness

* Batcher: weak for the tick (the ticker fires for ever), each flusher, each
  write (its context ends after 10 s) and for `Close`; strong for `SeeClosed`.
* SessionLifecycle: weak for every goroutine that is in a program, and for a
  reader whose connection is gone (its read returns); strong for the health
  checker, which comes back with its ticker to a session whose handler has
  returned: nothing updates the activity of such a session, so a threshold passes.
* TranscriptPath: weak for the processor, for a start, resume or flush under
  way and for each inserter. Nothing is assumed of clients, the remote service
  or the success of an insert, and nobody is obliged to begin a command.
* AudioPath: weak for a reconnect, for each receiver and for each sender with the
  close that waits for it. Nothing is assumed of the client, the reader, the
  replay or the faults.
* BalanceWatch: weak for the tick, for the monitor (one goroutine) and for the
  rest of a user's command.
* SubscriptionGrant: weak for a worker's statements; strong for fetching each
  due subscription, because the scheduler comes back.
* QuotaLedger: weak for the next statement of some request or the choice of a
  victim: as long as one of them can do something, something is done. The database
  promises more, but this is enough, as every request is finite.
* KeyPool (`key_recovery` only): weak for the health check, which has a ticker
  (`StartHealthCheck`), and for each connection to take a key, be dialled, report
  and leave. The run grants the code this much and the key stays unhealthy.

### What TLC finds in the code

The run `reconnect_deaf` is the finding of `PROJECT.json`: after a reconnect
the audio path asked for, the receiver of the connection it closed takes the
close for an expected one and switches the session's transcription off, while
the time manager goes on billing.

The run `key_recovery` is the other: performHealthCheck says that a key recovers
when its rate of failures falls (`enterprise.go:378`), but the rate of a key that
is not selected cannot fall. What is more, nothing in this repository calls
`StartHealthCheck`.

All but `ForcedStop.cfg` of the other configurations fail, on one property, with
what the code does today; run them with `tlc -config X.cfg M`:

| Configuration | Module | Property | What the code does |
|---|---|---|---|
| `SettleRace.cfg` | `MCSessionBilling` | `NeverOvercharged` | a stop and a billing under way charge the same seconds |
| `LateAttach.cfg` | `MCSessionBilling` | `NeverOvercharged` | an attach that finds its session attached charges all its seconds, also those real-time billing has charged |
| `StopClear.cfg` | `MCSessionBilling` | `NothingOutstandingMeansAllCharged` | a stop after real-time billing compares the unbilled tail with what was billed before and may charge nothing, logging that all was charged |
| `ResumeRace.cfg` | `MCSessionBilling` | `ResumeReenablesBilling` | a resume during a settlement leaves a transcribing session that is not billed |
| `RestartRace.cfg` | `MCSessionBilling` | `LiveSessionIsCached` | a stop deletes whatever session is in the cache when its charge is done, also a new one |
| `BatcherClose.cfg` | `MCBatcher` | `CloseWaitsForAllData` | `Close` returns while accepted records are unwritten |
| `ProExpiry.cfg` | `MCCycleLedger` | `OnlyEndedCyclesExpire` | one ended Pro cycle expires all of the user's active Pro cycles |
| `EndedCharge.cfg` | `MCCycleLedger` | `ChargesActiveOnly` | a charge is committed on a cycle that was cancelled or expired after it was listed |
| `PausedFailed.cfg` | `MCSessionLifecycle` | `PausedStaysPaused` | a disconnect writes a paused meeting failed |
| `RedisCache.cfg` | `MCBalanceWatch` | `NeverOvercharged` | on Redis the time of the last billing is set in a copy, so each billing charges the whole session again |
| `RefusedForgiven.cfg` | `MCBalanceWatch` | `RefusedIsStopped` | after failed charges the sum owed can exceed a balance that is still enough to be forgiven, and the session runs on unpaid |
| `SendRace.cfg` | `MCAudioPath` | `LostKnowingly` | `SendAudio` accepts a packet into the queue of a closing connection whose sender has drained it and ended |
| `ExpiryCircle.cfg` | `MCQuotaLedger` | `NoCircle` | a charge and a summary wait for each other, because the expiry pass locks rows in another order than the increments |

Two more can be seen by changing a constant: `Multiplier = 2` in
`MCBalanceWatch.cfg` lets billing step over the critical window of 30 s (40 to
60 s at a time), and `Workers <- TwoWorkers` in `MCSubscriptionGrant.cfg` lets
two workers grant the same time. The excuses in `LossIsNoticed`
(`Missed`: the new connection is lost in the moment before its reconnect ends)
and `RightMeeting` (`late`) are each a case in which the code fails what the
rest of the property says; so is the one in `OneSilentLoss` (`Stranded`).

The comments at the warning windows name 20 s for each (five minutes to 4:40,
`time_manager_types.go:39`); the windows are 30 and 60 s wide, and billing, which
comes every 20 to 30 s, would step over one of 20 s.

## 4. Proofs

Each theorem holds for every value of the constants that satisfies the named
assumption of its module; TLC evaluates those assumptions.

**ConnectionProofs** (from `PoolAssumption` and `AudioAssumption`), the keys and
the audio of the remote connections. Of KeyPool: `TypeCorrect`; `UnhealthyNeverRecovers`
(`UnhealthyIsPermanent`, why the run `key_recovery` fails), whose invariant is `UnhealthyRatio`: no step raises the
requests of an unhealthy key, a failure only raises the failures, and halving
loses at most one on each side, which `HalveAt >= 2 * MinSample + 1` keeps harmless;
`NoSlotLeaks` (`SlotsMatchHolders`), by counting the holders before and after
each step; `RoundRobinIsFair` (`RoundRobinStarvesNone`), with `WithinOneTurn`:
the grants that passed an available key and the places the cursor has to move to
reach it are together fewer than the keys. `PassedComesNearer` is the arithmetic
of it, modulo the number of keys.

Of AudioPath, for any number of packets, connections, attempts and faults and any
sizes of the queues: `Right` has the types and what each goroutine needs in each
of its states (it never works on a connection that was not dialled, the reader has
a packet exactly in the states that use one). `In(w, c, p)` says where a packet
is, and `Apart` that it is in no two places, nor twice in one, and that one that
was sent and is nowhere is among those given up or stranded in the queue of a
connection whose sender has ended (`Adrift`). A step leaves the places of a
packet, moves it, or gives it up (`Follows`), and `MoveFollows` and `DropFollows`
say what a step has to show of the places it touches; the lemmas about sequences
(`AppendHas`, `TailHas`, `JoinHas`) say which packets those have afterwards.
`HeardOnce` (`HandedOnce`) and `OnlyOneSilentLoss` (`OneSilentLoss`) follow. For
`OneAtATime` (`OneConnection`), `Foreseen` says of an open connection, phase by
phase of the reconnect, who reads or closes it; `Known` that the connection
manager has every connection that is not closed, without which a dial could open
a second one; `Bereft` that a receiver on its way to close a connection has seen it
lost, which is why the reconnect does not store that one again, and why an open
connection the network has kept is read; `Waits` and `Unread` which receiver waits for the reconnect, and that nobody reads a new
connection too early. TLC checked these before they were proved.

**SessionBillingProofs** (from `BillingAssumption`). `TypeCorrect`, which needs
that no clock reading in an object or a job lies in the future, or elapsed
seconds would be negative; `SettlementExclusive` (`OneSettlement`): the flag of
a session is up exactly while one goroutine is between its two settlement steps.
`NoOvercharge` (`NeverOvercharged`) and `ToTheSecond` (`ChargedToTheSecond`)
assume `Followed \subseteq Harmless`, no more: any number of goroutines, sessions
and seconds. For `NoOvercharge`, `Covered` says of a session that is followed
which operations are on it together (`Compatible`) and that what is charged, what
is being charged and what is still to be charged add up to no more than was
transcribed, case by case of where those operations are. A step does one of some
fifteen things to a session (`Effect`: it leaves, comes, counts, begins to
charge ...), and each has its lemma that it keeps the session covered
(`...Covers`). `ToTheSecond` adds the converse, that nothing was dropped
(`Exact`), with the same split (`...Keeps`). In looking for `Covered` the late
attach was found, and a stop beside two attaches.

**BatcherProofs** (from `BatcherAssumption`). `WorkersAlwaysAccounted` and
`TypeCorrect` are inductive together, as the wait group is a natural number
because it is a count; `NoRecordTwiceOrLost` (`EachRecordOnce`) adds that a slot
that is not writing or held by a flusher past `Take` has an empty batch.

**CycleLedgerProofs** (from `LedgerAssumption`). The invariant `Inv` has three
parts. `RowsTyped` with `TxOK`; `Within`: committed and uncommitted versions
stay within their total (the uncommitted one has to be included, since a commit
publishes it); `Owned`: a row nobody holds is as committed, a row keeps its
tier, and an uncommitted version of a paid row differs in state only if the
committed one is ACTIVE. `TypeCorrect` and `NoCycleOverused` (`NeverOverused`)
follow directly, and `LeavesActiveOnce` (`EndsOnce`) because a row is published
by the one transaction that holds it. `WriteKeeps` and `RollbackKeeps` carry the
argument for single statements; each action has a lemma of its own.

`CompletedOnlyWhenExhausted` (`CompletedIsExhausted`) has the invariant `XInv`,
which adds to `Inv` what each worker relies on (`Plan`): while a charge has a
paid cycle on its list, the row has at most what the list says, because what is
left of a paid cycle only shrinks; and a cycle the charge emptied is held by its
transaction until the end. A share that fits and is all the list says therefore
empties the row. `Steady` says what one worker's step leaves to the others,
`OthersPlan` that this keeps their plans, and `StepKeeps` gives every action the
same shape: what the step does to the rows, and to the worker's own plan.

`EverySecondAccounted` (`SecondsAccountedFor`) is about a sum over all rows.
`AInv` adds that the rows a worker holds differ from what is committed, in
seconds used, by exactly what its charge has taken so far (`Account`, `Gain`),
so that a commit moves the sum by what is charged and a rollback by nothing. The
fold in `TotalUsed` is tied to a table of partial sums (`SumOf`), about which facts are proved by going from least subsets upwards
(`SubsetInduction`, where the property is a set, as the provers take no operator
for it); after that a sum is changed in one row or in several at a time.

The same module holds the theorems of `QuotaLedger`, which rest on the same sums
(from `QuotaAssumption`; the module extends both, so their definitions have
different names): any number of requests
and cycles. `QInv` is `QTyped`, `Bounded` (a committed row is within its total) and `Secure`: what an open
transaction has taken of a cycle it holds the lock of, and it fits the row. `QuotasKept` (`QuotaKept`) follows. `SummariesAgree`
(`SummaryAgrees`) adds `Copied`, that the summary ledger's row of a request says
what its transaction has taken, so that one commit moves both by the same.
`UsagesAgree` (`UsageAgrees`) is about the other book, which is written after the
charge is committed: `BooksRight` says that the ledger's sum and what is still to be
written add up to what was used, as long as no statement failed (`Fair`), and that
the row a request found is of its cycle (`RowRight`). `SumJoin` and `SumMoves` are
the two facts about sums both books need. The expiry pass touches neither book:
what a transaction has marked is a row it holds and has taken nothing from.
`CirclesByExpiry` (`OnlyExpiryCircles`) has the invariant `Upwards`: a
transaction that is taking, and has marked nothing, holds only cycles before the
one it is at. In a circle of such transactions each would wait for one
that is at a later cycle than itself, and one of them is at the latest
(`Greatest`).

**BalanceWatchProofs** (from `WatchAssumption`). `StoppedForCause`
(`StopsOnlyExhausted`) holds on either cache: `Reasons` says that the monitor is
about to stop a session only with the database's answer of this tick in hand, or
with a failed query, while `low` is the least balance there was in the tick.
`ChargedOnce` (`NeverOvercharged`) needs the cache in memory: `Owed` says that
what the next charge is for, `since * Multiplier`, is part of what is unbilled,
also between a charge and the moment its time is set. `NoWarningMissed`
(`WarnedInTime`) needs the cache in memory as well, windows of at least three
ticks of billing (`WideWindows`; the code's are 30 and 60 s, billing comes
every 20 to 30 s) and a balance that starts above the thresholds (`StartAbove`;
a session that starts within a window is warned as soon as it is looked at).
`Calm` follows an undisturbed session through the two tickers: whatever the
balance has fallen through has been warned of, and between a charge and the
next there is a check (`CheckDue`).

**SubscriptionGrantProofs** (from `GrantAssumption` and `Serial`: one worker).
`OneCycleAtATime` (`CoveredOnce`) and `NeverOverLimit` (`WithinLimit`). The
invariant says what a check is worth later: while the worker is past `Look`, no
cycle of the tier runs (`Bare`), because only it creates cycles and none
begins in the future (`Begun`); while it is past the limit's check there is
room for one more (`Room`).

**TranscriptPathProofs** (from `PathAssumption`), for any sizes of queues, batches and numbers
of inserters. `ImplementsFinalResults` is the refinement. Its invariant has five
parts: `Typed`; `Control`, which places are empty where; `Latest`, that until
something is excused all on the way is of the last generation; `Alone`, that an
id occurs once in each place; `Placed`, that it is in one place only. Every
step then falls into one of four shapes (`Stays`, `Loses`, `Comes`, `Rests`),
and lemma `Simulation` turns each into a step or a stutter of `FinalResults`.
What sequences do to the sets of their ids is said once (`Has`, `Solo`,
`Parted`). `StoredInItsMeeting` (`RightMeeting`) adds `Source`, where the
results and meetings come from, and `Meant`, that all on the way to the meeting of a start is of
that start. `WithinSizes` (`TypeOK`) adds the
sizes: `Counters`, `Queues`, `Waits`, `Batches`; `Waits` also says that a flush
only holds records with a meeting to store them in.

**SessionLifecycleProofs** (from `LifecycleAssumption`), for any number of
sessions, meetings and workers. A program is a sequence of steps, and the
proofs never go through sequences again after `Known` has listed the thirty that
occur: `Phase` says what a goroutine is about, `Course` which phase follows which
step. The invariant `Sound` has the types, `Programs` (which goroutine may be in
which phase, on which session, and which flags of it that fixes), and `Safe`,
which holds up to `spoiled`: `Registered`, a session that lives is the one in the
map, and who takes the entry away has closed its session; `NoneOpen`, the
remote connection is closed before that; `Watched`, a transcription has a
registered session that will see its end, or a goroutine that will stop it.
`TypeCorrect`, `LiveSessionsRegistered` (`LiveIsRegistered`), `NoRemoteLeaked`
(`NoLeakedRemote`) and `NobodyBilledForever` (`NobodyBilledUnseen`) follow.
`StopSettles` (`StoppedIsSettled`) adds `Rest`, about the rows of the meetings as
long as the user has had one session, which is what the property is about:
`Books`, what the session's flags say of its meeting's row, and `Stopped`, what a
stop has left for the disconnect to do. Most steps change little: `StepSound` and
`StepRest` treat what is common to them, so that each action has a lemma of
what is its own.

Every invariant of a run is proved. Only model-checked: every liveness property,
which is out of the prover's reach, and the type invariant of `AudioPath`. `UnhealthyRatio` and
`WorkersAccounted` are only proved, being parts of other proofs. The type
invariants of KeyPool, SessionLifecycle, SubscriptionGrant, QuotaLedger,
BalanceWatch and AudioPath are stated as documentation of the variables and are not
properties of a run; those of KeyPool and SessionLifecycle are proved, and
`Typed` in the proofs of BalanceWatch and SubscriptionGrant is the part of
theirs that the theorems need.

## 5. What is not modelled

`PROJECT.json` gives the reason for each component left out. In short: an older
session path with its own client, which only its tests use; the time manager's
services (health statistics, a batch nothing adds to, an error log); pure data
and request plumbing, configuration and models; repositories of single rows
without logic; scheduler jobs and meeting sync, whose workers are in another
repository, so that how and by how many they are called cannot be read here.
`main` wires an empty `WebSocketHandler`; the service is assembled elsewhere,
and the health checker and the cleanup service are modelled from what their code
does once they are started.

Within modelled components: `ResumeSession`, `CleanupStaleConnections`,
`IsUserConnectionActive`, `GetSessionStatus` and `GetRemainingTime`, which
nothing calls; keepalives; failures and expiry of Redis; Stats and queries that
change nothing. The database itself is assumed to behave as its documentation
says at READ COMMITTED.

## 6. Plan

Done: `SessionBilling`, `Batcher`, `KeyPool`, `CycleLedger`, `BalanceWatch`,
`SessionLifecycle`, `TranscriptPath` with `FinalResults`, `AudioPath`,
`SubscriptionGrant`, `QuotaLedger`; proofs of all of them.

Left, in this order:

1. An abstract balance per user that `CycleLedger` implements.
2. Compositions: `AudioPath` with `KeyPool` (the slot of a connection that is
   replaced), `BalanceWatch` with `CycleLedger` (a charge that takes time).
3. A second meeting in `SessionLifecycle`, at the cost of a much larger run.
