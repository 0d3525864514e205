--------------------------- MODULE TranscriptPath ---------------------------
(* The way of a transcription result of one session from the receiver of the *)
(* remote connection to the database: the result queue and its overflow, the *)
(* processor that shows and persists results, the records that wait because  *)
(* storage refused them, and the workers of the asynchronous insert. The     *)
(* reader of the client's commands starts, resumes and stops meanwhile.      *)
EXTENDS Naturals, Sequences, FiniteSets

CONSTANTS
    MaxResults,     \* bound on results received
    MaxGenerations, \* bound on starts, resumes and reconnects
    QueueSize, OverflowSize, PendingSize,   \* resultQueueSize, maxOverflowResults,
                                            \* maxPendingFinalRecords
    BatchSize,      \* records of one insert
    Inserters       \* goroutines of the asynchronous insert

ASSUME PathAssumption ==
    /\ {MaxResults, MaxGenerations, QueueSize, OverflowSize, PendingSize,
        BatchSize} \subseteq Nat \ {0}

VARIABLES
    arrived,    \* results received
    receivers,  \* generation and start of each receiver that was started
    gen,        \* resultGeneration
    started,    \* transcriptions started, each with a SessionUUID of its own
    meeting,    \* session.MeetingID, 0 for nil: named after the start it is of
    closed,     \* the session's context is done
    queue, overflow, wake,  \* results for the processor, and its signal
    pc, work, hand,     \* the processor, what it drained, what it handles
    making,     \* the meeting it creates
    reader, captured,   \* what the reader does, the generation it started
    pending,    \* pendingFinalRecords
    held,       \* records drained from there by a flush
    async,      \* batches for the inserters
    batch,      \* records each inserter has collected
    stored,     \* rows of meeting_record
    excused,    \* history: records may have been dropped, loudly or by the database
    late        \* history: a start came upon a result that had passed the check

vars == <<arrived, receivers, gen, started, meeting, closed, queue, overflow, wake, pc,
          work, hand, making, reader, captured, pending, held, async, batch, stored,
          excused, late>>
input == <<arrived, receivers, gen, started, captured>>
results == <<queue, overflow, wake, work>>
hands == <<hand, making>>
store == <<async, batch, stored>>

Ids == 1..MaxResults
Results == [id : Ids, final : BOOLEAN, gen : 1..MaxGenerations, of : 1..MaxGenerations]
Nameless == MaxGenerations + 1     \* a meeting created for the empty SessionUUID
Meetings == 1..Nameless
Records == [id : Ids, of : 1..MaxGenerations, meeting : Meetings]
Flushers == {"processor", "reader"}

TypeOK ==
    /\ arrived \in 0..MaxResults /\ gen \in 0..MaxGenerations
    /\ receivers \subseteq [gen : 1..gen, of : 1..started]
    /\ started \in 0..gen /\ captured \in 0..gen /\ {meeting, making} \subseteq 0..Nameless
    /\ wake \in BOOLEAN
    /\ closed \in BOOLEAN /\ excused \in BOOLEAN /\ late \in BOOLEAN
    /\ queue \in Seq(Results) /\ Len(queue) <= QueueSize
    /\ overflow \in Seq(Results) /\ Len(overflow) <= OverflowSize
    /\ work \in Seq(Results) /\ hand \in Seq(Results) /\ Len(hand) <= 1
    /\ pc \in {"top", "select", "check", "ensure", "attach", "persist", "flush", "put", "dead"}
    /\ reader \in {"idle", "reset", "ensure", "attach", "run", "wake", "flush"}
    /\ pending \in Seq([id : Ids, of : 1..MaxGenerations])
    /\ Len(pending) <= PendingSize
    /\ held \in [Flushers -> [recs : Seq([id : Ids, of : 1..MaxGenerations]),
                              meeting : 0..Nameless]]
    /\ async \in Seq(Seq(Records))
    /\ batch \in [Inserters -> Seq(Records)] /\ stored \in Seq(Records)

Nothing == [recs |-> << >>, meeting |-> 0]

Init ==
    /\ arrived = 0 /\ receivers = {} /\ gen = 0 /\ started = 0 /\ captured = 0
    /\ meeting = 0 /\ making = 0 /\ closed = FALSE /\ wake = FALSE
    /\ queue = << >> /\ overflow = << >> /\ pc = "top" /\ work = << >> /\ hand = << >>
    /\ reader = "idle" /\ pending = << >> /\ held = [f \in Flushers |-> Nothing]
    /\ async = << >> /\ batch = [w \in Inserters |-> << >>] /\ stored = << >>
    /\ excused = FALSE /\ late = FALSE
-----------------------------------------------------------------------------
(* The receivers *)

\* signalResultWakeLocked
Signal == wake' = TRUE

\* EnqueueResult: the queue, or for a final result the overflow; a done
\* context and a free queue are equal choices of the select. A final result
\* that is refused closes the session.
Arrive(c, final) ==
    LET r == [id |-> arrived + 1, final |-> final, gen |-> c.gen, of |-> c.of] IN
    /\ arrived < MaxResults /\ arrived' = arrived + 1
    /\ \/ /\ Len(queue) < QueueSize
          /\ queue' = Append(queue, r) /\ UNCHANGED <<overflow, wake, closed, excused>>
       \/ /\ Len(queue) = QueueSize /\ ~closed /\ final /\ Len(overflow) < OverflowSize
          /\ overflow' = Append(overflow, r) /\ Signal
          /\ UNCHANGED <<queue, closed, excused>>
       \/ /\ closed \/ (Len(queue) = QueueSize /\ (~final \/ Len(overflow) = OverflowSize))
          /\ closed' = (closed \/ final) /\ excused' = (excused \/ final)
          /\ UNCHANGED <<queue, overflow, wake>>
    /\ UNCHANGED <<receivers, gen, started, captured, meeting, pc, work, hands, reader,
                   pending, held, store, late>>

\* AdvanceResultGeneration: what is queued is superseded.
Advance == gen' = gen + 1 /\ queue' = << >> /\ overflow' = << >>

\* reconnectRemote, by a receiver that lost its connection, whatever the
\* reader does meanwhile: a new receiver for the same meeting.
Reconnect ==
    /\ started > 0 /\ ~closed /\ gen < MaxGenerations
    /\ Advance /\ wake' = FALSE
    /\ receivers' = receivers \cup {[gen |-> gen', of |-> started]}
    /\ excused' = TRUE
    /\ UNCHANGED <<arrived, started, captured, meeting, closed, pc, work, hands, reader,
                   pending, held, store, late>>
-----------------------------------------------------------------------------
(* The processor *)

Drained ==
    /\ pc = "top"
    /\ work' = overflow /\ overflow' = << >>
    /\ pc' = "select"
    /\ UNCHANGED <<input, meeting, closed, queue, wake, hands, reader, pending, held, store,
                   excused, late>>

\* What was drained comes first; then the select takes from the queue, is woken
\* by the overflow, or ends with the context.
Handle(r) == hand' = <<r>> /\ pc' = "check"
Select ==
    /\ pc = "select"
    /\ \/ work # << >> /\ Handle(Head(work)) /\ work' = Tail(work) /\ UNCHANGED <<queue, wake>>
       \/ work = << >> /\ queue # << >> /\ Handle(Head(queue)) /\ queue' = Tail(queue)
          /\ UNCHANGED <<work, wake>>
       \/ work = << >> /\ wake /\ wake' = FALSE /\ pc' = "top" /\ UNCHANGED <<hand, work, queue>>
       \/ work = << >> /\ closed /\ pc' = "dead" /\ UNCHANGED <<hand, work, queue, wake>>
    /\ UNCHANGED <<input, meeting, closed, overflow, making, reader, pending, held, store,
                   excused, late>>

\* Back to the loop: to the rest of what was drained, or to its top.
Done == pc' = (IF work # << >> THEN "select" ELSE "top") /\ hand' = << >>
\* The processor ends and leaves the session open.
Fail_Open == excused' = TRUE /\ UNCHANGED closed /\ pc' = "dead" /\ hand' = << >>
\* The session ends loudly, and the processor with it.
Fail == closed' = TRUE /\ excused' = TRUE /\ pc' = "dead" /\ hand' = << >>

\* Results of older generations are handled too.
Current_Always == TRUE
\* A result of an older generation is passed over.
Current == hand[1].gen = gen
Check ==
    /\ pc = "check"
    /\ \/ Current /\ hand[1].final /\ pc' = "ensure" /\ UNCHANGED hand
          /\ late' = (late \/ reader = "reset")
       \/ ~(Current /\ hand[1].final) /\ Done /\ UNCHANGED late
    /\ UNCHANGED <<input, meeting, closed, results, making, reader, pending, held, store,
                   excused>>

\* ensureMeetingForTranscription: the session's meeting, or one found or
\* created for the SessionUUID of this moment, attached when the database has
\* answered.
ThisMeeting == IF reader = "reset" THEN Nameless ELSE started
Ensure ==
    /\ pc = "ensure"
    /\ \/ meeting # 0 /\ pc' = "persist" /\ UNCHANGED <<hands, closed, excused>>
       \/ meeting = 0 /\ making' = ThisMeeting /\ pc' = "attach"
          /\ UNCHANGED <<hand, closed, excused>>
       \/ meeting = 0 /\ Fail /\ UNCHANGED making
    /\ UNCHANGED <<input, meeting, results, reader, pending, held, store, late>>
Attach ==
    /\ pc = "attach" /\ meeting' = making /\ making' = 0 /\ pc' = "persist"
    /\ UNCHANGED <<input, closed, results, hand, reader, pending, held, store, excused, late>>

\* A record is kept for later; if there are too many the session is closed.
Rec(r) == [id |-> r.id, of |-> r.of]
Buffer ==
    \/ /\ Len(pending) < PendingSize
       /\ pending' = Append(pending, Rec(hand[1])) /\ Done /\ UNCHANGED <<closed, excused>>
    \/ Len(pending) >= PendingSize /\ Fail /\ UNCHANGED pending

\* A flush takes the pending records and remembers the meeting it read.
TakeBy(f) ==
    /\ held' = [held EXCEPT ![f] = [recs |-> pending, meeting |-> meeting]]
    /\ pending' = << >>

\* persistQueuedTranscription: older records first.
Persist ==
    /\ pc = "persist"
    /\ \/ meeting = 0 /\ Buffer /\ UNCHANGED held
       \/ /\ meeting # 0 /\ TakeBy("processor")
          /\ pc' = IF pending = << >> THEN "put" ELSE "flush"
          /\ UNCHANGED <<hand, closed, excused>>
    /\ UNCHANGED <<input, meeting, results, making, reader, store, late>>

\* enqueueRecords: other sessions fill the queue too, so it may be full any time.
Enqueued(f, recs) ==
    /\ async' = Append(async, [i \in DOMAIN recs |->
                    [id |-> recs[i].id, of |-> recs[i].of, meeting |-> held[f].meeting]])
    /\ UNCHANGED <<batch, stored>>
BackTo_Alone(f) == held[f].recs     \* forgets those that came meanwhile
\* Records refused go back before the pending ones. If these are too many then,
\* the refused are lost and the caller gets ErrPendingFinalRecordsFull.
BackTo(f) == held[f].recs \o pending
Kept_All(f) == BackTo(f)    \* however many there are
Kept(f) == IF Len(BackTo(f)) <= PendingSize THEN BackTo(f) ELSE pending
Release(f) == held' = [held EXCEPT ![f] = Nothing]

\* The flush of the processor; if it is refused its own record joins the rest.
\* The session ends when there is no room, for the records or for its own.
Flush ==
    /\ pc = "flush"
    /\ \/ /\ Enqueued("processor", held["processor"].recs)
          /\ held' = [held EXCEPT !["processor"].recs = << >>]
          /\ pc' = "put" /\ UNCHANGED <<hand, pending, closed, excused>>
       \/ /\ Len(Kept("processor")) < PendingSize
          /\ pending' = Append(Kept("processor"), Rec(hand[1]))
          /\ IF Len(BackTo("processor")) > PendingSize THEN Fail ELSE Done /\ UNCHANGED <<closed, excused>>
          /\ Release("processor") /\ UNCHANGED store
       \/ /\ Len(Kept("processor")) >= PendingSize
          /\ pending' = Kept("processor") /\ Fail
          /\ Release("processor") /\ UNCHANGED store
    /\ UNCHANGED <<input, meeting, results, making, reader, late>>

Put ==
    /\ pc = "put"
    /\ \/ Enqueued("processor", <<Rec(hand[1])>>) /\ Done /\ UNCHANGED <<pending, closed, excused>>
       \/ Buffer /\ UNCHANGED store
    /\ Release("processor")
    /\ UNCHANGED <<input, meeting, results, making, reader, late>>
-----------------------------------------------------------------------------
(* The reader of the commands *)

\* The processor is past its check and will act on what it has in hand.
Committed == pc \in {"ensure", "attach", "persist", "flush", "put"}

\* resetSessionForNewStart forgets meeting, SessionUUID and pending records.
StartReset ==
    /\ reader = "idle" /\ ~closed /\ gen < MaxGenerations
    /\ meeting' = 0 /\ pending' = << >>
    /\ reader' = "reset"
    /\ excused' = (excused \/ started > 0)
    /\ late' = (late \/ Committed)
    /\ UNCHANGED <<input, closed, results, pc, hands, held, store>>
StartAdvance ==
    /\ reader = "reset" /\ gen < MaxGenerations
    /\ Advance /\ started' = gen' /\ captured' = gen' /\ reader' = "ensure"
    /\ late' = (late \/ Committed)
    /\ UNCHANGED <<arrived, receivers, wake, meeting, closed, pc, work, hands, pending, held,
                   store, excused>>
\* The meeting is created before the remote connection, or not; a failure is
\* left to the first result. The signal is cleared last.
StartEnsure ==
    /\ reader = "ensure" /\ wake' = FALSE
    /\ reader' \in (IF meeting = 0 THEN {"attach", "run"} ELSE {"run"})
    /\ UNCHANGED <<input, meeting, closed, queue, overflow, work, pc, hands, pending, held,
                   store, excused, late>>
StartAttach ==
    /\ reader = "attach" /\ meeting' = started /\ reader' = "run"
    /\ UNCHANGED <<input, closed, results, pc, hands, pending, held, store, excused, late>>
StartReceiver ==
    /\ reader = "run" /\ reader' = "idle"
    /\ receivers' = receivers \cup {[gen |-> captured, of |-> started]}
    /\ UNCHANGED <<arrived, gen, started, captured, meeting, closed, results, pc, hands,
                   pending, held, store, excused, late>>

\* A resume: a new receiver for the same meeting.
Resume ==
    /\ reader = "idle" /\ started > 0 /\ ~closed /\ gen < MaxGenerations
    /\ Advance /\ captured' = gen' /\ reader' = "wake"
    /\ excused' = TRUE
    /\ UNCHANGED <<arrived, receivers, started, wake, meeting, closed, pc, work, hands,
                   pending, held, store, late>>
ResumeReceiver ==
    /\ reader = "wake" /\ wake' = FALSE /\ reader' = "run"
    /\ UNCHANGED <<input, meeting, closed, queue, overflow, work, pc, hands, pending, held,
                   store, excused, late>>

\* A stop or a disconnect flushes what is pending; records that do not fit any
\* more are dropped and only logged.
StopTake ==
    /\ reader = "idle" /\ meeting # 0 /\ pending # << >>
    /\ TakeBy("reader") /\ reader' = "flush"
    /\ UNCHANGED <<input, meeting, closed, results, pc, hands, store, excused, late>>
StopPut ==
    /\ reader = "flush"
    /\ \/ Enqueued("reader", held["reader"].recs) /\ UNCHANGED <<pending, excused>>
       \/ /\ pending' = Kept("reader")
          /\ excused' = (excused \/ Len(BackTo("reader")) > PendingSize)
          /\ UNCHANGED store
    /\ Release("reader") /\ reader' = "idle"
    /\ UNCHANGED <<input, meeting, closed, results, pc, hands, late>>

CloseSession ==
    /\ ~closed /\ closed' = TRUE /\ excused' = TRUE
    /\ UNCHANGED <<input, meeting, results, pc, hands, reader, pending, held, store, late>>
-----------------------------------------------------------------------------
(* The inserters *)

\* A batch that would grow too large is inserted first; a failed insert drops
\* it. What is taken may fill the batch.
Insert(w, recs, rest) ==
    /\ batch' = [batch EXCEPT ![w] = rest]
    /\ \/ stored' = stored \o recs /\ UNCHANGED excused
       \/ excused' = TRUE /\ UNCHANGED stored
Take(w) ==
    LET recs == batch[w] \o Head(async) IN
    /\ async # << >> /\ async' = Tail(async)
    /\ IF batch[w] # << >> /\ Len(recs) > BatchSize THEN Insert(w, batch[w], Head(async))
       ELSE IF Len(recs) >= BatchSize THEN Insert(w, recs, << >>)
       ELSE batch' = [batch EXCEPT ![w] = recs] /\ UNCHANGED <<stored, excused>>
    /\ UNCHANGED <<input, meeting, closed, results, pc, hands, reader, pending, held, late>>
Tick(w) ==
    /\ batch[w] # << >> /\ Insert(w, batch[w], << >>)
    /\ UNCHANGED <<input, meeting, closed, results, pc, hands, reader, pending, held, async,
                   late>>
-----------------------------------------------------------------------------
Processor == Drained \/ Select \/ Check \/ Ensure \/ Attach \/ Persist \/ Flush \/ Put
Starting == StartAdvance \/ StartEnsure \/ StartAttach \/ StartReceiver \/ ResumeReceiver
Reader == StartReset \/ Starting \/ Resume \/ StopTake \/ StopPut

Next ==
    \/ \E c \in receivers, final \in BOOLEAN : Arrive(c, final)
    \/ Reconnect \/ Processor \/ Reader \/ CloseSession
    \/ \E w \in Inserters : Take(w) \/ Tick(w)

\* Each goroutine of the process goes on; nothing is assumed of the remote
\* service, the client or the success of an insert.
Fairness ==
    /\ WF_vars(Processor)
    /\ WF_vars(Starting \/ StopPut)
    /\ \A w \in Inserters : WF_vars(Take(w)) /\ WF_vars(Tick(w))

Spec == Init /\ [][Next]_vars /\ Fairness
-----------------------------------------------------------------------------
(* Properties *)

\* What was said after one start is stored in the meeting of that start, as long
\* as no start came upon a result that had passed the check of its generation:
\* resetSessionForNewStart forgets the meeting before it advances the generation,
\* and nothing stops processQueuedRemoteResult between its check and the insert.
Elements(s) == {s[i] : i \in DOMAIN s}
RightMeeting == ~late => \A r \in Elements(stored) : r.meeting = r.of

\* The final results on the way, by their ids, and those in the database.
Finals(s) == {r.id : r \in {q \in Elements(s) : q.final}}
IdsOf(s) == {r.id : r \in Elements(s)}
Flight ==
    Finals(queue) \cup Finals(overflow) \cup Finals(work) \cup Finals(hand)
        \cup IdsOf(pending) \cup (UNION {IdsOf(held[f].recs) : f \in Flushers})
        \cup (UNION {IdsOf(b) : b \in Elements(async)})
        \cup (UNION {IdsOf(batch[w]) : w \in Inserters})
Path == INSTANCE FinalResults WITH Ids <- Ids, flight <- Flight,
                                   stored <- IdsOf(stored), broken <- excused
\* The whole path implements FinalResults: a final result that was accepted is
\* stored at most once, and on its way nothing loses it while the session
\* lives, is not superseded and the database inserts.
NothingLostSilently == Path!FSpec

\* A result of the current generation does not stay in the queue or in the
\* overflow (processRemoteResults, signalResultWakeLocked).
Waiting == \E r \in Elements(queue) \cup Elements(overflow) : r.gen = gen
Drains == Waiting ~> (closed \/ ~Waiting)
=============================================================================
