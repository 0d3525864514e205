------------------------------- MODULE Batcher -------------------------------
(***************************************************************************)
(* TranscriptionBatcher of internal/service/transcription_batcher.go:      *)
(* callers append records to a bounded buffer under b.mu; a caller that     *)
(* fills a batch, and the loop goroutine at every tick, flush it.  A flush  *)
(* first tries to take one of Workers slots of b.flushSem and gives up when *)
(* none is free; then it takes the whole buffer under b.mu and hands it to  *)
(* a goroutine that writes it.  Close marks the batcher closed, wakes the   *)
(* loop for a last flush and waits for b.wg.                                *)
(*                                                                         *)
(* A record is its number in the order of acceptance.                       *)
(***************************************************************************)
EXTENDS Integers, Sequences, FiniteSets

CONSTANTS
    Callers,         \* goroutines that call Add
    Loop,            \* the goroutine of startFlushLoop
    Slots,           \* the places of flushSem (config.Workers of them)
    BatchSize,       \* config.BatchSize
    MaxBufferSize,   \* config.MaxBufferSize
    MaxRecords       \* bound of the model: records accepted in all

Flushers == Callers \cup {Loop}
Free == "free"       \* a slot nobody holds
Writer == "writer"   \* a slot whose batch is being written

(* NewTranscriptionBatcher replaces sizes that are not positive. *)
ASSUME BatcherAssumption ==
    /\ Loop \notin Callers
    /\ Flushers \cap {Free, Writer} = {}
    /\ IsFiniteSet(Slots) /\ Slots # {}
    /\ Slots \cap {"buffer", "stored", "failed"} = {}
    /\ BatchSize \in Nat \ {0}
    /\ MaxBufferSize \in Nat \ {0}
    /\ MaxRecords \in Nat

VARIABLES
    buffer,     \* b.buffer
    closed,     \* b.closed
    closer,     \* the goroutine in Close; "waiting" means closeCh is closed
    holder,     \* who holds each slot of flushSem
    batch,      \* the records taken into each slot
    pc,         \* where each flusher is
    last,       \* the loop is in the flush before it returns
    wg,         \* counter of b.wg
    accepted,   \* history: number of records Add accepted
    stored,     \* history: records the storage committed
    failed      \* history: records of a write that failed, dropped with a log line

vars == <<buffer, closed, closer, holder, batch, pc, last, wg, accepted, stored, failed>>

Init ==
    /\ buffer = <<>>
    /\ closed = FALSE
    /\ closer = "open"
    /\ holder = [s \in Slots |-> Free]
    /\ batch = [s \in Slots |-> <<>>]
    /\ pc = [f \in Flushers |-> IF f = Loop THEN "ticking" ELSE "idle"]
    /\ last = FALSE
    /\ wg = 1
    /\ accepted = 0
    /\ stored = {}
    /\ failed = {}

RecordsIn(s) == {s[i] : i \in DOMAIN s}

-----------------------------------------------------------------------------
(* Add: one critical section; a full batch makes the caller flush after it. *)

(* Mutant: the limit is checked one record late. *)
Full_Late == Len(buffer) > MaxBufferSize

Full == Len(buffer) >= MaxBufferSize

Add(c) ==
    /\ pc[c] = "idle"
    /\ ~closed
    /\ ~Full
    /\ accepted < MaxRecords
    /\ accepted' = accepted + 1
    /\ buffer' = Append(buffer, accepted + 1)
    /\ pc' = [pc EXCEPT ![c] = IF Len(buffer) + 1 >= BatchSize THEN "flush" ELSE @]
    /\ UNCHANGED <<closed, closer, holder, batch, last, wg, stored, failed>>

(* The select of the loop; with both channels ready either branch runs. *)
Tick ==
    /\ pc[Loop] = "ticking"
    /\ pc' = [pc EXCEPT ![Loop] = "flush"]
    /\ UNCHANGED <<buffer, closed, closer, holder, batch, last, wg, accepted, stored, failed>>

SeeClosed ==
    /\ pc[Loop] = "ticking"
    /\ closer = "waiting"
    /\ pc' = [pc EXCEPT ![Loop] = "flush"]
    /\ last' = TRUE
    /\ UNCHANGED <<buffer, closed, closer, holder, batch, wg, accepted, stored, failed>>

-----------------------------------------------------------------------------
(* flush, run by callers and by the loop. *)

(* Mutant: the loop returns after any flush. *)
Returned_Once(f) == IF f # Loop THEN "idle" ELSE "exited"

(* Where a flusher goes when flush returns; the loop returns after its last *)
(* one and its deferred wg.Done runs.                                       *)
Returned(f) == IF f # Loop THEN "idle" ELSE IF last THEN "exited" ELSE "ticking"
LoopDone(f) == IF f = Loop /\ last THEN 1 ELSE 0

TryAcquire(f) ==
    /\ pc[f] = "flush"
    /\ \E s \in Slots :
        /\ holder[s] = Free
        /\ holder' = [holder EXCEPT ![s] = f]
    /\ pc' = [pc EXCEPT ![f] = "acquired"]
    /\ UNCHANGED <<buffer, closed, closer, batch, last, wg, accepted, stored, failed>>

(* The default branch of the select: every worker is busy. *)
GiveUp(f) ==
    /\ pc[f] = "flush"
    /\ \A s \in Slots : holder[s] # Free
    /\ pc' = [pc EXCEPT ![f] = Returned(f)]
    /\ wg' = wg - LoopDone(f)
    /\ UNCHANGED <<buffer, closed, closer, holder, batch, last, accepted, stored, failed>>

Release(s) == [holder EXCEPT ![s] = Free]

FindEmpty(f) ==
    /\ pc[f] = "acquired"
    /\ buffer = <<>>
    /\ \E s \in Slots : holder[s] = f /\ holder' = Release(s)
    /\ pc' = [pc EXCEPT ![f] = Returned(f)]
    /\ wg' = wg - LoopDone(f)
    /\ UNCHANGED <<buffer, closed, closer, batch, last, accepted, stored, failed>>

(* Mutant: the buffer is handed over and kept. *)
Emptied_Kept == buffer

Emptied == <<>>

Take(f) ==
    /\ pc[f] = "acquired"
    /\ buffer # <<>>
    /\ \E s \in Slots : holder[s] = f /\ batch' = [batch EXCEPT ![s] = buffer]
    /\ buffer' = Emptied
    /\ pc' = [pc EXCEPT ![f] = "taken"]
    /\ UNCHANGED <<closed, closer, holder, last, wg, accepted, stored, failed>>

(* wg.Add(1) comes after the buffer was taken and b.mu released. *)
Spawn(f) ==
    /\ pc[f] = "taken"
    /\ \E s \in Slots : holder[s] = f /\ holder' = [holder EXCEPT ![s] = Writer]
    /\ pc' = [pc EXCEPT ![f] = Returned(f)]
    /\ wg' = (wg + 1) - LoopDone(f)
    /\ UNCHANGED <<buffer, closed, closer, batch, last, accepted, stored, failed>>

-----------------------------------------------------------------------------
(* batchWrite and the deferred release of its slot and of wg.  A write that *)
(* fails, or times out after 10 s, drops its records.                       *)

(* Mutant: wg.Done only on success. *)
WriteDone_Stored(ok) == IF ok THEN wg - 1 ELSE wg

WriteDone(ok) == wg - 1

Write(s, ok) ==
    /\ holder[s] = Writer
    /\ IF ok
       THEN stored' = stored \cup RecordsIn(batch[s]) /\ failed' = failed
       ELSE failed' = failed \cup RecordsIn(batch[s]) /\ stored' = stored
    /\ batch' = [batch EXCEPT ![s] = <<>>]
    /\ holder' = [holder EXCEPT ![s] = Free]
    /\ wg' = WriteDone(ok)
    /\ UNCHANGED <<buffer, closed, closer, pc, last, accepted>>

(* Close; a second call returns at once and changes nothing. *)
MarkClosed ==
    /\ closer = "open"
    /\ closed' = TRUE
    /\ closer' = "marked"
    /\ UNCHANGED <<buffer, holder, batch, pc, last, wg, accepted, stored, failed>>

SignalLoop ==
    /\ closer = "marked"
    /\ closer' = "waiting"
    /\ UNCHANGED <<buffer, closed, holder, batch, pc, last, wg, accepted, stored, failed>>

CloseReturn ==
    /\ closer = "waiting"
    /\ wg = 0
    /\ closer' = "returned"
    /\ UNCHANGED <<buffer, closed, holder, batch, pc, last, wg, accepted, stored, failed>>

FlushStep(f) == TryAcquire(f) \/ GiveUp(f) \/ FindEmpty(f) \/ Take(f) \/ Spawn(f)
WriteStep(s) == Write(s, TRUE) \/ Write(s, FALSE)
CloseStep == SignalLoop \/ CloseReturn

Next ==
    \/ \E c \in Callers : Add(c)
    \/ Tick
    \/ SeeClosed
    \/ \E f \in Flushers : FlushStep(f)
    \/ \E s \in Slots : WriteStep(s)
    \/ MarkClosed
    \/ CloseStep

(* The scheduler runs every goroutine that can run, the ticker fires, and a *)
(* write ends within its 10 s context.  Nobody has to call Add or Close.    *)
(* closeCh stays readable, so a select that is offered it over and over     *)
(* picks it at last (Go chooses uniformly among the ready cases).           *)
Fairness ==
    /\ WF_vars(Tick)
    /\ SF_vars(SeeClosed)
    /\ \A f \in Flushers : WF_vars(FlushStep(f))
    /\ \A s \in Slots : WF_vars(WriteStep(s))
    /\ WF_vars(CloseStep)

Spec == Init /\ [][Next]_vars /\ Fairness

-----------------------------------------------------------------------------
(* Properties. *)

Records == 1..MaxRecords

(* Types; the buffer never grows beyond config.MaxBufferSize.               *)
TypeOK ==
    /\ buffer \in Seq(Records) /\ Len(buffer) <= MaxBufferSize
    /\ closed \in BOOLEAN
    /\ closer \in {"open", "marked", "waiting", "returned"}
    /\ holder \in [Slots -> Flushers \cup {Free, Writer}]
    /\ batch \in [Slots -> Seq(Records)]
    /\ pc \in [Flushers -> {"idle", "ticking", "flush", "acquired", "taken", "exited"}]
    /\ last \in BOOLEAN
    /\ wg \in Nat
    /\ accepted \in 0..MaxRecords
    /\ stored \in SUBSET Records
    /\ failed \in SUBSET Records

Places == Slots \cup {"buffer", "stored", "failed"}

At(r, p) ==
    \/ p = "buffer" /\ r \in RecordsIn(buffer)
    \/ p = "stored" /\ r \in stored
    \/ p = "failed" /\ r \in failed
    \/ p \in Slots /\ r \in RecordsIn(batch[p])

(* A record Add accepted is never written twice and never vanishes: it is    *)
(* in the buffer, in one batch, committed, or dropped with a failed batch,   *)
(* and in one of these only, whichever goroutines flush at the same time     *)
(* (flush, batchWrite).                                                      *)
EachRecordOnce ==
    \A r \in 1..accepted : \E p \in Places : \A q \in Places : At(r, q) <=> q = p

(* The counting that keeps the workers usable and Close honest: a slot of   *)
(* flushSem is held by a flush under way or a running write, one each, and   *)
(* wg counts the running writes and the loop.                                *)
WorkersAccounted ==
    /\ \A f \in Flushers :
        Cardinality({s \in Slots : holder[s] = f})
            = (IF pc[f] \in {"acquired", "taken"} THEN 1 ELSE 0)
    /\ wg = Cardinality({s \in Slots : holder[s] = Writer})
            + (IF pc[Loop] = "exited" THEN 0 ELSE 1)

(* A record does not stay in the buffer of an open batcher, even when the    *)
(* flush its Add asked for found every worker busy: a later tick takes it.   *)
BufferedIsTaken ==
    \A r \in Records : r \in RecordsIn(buffer) ~> (r \notin RecordsIn(buffer) \/ closed)

(* Close does not hang: the loop sees closeCh and every write reports to wg. *)
CloseReturns == (closer = "waiting") ~> (closer = "returned")

(* "关闭批量写入器，等待所有数据写入完成" (close, waiting until all data is   *)
(* written): when Close has returned and no Add is under way, nothing that   *)
(* was accepted is still unwritten.                                          *)
CloseWaitsForAllData ==
    closer = "returned" /\ (\A c \in Callers : pc[c] = "idle")
        => \A r \in 1..accepted : r \in stored \cup failed
=============================================================================
