------------------------ MODULE SessionBillingProofs ------------------------
(* Theorems about SessionBilling, for any number of goroutines, sessions    *)
(* and seconds.  Types and settlements hold whatever overlaps are followed; *)
(* that no second is charged twice or lost holds for Followed \subseteq     *)
(* Harmless.                                                                *)
EXTENDS SessionBilling, TLAPS

(* The session objects are well formed, and no clock reading is in the      *)
(* future, so that no elapsed time is negative.                             *)
SessOK ==
    /\ sess \in [Sessions -> SessionType]
    /\ \A s \in Sessions : sess[s].lastUpdate <= now /\ sess[s].lastBilling <= now

(* The jobs are well formed; at most steps an operation holds a session.    *)
JobsOK ==
    /\ job \in [Procs -> JobType]
    /\ \A p \in Procs :
        /\ job[p].time <= now
        /\ job[p].at \in {"cleanup", "apply", "set", "settle", "begin", "charge"}
           => job[p].s \in Sessions

HistOK == hist \in [Sessions -> HistoryType]

IInv ==
    /\ now \in Nat
    /\ cached \in {0} \cup Sessions
    /\ wsMeeting \in BOOLEAN
    /\ made \in 0..MaxSessions
    /\ SessOK
    /\ JobsOK
    /\ HistOK

LEMMA IInvImpliesType == IInv => TypeOK
BY DEF IInv, SessOK, JobsOK, HistOK, TypeOK

-----------------------------------------------------------------------------
(* What CalculateFinalTimes and the stop compute from it are seconds. *)
LEMMA SecondsType ==
    ASSUME IInv, NEW s \in Sessions
    PROVE  Final(s) \in Nat /\ Outstanding(s) \in Nat
<1>1. now \in Nat /\ sess[s] \in SessionType /\ sess[s].lastUpdate <= now
  BY DEF IInv, SessOK
<1>2. Final(s) \in Nat
  BY <1>1 DEF Final, SessionType
<1> QED
  BY <1>1, <1>2 DEF Outstanding, SessionType

(* The idle job is well formed. *)
LEMMA IdleType == Idle \in JobType /\ Idle.at = "idle" /\ Idle.time = 0
BY DEF Idle, JobType

(* What the history records keeps it well formed. *)
LEMMA HistoryUpdates ==
    ASSUME NEW h \in HistoryType, NEW n \in Nat, NEW b \in BOOLEAN
    PROVE  /\ Used(h) \in HistoryType
           /\ Charged(h, n) \in HistoryType
           /\ Cut(h, b) \in HistoryType
           /\ [h EXCEPT !.clear = b] \in HistoryType
           /\ [h EXCEPT !.settled = b] \in HistoryType
<1>1. Used(h) \in HistoryType
  <2>1. h.used + 1 \in Nat
    BY DEF HistoryType
  <2> QED
    BY <2>1 DEF Used, HistoryType
<1>2. Charged(h, n) \in HistoryType
  <2>1. h.billed + n \in Nat
    BY DEF HistoryType
  <2> QED
    BY <2>1 DEF Charged, HistoryType
<1>3. Cut(h, b) \in HistoryType
  <2>1. PICK c \in BOOLEAN : c = (h.short \/ b)
    OBVIOUS
  <2>2. Cut(h, b) = [h EXCEPT !.short = c]
    BY <2>1 DEF Cut
  <2> QED
    BY <2>2 DEF HistoryType
<1>4. [h EXCEPT !.clear = b] \in HistoryType /\ [h EXCEPT !.settled = b] \in HistoryType
  BY DEF HistoryType
<1> QED
  BY <1>1, <1>2, <1>3, <1>4

LEMMA RecordedType ==
    ASSUME IInv, NEW s \in Sessions, NEW h \in HistoryType,
           hist' = [hist EXCEPT ![s] = Recorded(@, h)]
    PROVE  HistOK'
<1>1. Recorded(hist[s], h) \in HistoryType
  BY DEF Recorded, IInv, HistOK
<1> QED
  BY <1>1 DEF IInv, HistOK

LEMMA SpoiledType == Spoiled \in HistoryType
BY DEF Spoiled, Fresh, HistoryType

(* A new session is well formed. *)
LEMMA BlankType == Blank \in SessionType
BY DEF Blank, SessionType, Statuses

(* A goroutine that goes on with a well-formed job keeps the jobs well      *)
(* formed.                                                                  *)
LEMMA JobUpdate ==
    ASSUME IInv, NEW p \in Procs, NEW j \in JobType, j.time <= now, now' = now,
           j.at \in {"cleanup", "apply", "set", "settle", "begin", "charge"}
           => j.s \in Sessions,
           job' = [job EXCEPT ![p] = j]
    PROVE  JobsOK'
BY DEF IInv, JobsOK

(* One that takes hold of a session keeps the histories well formed too.    *)
LEMMA HoldType ==
    ASSUME IInv, NEW p \in Procs, NEW j \in JobType, j.s \in Sessions,
           j.time <= now, now' = now, Hold(p, j)
    PROVE  JobsOK' /\ HistOK'
<1>1. job' = [job EXCEPT ![p] = j]
  BY DEF Hold
<1>2. HistOK'
  BY SpoiledType DEF Hold, Unfollow, IInv, HistOK
<1> QED
  BY <1>1, <1>2, JobUpdate

(* A goroutine that becomes idle keeps the jobs well formed. *)
LEMMA DoneType ==
    ASSUME IInv, NEW p \in Procs, now' = now, Done(p)
    PROVE  JobsOK'
<1>1. Idle.time <= now
  BY IdleType DEF IInv
<1> QED
  BY <1>1, IdleType, JobUpdate DEF Done

(* And one that goes to its next StopTranscription call. *)
LEMMA NextCallType ==
    ASSUME IInv, NEW p \in Procs, now' = now, NextCall(p)
    PROVE  JobsOK'
<1>1. now \in Nat /\ job[p].calls \in 0..2
  BY DEF IInv, JobsOK, JobType
<1>2. CASE job[p].calls <= 1
  <2>1. Done(p)
    BY <1>2 DEF NextCall, Done
  <2> QED
    BY <2>1, DoneType
<1>3. CASE ~(job[p].calls <= 1)
  <2>1. PICK n \in 0..2 : n = job[p].calls - 1
    BY <1>1, <1>3
  <2>2. [Idle EXCEPT !.op = "stop", !.at = "get", !.calls = n] \in JobType
    BY IdleType DEF JobType
  <2>3. PICK j : j = [Idle EXCEPT !.op = "stop", !.at = "get", !.calls = n]
    OBVIOUS
  <2>4. j \in JobType /\ j.at = "get" /\ j.time <= now
    BY <1>1, <2>2, <2>3, IdleType DEF JobType
  <2>5. job' = [job EXCEPT ![p] = j]
    BY <1>3, <2>1, <2>3 DEF NextCall
  <2> QED
    BY <2>4, <2>5, JobUpdate
<1> QED
  BY <1>2, <1>3

-----------------------------------------------------------------------------
(* Time passes. *)
LEMMA ElapseStep == IInv /\ Elapse => IInv'
<1> SUFFICES ASSUME IInv, Elapse PROVE IInv'
  OBVIOUS
<1>1. now \in Nat /\ now' = now + 1
  BY DEF IInv, Elapse
<1>2. SessOK'
  BY <1>1 DEF IInv, SessOK, SessionType, Elapse
<1>3. JobsOK'
  BY <1>1 DEF IInv, JobsOK, JobType, Elapse
<1>4. HistOK'
  <2>1. ASSUME NEW s \in Sessions PROVE hist'[s] \in HistoryType
    <3>1. hist[s] \in HistoryType /\ Used(hist[s]) \in HistoryType
      BY HistoryUpdates DEF IInv, HistOK
    <3> QED
      BY <3>1 DEF Elapse, Recorded
  <2> QED
    BY <2>1 DEF HistOK, Elapse
<1> QED
  BY <1>1, <1>2, <1>3, <1>4 DEF IInv, Elapse

(* StartTranscription. *)
LEMMA StartStep ==
    ASSUME IInv, NEW p \in Workers,
           StartGet(p) \/ StartCleanup(p) \/ StartCreate(p) \/ StartRefused(p)
    PROVE  IInv'
<1> USE BillingAssumption DEF Procs
<1>1. CASE StartGet(p)
  <2>1. PICK keep \in BOOLEAN :
          /\ wsMeeting' = keep
          /\ IF cached # 0
             THEN Hold(p, [Idle EXCEPT !.op = "start", !.at = "cleanup",
                                       !.s = cached, !.meeting = keep])
             ELSE /\ job' = [job EXCEPT ![p] = [Idle EXCEPT !.op = "start",
                                                !.at = "create", !.meeting = keep]]
                  /\ UNCHANGED hist
    BY <1>1 DEF StartGet, IInv
  <2>2. CASE cached # 0
    <3>1. cached \in Sessions /\ now \in Nat
      BY <2>2 DEF IInv
    <3>2. [Idle EXCEPT !.op = "start", !.at = "cleanup",
                       !.s = cached, !.meeting = keep] \in JobType
      BY <3>1, IdleType DEF JobType
    <3>3. PICK j : j = [Idle EXCEPT !.op = "start", !.at = "cleanup",
                                    !.s = cached, !.meeting = keep]
      OBVIOUS
    <3>4. j \in JobType /\ j.s \in Sessions /\ j.time <= now
      BY <3>1, <3>2, <3>3, IdleType DEF JobType
    <3>5. JobsOK' /\ HistOK'
      BY <1>1, <2>1, <2>2, <3>3, <3>4, HoldType DEF StartGet
    <3> QED
      BY <1>1, <2>1, <3>5 DEF StartGet, IInv, SessOK
  <2>3. CASE cached = 0
    <3>1. now \in Nat
      BY DEF IInv
    <3>2. [Idle EXCEPT !.op = "start", !.at = "create", !.meeting = keep] \in JobType
      BY IdleType DEF JobType
    <3>3. PICK j : j = [Idle EXCEPT !.op = "start", !.at = "create", !.meeting = keep]
      OBVIOUS
    <3>4. j \in JobType /\ j.at = "create" /\ j.time <= now
      BY <3>1, <3>2, <3>3, IdleType DEF JobType
    <3>5. JobsOK'
      BY <1>1, <2>1, <2>3, <3>3, <3>4, JobUpdate DEF StartGet
    <3> QED
      BY <1>1, <2>1, <2>3, <3>5 DEF StartGet, IInv, SessOK, HistOK
  <2> QED
    BY <2>2, <2>3
<1>2. CASE StartCleanup(p)
  <2>1. JobsOK'
    <3>1. job[p] \in JobType /\ job[p].time <= now
      BY DEF IInv, JobsOK
    <3>2. PICK j : j = [job[p] EXCEPT !.at = "create", !.s = 0]
      OBVIOUS
    <3>3. j \in JobType /\ j.at = "create" /\ j.time <= now
      BY <3>1, <3>2 DEF JobType
    <3>4. job' = [job EXCEPT ![p] = j]
      BY <1>2, <3>2 DEF StartCleanup, IInv, JobsOK
    <3> QED
      BY <1>2, <3>3, <3>4, JobUpdate DEF StartCleanup
  <2>2. job[p].s \in Sessions
    BY <1>2 DEF StartCleanup, At, IInv, JobsOK
  <2>3. SessOK'
    BY <1>2, <2>2 DEF StartCleanup, IInv, SessOK, SessionType, Statuses
  <2> QED
    BY <1>2, <2>1, <2>3 DEF StartCleanup, IInv, HistOK
<1>3. CASE StartCreate(p)
  <2>1. JobsOK'
    BY <1>3, DoneType DEF StartCreate
  <2>2. made + 1 \in Sessions /\ made' \in 0..MaxSessions
    BY <1>3 DEF StartCreate, IInv, Sessions
  <2>3. SessOK'
    <3>1. job[p].meeting \in BOOLEAN /\ now \in Nat
      BY DEF IInv, JobsOK, JobType
    <3>2. PICK r : r = [Blank EXCEPT !.status = "transcribing", !.billing = TRUE,
                                     !.meeting = job[p].meeting,
                                     !.lastBilling = now, !.lastUpdate = now]
      OBVIOUS
    <3>3. r \in SessionType /\ r.lastUpdate <= now /\ r.lastBilling <= now
      <4>1. [Blank EXCEPT !.status = "transcribing", !.billing = TRUE,
                          !.meeting = job[p].meeting,
                          !.lastBilling = now, !.lastUpdate = now] \in SessionType
        BY <3>1, BlankType DEF SessionType, Statuses
      <4>2. r.lastUpdate = now /\ r.lastBilling = now
        BY <3>2, BlankType DEF SessionType
      <4> QED
        BY <3>1, <3>2, <4>1, <4>2
    <3>4. sess' = [sess EXCEPT ![made + 1] = r] /\ now' = now
      BY <1>3, <3>2 DEF StartCreate
    <3> QED
      BY <2>2, <3>3, <3>4 DEF IInv, SessOK
  <2> QED
    BY <1>3, <2>1, <2>2, <2>3 DEF StartCreate, IInv, HistOK
<1>4. CASE StartRefused(p)
  BY <1>4, DoneType DEF StartRefused, IInv, SessOK, HistOK
<1> QED
  BY <1>1, <1>2, <1>3, <1>4

(* PauseTranscription and ResumeTranscription. *)
LEMMA PauseResumeStep ==
    ASSUME IInv, NEW p \in Workers,
           \/ PauseGet(p) \/ PauseApply(p)
           \/ ResumeGet(p) \/ ResumeApply(p) \/ PutBack(p)
    PROVE  IInv'
<1> USE BillingAssumption DEF Procs
<1>1. ASSUME NEW op \in {"pause", "resume"}, cached # 0, now' = now,
             Hold(p, [Idle EXCEPT !.op = op, !.at = "apply", !.s = cached])
      PROVE  JobsOK' /\ HistOK'
  <2>1. cached \in Sessions /\ now \in Nat
    BY <1>1 DEF IInv
  <2>2. [Idle EXCEPT !.op = op, !.at = "apply", !.s = cached] \in JobType
    BY <2>1, IdleType DEF JobType
  <2>3. PICK j : j = [Idle EXCEPT !.op = op, !.at = "apply", !.s = cached]
    OBVIOUS
  <2>4. j \in JobType /\ j.s \in Sessions /\ j.time <= now
    BY <2>1, <2>2, <2>3, IdleType DEF JobType
  <2> QED
    BY <1>1, <2>3, <2>4, HoldType
<1>2. ASSUME job[p].at = "apply", now' = now, job' = [job EXCEPT ![p].at = "set"]
      PROVE  job[p].s \in Sessions /\ JobsOK'
  <2>1. job[p] \in JobType /\ job[p].time <= now /\ job[p].s \in Sessions
    BY <1>2 DEF IInv, JobsOK
  <2>2. PICK j : j = [job[p] EXCEPT !.at = "set"]
    OBVIOUS
  <2>3. j \in JobType /\ j.s \in Sessions /\ j.time <= now
    BY <2>1, <2>2 DEF JobType
  <2>4. job' = [job EXCEPT ![p] = j]
    BY <1>2, <2>2 DEF IInv, JobsOK
  <2> QED
    BY <1>2, <2>1, <2>3, <2>4, JobUpdate
<1>3. CASE PauseGet(p)
  BY <1>1, <1>3 DEF PauseGet, IInv, SessOK
<1>4. CASE ResumeGet(p)
  BY <1>1, <1>4 DEF ResumeGet, IInv, SessOK
<1>5. CASE PauseApply(p)
  <2>1. job[p].s \in Sessions /\ JobsOK'
    BY <1>2, <1>5 DEF PauseApply, At
  <2>2. SessOK'
    BY <1>5, <2>1, SMTT(30) DEF PauseApply, IInv, SessOK, SessionType, Statuses
  <2>3. HistOK'
    <3>1. Cut(hist[job[p].s], TRUE) \in HistoryType
      BY <2>1, HistoryUpdates DEF IInv, HistOK
    <3> QED
      BY <1>5, <2>1, <3>1, RecordedType DEF PauseApply
  <2> QED
    BY <1>5, <2>1, <2>2, <2>3 DEF PauseApply, IInv
<1>6. CASE ResumeApply(p)
  <2>1. job[p].s \in Sessions /\ JobsOK'
    BY <1>2, <1>6 DEF ResumeApply, At
  <2>2. sess[job[p].s] \in SessionType /\ now \in Nat
    BY <2>1 DEF IInv, SessOK
  <2>3. PICK r : r = [sess[job[p].s] EXCEPT
          !.status = "transcribing",
          !.billing = IF sess[job[p].s].settling THEN @ ELSE TRUE,
          !.lastUpdate = now, !.lastBilling = now]
    OBVIOUS
  <2>4. sess' = [sess EXCEPT ![job[p].s] = r]
    <3>1. PICK s : s = job[p].s
      OBVIOUS
    <3>2. s \in Sessions /\ sess \in [Sessions -> SessionType]
      BY <2>1, <3>1 DEF IInv, SessOK
    <3>3. sess' = [sess EXCEPT ![s].status = "transcribing",
                               ![s].billing = IF sess[s].settling THEN @ ELSE TRUE,
                               ![s].lastUpdate = now, ![s].lastBilling = now]
      BY <1>6, <3>1 DEF ResumeApply
    <3>4. r = [sess[s] EXCEPT
                 !.status = "transcribing",
                 !.billing = IF sess[s].settling THEN @ ELSE TRUE,
                 !.lastUpdate = now, !.lastBilling = now]
      BY <2>3, <3>1
    <3> QED
      BY <3>1, <3>2, <3>3, <3>4
  <2>5. r \in SessionType /\ r.lastUpdate <= now /\ r.lastBilling <= now
    <3>1. PICK b \in BOOLEAN :
            b = IF sess[job[p].s].settling THEN sess[job[p].s].billing ELSE TRUE
      BY <2>2 DEF SessionType
    <3>2. r = [sess[job[p].s] EXCEPT !.status = "transcribing", !.billing = b,
                                     !.lastUpdate = now, !.lastBilling = now]
      BY <2>2, <2>3, <3>1
    <3>3. [sess[job[p].s] EXCEPT !.status = "transcribing", !.billing = b,
             !.lastUpdate = now, !.lastBilling = now] \in SessionType
      BY <2>2 DEF SessionType, Statuses
    <3> QED
      BY <2>2, <3>2, <3>3 DEF SessionType
  <2>6. now' = now
    BY <1>6 DEF ResumeApply
  <2>7. SessOK'
    BY <2>1, <2>4, <2>5, <2>6 DEF IInv, SessOK
  <2> QED
    BY <1>6, <2>1, <2>7 DEF ResumeApply, IInv, HistOK
<1>7. CASE PutBack(p)
  <2>1. job[p].s \in Sessions
    BY <1>7 DEF PutBack, At, IInv, JobsOK
  <2> QED
    BY <1>7, <2>1, DoneType DEF PutBack, IInv, SessOK, HistOK
<1> QED
  BY <1>3, <1>4, <1>5, <1>6, <1>7

(* A forced stop starts with a well-formed job. *)
LEMMA ForcedType ==
    ASSUME IInv, NEW n \in {1, 2}
    PROVE  /\ Forced(n) \in JobType
           /\ Forced(n).at = "get"
           /\ Forced(n).time <= now
<1>1. n \in 0..2
  OBVIOUS
<1>2. Forced(n) \in JobType
  BY <1>1, IdleType DEF Forced, JobType
<1> QED
  BY <1>2, IdleType DEF Forced, JobType, IInv

(* StopTranscription, up to the settlement. *)
LEMMA StopEntryStep ==
    ASSUME IInv, NEW p \in Procs,
           \/ p \in Workers /\ StopCommand(p)
           \/ p = Monitor /\ (ForceStop \/ ForceGet)
           \/ StopRefused(p)
    PROVE  IInv'
<1>1. CASE StopCommand(p)
  <2>1. cached \in Sessions /\ now \in Nat /\ now' = now
    BY <1>1 DEF StopCommand, IInv
  <2>2. PICK known \in BOOLEAN :
          Hold(p, [Idle EXCEPT !.op = "stop", !.at = "settle", !.s = cached,
                               !.calls = 1, !.meeting = known])
    BY <1>1 DEF StopCommand, IInv
  <2>3. [Idle EXCEPT !.op = "stop", !.at = "settle", !.s = cached,
                     !.calls = 1, !.meeting = known] \in JobType
    <3>1. 1 \in 0..2
      OBVIOUS
    <3> QED
      BY <2>1, <3>1, IdleType DEF JobType
  <2>4. PICK j : j = [Idle EXCEPT !.op = "stop", !.at = "settle", !.s = cached,
                                  !.calls = 1, !.meeting = known]
    OBVIOUS
  <2>5. j \in JobType /\ j.s \in Sessions /\ j.time <= now
    BY <2>1, <2>3, <2>4, IdleType DEF JobType
  <2>6. JobsOK' /\ HistOK'
    BY <2>1, <2>2, <2>4, <2>5, HoldType
  <2> QED
    BY <1>1, <2>6 DEF StopCommand, IInv, SessOK
<1>2. CASE p = Monitor /\ ForceStop
  <2>1. PICK n \in {1, 2} : job' = [job EXCEPT ![p] = Forced(n)]
    BY <1>2 DEF ForceStop
  <2>2. JobsOK'
    BY <1>2, <2>1, ForcedType, JobUpdate DEF ForceStop
  <2> QED
    BY <1>2, <2>2 DEF ForceStop, IInv, SessOK, HistOK
<1>3. CASE p = Monitor /\ ForceGet
  <2>1. CASE cached = 0
    BY <1>3, <2>1, NextCallType DEF ForceGet, IInv, SessOK, HistOK
  <2>2. CASE cached # 0
    <3>1. cached \in Sessions /\ job[p] \in JobType /\ job[p].time <= now
      BY <2>2 DEF IInv, JobsOK
    <3>2. PICK known \in BOOLEAN :
            Hold(p, [job[p] EXCEPT !.at = "settle", !.s = cached, !.meeting = known])
      <4>1. PICK known \in BOOLEAN :
              known = (job[p].meeting \/ (job[p].calls = 2 /\ wsMeeting))
        OBVIOUS
      <4> QED
        BY <1>3, <2>2, <4>1 DEF ForceGet
    <3>3. [job[p] EXCEPT !.at = "settle", !.s = cached, !.meeting = known] \in JobType
      BY <3>1 DEF JobType
    <3>4. PICK j : j = [job[p] EXCEPT !.at = "settle", !.s = cached, !.meeting = known]
      OBVIOUS
    <3>5. j \in JobType /\ j.s \in Sessions /\ j.time <= now
      BY <3>1, <3>3, <3>4 DEF JobType
    <3>6. JobsOK' /\ HistOK'
      BY <1>3, <3>2, <3>4, <3>5, HoldType DEF ForceGet
    <3> QED
      BY <1>3, <3>6 DEF ForceGet, IInv, SessOK
  <2> QED
    BY <2>1, <2>2
<1>4. CASE StopRefused(p)
  BY <1>4, NextCallType DEF StopRefused, IInv, SessOK, HistOK
<1> QED
  BY <1>1, <1>2, <1>3, <1>4

(* The settlement. *)
LEMMA StopSettleStep ==
    ASSUME IInv, NEW p \in Procs, StopSettle(p)
    PROVE  IInv'
<1>1. /\ now \in Nat /\ now' = now
      /\ job[p] \in JobType /\ job[p].time <= now /\ job[p].s \in Sessions
  BY DEF StopSettle, At, IInv, JobsOK
<1>2. PICK s \in Sessions : s = job[p].s
  BY <1>1
<1>3. Final(s) \in Nat /\ Outstanding(s) \in Nat
  BY SecondsType
<1>4. JobsOK'
  <2>1. PICK n \in Nat : job' = [job EXCEPT ![p].at = "charge", ![p].base = n]
    BY <1>2, <1>3 DEF StopSettle
  <2>2. PICK j : j = [job[p] EXCEPT !.at = "charge", !.base = n]
    OBVIOUS
  <2>3. j \in JobType /\ j.s \in Sessions /\ j.time <= now
    BY <1>1, <2>2 DEF JobType
  <2>4. job' = [job EXCEPT ![p] = j]
    BY <2>1, <2>2 DEF IInv, JobsOK
  <2> QED
    BY <1>1, <2>3, <2>4, JobUpdate
<1>5. SessOK'
  <2>1. PICK closed : closed =
          [sess[s] EXCEPT !.settling = TRUE, !.billing = FALSE, !.consumed = Final(s),
                          !.status = "completed", !.lastUpdate = now]
    OBVIOUS
  <2>2. closed \in SessionType /\ closed.lastUpdate <= now /\ closed.lastBilling <= now
    <3>1. sess[s] \in SessionType /\ sess[s].lastBilling <= now
      BY DEF IInv, SessOK
    <3>2. [sess[s] EXCEPT !.settling = TRUE, !.billing = FALSE, !.consumed = Final(s),
                          !.status = "completed", !.lastUpdate = now] \in SessionType
      BY <1>1, <1>3, <3>1 DEF SessionType, Statuses
    <3> QED
      BY <1>1, <2>1, <3>1, <3>2 DEF SessionType
  <2>3. PICK late :
          sess' = [t \in Sessions |->
                     LET here == IF t = s THEN closed ELSE sess[t]
                     IN  IF late[t] THEN [here EXCEPT !.meeting = TRUE] ELSE here]
    <3>1. PICK late :
            late = [t \in Sessions |-> /\ t = cached
                                       /\ sess[s].meeting \/ job[p].meeting
                                       /\ ~sess[s].meeting]
      OBVIOUS
    <3> QED
      BY <1>2, <2>1, <3>1, SMTT(30) DEF StopSettle
  <2>4. ASSUME NEW t \in Sessions
        PROVE  /\ sess'[t] \in SessionType
               /\ sess'[t].lastUpdate <= now /\ sess'[t].lastBilling <= now
    <3>1. PICK here : /\ here = IF t = s THEN closed ELSE sess[t]
                      /\ sess'[t] = IF late[t] THEN [here EXCEPT !.meeting = TRUE] ELSE here
      BY <2>3
    <3>2. here \in SessionType /\ here.lastUpdate <= now /\ here.lastBilling <= now
      BY <2>2, <3>1 DEF IInv, SessOK
    <3>3. CASE late[t]
      BY <3>1, <3>2, <3>3, ZenonT(60) DEF SessionType
    <3>4. CASE ~late[t]
      BY <3>1, <3>2, <3>4
    <3> QED
      BY <3>3, <3>4
  <2> QED
    BY <1>1, <2>3, <2>4 DEF SessOK
<1>6. HistOK'
  <2>1. PICK a \in BOOLEAN :
          a = (Outstanding(s) > 0 /\ ~(sess[s].meeting \/ job[p].meeting))
    OBVIOUS
  <2>2. PICK b \in BOOLEAN : b = (Outstanding(s) = 0)
    OBVIOUS
  <2>3. PICK h : h = [Cut(hist[s], a) EXCEPT !.clear = b]
    OBVIOUS
  <2>4. h \in HistoryType
    BY <2>3, HistoryUpdates DEF IInv, HistOK
  <2>5. /\ hist' = [t \in Sessions |-> hist'[t]]
        /\ hist'[s] = Recorded(hist[s], h)
        /\ \A t \in Sessions : t # s => hist'[t] \in {Spoiled, hist[t]}
    <3>1. PICK later : hist' = [t \in Sessions |->
                                IF t = s
                                THEN Recorded(hist[s],
                                       [Cut(hist[s], a) EXCEPT !.clear = b])
                                ELSE later[t]]
                       /\ \A t \in Sessions : later[t] \in {Spoiled, hist[t]}
      <4>1. PICK later : later = [t \in Sessions |->
              IF /\ t = cached
                 /\ (sess[s].meeting \/ job[p].meeting) /\ ~sess[s].meeting
                 /\ Overlap(p, "stop", t)
              THEN Spoiled ELSE hist[t]]
        OBVIOUS
      <4>2. hist' = [t \in Sessions |->
              IF t = s
              THEN Recorded(hist[s],
                     [Cut(hist[s], /\ Outstanding(s) > 0
                                   /\ ~(sess[s].meeting \/ job[p].meeting))
                        EXCEPT !.clear = (Outstanding(s) = 0)])
              ELSE IF /\ t = cached
                      /\ (sess[s].meeting \/ job[p].meeting) /\ ~sess[s].meeting
                      /\ Overlap(p, "stop", t)
              THEN Spoiled ELSE hist[t]]
        BY <1>2, Zenon DEF StopSettle
      <4>3. hist' = [t \in Sessions |->
              IF t = s THEN Recorded(hist[s], [Cut(hist[s], a) EXCEPT !.clear = b])
              ELSE IF /\ t = cached
                      /\ (sess[s].meeting \/ job[p].meeting) /\ ~sess[s].meeting
                      /\ Overlap(p, "stop", t)
              THEN Spoiled ELSE hist[t]]
        BY <2>1, <2>2, <4>2, Zenon
      <4>4. \A t \in Sessions : later[t] \in {Spoiled, hist[t]}
        BY <4>1
      <4>5. hist' = [t \in Sessions |->
              IF t = s THEN Recorded(hist[s], [Cut(hist[s], a) EXCEPT !.clear = b])
              ELSE later[t]]
        BY <4>1, <4>3, Zenon
      <4> QED
        BY <4>4, <4>5
    <3> QED
      BY <2>3, <3>1
  <2>6. hist[s] \in HistoryType /\ Recorded(hist[s], h) \in HistoryType
    BY <2>4 DEF IInv, HistOK, Recorded
  <2> QED
    BY <2>5, <2>6, SpoiledType DEF IInv, HistOK
<1> QED
  BY <1>1, <1>4, <1>5, <1>6 DEF StopSettle, IInv

(* The charge of a stop. *)
LEMMA StopFinishStep ==
    ASSUME IInv, NEW p \in Procs, StopFinish(p)
    PROVE  IInv'
<1>1. /\ now' = now /\ JobsOK'
      /\ job[p] \in JobType /\ job[p].s \in Sessions
  BY NextCallType DEF StopFinish, At, IInv, JobsOK
<1> DEFINE s == job[p].s
           base == job[p].base
<1>2. s \in Sessions /\ base \in Nat
  BY <1>1 DEF JobType
<1>3. PICK paid \in 0..base, uncounted \in BOOLEAN :
        /\ sess' = [sess EXCEPT ![s].settling = FALSE, ![s].persisted = @ + paid]
        /\ hist' = [hist EXCEPT ![s] =
                      IF uncounted THEN Spoiled
                      ELSE Recorded(@, [Charged(Cut(@, paid < base), paid)
                                          EXCEPT !.settled = TRUE])]
  BY DEF StopFinish
<1> HIDE DEF s, base
<1>4. paid \in Nat
  BY <1>2
<1>6. SessOK'
  <2>1. PICK r : r = [sess[s] EXCEPT !.settling = FALSE, !.persisted = @ + paid]
    OBVIOUS
  <2>2. r \in SessionType /\ r.lastUpdate <= now /\ r.lastBilling <= now
    <3>1. sess[s] \in SessionType /\ sess[s].lastUpdate <= now /\ sess[s].lastBilling <= now
      BY <1>2 DEF IInv, SessOK
    <3>2. PICK n \in Nat : n = sess[s].persisted + paid
      BY <1>4, <3>1 DEF SessionType
    <3>3. [sess[s] EXCEPT !.settling = FALSE, !.persisted = n] \in SessionType
      BY <3>1 DEF SessionType
    <3>4. r = [sess[s] EXCEPT !.settling = FALSE, !.persisted = n]
      BY <2>1, <3>2
    <3> QED
      BY <3>1, <3>3, <3>4 DEF SessionType
  <2>3. sess' = [sess EXCEPT ![s] = r]
    BY <1>2, <1>3, <1>4, <2>1 DEF IInv, SessOK
  <2> QED
    BY <1>1, <1>2, <2>2, <2>3 DEF IInv, SessOK
<1>7. HistOK'
  <2>1. hist[s] \in HistoryType
    BY <1>2 DEF IInv, HistOK
  <2>2. PICK h : h = [Charged(Cut(hist[s], paid < base), paid) EXCEPT !.settled = TRUE]
    OBVIOUS
  <2>3. h \in HistoryType
    <3>1. PICK c \in BOOLEAN : c <=> paid < base
      OBVIOUS
    <3>2. Cut(hist[s], c) \in HistoryType
      BY <2>1, HistoryUpdates
    <3>3. Charged(Cut(hist[s], c), paid) \in HistoryType
      BY <1>4, <3>2, HistoryUpdates
    <3>4. [Charged(Cut(hist[s], c), paid) EXCEPT !.settled = TRUE] \in HistoryType
      BY <3>3, HistoryUpdates
    <3>5. Cut(hist[s], c) = Cut(hist[s], paid < base)
      BY <3>1 DEF Cut
    <3> QED
      BY <2>2, <3>4, <3>5
  <2>4. CASE uncounted
    BY <1>2, <1>3, <2>4, SpoiledType DEF IInv, HistOK
  <2>5. CASE ~uncounted
    <3>1. hist' = [hist EXCEPT ![s] = Recorded(@, h)]
      BY <1>3, <2>2, <2>5
    <3> QED
      BY <1>2, <2>3, <3>1, RecordedType
  <2> QED
    BY <2>4, <2>5
<1> QED
  BY <1>1, <1>6, <1>7 DEF StopFinish, IInv

(* Realtime billing. *)
LEMMA BillStep ==
    ASSUME IInv, BillList \/ BillBegin \/ BillCharged \/ BillFailed
    PROVE  IInv'
<1> DEFINE p == Monitor
<1>1. p \in Procs /\ now \in Nat /\ job[p] \in JobType /\ job[p].time <= now
  BY DEF Procs, IInv, JobsOK
<1>2. CASE BillList
  <2>1. cached \in Sessions
    BY <1>2 DEF BillList, IInv
  <2>2. [Idle EXCEPT !.op = "bill", !.at = "begin", !.s = cached] \in JobType
    BY <2>1, IdleType DEF JobType
  <2>3. PICK j : j = [Idle EXCEPT !.op = "bill", !.at = "begin", !.s = cached]
    OBVIOUS
  <2>4. j \in JobType /\ j.s \in Sessions /\ j.time <= now
    BY <1>1, <2>1, <2>2, <2>3, IdleType DEF JobType
  <2>5. JobsOK' /\ HistOK'
    BY <1>1, <1>2, <2>3, <2>4, HoldType DEF BillList
  <2> QED
    BY <1>2, <2>5 DEF BillList, IInv, SessOK
<1>3. CASE BillBegin
  <2> DEFINE s == job[p].s
             elapsed == now - sess[s].lastBilling
  <2>1. s \in Sessions /\ now' = now /\ elapsed \in Int
    BY <1>1, <1>3, SMTT(30) DEF BillBegin, At, IInv, JobsOK, SessOK, SessionType
  <2>2. UNCHANGED <<now, cached, wsMeeting, made, hist>>
    BY <1>3 DEF BillBegin
  <2>3. \/ Done(p) /\ UNCHANGED sess
        \/ /\ elapsed > 0
           /\ sess' = [sess EXCEPT ![s].consumed = @ + elapsed,
                                   ![s].lastBilling = now, ![s].lastUpdate = now]
           /\ Done(p)
        \/ /\ elapsed > 0
           /\ job' = [job EXCEPT ![p].at = "charge", ![p].base = elapsed,
                                 ![p].total = elapsed + sess[s].consumed,
                                 ![p].time = now]
           /\ UNCHANGED sess
    BY <1>3 DEF BillBegin
  <2> HIDE DEF s, elapsed
  <2>4. CASE Done(p) /\ UNCHANGED sess
    BY <1>1, <2>1, <2>2, <2>4, DoneType DEF IInv, SessOK, HistOK
  <2>5. CASE /\ elapsed > 0
             /\ sess' = [sess EXCEPT ![s].consumed = @ + elapsed,
                                     ![s].lastBilling = now, ![s].lastUpdate = now]
             /\ Done(p)
    <3>1. PICK n \in Nat : n = sess[s].consumed + elapsed
      BY <2>1, <2>5 DEF IInv, SessOK, SessionType
    <3>2. PICK r : r = [sess[s] EXCEPT !.consumed = n,
                                       !.lastBilling = now, !.lastUpdate = now]
      OBVIOUS
    <3>3. sess[s] \in SessionType
      BY <2>1 DEF IInv, SessOK
    <3>4. [sess[s] EXCEPT !.consumed = n, !.lastBilling = now, !.lastUpdate = now]
            \in SessionType
      BY <1>1, <3>3 DEF SessionType
    <3>5. r \in SessionType /\ r.lastUpdate <= now /\ r.lastBilling <= now
      BY <1>1, <3>2, <3>3, <3>4 DEF SessionType
    <3>6. sess' = [sess EXCEPT ![s] = r]
      BY <2>1, <2>5, <3>1, <3>2 DEF IInv, SessOK
    <3>7. SessOK'
      BY <2>1, <3>5, <3>6 DEF IInv, SessOK
    <3> QED
      BY <1>1, <2>1, <2>2, <2>5, <3>7, DoneType DEF IInv, HistOK
  <2>6. CASE /\ elapsed > 0
             /\ job' = [job EXCEPT ![p].at = "charge", ![p].base = elapsed,
                                   ![p].total = elapsed + sess[s].consumed,
                                   ![p].time = now]
             /\ UNCHANGED sess
    <3>1. PICK total \in Nat : total = elapsed + sess[s].consumed
      BY <2>1, <2>6 DEF IInv, SessOK, SessionType
    <3>2. PICK j : j = [job[p] EXCEPT !.at = "charge", !.base = elapsed,
                                      !.total = total, !.time = now]
      OBVIOUS
    <3>3. elapsed \in Nat
      BY <2>1, <2>6
    <3>4. [job[p] EXCEPT !.at = "charge", !.base = elapsed,
                         !.total = total, !.time = now] \in JobType
      BY <1>1, <3>3 DEF JobType
    <3>5. j \in JobType /\ j.s = s /\ j.time <= now
      BY <1>1, <3>2, <3>4 DEF JobType, s
    <3>6. job' = [job EXCEPT ![p] = j]
      BY <1>1, <2>6, <3>1, <3>2 DEF IInv, JobsOK
    <3>7. JobsOK'
      BY <1>1, <2>1, <3>5, <3>6, JobUpdate
    <3> QED
      BY <2>2, <2>6, <3>7 DEF IInv, SessOK, HistOK
  <2> QED
    BY <2>3, <2>4, <2>5, <2>6
<1>4. CASE BillCharged
  <2>1. /\ job[p].s \in Sessions /\ now' = now /\ JobsOK'
    BY <1>1, <1>4, DoneType DEF BillCharged, At, IInv, JobsOK
  <2>2. PICK s \in Sessions, n \in Nat, total \in Nat, t \in Nat :
          s = job[p].s /\ n = job[p].base /\ total = job[p].total /\ t = job[p].time
    BY <1>1, <2>1 DEF JobType
  <2>3. /\ sess' = [sess EXCEPT ![s].persisted = @ + n, ![s].consumed = 0,
                                ![s].lastBilling = t]
        /\ hist' = [hist EXCEPT ![s] = Recorded(@, Charged(@, total))]
    BY <1>4, <2>2 DEF BillCharged
  <2>4. SessOK'
    <3>1. sess[s] \in SessionType /\ sess[s].persisted + n \in Nat
      BY DEF IInv, SessOK, SessionType
    <3>2. PICK r : r = [sess[s] EXCEPT !.persisted = sess[s].persisted + n,
                                       !.consumed = 0, !.lastBilling = t]
      OBVIOUS
    <3>3. r \in SessionType /\ r.lastUpdate <= now /\ r.lastBilling <= now
      BY <1>1, <2>2, <3>1, <3>2 DEF IInv, SessOK, SessionType
    <3>4. sess' = [sess EXCEPT ![s] = r]
      BY <2>3, <3>2 DEF IInv, SessOK
    <3> QED
      BY <2>1, <3>3, <3>4 DEF IInv, SessOK
  <2>5. HistOK'
    <3>1. Charged(hist[s], total) \in HistoryType
      BY HistoryUpdates DEF IInv, HistOK
    <3> QED
      BY <2>3, <3>1, RecordedType
  <2> QED
    BY <1>4, <2>1, <2>4, <2>5 DEF BillCharged, IInv
<1>5. CASE BillFailed
  <2>1. job[p].s \in Sessions /\ now' = now
    BY <1>1, <1>5 DEF BillFailed, At, IInv, JobsOK
  <2>2. HistOK'
    BY <1>5, <2>1, SpoiledType DEF BillFailed, IInv, HistOK
  <2>3. JobsOK'
    <3>1. CASE Done(p)
      BY <1>1, <2>1, <3>1, DoneType
    <3>2. ASSUME NEW n \in {1, 2}, job' = [job EXCEPT ![p] = Forced(n)]
          PROVE  JobsOK'
      BY <1>1, <2>1, <3>2, ForcedType, JobUpdate
    <3> QED
      BY <1>5, <3>1, <3>2 DEF BillFailed
  <2> QED
    BY <1>5, <2>2, <2>3 DEF BillFailed, IInv, SessOK
<1> QED
  BY <1>2, <1>3, <1>4, <1>5

(* attachMeetingToSession. *)
LEMMA AttachStep ==
    ASSUME IInv, NEW p \in Workers,
           \/ AttachCheck(p) \/ AttachBegin(p) \/ AttachCharged(p)
           \/ AttachFailed(p) \/ AttachSet(p)
    PROVE  IInv'
<1>1. p \in Procs /\ now \in Nat /\ job[p] \in JobType /\ job[p].time <= now
  BY DEF Procs, IInv, JobsOK
<1>2. CASE AttachCheck(p)
  <2>1. cached \in Sessions
    BY <1>2 DEF AttachCheck, IInv
  <2>2. PICK at \in {"set", "begin"} :
          Hold(p, [Idle EXCEPT !.op = "attach", !.s = cached, !.at = at])
    BY <1>2 DEF AttachCheck
  <2>3. [Idle EXCEPT !.op = "attach", !.s = cached, !.at = at] \in JobType
    BY <2>1, IdleType DEF JobType
  <2>4. PICK j : j = [Idle EXCEPT !.op = "attach", !.s = cached, !.at = at]
    OBVIOUS
  <2>5. j \in JobType /\ j.s \in Sessions /\ j.time <= now
    BY <1>1, <2>1, <2>3, <2>4, IdleType DEF JobType
  <2>6. JobsOK' /\ HistOK'
    BY <1>1, <1>2, <2>2, <2>4, <2>5, HoldType DEF AttachCheck
  <2> QED
    BY <1>2, <2>6 DEF AttachCheck, IInv, SessOK
<1>3. CASE AttachBegin(p)
  <2>1. UNCHANGED <<now, cached, wsMeeting, made>>
    BY <1>3 DEF AttachBegin
  <2>2. CASE cached = 0
    BY <1>1, <1>3, <2>1, <2>2, DoneType DEF AttachBegin, IInv, SessOK, HistOK
  <2>3. CASE cached # 0 /\ Final(cached) <= 0
    <3>1. /\ cached \in Sessions
          /\ sess' = [sess EXCEPT ![cached].lastBilling = now, ![cached].lastUpdate = now]
          /\ Hold(p, [job[p] EXCEPT !.at = "set", !.s = cached])
      <4>1. cached \in Sessions /\ Final(cached) \in Nat
        BY <2>3, SecondsType DEF IInv
      <4> QED
        BY <1>3, <2>3, <4>1 DEF AttachBegin
    <3>2. SessOK'
      <4>1. PICK r : r = [sess[cached] EXCEPT !.lastBilling = now, !.lastUpdate = now]
        OBVIOUS
      <4>2. r \in SessionType /\ r.lastUpdate <= now /\ r.lastBilling <= now
        <5>1. sess[cached] \in SessionType
          BY <3>1 DEF IInv, SessOK
        <5>2. [sess[cached] EXCEPT !.lastBilling = now, !.lastUpdate = now] \in SessionType
          BY <1>1, <5>1 DEF SessionType
        <5> QED
          BY <1>1, <4>1, <5>1, <5>2 DEF SessionType
      <4>3. sess' = [sess EXCEPT ![cached] = r]
        BY <3>1, <4>1 DEF IInv, SessOK
      <4> QED
        BY <2>1, <3>1, <4>2, <4>3 DEF IInv, SessOK
    <3>3. [job[p] EXCEPT !.at = "set", !.s = cached] \in JobType
      BY <1>1, <3>1 DEF JobType
    <3>4. PICK j : j = [job[p] EXCEPT !.at = "set", !.s = cached]
      OBVIOUS
    <3>5. j \in JobType /\ j.s \in Sessions /\ j.time <= now
      BY <1>1, <3>1, <3>3, <3>4 DEF JobType
    <3>6. JobsOK' /\ HistOK'
      BY <1>1, <2>1, <3>1, <3>4, <3>5, HoldType
    <3> QED
      BY <2>1, <3>2, <3>6 DEF IInv
  <2>4. CASE cached # 0 /\ Final(cached) > 0
    <3>1. cached \in Sessions
      BY <2>4 DEF IInv
    <3>2. PICK n \in Nat : n = Final(cached)
      BY <3>1, SecondsType
    <3>3. /\ sess' = [sess EXCEPT ![cached].consumed = n]
          /\ job' = [job EXCEPT ![p].at = "charge", ![p].s = cached, ![p].total = n]
          /\ \E b : hist' = Unfollow(cached, b)
      BY <1>3, <2>4, <3>2 DEF AttachBegin
    <3>4. SessOK'
      BY <1>1, <2>1, <3>1, <3>3 DEF IInv, SessOK, SessionType
    <3>5. [job[p] EXCEPT !.at = "charge", !.s = cached, !.total = n] \in JobType
      BY <1>1, <3>1 DEF JobType
    <3>6. PICK j : j = [job[p] EXCEPT !.at = "charge", !.s = cached, !.total = n]
      OBVIOUS
    <3>7. j \in JobType /\ j.s \in Sessions /\ j.time <= now
      BY <1>1, <3>1, <3>5, <3>6 DEF JobType
    <3>8. job' = [job EXCEPT ![p] = j]
      BY <1>1, <3>3, <3>6 DEF IInv, JobsOK
    <3>9. JobsOK'
      BY <1>1, <2>1, <3>7, <3>8, JobUpdate
    <3>10. HistOK'
      BY <3>3, SpoiledType DEF Unfollow, IInv, HistOK
    <3> QED
      BY <2>1, <3>4, <3>9, <3>10 DEF IInv
  <2> QED
    BY <1>3, <2>2, <2>3, <2>4 DEF AttachBegin
<1>4. CASE AttachCharged(p)
  <2>1. job[p].s \in Sessions /\ UNCHANGED <<now, cached, wsMeeting, made>>
    BY <1>1, <1>4 DEF AttachCharged, At, IInv, JobsOK
  <2>2. PICK s \in Sessions, n \in Nat : s = job[p].s /\ n = job[p].total
    BY <1>1, <2>1 DEF JobType
  <2>3. /\ sess' = [sess EXCEPT ![s].persisted = @ + n, ![s].consumed = 0,
                                ![s].lastBilling = now, ![s].lastUpdate = now]
        /\ hist' = [hist EXCEPT ![s] = Recorded(@, Charged(Cut(@, TRUE), n))]
        /\ job' = [job EXCEPT ![p].at = "set", ![p].total = 0]
    BY <1>4, <2>2 DEF AttachCharged
  <2>4. SessOK'
    <3>1. sess[s] \in SessionType
      BY DEF IInv, SessOK
    <3>2. PICK m \in Nat : m = sess[s].persisted + n
      BY <3>1 DEF SessionType
    <3>3. PICK r : r = [sess[s] EXCEPT !.persisted = m, !.consumed = 0,
                                       !.lastBilling = now, !.lastUpdate = now]
      OBVIOUS
    <3>4. [sess[s] EXCEPT !.persisted = m, !.consumed = 0,
                          !.lastBilling = now, !.lastUpdate = now] \in SessionType
      BY <1>1, <3>1 DEF SessionType
    <3>5. r \in SessionType /\ r.lastUpdate <= now /\ r.lastBilling <= now
      BY <1>1, <3>1, <3>3, <3>4 DEF SessionType
    <3>6. sess' = [sess EXCEPT ![s] = r]
      BY <2>3, <3>2, <3>3 DEF IInv, SessOK
    <3> QED
      BY <2>1, <3>5, <3>6 DEF IInv, SessOK
  <2>5. HistOK'
    <3>1. hist[s] \in HistoryType
      BY DEF IInv, HistOK
    <3>2. Cut(hist[s], TRUE) \in HistoryType
      BY <3>1, HistoryUpdates
    <3>3. Charged(Cut(hist[s], TRUE), n) \in HistoryType
      BY <3>2, HistoryUpdates
    <3> QED
      BY <2>3, <3>3, RecordedType
  <2>6. JobsOK'
    <3>1. PICK j : j = [job[p] EXCEPT !.at = "set", !.total = 0]
      OBVIOUS
    <3>2. j \in JobType /\ j.s \in Sessions /\ j.time <= now
      BY <1>1, <2>1, <3>1 DEF JobType
    <3>3. job' = [job EXCEPT ![p] = j]
      BY <1>1, <2>3, <3>1 DEF IInv, JobsOK
    <3> QED
      BY <1>1, <2>1, <3>2, <3>3, JobUpdate
  <2> QED
    BY <2>1, <2>4, <2>5, <2>6 DEF IInv
<1>5. CASE AttachFailed(p)
  <2>1. HistOK'
    BY <1>5, SpoiledType DEF AttachFailed, IInv, HistOK
  <2> QED
    BY <1>1, <1>5, <2>1, DoneType DEF AttachFailed, IInv, SessOK
<1>6. CASE AttachSet(p)
  <2>1. ASSUME NEW s \in Sessions
        PROVE  /\ sess'[s] \in SessionType
               /\ sess'[s].lastUpdate <= now /\ sess'[s].lastBilling <= now
    <3>1. sess'[s] = [sess[s] EXCEPT !.meeting = @ \/ s = cached]
      BY <1>6 DEF AttachSet
    <3>2. PICK b \in BOOLEAN : b = (sess[s].meeting \/ s = cached)
      OBVIOUS
    <3>3. sess'[s] = [sess[s] EXCEPT !.meeting = b]
      BY <3>1, <3>2
    <3> QED
      BY <3>3 DEF IInv, SessOK, SessionType
  <2>2. SessOK'
    BY <1>6, <2>1 DEF AttachSet, SessOK
  <2>3. HistOK'
    BY <1>6, SpoiledType DEF AttachSet, Unfollow, IInv, HistOK
  <2> QED
    BY <1>1, <1>6, <2>2, <2>3, DoneType DEF AttachSet, IInv
<1> QED
  BY <1>2, <1>3, <1>4, <1>5, <1>6

-----------------------------------------------------------------------------
LEMMA IInvInit == Init => IInv
<1> SUFFICES ASSUME Init PROVE IInv
  OBVIOUS
<1>1. Fresh \in HistoryType
  BY DEF Fresh, HistoryType
<1>2. SessOK
  BY BlankType DEF Init, SessOK, Blank
<1>3. JobsOK
  BY IdleType DEF Init, JobsOK
<1>4. now \in Nat /\ cached \in {0} \cup Sessions /\ wsMeeting \in BOOLEAN
  BY DEF Init
<1>5. made \in 0..MaxSessions
  BY BillingAssumption DEF Init
<1>6. HistOK
  BY <1>1 DEF Init, HistOK
<1> QED
  BY <1>2, <1>3, <1>4, <1>5, <1>6 DEF IInv

(* Every step of the manager keeps the inductive invariant. *)
LEMMA IInvStep == IInv /\ [Next]_vars => IInv'
<1> SUFFICES ASSUME IInv, [Next]_vars PROVE IInv'
  OBVIOUS
<1>1. CASE UNCHANGED vars
  BY <1>1 DEF vars, IInv, SessOK, JobsOK, HistOK
<1>2. CASE Elapse
  BY <1>2, ElapseStep
<1>3. ASSUME NEW p \in Workers,
             \/ StartGet(p) \/ StartCleanup(p) \/ StartCreate(p) \/ StartRefused(p)
      PROVE  IInv'
  BY <1>3, StartStep
<1>4. ASSUME NEW p \in Workers,
             \/ PauseGet(p) \/ PauseApply(p)
             \/ ResumeGet(p) \/ ResumeApply(p) \/ PutBack(p)
      PROVE  IInv'
  BY <1>4, PauseResumeStep
<1>5. ASSUME NEW p \in Workers, StopCommand(p) PROVE IInv'
  BY <1>5, StopEntryStep DEF Procs
<1>6. ASSUME NEW p \in Workers,
             \/ AttachCheck(p) \/ AttachBegin(p) \/ AttachCharged(p)
             \/ AttachFailed(p) \/ AttachSet(p)
      PROVE  IInv'
  BY <1>6, AttachStep
<1>7. ASSUME NEW p \in Procs, StopRefused(p) \/ StopSettle(p) \/ StopFinish(p)
      PROVE  IInv'
  BY <1>7, StopEntryStep, StopSettleStep, StopFinishStep
<1>8. CASE ForceStop \/ ForceGet
  BY <1>8, StopEntryStep DEF Procs
<1>9. CASE BillList \/ BillBegin \/ BillCharged \/ BillFailed
  BY <1>9, BillStep
<1> QED
  BY <1>1, <1>2, <1>3, <1>4, <1>5, <1>6, <1>7, <1>8, <1>9 DEF Next

LEMMA Inductive == Spec => []IInv
BY IInvInit, IInvStep, PTL DEF Spec

(* The session objects, the goroutines and their histories always hold      *)
(* values of their types: in particular no second count, nor anything       *)
(* charged, is ever negative, however the operations overlap.               *)
THEOREM TypeCorrect == Spec => []TypeOK
BY Inductive, IInvImpliesType, PTL

-----------------------------------------------------------------------------
(* The goroutine is in the settlement of the session it holds. *)
Charging(j) == j.op = "stop" /\ j.at = "charge"

(* Only sessions that were created are cached, held or being settled. *)
OnlyMade ==
    /\ cached <= made
    /\ \A p \in Procs : job[p].s <= made
    /\ \A s \in Sessions : s > made => ~sess[s].settling

SInv == IInv /\ OnlyMade /\ OneSettlement

(* What every step does that neither creates a session nor starts or ends a *)
(* settlement.                                                              *)
Quiet ==
    /\ made' = made
    /\ \/ cached' \in {0, cached}
       \/ \E q \in Procs : cached' = job[q].s
    /\ \A q \in Procs :
        /\ job'[q].s \in {0, cached, job[q].s}
        /\ Charging(job'[q]) <=> Charging(job[q])
        /\ Charging(job[q]) => job'[q].s = job[q].s
    /\ \A s \in Sessions : sess'[s].settling = sess[s].settling

(* Such a step leaves the settlements as they were. *)
LEMMA QuietStep == SInv /\ Quiet => OnlyMade' /\ OneSettlement'
<1> SUFFICES ASSUME SInv, Quiet PROVE OnlyMade' /\ OneSettlement'
  OBVIOUS
<1>1. made \in Nat
  BY BillingAssumption DEF SInv, IInv
<1>2. OnlyMade'
  BY <1>1 DEF SInv, OnlyMade, Quiet
<1>3. ASSUME NEW s \in Sessions
      PROVE  Settlers(s)' = Settlers(s)
  BY DEF Quiet, Settlers, At, Charging
<1>4. OneSettlement'
  BY <1>3 DEF SInv, OneSettlement, Quiet
<1> QED
  BY <1>2, <1>4

(* Goroutine p goes on as j says, which is no settlement, nor was it in one. *)
LEMMA JobQuiet ==
    ASSUME IInv, NEW p \in Procs, NEW j, ~Charging(job[p]), ~Charging(j),
           j.s \in {0, cached, job[p].s}, job' = [job EXCEPT ![p] = j]
    PROVE  \A q \in Procs :
             /\ job'[q].s \in {0, cached, job[q].s}
             /\ Charging(job'[q]) <=> Charging(job[q])
             /\ Charging(job[q]) => job'[q].s = job[q].s
BY DEF IInv, JobsOK

(* The actions that are quiet. *)
LEMMA QuietActions ==
    ASSUME IInv, NEW p \in Procs,
           \/ StartGet(p) \/ StartCleanup(p) \/ StartRefused(p)
           \/ PauseGet(p) \/ PauseApply(p) \/ ResumeGet(p) \/ ResumeApply(p)
           \/ PutBack(p) \/ StopCommand(p) \/ StopRefused(p)
           \/ p = Monitor /\ \/ ForceStop \/ ForceGet
                             \/ BillList \/ BillBegin \/ BillCharged \/ BillFailed
           \/ AttachCheck(p) \/ AttachBegin(p) \/ AttachCharged(p)
           \/ AttachFailed(p) \/ AttachSet(p)
    PROVE  Quiet
<1>1. /\ job \in [Procs -> JobType] /\ job[p] \in JobType
      /\ sess \in [Sessions -> SessionType]
      /\ \A s \in Sessions : sess[s] \in SessionType
  BY DEF IInv, JobsOK, SessOK
<1>2. Idle.s = 0 /\ ~Charging(Idle)
  BY DEF Idle, Charging
<1>3. ASSUME Done(p), ~Charging(job[p])
      PROVE  \A q \in Procs :
               /\ job'[q].s \in {0, cached, job[q].s}
               /\ Charging(job'[q]) <=> Charging(job[q])
               /\ Charging(job[q]) => job'[q].s = job[q].s
  BY <1>2, <1>3, JobQuiet DEF Done
<1>4. CASE StartGet(p)
  <2>1. PICK j, keep :
          /\ job' = [job EXCEPT ![p] = j]
          /\ \/ j = [Idle EXCEPT !.op = "start", !.at = "cleanup",
                                 !.s = cached, !.meeting = keep]
             \/ j = [Idle EXCEPT !.op = "start", !.at = "create", !.meeting = keep]
    BY <1>4 DEF StartGet, Hold
  <2>2. ~Charging(j) /\ j.s \in {0, cached}
    BY <2>1 DEF Idle, Charging
  <2>3. ~Charging(job[p])
    BY <1>2, <1>4 DEF StartGet
  <2> QED
    BY <1>4, <2>1, <2>2, <2>3, JobQuiet DEF StartGet, Quiet
<1>5. CASE StartCleanup(p)
  BY <1>1, <1>5 DEF StartCleanup, Quiet, At, Charging, JobType, SessionType
<1>6. CASE StartRefused(p)
  BY <1>1, <1>3, <1>6 DEF StartRefused, Quiet, At, Charging
<1>7. CASE PauseGet(p) \/ ResumeGet(p)
  <2>1. PICK op \in {"pause", "resume"} : job' = [job EXCEPT ![p] =
          [Idle EXCEPT !.op = op, !.at = "apply", !.s = cached]]
    BY <1>7 DEF PauseGet, ResumeGet, Hold
  <2>2. PICK j : j = [Idle EXCEPT !.op = op, !.at = "apply", !.s = cached]
    OBVIOUS
  <2>3. ~Charging(j) /\ j.s = cached
    BY <2>2 DEF Idle, Charging
  <2>4. ~Charging(job[p])
    BY <1>2, <1>7 DEF PauseGet, ResumeGet
  <2> QED
    BY <1>7, <2>1, <2>2, <2>3, <2>4, JobQuiet DEF PauseGet, ResumeGet, Quiet
<1>8. CASE PauseApply(p) \/ ResumeApply(p)
  <2>1. PICK j : /\ j = [job[p] EXCEPT !.at = "set"]
                 /\ job' = [job EXCEPT ![p] = j]
    BY <1>1, <1>8 DEF PauseApply, ResumeApply
  <2>2. job[p].op \in {"pause", "resume"}
    BY <1>8 DEF PauseApply, ResumeApply, At
  <2>3. ~Charging(job[p]) /\ ~Charging(j) /\ j.s = job[p].s
    BY <1>1, <2>1, <2>2 DEF Charging, JobType
  <2>4. \A s \in Sessions : sess'[s].settling = sess[s].settling
    <3>1. CASE PauseApply(p)
      BY <1>1, <3>1 DEF PauseApply, SessionType
    <3>2. CASE ResumeApply(p)
      BY <1>1, <3>2 DEF ResumeApply, SessionType
    <3> QED
      BY <1>8, <3>1, <3>2
  <2> QED
    BY <1>8, <2>1, <2>3, <2>4, JobQuiet DEF PauseApply, ResumeApply, Quiet
<1>9. CASE PutBack(p)
  BY <1>1, <1>3, <1>9 DEF PutBack, Quiet, At, Charging
<1>10. CASE StopCommand(p)
  BY <1>1, <1>10 DEF StopCommand, Quiet, Hold, Idle, Charging
<1>11. CASE StopRefused(p)
  BY <1>1, <1>11 DEF StopRefused, Quiet, NextCall, At, Idle, Charging
<1>12. CASE p = Monitor /\ ForceStop
  BY <1>1, <1>12 DEF ForceStop, Forced, Quiet, Idle, Charging
<1>13. CASE p = Monitor /\ ForceGet
  <2>1. CASE cached = 0
    <3>1. PICK j, n : /\ job' = [job EXCEPT ![p] = j]
                      /\ \/ j = Idle
                         \/ j = [Idle EXCEPT !.op = "stop", !.at = "get", !.calls = n]
      BY <1>13, <2>1 DEF ForceGet, NextCall
    <3>2. ~Charging(j) /\ j.s = 0
      <4>1. CASE j = Idle
        BY <1>2, <4>1
      <4>2. CASE j = [Idle EXCEPT !.op = "stop", !.at = "get", !.calls = n]
        BY <4>2 DEF Idle, Charging
      <4> QED
        BY <3>1, <4>1, <4>2
    <3>3. ~Charging(job[p])
      BY <1>13 DEF ForceGet, At, Charging
    <3> QED
      BY <1>13, <2>1, <3>1, <3>2, <3>3, JobQuiet DEF ForceGet, Quiet
  <2>2. CASE cached # 0
    <3>1. PICK known : job' = [job EXCEPT ![p] =
            [job[p] EXCEPT !.at = "settle", !.s = cached, !.meeting = known]]
      <4>1. PICK known :
              known = (job[p].meeting \/ (job[p].calls = 2 /\ wsMeeting))
        OBVIOUS
      <4> QED
        BY <1>13, <2>2, <4>1 DEF ForceGet, Hold
    <3>2. PICK j : j = [job[p] EXCEPT !.at = "settle", !.s = cached, !.meeting = known]
      OBVIOUS
    <3>3. ~Charging(j) /\ j.s = cached
      BY <1>1, <3>2 DEF Charging, JobType
    <3>4. ~Charging(job[p])
      BY <1>13 DEF ForceGet, At, Charging
    <3> QED
      BY <1>13, <2>2, <3>1, <3>2, <3>3, <3>4, JobQuiet DEF ForceGet, Quiet
  <2> QED
    BY <2>1, <2>2
<1>14. CASE p = Monitor /\ BillList
  BY <1>1, <1>14 DEF BillList, Quiet, Hold, Idle, Charging
<1>15. CASE p = Monitor /\ BillBegin
  <2>1. ~Charging(job[p]) /\ made' = made /\ cached' = cached
    BY <1>15 DEF BillBegin, At, Charging
  <2>2. \A s \in Sessions : sess'[s].settling = sess[s].settling
    BY <1>1, <1>15, SMTT(30) DEF BillBegin, SessionType
  <2>3. CASE Done(p)
    BY <1>3, <2>1, <2>2, <2>3 DEF Quiet
  <2>4. CASE ~Done(p)
    <3>1. PICK base, total : job' = [job EXCEPT
            ![p].at = "charge", ![p].base = base, ![p].total = total, ![p].time = now]
      BY <1>15, <2>4 DEF BillBegin
    <3>2. PICK j : j = [job[p] EXCEPT !.at = "charge", !.base = base,
                                      !.total = total, !.time = now]
      OBVIOUS
    <3>3. job' = [job EXCEPT ![p] = j]
      BY <1>1, <3>1, <3>2
    <3>4. ~Charging(j) /\ j.s = job[p].s
      BY <1>1, <1>15, <3>2 DEF BillBegin, At, Charging, JobType
    <3> QED
      BY <2>1, <2>2, <3>3, <3>4, JobQuiet DEF Quiet
  <2> QED
    BY <2>3, <2>4
<1>16. CASE p = Monitor /\ BillCharged
  BY <1>1, <1>3, <1>16 DEF BillCharged, Quiet, At, Charging, SessionType
<1>17. CASE p = Monitor /\ BillFailed
  BY <1>1, <1>3, <1>17, ZenonT(60) DEF BillFailed, Forced, Quiet, At, Idle, Charging
<1>18. CASE AttachCheck(p)
  BY <1>1, <1>18 DEF AttachCheck, Quiet, Hold, Idle, Charging
<1>19. CASE AttachBegin(p)
  <2>1. ~Charging(job[p]) /\ made' = made /\ cached' = cached
    BY <1>19 DEF AttachBegin, At, Charging
  <2>2. \A s \in Sessions : sess'[s].settling = sess[s].settling
    BY <1>1, <1>19 DEF AttachBegin, SessionType
  <2>3. CASE Done(p)
    BY <1>3, <2>1, <2>2, <2>3 DEF Quiet
  <2>4. CASE ~Done(p)
    <3>1. PICK at, total : job' = [job EXCEPT
            ![p] = [job[p] EXCEPT !.at = at, !.s = cached, !.total = total]]
      <4>1. CASE Hold(p, [job[p] EXCEPT !.at = "set", !.s = cached])
        <5>1. [job[p] EXCEPT !.at = "set", !.s = cached]
              = [job[p] EXCEPT !.at = "set", !.s = cached, !.total = job[p].total]
          BY <1>1 DEF JobType
        <5> QED
          BY <4>1, <5>1 DEF Hold
      <4>2. CASE job' = [job EXCEPT ![p].at = "charge", ![p].s = cached,
                                    ![p].total = Final(cached)]
        BY <1>1, <4>2
      <4> QED
        BY <1>19, <2>4, <4>1, <4>2 DEF AttachBegin
    <3>2. PICK j : j = [job[p] EXCEPT !.at = at, !.s = cached, !.total = total]
      OBVIOUS
    <3>3. job' = [job EXCEPT ![p] = j]
      BY <3>1, <3>2
    <3>4. ~Charging(j) /\ j.s = cached
      BY <1>1, <1>19, <3>2 DEF AttachBegin, At, Charging, JobType
    <3> QED
      BY <2>1, <2>2, <3>3, <3>4, JobQuiet DEF Quiet
  <2> QED
    BY <2>3, <2>4
<1>20. CASE AttachCharged(p)
  BY <1>1, <1>20 DEF AttachCharged, Quiet, At, Charging, JobType, SessionType
<1>21. CASE AttachFailed(p)
  BY <1>1, <1>3, <1>21 DEF AttachFailed, Quiet, At, Charging
<1>22. CASE AttachSet(p)
  BY <1>1, <1>3, <1>22 DEF AttachSet, Quiet, At, Charging, SessionType
<1> QED
  BY <1>4, <1>5, <1>6, <1>7, <1>8, <1>9, <1>10, <1>11, <1>12, <1>13, <1>14,
     <1>15, <1>16, <1>17, <1>18, <1>19, <1>20, <1>21, <1>22

LEMMA SInvInit == Init => SInv
<1> SUFFICES ASSUME Init PROVE SInv
  OBVIOUS
<1>1. \A s \in Sessions : Settlers(s) = {} /\ ~sess[s].settling
  BY DEF Init, Settlers, At, Idle, Blank
<1>2. OnlyMade
  BY <1>1 DEF Init, OnlyMade, Idle
<1> QED
  BY <1>1, <1>2, IInvInit DEF SInv, OneSettlement

(* A new session is in no settlement. *)
LEMMA CreateSettles ==
    ASSUME SInv, NEW p \in Procs, StartCreate(p)
    PROVE  OnlyMade' /\ OneSettlement'
<1>1. /\ made \in Nat /\ job \in [Procs -> JobType]
      /\ sess \in [Sessions -> SessionType]
      /\ \A q \in Procs : job[q].s \in Nat
  BY BillingAssumption DEF SInv, IInv, JobsOK, SessOK, JobType, Sessions
<1>2. made + 1 \in Sessions
  BY <1>1, BillingAssumption DEF StartCreate, Sessions
<1>3. \A s \in Sessions :
        sess'[s].settling = IF s = made + 1 THEN FALSE ELSE sess[s].settling
  BY <1>1, <1>2 DEF StartCreate, Blank
<1>4. ~sess[made + 1].settling
  BY <1>1, <1>2 DEF SInv, OnlyMade
<1>5. \A q \in Procs : /\ job'[q].s \in {0, job[q].s}
                       /\ Charging(job'[q]) <=> Charging(job[q])
                       /\ Charging(job[q]) => job'[q].s = job[q].s
  BY <1>1 DEF StartCreate, Done, Idle, At, Charging
<1>6. ASSUME NEW s \in Sessions
      PROVE  Settlers(s)' = Settlers(s) /\ (sess'[s].settling <=> sess[s].settling)
  BY <1>3, <1>4, <1>5 DEF Settlers, At, Charging
<1>7. OneSettlement'
  <2>1. ASSUME NEW t \in Sessions
        PROVE  /\ sess'[t].settling <=> Settlers(t)' # {}
               /\ \A a, b \in Settlers(t)' : a = b
    BY <1>6 DEF SInv, OneSettlement
  <2> QED
    BY <2>1 DEF OneSettlement
<1>8. OnlyMade'
  <2>1. made' = made + 1 /\ cached' = made + 1
    BY DEF StartCreate
  <2>2. \A q \in Procs : job'[q].s <= made'
    BY <1>1, <1>5, <2>1 DEF SInv, OnlyMade
  <2>3. \A s \in Sessions : s > made' => ~sess'[s].settling
    <3>1. ASSUME NEW s \in Sessions, s > made' PROVE ~sess'[s].settling
      <4>1. s > made /\ s # made + 1
        BY <1>1, <2>1, <3>1, BillingAssumption DEF Sessions
      <4> QED
        BY <1>3, <4>1 DEF SInv, OnlyMade
    <3> QED
      BY <3>1
  <2> QED
    BY <1>1, <2>1, <2>2, <2>3 DEF OnlyMade
<1> QED
  BY <1>7, <1>8

(* A stop raises the flag of a session that nobody is settling. *)
LEMMA SettleSettles ==
    ASSUME SInv, NEW p \in Procs, StopSettle(p)
    PROVE  OnlyMade' /\ OneSettlement'
<1>1. /\ made \in Nat /\ job \in [Procs -> JobType]
      /\ sess \in [Sessions -> SessionType]
      /\ \A q \in Procs : job[q].s \in Nat
  BY BillingAssumption DEF SInv, IInv, JobsOK, SessOK, JobType, Sessions
<1>2. PICK s \in Sessions : s = job[p].s /\ ~sess[s].settling
  BY DEF StopSettle, At, CanSettle, SInv, IInv, JobsOK
<1>3. \A t \in Sessions :
        sess'[t].settling = IF t = s THEN TRUE ELSE sess[t].settling
  BY <1>1, <1>2 DEF StopSettle, SessionType
<1>4. \A q \in Procs : /\ job'[q].s = job[q].s
                       /\ Charging(job'[q]) <=> (q = p \/ Charging(job[q]))
  BY <1>1 DEF StopSettle, At, Charging, JobType
<1>5. ~Charging(job[p])
  BY DEF StopSettle, At, Charging
<1>6. ASSUME NEW t \in Sessions, t # s PROVE Settlers(t)' = Settlers(t)
  BY <1>2, <1>4, <1>6 DEF Settlers, At, Charging
<1>7. Settlers(s)' = {p}
  <2>1. Settlers(s) = {}
    BY <1>2 DEF SInv, OneSettlement
  <2> QED
    BY <1>2, <1>4, <2>1 DEF Settlers, At, Charging
<1>8. OneSettlement'
  <2>1. ASSUME NEW t \in Sessions
        PROVE  /\ sess'[t].settling <=> Settlers(t)' # {}
               /\ \A a, b \in Settlers(t)' : a = b
    <3>1. CASE t = s
      BY <1>3, <1>7, <3>1
    <3>2. CASE t # s
      <4>1. sess'[t].settling = sess[t].settling
        BY <1>3, <3>2
      <4>2. Settlers(t)' = Settlers(t)
        BY <1>6, <3>2
      <4> QED
        BY <4>1, <4>2 DEF SInv, OneSettlement
    <3> QED
      BY <3>1, <3>2
  <2> QED
    BY <2>1 DEF OneSettlement
<1>9. OnlyMade'
  <2>1. made' = made /\ cached' = cached
    BY DEF StopSettle
  <2>2. s <= made
    BY <1>2 DEF SInv, OnlyMade
  <2>3. \A q \in Procs : job'[q].s <= made'
    BY <1>4, <2>1 DEF SInv, OnlyMade
  <2>4. \A t \in Sessions : t > made' => ~sess'[t].settling
    <3>1. ASSUME NEW t \in Sessions, t > made' PROVE ~sess'[t].settling
      <4>1. t > made /\ t # s
        BY <1>1, <2>1, <2>2, <3>1, BillingAssumption DEF Sessions
      <4> QED
        BY <1>3, <4>1 DEF SInv, OnlyMade
    <3> QED
      BY <3>1
  <2> QED
    BY <2>1, <2>3, <2>4 DEF SInv, OnlyMade
<1> QED
  BY <1>8, <1>9

(* And lowers it when it leaves the settlement. *)
LEMMA FinishSettles ==
    ASSUME SInv, NEW p \in Procs, StopFinish(p)
    PROVE  OnlyMade' /\ OneSettlement'
<1>1. /\ made \in Nat /\ job \in [Procs -> JobType]
      /\ sess \in [Sessions -> SessionType]
      /\ \A q \in Procs : job[q].s \in Nat
  BY BillingAssumption DEF SInv, IInv, JobsOK, SessOK, JobType, Sessions
<1>2. PICK s \in Sessions : s = job[p].s /\ p \in Settlers(s)
  BY DEF StopFinish, At, Settlers, SInv, IInv, JobsOK
<1>3. \A t \in Sessions :
        sess'[t].settling = IF t = s THEN FALSE ELSE sess[t].settling
  <2>1. PICK paid : sess' = [sess EXCEPT ![s].settling = FALSE, ![s].persisted = @ + paid]
    BY <1>2 DEF StopFinish
  <2> QED
    BY <1>1, <2>1 DEF SessionType
<1>4. \A q \in Procs : /\ q # p => job'[q] = job[q]
                       /\ q = p => job'[q].s = 0 /\ ~Charging(job'[q])
  BY <1>1 DEF StopFinish, NextCall, Idle, Charging
<1>5. ASSUME NEW t \in Sessions, t # s PROVE Settlers(t)' = Settlers(t)
  BY <1>2, <1>4, <1>5 DEF Settlers, At, Charging
<1>6. Settlers(s)' = {}
  <2>1. \A q \in Settlers(s) : q = p
    BY <1>2 DEF SInv, OneSettlement
  <2> QED
    BY <1>4, <2>1 DEF Settlers, At, Charging
<1>7. OneSettlement'
  <2>1. ASSUME NEW t \in Sessions
        PROVE  /\ sess'[t].settling <=> Settlers(t)' # {}
               /\ \A a, b \in Settlers(t)' : a = b
    <3>1. CASE t = s
      BY <1>3, <1>6, <3>1
    <3>2. CASE t # s
      <4>1. sess'[t].settling = sess[t].settling
        BY <1>3, <3>2
      <4>2. Settlers(t)' = Settlers(t)
        BY <1>5, <3>2
      <4> QED
        BY <4>1, <4>2 DEF SInv, OneSettlement
    <3> QED
      BY <3>1, <3>2
  <2> QED
    BY <2>1 DEF OneSettlement
<1>8. OnlyMade'
  BY <1>1, <1>3, <1>4 DEF SInv, OnlyMade, StopFinish
<1> QED
  BY <1>7, <1>8

LEMMA SInvStep == SInv /\ [Next]_vars => SInv'
<1> SUFFICES ASSUME SInv, [Next]_vars PROVE SInv'
  OBVIOUS
<1>1. IInv /\ IInv'
  BY IInvStep DEF SInv
<1>2. CASE Elapse \/ UNCHANGED vars
  BY <1>1, <1>2 DEF Elapse, vars, SInv, OnlyMade, OneSettlement, Settlers, At
<1>3. CASE Quiet
  BY <1>1, <1>3, QuietStep DEF SInv
<1>4. ASSUME NEW p \in Procs, StartCreate(p) \/ StopSettle(p) \/ StopFinish(p)
      PROVE  SInv'
  BY <1>1, <1>4, CreateSettles, SettleSettles, FinishSettles DEF SInv
<1>5. \/ Elapse \/ UNCHANGED vars
      \/ Quiet
      \/ \E p \in Procs : StartCreate(p) \/ StopSettle(p) \/ StopFinish(p)
  BY <1>1, QuietActions DEF Next, Procs
<1> QED
  BY <1>2, <1>3, <1>4, <1>5

(* At most one goroutine settles a session at a time, and its settlement    *)
(* flag is up exactly as long: a stop that was refused really found another *)
(* one at work, and no flag stays up and blocks the stops to come.          *)
THEOREM SettlementExclusive == Spec => []OneSettlement
<1>1. SInv => OneSettlement
  BY DEF SInv
<1> QED
  BY <1>1, SInvInit, SInvStep, PTL DEF Spec

-----------------------------------------------------------------------------
(* From here on: what a session was charged.  The sessions whose histories  *)
(* are not spoiled are followed one by one; nothing is claimed of others.   *)

(* Goroutine p is in the charge of operation op on session s. *)
In(p, op, s) == At(p, op, "charge") /\ job[p].s = s

(* What the next realtime charge adds to the count of session s. *)
Due(s) == IF Transcribing(s) THEN now - sess[s].lastBilling ELSE 0

(* The operations at work on s are ones whose overlap is followed. *)
Compatible(s) ==
    \A p, q \in Procs :
        p # q /\ job[p].s = s /\ job[q].s = s => {job[p].op, job[q].op} \in Followed

(* Only a transcribing session is billed. *)
BillHeld(s) ==
    \A p \in Procs : job[p].op = "bill" /\ job[p].s = s => Transcribing(s)

(* A realtime charge that is under way fits into the seconds used, and so   *)
(* will the count that begins where it ends.                                *)
BillDue(s) ==
    \A p \in Procs : In(p, "bill", s) =>
        /\ sess[s].meeting
        /\ hist[s].billed + job[p].total + (now - job[p].time) <= hist[s].used
        /\ job[p].time <= sess[s].lastUpdate + sess[s].persisted + job[p].base

(* So does the charge of an attach, whose session has no meeting yet. *)
AttachDue(s) ==
    \A p \in Procs : In(p, "attach", s) =>
        /\ ~sess[s].meeting
        /\ hist[s].billed + job[p].total <= hist[s].used

(* The two clocks of a session: LastBillingTime is ahead of LastUpdate by   *)
(* no more than what was persisted, and they agree before the meeting.      *)
Clocks(s) ==
    /\ sess[s].lastBilling <= sess[s].lastUpdate + sess[s].persisted
    /\ Transcribing(s) /\ ~sess[s].meeting => sess[s].lastBilling = sess[s].lastUpdate

(* All that could be charged to a session that goes on was used. *)
Open(s) == hist[s].billed + sess[s].consumed + Due(s) <= hist[s].used

Attaching(s) == \E p \in Procs : In(p, "attach", s)

(* A stop has closed the session: the rest that is not persisted may still  *)
(* be charged, nobody but other stops is at work on it, and once it is      *)
(* settled it is not in the cache any more.                                 *)
Stopped(s) ==
    /\ sess[s].status = "completed"
    /\ \A p \in Procs : job[p].s = s => job[p].op = "stop"
    /\ cached = s => sess[s].settling
    /\ hist[s].billed <= hist[s].used
    /\ hist[s].billed + (sess[s].consumed - sess[s].persisted) <= hist[s].used

StopDue(s) ==
    \A p \in Procs : In(p, "stop", s) =>
        /\ Stopped(s)
        /\ job[p].base = 0 \/ sess[s].persisted + job[p].base <= sess[s].consumed

Covered(s) ==
    /\ Compatible(s) /\ BillHeld(s) /\ BillDue(s) /\ AttachDue(s)
    /\ Clocks(s) /\ StopDue(s)
    /\ Open(s) \/ Attaching(s) \/ Stopped(s)

(* The inductive invariant of NeverOvercharged. *)
CInv == SInv /\ \A s \in Sessions : ~hist[s].spoiled => Covered(s)

-----------------------------------------------------------------------------
(* What a step of goroutine p can do to session s, field by field.          *)

Others(p) == now' = now /\ \A q \in Procs \ {p} : job'[q] = job[q]

Same(s) == sess'[s] = sess[s] /\ hist'[s] = hist[s]

(* The session object and the history after the step. *)
Becomes(s, status, lastBilling, lastUpdate, consumed, persisted) ==
    /\ sess'[s].status = status
    /\ sess'[s].lastBilling = lastBilling
    /\ sess'[s].lastUpdate = lastUpdate
    /\ sess'[s].consumed = consumed
    /\ sess'[s].persisted = persisted

Charges(s, n) ==
    hist'[s].billed = hist[s].billed + n /\ hist'[s].used = hist[s].used

(* Nobody but p is at work on s in a way not followed with op. *)
Apart(p, op, s) ==
    \A q \in Procs \ {p} : job[q].s = s => {op, job[q].op} \in Followed

(* p has nothing to do with s. *)
Away(p, s) ==
    /\ job[p].s # s /\ job'[p].s # s /\ Same(s)
    /\ cached' = s => cached = s

(* p comes to s, which is in the cache. *)
Takes(p, s) ==
    /\ cached = s /\ cached' = cached /\ Same(s)
    /\ ~In(p, "stop", s) /\ ~In(p, "attach", s)
    /\ job'[p].s = s /\ Apart(p, job'[p].op, s)
    /\ job'[p].at # "charge"
    /\ job'[p].op = "bill" => Transcribing(s)
    /\ job'[p].op = "resume" => sess[s].status = "paused"

(* p lets go of s without having changed it. *)
Leaves(p, s) ==
    /\ job[p].s = s /\ job'[p].s # s /\ Same(s)
    /\ ~In(p, "stop", s) /\ ~In(p, "attach", s)
    /\ cached' = s => cached = s \/ job[p].op \in {"pause", "resume"}

(* p stays at s, with the same operation. *)
Stays(p, s) ==
    job[p].s = s /\ job'[p].s = s /\ job'[p].op = job[p].op /\ cached' = cached

(* A start creates s. *)
Creates(s) ==
    /\ s > made /\ made' = s
    /\ \A q \in Procs : job'[q].s # s
    /\ Becomes(s, "transcribing", now, now, 0, 0)
    /\ hist'[s] = hist[s]

(* A start closes s. *)
Cleans(p, s) ==
    /\ job[p].op = "start" /\ job[p].s = s /\ job'[p].s # s
    /\ Becomes(s, "completed", sess[s].lastBilling, now, sess[s].consumed, sess[s].persisted)
    /\ hist'[s] = hist[s]
    /\ cached' # s

Pauses(p, s) ==
    /\ Stays(p, s) /\ job[p].op = "pause" /\ job'[p].at = "set"
    /\ Becomes(s, "paused", sess[s].lastBilling, now, sess[s].consumed, sess[s].persisted)
    /\ sess'[s].meeting = sess[s].meeting
    /\ Charges(s, 0) /\ hist'[s].short

Resumes(p, s) ==
    /\ Stays(p, s) /\ job[p].op = "resume" /\ job'[p].at = "set"
    /\ Becomes(s, "transcribing", now, now, sess[s].consumed, sess[s].persisted)
    /\ sess'[s].meeting = sess[s].meeting
    /\ hist'[s] = hist[s]

(* A stop begins the settlement of s. *)
Settles(p, s) ==
    /\ Stays(p, s) /\ job[p].op = "stop" /\ job'[p].at = "charge"
    /\ ~sess[s].settling
    /\ Becomes(s, "completed", sess[s].lastBilling, now, Final(s), sess[s].persisted)
    /\ sess'[s].settling
    /\ Charges(s, 0)
    /\ hist'[s].settled = hist[s].settled
    /\ ~hist'[s].short => ~hist[s].short
    /\ \/ job'[p].base = Outstanding(s)
       \/ job'[p].base = 0 /\ (Outstanding(s) > 0 => hist'[s].short)

(* And ends it. *)
Finishes(p, s) ==
    /\ In(p, "stop", s) /\ job'[p].s # s /\ cached' # s
    /\ \E paid \in 0..job[p].base :
         /\ Becomes(s, sess[s].status, sess[s].lastBilling, sess[s].lastUpdate,
                    sess[s].consumed, sess[s].persisted + paid)
         /\ Charges(s, paid)
         /\ ~hist'[s].short => ~hist[s].short /\ paid = job[p].base

(* Realtime billing: without a meeting the seconds are counted, else they   *)
(* are charged.                                                             *)
Counts(p, s) ==
    /\ job[p].op = "bill" /\ job[p].s = s /\ job'[p].s # s /\ cached' = cached
    /\ job[p].at # "charge"
    /\ ~sess[s].meeting /\ sess'[s].meeting = sess[s].meeting
    /\ Becomes(s, sess[s].status, now, now,
               sess[s].consumed + (now - sess[s].lastBilling), sess[s].persisted)
    /\ hist'[s] = hist[s]

BeginsBill(p, s) ==
    /\ Stays(p, s) /\ job[p].op = "bill" /\ job[p].at # "charge"
    /\ sess[s].meeting /\ Same(s)
    /\ job'[p].base = now - sess[s].lastBilling
    /\ job'[p].total = job'[p].base + sess[s].consumed
    /\ job'[p].time = now

Bills(p, s) ==
    /\ In(p, "bill", s) /\ job'[p].s # s /\ cached' = cached
    /\ Becomes(s, sess[s].status, job[p].time, sess[s].lastUpdate, 0,
               sess[s].persisted + job[p].base)
    /\ sess'[s].meeting = sess[s].meeting
    /\ Charges(s, job[p].total)
    /\ hist'[s].short = hist[s].short /\ hist'[s].settled = hist[s].settled

(* An attach comes to s with nothing to charge, or with seconds to charge. *)
Skips(p, s) ==
    /\ At(p, "attach", "begin") /\ cached = s /\ cached' = cached
    /\ Final(s) = 0 /\ Apart(p, "attach", s)
    /\ job'[p].op = "attach" /\ job'[p].at = "set" /\ job'[p].s = s
    /\ Becomes(s, sess[s].status, now, now, sess[s].consumed, sess[s].persisted)
    /\ sess'[s].meeting = sess[s].meeting
    /\ hist'[s] = hist[s]

Begins(p, s) ==
    /\ At(p, "attach", "begin") /\ cached = s /\ cached' = cached
    /\ ~sess[s].meeting /\ Apart(p, "attach", s)
    /\ job'[p].op = "attach" /\ job'[p].at = "charge" /\ job'[p].s = s
    /\ job'[p].total = Final(s)
    /\ Becomes(s, sess[s].status, sess[s].lastBilling, sess[s].lastUpdate,
               Final(s), sess[s].persisted)
    /\ sess'[s].meeting = sess[s].meeting
    /\ hist'[s] = hist[s]

(* Its charge is done. *)
Attaches(p, s) ==
    /\ Stays(p, s) /\ In(p, "attach", s) /\ job'[p].at = "set"
    /\ Becomes(s, sess[s].status, now, now, 0, sess[s].persisted + job[p].total)
    /\ sess'[s].meeting = sess[s].meeting
    /\ Charges(s, job[p].total) /\ hist'[s].short

(* The session in the cache is given its meeting. *)
Gives(p, s) ==
    /\ cached = s /\ cached' = cached /\ job'[p].s # s
    /\ job[p].op \in {"attach", "stop"} /\ Apart(p, job[p].op, s)
    /\ ~In(p, "stop", s) /\ ~In(p, "attach", s)
    /\ sess'[s] = [sess[s] EXCEPT !.meeting = TRUE]
    /\ hist'[s] = hist[s]

Effect(p, s) ==
    /\ Others(p)
    /\ \/ Away(p, s) \/ Takes(p, s) \/ Leaves(p, s)
       \/ Creates(s) \/ Cleans(p, s) \/ Pauses(p, s) \/ Resumes(p, s)
       \/ Settles(p, s) \/ Finishes(p, s)
       \/ Counts(p, s) \/ BeginsBill(p, s) \/ Bills(p, s)
       \/ Skips(p, s) \/ Begins(p, s) \/ Attaches(p, s) \/ Gives(p, s)

-----------------------------------------------------------------------------
(* Which operations overlap on a session that is followed. *)
LEMMA Table ==
    ASSUME NEW a, NEW b, {a, b} \in Harmless
    PROVE  /\ a = "stop" => b = "stop"
           /\ a = "start" => b = "start"
           /\ a = "bill" => b \in {"attach", "resume"}
           /\ a = "attach" => b \in {"pause", "resume", "bill"}
           /\ a = "pause" => b \in {"pause", "resume", "attach"}
           /\ a = "resume" => b \in {"pause", "resume", "attach", "bill"}
<1>1. /\ a = b => a \in {"start", "pause", "resume", "stop"}
      /\ a # b => \/ {a, b} = {"pause", "resume"} \/ {a, b} = {"attach", "pause"}
                  \/ {a, b} = {"attach", "resume"} \/ {a, b} = {"attach", "bill"}
                  \/ {a, b} = {"resume", "bill"}
  BY DEF Harmless
<1> QED
  BY <1>1
(* The same of all goroutines that hold session s, as j has them. *)
Excludes(j, s) ==
    \A p, q \in Procs :
        p # q /\ j[p].s = s /\ j[q].s = s
        => /\ j[p].op = "stop" => j[q].op = "stop"
           /\ j[p].op = "start" => j[q].op = "start"
           /\ j[p].op = "bill" => j[q].op \in {"attach", "resume"}
           /\ j[p].op = "attach" => j[q].op \in {"pause", "resume", "bill"}
           /\ j[p].op = "pause" => j[q].op \in {"pause", "resume", "attach"}

LEMMA CompatibleExcludes ==
    ASSUME Followed \subseteq Harmless, NEW s \in Sessions, NEW j,
           \A p, q \in Procs :
             p # q /\ j[p].s = s /\ j[q].s = s => {j[p].op, j[q].op} \in Followed
    PROVE  Excludes(j, s)
<1>1. ASSUME NEW p \in Procs, NEW q \in Procs, p # q, j[p].s = s, j[q].s = s
      PROVE  {j[p].op, j[q].op} \in Harmless
  BY <1>1
<1> QED
  BY <1>1, Table DEF Excludes

(* The numbers of session s and of the goroutines. *)
Fields(s) ==
    /\ now \in Nat
    /\ sess[s].lastBilling \in Nat /\ sess[s].lastBilling <= now
    /\ sess[s].lastUpdate \in Nat /\ sess[s].lastUpdate <= now
    /\ sess[s].consumed \in Nat /\ sess[s].persisted \in Nat
    /\ hist[s].used \in Nat /\ hist[s].billed \in Nat
    /\ \A p \in Procs : /\ job[p].base \in Nat /\ job[p].total \in Nat
                         /\ job[p].time \in Nat /\ job[p].time <= now

LEMMA FieldTypes ==
    ASSUME IInv, NEW s \in Sessions
    PROVE  Fields(s)
<1>1. sess[s] \in SessionType /\ hist[s] \in HistoryType
  BY DEF IInv, SessOK, HistOK
<1>2. \A p \in Procs : job[p] \in JobType
  BY DEF IInv, JobsOK
<1> QED
  BY <1>1, <1>2 DEF Fields, IInv, SessOK, JobsOK, SessionType, HistoryType, JobType

(* What the lemmas about the effects start from. *)
Before(p, s) ==
    /\ OneSettlement /\ Fields(s) /\ Fields(s)'
    /\ Excludes(job, s) /\ Excludes(job', s)
    /\ Covered(s) /\ Others(p)

LEMMA CompatibleStep ==
    ASSUME NEW s \in Sessions, NEW p \in Procs, Others(p), Compatible(s),
           job'[p].s # s \/ Stays(p, s) \/ Apart(p, job'[p].op, s)
    PROVE  Compatible(s)'
<1>1. ASSUME NEW q \in Procs, q # p, job'[p].s = s, job'[q].s = s
      PROVE  {job'[p].op, job'[q].op} \in Followed
  BY <1>1 DEF Others, Compatible, Stays, Apart
<1>2. ASSUME NEW q \in Procs, NEW r \in Procs, q # p, r # p, q # r,
             job'[q].s = s, job'[r].s = s
      PROVE  {job'[q].op, job'[r].op} \in Followed
  BY <1>2 DEF Others, Compatible
<1>3. \A a, b : {a, b} = {b, a}
  OBVIOUS
<1> QED
  BY <1>1, <1>2, <1>3 DEF Compatible

(* p has nothing to do with s. *)
LEMMA AwayCovers ==
    ASSUME NEW s \in Sessions, NEW p \in Procs, Before(p, s), Away(p, s)
    PROVE  /\ BillHeld(s)' /\ BillDue(s)' /\ AttachDue(s)' /\ Clocks(s)' /\ StopDue(s)'
           /\ Open(s)' \/ Attaching(s)' \/ Stopped(s)'
<1>1. BillHeld(s)'
  BY DEF Before, Others, Excludes, Covered, In, At, Away, Same, BillHeld, Transcribing
<1>2. BillDue(s)'
  BY DEF Before, Others, Excludes, Covered, In, At, Away, Same, BillDue, BillHeld, Fields, Open, Due, Transcribing, Attaching, AttachDue, Stopped
<1>3. AttachDue(s)'
  BY DEF Before, Others, Excludes, Covered, In, At, Away, Same, AttachDue, BillDue, Fields, Open, Due, Transcribing, Clocks, Final
<1>4. Clocks(s)'
  BY DEF Before, Others, Excludes, Covered, In, At, Away, Same, Clocks, BillDue, Fields, Transcribing
<1>5. StopDue(s)'
  BY DEF Before, Others, Excludes, Covered, In, At, Away, Same, StopDue, Stopped, Fields, Clocks
<1>6. Open(s)' \/ Attaching(s)' \/ Stopped(s)'
  BY DEF Before, Others, Excludes, Covered, In, At, Away, Same, Open, Attaching, Stopped, StopDue, BillDue, BillHeld, AttachDue, Due, Transcribing, Fields, Clocks, OneSettlement, Settlers, Final, Outstanding
<1> QED
  BY <1>1, <1>2, <1>3, <1>4, <1>5, <1>6

(* It comes to s. *)
LEMMA TakesCovers ==
    ASSUME NEW s \in Sessions, NEW p \in Procs, Before(p, s), Takes(p, s)
    PROVE  /\ BillHeld(s)' /\ BillDue(s)' /\ AttachDue(s)' /\ Clocks(s)' /\ StopDue(s)'
           /\ Open(s)' \/ Attaching(s)' \/ Stopped(s)'
<1>1. BillHeld(s)'
  BY DEF Before, Others, Excludes, Covered, In, At, Takes, Same, Apart, BillHeld, Transcribing
<1>2. BillDue(s)'
  BY DEF Before, Others, Excludes, Covered, In, At, Takes, Same, Apart, BillDue, BillHeld, Fields, Open, Due, Transcribing, Attaching, AttachDue, Stopped
<1>3. AttachDue(s)'
  BY DEF Before, Others, Excludes, Covered, In, At, Takes, Same, Apart, AttachDue, BillDue, Fields, Open, Due, Transcribing, Clocks, Final
<1>4. Clocks(s)'
  BY DEF Before, Others, Excludes, Covered, In, At, Takes, Same, Apart, Clocks, BillDue, Fields, Transcribing
<1>5. StopDue(s)'
  BY DEF Before, Others, Excludes, Covered, In, At, Takes, Same, Apart, StopDue, Stopped, Fields, Clocks
<1>6. Open(s)' \/ Attaching(s)' \/ Stopped(s)'
  BY DEF Before, Others, Excludes, Covered, In, At, Takes, Same, Apart, Open, Attaching, Stopped, StopDue, BillDue, BillHeld, AttachDue, Due, Transcribing, Fields, Clocks, OneSettlement, Settlers, Final, Outstanding
<1> QED
  BY <1>1, <1>2, <1>3, <1>4, <1>5, <1>6

(* It lets go of s. *)
LEMMA LeavesCovers ==
    ASSUME NEW s \in Sessions, NEW p \in Procs, Before(p, s), Leaves(p, s)
    PROVE  /\ BillHeld(s)' /\ BillDue(s)' /\ AttachDue(s)' /\ Clocks(s)' /\ StopDue(s)'
           /\ Open(s)' \/ Attaching(s)' \/ Stopped(s)'
<1>1. BillHeld(s)'
  BY DEF Before, Others, Excludes, Covered, In, At, Leaves, Same, BillHeld, Transcribing
<1>2. BillDue(s)'
  BY DEF Before, Others, Excludes, Covered, In, At, Leaves, Same, BillDue, BillHeld, Fields, Open, Due, Transcribing, Attaching, AttachDue, Stopped
<1>3. AttachDue(s)'
  BY DEF Before, Others, Excludes, Covered, In, At, Leaves, Same, AttachDue, BillDue, Fields, Open, Due, Transcribing, Clocks, Final
<1>4. Clocks(s)'
  BY DEF Before, Others, Excludes, Covered, In, At, Leaves, Same, Clocks, BillDue, Fields, Transcribing
<1>5. StopDue(s)'
  BY DEF Before, Others, Excludes, Covered, In, At, Leaves, Same, StopDue, Stopped, Fields, Clocks
<1>6. Open(s)' \/ Attaching(s)' \/ Stopped(s)'
  BY DEF Before, Others, Excludes, Covered, In, At, Leaves, Same, Open, Attaching, Stopped, StopDue, BillDue, BillHeld, AttachDue, Due, Transcribing, Fields, Clocks, OneSettlement, Settlers, Final, Outstanding
<1> QED
  BY <1>1, <1>2, <1>3, <1>4, <1>5, <1>6

(* s is new. *)
LEMMA CreatesCovers ==
    ASSUME NEW s \in Sessions, NEW p \in Procs, Before(p, s), Creates(s)
    PROVE  /\ BillHeld(s)' /\ BillDue(s)' /\ AttachDue(s)' /\ Clocks(s)' /\ StopDue(s)'
           /\ Open(s)' \/ Attaching(s)' \/ Stopped(s)'
<1>1. BillHeld(s)'
  BY DEF Before, Others, Excludes, Covered, In, At, Creates, Becomes, BillHeld, Transcribing
<1>2. BillDue(s)'
  BY DEF Before, Others, Excludes, Covered, In, At, Creates, Becomes, BillDue, BillHeld, Fields, Open, Due, Transcribing, Attaching, AttachDue, Stopped
<1>3. AttachDue(s)'
  BY DEF Before, Others, Excludes, Covered, In, At, Creates, Becomes, AttachDue, BillDue, Fields, Open, Due, Transcribing, Clocks, Final
<1>4. Clocks(s)'
  BY DEF Before, Others, Excludes, Covered, In, At, Creates, Becomes, Clocks, BillDue, Fields, Transcribing
<1>5. StopDue(s)'
  BY DEF Before, Others, Excludes, Covered, In, At, Creates, Becomes, StopDue, Stopped, Fields, Clocks
<1>6. Open(s)' \/ Attaching(s)' \/ Stopped(s)'
  BY DEF Before, Others, Excludes, Covered, In, At, Creates, Becomes, Open, Attaching, Stopped, StopDue, BillDue, BillHeld, AttachDue, Due, Transcribing, Fields, Clocks, OneSettlement, Settlers, Final, Outstanding
<1> QED
  BY <1>1, <1>2, <1>3, <1>4, <1>5, <1>6

(* A start closes s. *)
LEMMA CleansCovers ==
    ASSUME NEW s \in Sessions, NEW p \in Procs, Before(p, s), Cleans(p, s)
    PROVE  /\ BillHeld(s)' /\ BillDue(s)' /\ AttachDue(s)' /\ Clocks(s)' /\ StopDue(s)'
           /\ Open(s)' \/ Attaching(s)' \/ Stopped(s)'
<1>1. BillHeld(s)'
  BY DEF Before, Others, Excludes, Covered, In, At, Cleans, Becomes, BillHeld, Transcribing
<1>2. BillDue(s)'
  BY DEF Before, Others, Excludes, Covered, In, At, Cleans, Becomes, BillDue, BillHeld, Fields, Open, Due, Transcribing, Attaching, AttachDue, Stopped
<1>3. AttachDue(s)'
  BY DEF Before, Others, Excludes, Covered, In, At, Cleans, Becomes, AttachDue, BillDue, Fields, Open, Due, Transcribing, Clocks, Final
<1>4. Clocks(s)'
  BY DEF Before, Others, Excludes, Covered, In, At, Cleans, Becomes, Clocks, BillDue, Fields, Transcribing
<1>5. StopDue(s)'
  BY DEF Before, Others, Excludes, Covered, In, At, Cleans, Becomes, StopDue, Stopped, Fields, Clocks
<1>6. Open(s)' \/ Attaching(s)' \/ Stopped(s)'
  BY DEF Before, Others, Excludes, Covered, In, At, Cleans, Becomes, Open, Attaching, Stopped, StopDue, BillDue, BillHeld, AttachDue, Due, Transcribing, Fields, Clocks, OneSettlement, Settlers, Final, Outstanding
<1> QED
  BY <1>1, <1>2, <1>3, <1>4, <1>5, <1>6

(* s is paused. *)
LEMMA PausesCovers ==
    ASSUME NEW s \in Sessions, NEW p \in Procs, Before(p, s), Pauses(p, s)
    PROVE  /\ BillHeld(s)' /\ BillDue(s)' /\ AttachDue(s)' /\ Clocks(s)' /\ StopDue(s)'
           /\ Open(s)' \/ Attaching(s)' \/ Stopped(s)'
<1>1. BillHeld(s)'
  BY DEF Before, Others, Excludes, Covered, In, At, Pauses, Stays, Becomes, Charges, BillHeld, Transcribing
<1>2. BillDue(s)'
  BY DEF Before, Others, Excludes, Covered, In, At, Pauses, Stays, Becomes, Charges, BillDue, BillHeld, Fields, Open, Due, Transcribing, Attaching, AttachDue, Stopped
<1>3. AttachDue(s)'
  BY DEF Before, Others, Excludes, Covered, In, At, Pauses, Stays, Becomes, Charges, AttachDue, BillDue, Fields, Open, Due, Transcribing, Clocks, Final
<1>4. Clocks(s)'
  BY DEF Before, Others, Excludes, Covered, In, At, Pauses, Stays, Becomes, Charges, Clocks, BillDue, Fields, Transcribing
<1>5. StopDue(s)'
  BY DEF Before, Others, Excludes, Covered, In, At, Pauses, Stays, Becomes, Charges, StopDue, Stopped, Fields, Clocks
<1>6. Open(s)' \/ Attaching(s)' \/ Stopped(s)'
  BY DEF Before, Others, Excludes, Covered, In, At, Pauses, Stays, Becomes, Charges, Open, Attaching, Stopped, StopDue, BillDue, BillHeld, AttachDue, Due, Transcribing, Fields, Clocks, OneSettlement, Settlers, Final, Outstanding
<1> QED
  BY <1>1, <1>2, <1>3, <1>4, <1>5, <1>6

(* s is resumed. *)
LEMMA ResumesCovers ==
    ASSUME NEW s \in Sessions, NEW p \in Procs, Before(p, s), Resumes(p, s)
    PROVE  /\ BillHeld(s)' /\ BillDue(s)' /\ AttachDue(s)' /\ Clocks(s)' /\ StopDue(s)'
           /\ Open(s)' \/ Attaching(s)' \/ Stopped(s)'
<1>1. BillHeld(s)'
  BY DEF Before, Others, Excludes, Covered, In, At, Resumes, Stays, Becomes, BillHeld, Transcribing
<1>2. BillDue(s)'
  BY DEF Before, Others, Excludes, Covered, In, At, Resumes, Stays, Becomes, BillDue, BillHeld, Fields, Open, Due, Transcribing, Attaching, AttachDue, Stopped
<1>3. AttachDue(s)'
  BY DEF Before, Others, Excludes, Covered, In, At, Resumes, Stays, Becomes, AttachDue, BillDue, Fields, Open, Due, Transcribing, Clocks, Final
<1>4. Clocks(s)'
  BY DEF Before, Others, Excludes, Covered, In, At, Resumes, Stays, Becomes, Clocks, BillDue, Fields, Transcribing
<1>5. StopDue(s)'
  BY DEF Before, Others, Excludes, Covered, In, At, Resumes, Stays, Becomes, StopDue, Stopped, Fields, Clocks
<1>6. Open(s)' \/ Attaching(s)' \/ Stopped(s)'
  BY DEF Before, Others, Excludes, Covered, In, At, Resumes, Stays, Becomes, Open, Attaching, Stopped, StopDue, BillDue, BillHeld, AttachDue, Due, Transcribing, Fields, Clocks, OneSettlement, Settlers, Final, Outstanding
<1> QED
  BY <1>1, <1>2, <1>3, <1>4, <1>5, <1>6

(* A stop closes s. *)
LEMMA SettlesCovers ==
    ASSUME NEW s \in Sessions, NEW p \in Procs, Before(p, s), Settles(p, s)
    PROVE  /\ BillHeld(s)' /\ BillDue(s)' /\ AttachDue(s)' /\ Clocks(s)' /\ StopDue(s)'
           /\ Open(s)' \/ Attaching(s)' \/ Stopped(s)'
<1>1. BillHeld(s)'
  BY DEF Before, Others, Excludes, Covered, In, At, Settles, Stays, Becomes, Charges, BillHeld, Transcribing
<1>2. BillDue(s)'
  BY DEF Before, Others, Excludes, Covered, In, At, Settles, Stays, Becomes, Charges, BillDue, BillHeld, Fields, Open, Due, Transcribing, Attaching, AttachDue, Stopped
<1>3. AttachDue(s)'
  BY DEF Before, Others, Excludes, Covered, In, At, Settles, Stays, Becomes, Charges, AttachDue, BillDue, Fields, Open, Due, Transcribing, Clocks, Final
<1>4. Clocks(s)'
  BY DEF Before, Others, Excludes, Covered, In, At, Settles, Stays, Becomes, Charges, Clocks, BillDue, Fields, Transcribing
<1>5. StopDue(s)'
  <2>1. Stopped(s)'
    BY DEF Before, Others, Excludes, Covered, In, At, Settles, Stays, Becomes, Charges, Open, Attaching, Stopped, Due,
           Transcribing, Fields, Clocks, Final
  <2>2. \A q \in Procs : ~In(q, "stop", s)
    BY DEF Settles, Before, OneSettlement, Settlers, In
  <2>3. job'[p].base = 0 \/ sess'[s].persisted + job'[p].base <= sess'[s].consumed
    BY DEF Before, Others, Excludes, Covered, In, At, Settles, Becomes, Fields, Outstanding
  <2>4. ASSUME NEW q \in Procs, In(q, "stop", s)' PROVE q = p
    BY <2>2, <2>4 DEF Before, Others, In, At
  <2> QED
    BY <2>1, <2>3, <2>4 DEF StopDue
<1>6. Open(s)' \/ Attaching(s)' \/ Stopped(s)'
  BY DEF Before, Others, Excludes, Covered, In, At, Settles, Stays, Becomes, Charges, Open, Attaching, Stopped, StopDue, BillDue, BillHeld, AttachDue, Due, Transcribing, Fields, Clocks, OneSettlement, Settlers, Final, Outstanding
<1> QED
  BY <1>1, <1>2, <1>3, <1>4, <1>5, <1>6

(* A stop has charged s. *)
LEMMA FinishesCovers ==
    ASSUME NEW s \in Sessions, NEW p \in Procs, Before(p, s), Finishes(p, s)
    PROVE  /\ BillHeld(s)' /\ BillDue(s)' /\ AttachDue(s)' /\ Clocks(s)' /\ StopDue(s)'
           /\ Open(s)' \/ Attaching(s)' \/ Stopped(s)'
<1>1. BillHeld(s)'
  BY DEF Before, Others, Excludes, Covered, In, At, Finishes, Becomes, Charges, BillHeld, Transcribing
<1>2. BillDue(s)'
  BY DEF Before, Others, Excludes, Covered, In, At, Finishes, Becomes, Charges, BillDue, BillHeld, Fields, Open, Due, Transcribing, Attaching, AttachDue, Stopped
<1>3. AttachDue(s)'
  BY DEF Before, Others, Excludes, Covered, In, At, Finishes, Becomes, Charges, AttachDue, BillDue, Fields, Open, Due, Transcribing, Clocks, Final
<1>4. Clocks(s)'
  <2>1. PICK paid \in 0..job[p].base :
          Becomes(s, sess[s].status, sess[s].lastBilling, sess[s].lastUpdate,
                  sess[s].consumed, sess[s].persisted + paid)
    BY DEF Finishes
  <2>2. paid \in Nat
    BY DEF Before, Fields
  <2>3. Stopped(s)
    BY DEF Finishes, Before, Covered, StopDue
  <2> QED
    BY <2>1, <2>2, <2>3 DEF Before, Covered, Becomes, Clocks, Fields, Stopped, Transcribing
<1>5. StopDue(s)'
  <2>1. ASSUME NEW q \in Procs, In(q, "stop", s)' PROVE FALSE
    <3>1. q # p /\ In(q, "stop", s)
      BY <2>1 DEF Finishes, Before, Others, In, At
    <3>2. p \in Settlers(s) /\ q \in Settlers(s)
      BY <3>1 DEF Finishes, In, Settlers
    <3> QED
      BY <3>1, <3>2 DEF Before, OneSettlement
  <2> QED
    BY <2>1 DEF StopDue
<1>6. Open(s)' \/ Attaching(s)' \/ Stopped(s)'
  BY DEF Before, Others, Excludes, Covered, In, At, Finishes, Becomes, Charges, Open, Attaching, Stopped, StopDue, BillDue, BillHeld, AttachDue, Due, Transcribing, Fields, Clocks, OneSettlement, Settlers, Final, Outstanding
<1> QED
  BY <1>1, <1>2, <1>3, <1>4, <1>5, <1>6

(* Seconds are counted. *)
LEMMA CountsCovers ==
    ASSUME NEW s \in Sessions, NEW p \in Procs, Before(p, s), Counts(p, s)
    PROVE  /\ BillHeld(s)' /\ BillDue(s)' /\ AttachDue(s)' /\ Clocks(s)' /\ StopDue(s)'
           /\ Open(s)' \/ Attaching(s)' \/ Stopped(s)'
<1>1. BillHeld(s)'
  BY DEF Before, Others, Excludes, Covered, In, At, Counts, Becomes, BillHeld, Transcribing
<1>2. BillDue(s)'
  BY DEF Before, Others, Excludes, Covered, In, At, Counts, Becomes, BillDue, BillHeld, Fields, Open, Due, Transcribing, Attaching, AttachDue, Stopped
<1>3. AttachDue(s)'
  BY DEF Before, Others, Excludes, Covered, In, At, Counts, Becomes, AttachDue, BillDue, Fields, Open, Due, Transcribing, Clocks, Final
<1>4. Clocks(s)'
  BY DEF Before, Others, Excludes, Covered, In, At, Counts, Becomes, Clocks, BillDue, Fields, Transcribing
<1>5. StopDue(s)'
  BY DEF Before, Others, Excludes, Covered, In, At, Counts, Becomes, StopDue, Stopped, Fields, Clocks
<1>6. Open(s)' \/ Attaching(s)' \/ Stopped(s)'
  BY DEF Before, Others, Excludes, Covered, In, At, Counts, Becomes, Open, Attaching, Stopped, StopDue, BillDue, BillHeld, AttachDue, Due, Transcribing, Fields, Clocks, OneSettlement, Settlers, Final, Outstanding
<1> QED
  BY <1>1, <1>2, <1>3, <1>4, <1>5, <1>6

(* Seconds are to be charged. *)
LEMMA BeginsBillCovers ==
    ASSUME NEW s \in Sessions, NEW p \in Procs, Before(p, s), BeginsBill(p, s)
    PROVE  /\ BillHeld(s)' /\ BillDue(s)' /\ AttachDue(s)' /\ Clocks(s)' /\ StopDue(s)'
           /\ Open(s)' \/ Attaching(s)' \/ Stopped(s)'
<1>1. BillHeld(s)'
  BY DEF Before, Others, Excludes, Covered, In, At, BeginsBill, Stays, Same, BillHeld, Transcribing
<1>2. BillDue(s)'
  <2>1. Transcribing(s) /\ ~Stopped(s)
    BY DEF Before, Others, Excludes, Covered, In, At, BeginsBill, Stays, BillHeld, Stopped
  <2>2. ~Attaching(s)
    BY DEF Before, Covered, BeginsBill, AttachDue, Attaching
  <2>3. hist[s].billed + sess[s].consumed + (now - sess[s].lastBilling) <= hist[s].used
    BY <2>1, <2>2 DEF Before, Covered, Open, Due
  <2>4. ASSUME NEW q \in Procs, In(q, "bill", s)' PROVE q = p
    BY <2>4 DEF Before, Others, Excludes, Covered, In, At, BeginsBill, Stays
  <2> QED
    BY <2>3, <2>4 DEF Before, Covered, Others, BeginsBill, Same, BillDue, Clocks, Fields
<1>3. AttachDue(s)'
  BY DEF Before, Others, Excludes, Covered, In, At, BeginsBill, Stays, Same, AttachDue, BillDue, Fields, Open, Due, Transcribing, Clocks, Final
<1>4. Clocks(s)'
  BY DEF Before, Others, Excludes, Covered, In, At, BeginsBill, Stays, Same, Clocks, BillDue, Fields, Transcribing
<1>5. StopDue(s)'
  BY DEF Before, Others, Excludes, Covered, In, At, BeginsBill, Stays, Same, StopDue, Stopped, Fields, Clocks
<1>6. Open(s)' \/ Attaching(s)' \/ Stopped(s)'
  BY DEF Before, Others, Excludes, Covered, In, At, BeginsBill, Stays, Same, Open, Attaching, Stopped, StopDue, BillDue, BillHeld, AttachDue, Due, Transcribing, Fields, Clocks, OneSettlement, Settlers, Final, Outstanding
<1> QED
  BY <1>1, <1>2, <1>3, <1>4, <1>5, <1>6

(* They are. *)
LEMMA BillsCovers ==
    ASSUME NEW s \in Sessions, NEW p \in Procs, Before(p, s), Bills(p, s)
    PROVE  /\ BillHeld(s)' /\ BillDue(s)' /\ AttachDue(s)' /\ Clocks(s)' /\ StopDue(s)'
           /\ Open(s)' \/ Attaching(s)' \/ Stopped(s)'
<1>1. BillHeld(s)'
  BY DEF Before, Others, Excludes, Covered, In, At, Bills, Becomes, Charges, BillHeld, Transcribing
<1>2. BillDue(s)'
  BY DEF Before, Others, Excludes, Covered, In, At, Bills, Becomes, Charges, BillDue, BillHeld, Fields, Open, Due, Transcribing, Attaching, AttachDue, Stopped
<1>3. AttachDue(s)'
  BY DEF Before, Others, Excludes, Covered, In, At, Bills, Becomes, Charges, AttachDue, BillDue, Fields, Open, Due, Transcribing, Clocks, Final
<1>4. Clocks(s)'
  BY DEF Before, Others, Excludes, Covered, In, At, Bills, Becomes, Charges, Clocks, BillDue, Fields, Transcribing
<1>5. StopDue(s)'
  BY DEF Before, Others, Excludes, Covered, In, At, Bills, Becomes, Charges, StopDue, Stopped, Fields, Clocks
<1>6. Open(s)' \/ Attaching(s)' \/ Stopped(s)'
  BY DEF Before, Others, Excludes, Covered, In, At, Bills, Becomes, Charges, Open, Attaching, Stopped, StopDue, BillDue, BillHeld, AttachDue, Due, Transcribing, Fields, Clocks, OneSettlement, Settlers, Final, Outstanding
<1> QED
  BY <1>1, <1>2, <1>3, <1>4, <1>5, <1>6

(* An attach has nothing to charge. *)
LEMMA SkipsCovers ==
    ASSUME NEW s \in Sessions, NEW p \in Procs, Before(p, s), Skips(p, s)
    PROVE  /\ BillHeld(s)' /\ BillDue(s)' /\ AttachDue(s)' /\ Clocks(s)' /\ StopDue(s)'
           /\ Open(s)' \/ Attaching(s)' \/ Stopped(s)'
<1>1. BillHeld(s)'
  BY DEF Before, Others, Excludes, Covered, In, At, Skips, Becomes, Apart, BillHeld, Transcribing
<1>2. BillDue(s)'
  BY DEF Before, Others, Excludes, Covered, In, At, Skips, Becomes, Apart, BillDue, BillHeld, Fields, Open, Due, Transcribing, Attaching, AttachDue, Stopped
<1>3. AttachDue(s)'
  BY DEF Before, Others, Excludes, Covered, In, At, Skips, Becomes, Apart, AttachDue, BillDue, Fields, Open, Due, Transcribing, Clocks, Final
<1>4. Clocks(s)'
  BY DEF Before, Others, Excludes, Covered, In, At, Skips, Becomes, Apart, Clocks, BillDue, Fields, Transcribing
<1>5. StopDue(s)'
  BY DEF Before, Others, Excludes, Covered, In, At, Skips, Becomes, Apart, StopDue, Stopped, Fields, Clocks
<1>6. Open(s)' \/ Attaching(s)' \/ Stopped(s)'
  <2>1. ~Stopped(s)
    <3>1. CASE sess[s].settling
      <4>1. PICK q \in Procs : In(q, "stop", s)
        BY <3>1 DEF Before, OneSettlement, Settlers, In
      <4>2. job'[q].op = "stop" /\ job'[q].s = s /\ q # p
        BY <4>1 DEF Skips, Before, Others, In, At
      <4> QED
        BY <4>2 DEF Skips, Before, Excludes
    <3>2. CASE ~sess[s].settling
      BY <3>2 DEF Skips, Stopped
    <3> QED
      BY <3>1, <3>2
  <2>2. ~Attaching(s)
    <3>1. ASSUME NEW q \in Procs, In(q, "attach", s) PROVE FALSE
      <4>1. job'[q].op = "attach" /\ job'[q].s = s /\ q # p
        BY <3>1 DEF Skips, Before, Others, In, At
      <4> QED
        BY <4>1 DEF Skips, Before, Excludes
    <3> QED
      BY <3>1 DEF Attaching
  <2>3. Open(s)
    BY <2>1, <2>2 DEF Before, Covered
  <2>4. sess[s].consumed = 0
    BY DEF Skips, Before, Final, Fields
  <2>5. Due(s)' = 0
    BY DEF Skips, Before, Others, Becomes, Due, Transcribing, Fields
  <2>6. hist[s].billed <= hist[s].used
    BY <2>3, <2>4 DEF Before, Open, Due, Fields
  <2> QED
    BY <2>4, <2>5, <2>6 DEF Skips, Before, Becomes, Open, Fields
<1> QED
  BY <1>1, <1>2, <1>3, <1>4, <1>5, <1>6

(* An attach begins to charge. *)
LEMMA BeginsCovers ==
    ASSUME NEW s \in Sessions, NEW p \in Procs, Before(p, s), Begins(p, s)
    PROVE  /\ BillHeld(s)' /\ BillDue(s)' /\ AttachDue(s)' /\ Clocks(s)' /\ StopDue(s)'
           /\ Open(s)' \/ Attaching(s)' \/ Stopped(s)'
<1>1. BillHeld(s)'
  BY DEF Before, Others, Excludes, Covered, In, At, Begins, Becomes, Apart, BillHeld, Transcribing
<1>2. BillDue(s)'
  BY DEF Before, Others, Excludes, Covered, In, At, Begins, Becomes, Apart, BillDue, BillHeld, Fields, Open, Due, Transcribing, Attaching, AttachDue, Stopped
<1>3. AttachDue(s)'
  <2>1. ~Stopped(s)
    <3>1. CASE sess[s].settling
      <4>1. PICK q \in Procs : In(q, "stop", s)
        BY <3>1 DEF Before, OneSettlement, Settlers, In
      <4>2. job'[q].op = "stop" /\ job'[q].s = s /\ q # p
        BY <4>1 DEF Begins, Before, Others, In, At
      <4> QED
        BY <4>2 DEF Begins, Before, Excludes
    <3>2. CASE ~sess[s].settling
      BY <3>2 DEF Begins, Stopped
    <3> QED
      BY <3>1, <3>2
  <2>2. ~Attaching(s)
    <3>1. ASSUME NEW q \in Procs, In(q, "attach", s) PROVE FALSE
      <4>1. job'[q].op = "attach" /\ job'[q].s = s /\ q # p
        BY <3>1 DEF Begins, Before, Others, In, At
      <4> QED
        BY <4>1 DEF Begins, Before, Excludes
    <3> QED
      BY <3>1 DEF Attaching
  <2>3. hist[s].billed + Final(s) <= hist[s].used
    BY <2>1, <2>2 DEF Begins, Before, Covered, Open, Due, Final, Transcribing, Clocks, Fields
  <2>4. ASSUME NEW q \in Procs, In(q, "attach", s)' PROVE q = p
    BY <2>4 DEF Before, Others, Excludes, Covered, In, At, Begins
  <2> QED
    BY <2>3, <2>4 DEF Begins, AttachDue
<1>4. Clocks(s)'
  BY DEF Before, Others, Excludes, Covered, In, At, Begins, Becomes, Apart, Clocks, BillDue, Fields, Transcribing
<1>5. StopDue(s)'
  BY DEF Before, Others, Excludes, Covered, In, At, Begins, Becomes, Apart, StopDue, Stopped, Fields, Clocks
<1>6. Open(s)' \/ Attaching(s)' \/ Stopped(s)'
  BY DEF Before, Others, Excludes, Covered, In, At, Begins, Becomes, Apart, Open, Attaching, Stopped, StopDue, BillDue, BillHeld, AttachDue, Due, Transcribing, Fields, Clocks, OneSettlement, Settlers, Final, Outstanding
<1> QED
  BY <1>1, <1>2, <1>3, <1>4, <1>5, <1>6

(* An attach has charged s. *)
LEMMA AttachesCovers ==
    ASSUME NEW s \in Sessions, NEW p \in Procs, Before(p, s), Attaches(p, s)
    PROVE  /\ BillHeld(s)' /\ BillDue(s)' /\ AttachDue(s)' /\ Clocks(s)' /\ StopDue(s)'
           /\ Open(s)' \/ Attaching(s)' \/ Stopped(s)'
<1>1. BillHeld(s)'
  BY DEF Before, Others, Excludes, Covered, In, At, Attaches, Stays, Becomes, Charges, BillHeld, Transcribing
<1>2. BillDue(s)'
  BY DEF Before, Others, Excludes, Covered, In, At, Attaches, Stays, Becomes, Charges, BillDue, BillHeld, Fields, Open, Due, Transcribing, Attaching, AttachDue, Stopped
<1>3. AttachDue(s)'
  BY DEF Before, Others, Excludes, Covered, In, At, Attaches, Stays, Becomes, Charges, AttachDue, BillDue, Fields, Open, Due, Transcribing, Clocks, Final
<1>4. Clocks(s)'
  BY DEF Before, Others, Excludes, Covered, In, At, Attaches, Stays, Becomes, Charges, Clocks, BillDue, Fields, Transcribing
<1>5. StopDue(s)'
  BY DEF Before, Others, Excludes, Covered, In, At, Attaches, Stays, Becomes, Charges, StopDue, Stopped, Fields, Clocks
<1>6. Open(s)' \/ Attaching(s)' \/ Stopped(s)'
  BY DEF Before, Others, Excludes, Covered, In, At, Attaches, Stays, Becomes, Charges, Open, Attaching, Stopped, StopDue, BillDue, BillHeld, AttachDue, Due, Transcribing, Fields, Clocks, OneSettlement, Settlers, Final, Outstanding
<1> QED
  BY <1>1, <1>2, <1>3, <1>4, <1>5, <1>6

(* s is given its meeting. *)
LEMMA GivesCovers ==
    ASSUME Followed \subseteq Harmless,
           NEW s \in Sessions, NEW p \in Procs, Before(p, s), Gives(p, s)
    PROVE  /\ BillHeld(s)' /\ BillDue(s)' /\ AttachDue(s)' /\ Clocks(s)' /\ StopDue(s)'
           /\ Open(s)' \/ Attaching(s)' \/ Stopped(s)'
<1>1. BillHeld(s)'
  BY DEF Before, Others, Excludes, Covered, In, At, Gives, Apart, BillHeld, Transcribing
<1>2. BillDue(s)'
  BY DEF Before, Others, Excludes, Covered, In, At, Gives, Apart, BillDue, BillHeld, Fields, Open, Due, Transcribing, Attaching, AttachDue, Stopped
<1>3. AttachDue(s)'
  <2>1. ASSUME NEW q \in Procs, In(q, "attach", s)' PROVE FALSE
    <3>1. q # p /\ In(q, "attach", s)
      BY <2>1 DEF Gives, Before, Others, In, At
    <3>2. {job[p].op, "attach"} \in Harmless
      BY <3>1 DEF Gives, Apart, In, At
    <3> QED
      BY <3>2, Table DEF Gives
  <2> QED
    BY <2>1 DEF AttachDue
<1>4. Clocks(s)'
  BY DEF Before, Others, Excludes, Covered, In, At, Gives, Apart, Clocks, BillDue, Fields, Transcribing
<1>5. StopDue(s)'
  BY DEF Before, Others, Excludes, Covered, In, At, Gives, Apart, StopDue, Stopped, Fields, Clocks
<1>6. Open(s)' \/ Attaching(s)' \/ Stopped(s)'
  BY DEF Before, Others, Excludes, Covered, In, At, Gives, Apart, Open, Attaching, Stopped, StopDue, BillDue, BillHeld, AttachDue, Due, Transcribing, Fields, Clocks, OneSettlement, Settlers, Final, Outstanding
<1> QED
  BY <1>1, <1>2, <1>3, <1>4, <1>5, <1>6

-----------------------------------------------------------------------------
(* Every action has one of the effects on every session that is followed.   *)

LEMMA JobIs ==
    ASSUME IInv, NEW p \in Procs, NEW j, now' = now, job' = [job EXCEPT ![p] = j]
    PROVE  Others(p) /\ job'[p] = j
BY DEF IInv, JobsOK, Others

LEMMA DoneEffect ==
    ASSUME IInv, NEW p \in Procs, now' = now, Done(p)
    PROVE  Others(p) /\ job'[p].s = 0
<1>1. Others(p) /\ job'[p] = Idle
  BY JobIs DEF Done
<1> QED
  BY <1>1 DEF Idle

LEMMA UnfollowEffect ==
    ASSUME IInv, NEW t, NEW b, hist' = Unfollow(t, b),
           NEW s \in Sessions, ~hist'[s].spoiled
    PROVE  hist'[s] = hist[s] /\ (s = t => ~b)
BY DEF IInv, HistOK, Unfollow, Spoiled, Fresh

LEMMA NoOverlap ==
    ASSUME NEW p, NEW op, NEW s, ~Overlap(p, op, s)
    PROVE  Apart(p, op, s)
BY DEF Overlap, Apart

(* A goroutine that goes on with job j at session j.s. *)
LEMMA HoldEffect ==
    ASSUME IInv, NEW p \in Procs, NEW j, now' = now, Hold(p, j),
           NEW s \in Sessions, ~hist'[s].spoiled
    PROVE  /\ Others(p) /\ job'[p] = j /\ hist'[s] = hist[s]
           /\ s = j.s => Apart(p, j.op, s)
<1>1. Others(p) /\ job'[p] = j
  BY JobIs DEF Hold
<1>2. hist'[s] = hist[s] /\ (s = j.s => ~Overlap(p, j.op, j.s))
  BY UnfollowEffect DEF Hold
<1> QED
  BY <1>1, <1>2, NoOverlap

(* A goroutine that ends up elsewhere. *)
LEMMA Elsewhere ==
    ASSUME NEW p, NEW s, Same(s), job'[p].s # s, cached' = s => cached = s,
           ~In(p, "stop", s), ~In(p, "attach", s)
    PROVE  Away(p, s) \/ Leaves(p, s)
BY DEF Away, Leaves

(* The actions that only look a session up. *)
LEMMA LookupEffect ==
    ASSUME IInv, NEW p \in Procs, NEW s \in Sessions, ~hist'[s].spoiled,
           \/ StartGet(p) \/ PauseGet(p) \/ ResumeGet(p) \/ StopCommand(p)
           \/ AttachCheck(p)
           \/ p = Monitor /\ (ForceStop \/ ForceGet \/ BillList)
    PROVE  Effect(p, s) /\ ~hist[s].spoiled
<1>1. now' = now /\ cached' = cached /\ sess' = sess
  BY DEF StartGet, PauseGet, ResumeGet, StopCommand, AttachCheck, ForceStop, ForceGet,
         BillList
<1>2. ~In(p, "stop", s) /\ ~In(p, "attach", s)
  <2>1. job[p] = Idle \/ At(p, "stop", "get")
    BY DEF StartGet, PauseGet, ResumeGet, StopCommand, AttachCheck, ForceStop, ForceGet,
           BillList
  <2>2. Idle.op = "idle"
    BY DEF Idle
  <2> QED
    BY <2>1, <2>2 DEF In, At
<1>3. s # 0
  BY DEF Sessions
<1>4. ASSUME NEW j, Hold(p, j), j.s = cached, j.at # "charge",
             cached = s /\ j.op = "bill" => Transcribing(s),
             cached = s /\ j.op = "resume" => sess[s].status = "paused"
      PROVE  Effect(p, s) /\ ~hist[s].spoiled
  <2>1. /\ Others(p) /\ job'[p] = j /\ hist'[s] = hist[s]
        /\ s = j.s => Apart(p, j.op, s)
    BY <1>1, <1>4, HoldEffect
  <2>2. Same(s) /\ ~hist[s].spoiled
    BY <1>1, <2>1 DEF Same
  <2>3. CASE s = cached
    BY <1>1, <1>2, <1>4, <2>1, <2>2, <2>3 DEF Takes, Effect
  <2>4. CASE s # cached
    BY <1>1, <1>2, <1>4, <2>1, <2>2, <2>4, Elsewhere DEF Effect
  <2> QED
    BY <2>2, <2>3, <2>4
<1>5. ASSUME NEW j, job' = [job EXCEPT ![p] = j], j.s = 0, hist' = hist
      PROVE  Effect(p, s) /\ ~hist[s].spoiled
  <2>1. Others(p) /\ job'[p] = j
    BY <1>1, <1>5, JobIs
  <2> QED
    BY <1>1, <1>2, <1>3, <1>5, <2>1, Elsewhere DEF Same, Effect
<1>6. CASE StartGet(p)
  <2>1. PICK keep :
          IF cached # 0
          THEN Hold(p, [Idle EXCEPT !.op = "start", !.at = "cleanup",
                                    !.s = cached, !.meeting = keep])
          ELSE /\ job' = [job EXCEPT ![p] = [Idle EXCEPT !.op = "start",
                                             !.at = "create", !.meeting = keep]]
               /\ UNCHANGED hist
    BY <1>6 DEF StartGet
  <2>2. CASE cached # 0
    <3>1. PICK j : j = [Idle EXCEPT !.op = "start", !.at = "cleanup",
                                    !.s = cached, !.meeting = keep]
      OBVIOUS
    <3>2. j.s = cached /\ j.at = "cleanup" /\ j.op = "start"
      BY <3>1 DEF Idle
    <3> QED
      BY <1>4, <2>1, <2>2, <3>1, <3>2
  <2>3. CASE cached = 0
    <3>1. PICK j : j = [Idle EXCEPT !.op = "start", !.at = "create", !.meeting = keep]
      OBVIOUS
    <3>2. j.s = 0
      BY <3>1 DEF Idle
    <3> QED
      BY <1>5, <2>1, <2>3, <3>1, <3>2
  <2> QED
    BY <2>2, <2>3
<1>7. CASE PauseGet(p)
  <2>1. PICK j : j = [Idle EXCEPT !.op = "pause", !.at = "apply", !.s = cached]
    OBVIOUS
  <2>2. j.s = cached /\ j.at = "apply" /\ j.op = "pause"
    BY <2>1 DEF Idle
  <2> QED
    BY <1>4, <1>7, <2>1, <2>2 DEF PauseGet
<1>8. CASE ResumeGet(p)
  <2>1. PICK j : j = [Idle EXCEPT !.op = "resume", !.at = "apply", !.s = cached]
    OBVIOUS
  <2>2. j.s = cached /\ j.at = "apply" /\ j.op = "resume"
    BY <2>1 DEF Idle
  <2> QED
    BY <1>4, <1>8, <2>1, <2>2 DEF ResumeGet
<1>9. CASE StopCommand(p)
  <2>1. PICK known, j :
          /\ j = [Idle EXCEPT !.op = "stop", !.at = "settle", !.s = cached,
                              !.calls = 1, !.meeting = known]
          /\ Hold(p, j)
    BY <1>9 DEF StopCommand
  <2>2. j.s = cached /\ j.at = "settle" /\ j.op = "stop"
    BY <2>1 DEF Idle
  <2> QED
    BY <1>4, <2>1, <2>2
<1>10. CASE AttachCheck(p)
  <2>0. PICK at \in {"set", "begin"} : at = IF Final(cached) <= 0 THEN "set" ELSE "begin"
    OBVIOUS
  <2>1. PICK j : /\ j = [Idle EXCEPT !.op = "attach", !.s = cached, !.at = at]
                 /\ Hold(p, j)
    BY <1>10, <2>0 DEF AttachCheck
  <2>2. j.s = cached /\ j.at = at /\ j.op = "attach"
    BY <2>1 DEF Idle
  <2> QED
    BY <1>4, <2>1, <2>2
<1>11. CASE p = Monitor /\ ForceStop
  <2>1. PICK n : job' = [job EXCEPT ![p] = Forced(n)]
    BY <1>11 DEF ForceStop
  <2>2. Forced(n).s = 0
    BY DEF Forced, Idle
  <2> QED
    BY <1>5, <1>11, <2>1, <2>2 DEF ForceStop
<1>12. CASE p = Monitor /\ ForceGet
  <2>1. CASE cached = 0
    <3>1. PICK j : j.s = 0 /\ job' = [job EXCEPT ![p] = j]
      <4>1. Idle.s = 0
        BY DEF Idle
      <4>2. \A n : [Idle EXCEPT !.op = "stop", !.at = "get", !.calls = n].s = 0
        BY DEF Idle
      <4> QED
        BY <1>12, <2>1, <4>1, <4>2 DEF ForceGet, NextCall
    <3> QED
      BY <1>5, <1>12, <2>1, <3>1 DEF ForceGet
  <2>2. CASE cached # 0
    <3>1. PICK known, j :
            /\ j = [job[p] EXCEPT !.at = "settle", !.s = cached, !.meeting = known]
            /\ Hold(p, j)
      <4>1. PICK known : known = (job[p].meeting \/ (job[p].calls = 2 /\ wsMeeting))
        OBVIOUS
      <4> QED
        BY <1>12, <2>2, <4>1 DEF ForceGet
    <3>2. job[p] \in JobType /\ job[p].op = "stop"
      BY <1>12 DEF ForceGet, At, IInv, JobsOK
    <3>3. j.s = cached /\ j.at = "settle" /\ j.op = "stop"
      BY <3>1, <3>2 DEF JobType
    <3> QED
      BY <1>4, <3>1, <3>3
  <2> QED
    BY <2>1, <2>2
<1>13. CASE p = Monitor /\ BillList
  <2>1. PICK j : j = [Idle EXCEPT !.op = "bill", !.at = "begin", !.s = cached]
    OBVIOUS
  <2>2. j.s = cached /\ j.at = "begin" /\ j.op = "bill"
    BY <2>1 DEF Idle
  <2> QED
    BY <1>4, <1>13, <2>1, <2>2 DEF BillList
<1> QED
  BY <1>6, <1>7, <1>8, <1>9, <1>10, <1>11, <1>12, <1>13

(* What the entries of a history become. *)
LEMMA ChargedFields ==
    ASSUME NEW h \in HistoryType, NEW n \in Nat
    PROVE  /\ Charged(h, n).used = h.used /\ Charged(h, n).billed = h.billed + n
           /\ Charged(h, n).short = h.short /\ Charged(h, n).settled = h.settled
           /\ Charged(h, n).spoiled = h.spoiled
BY DEF Charged, HistoryType

LEMMA CutFields ==
    ASSUME NEW h \in HistoryType, NEW b \in BOOLEAN
    PROVE  /\ Cut(h, b).used = h.used /\ Cut(h, b).billed = h.billed
           /\ Cut(h, b).settled = h.settled /\ Cut(h, b).spoiled = h.spoiled
           /\ Cut(h, b).short <=> h.short \/ b
<1>1. PICK c \in BOOLEAN : c = (h.short \/ b)
  OBVIOUS
<1>2. Cut(h, b) = [h EXCEPT !.short = c]
  BY <1>1 DEF Cut
<1>3. /\ Cut(h, b).used = h.used /\ Cut(h, b).billed = h.billed
      /\ Cut(h, b).settled = h.settled /\ Cut(h, b).spoiled = h.spoiled
      /\ Cut(h, b).short = c
  BY <1>2 DEF HistoryType
<1> QED
  BY <1>1, <1>3

(* A history that is written goes on from the old one. *)
LEMMA RecordedEffect ==
    ASSUME NEW h, NEW next, ~Recorded(h, next).spoiled
    PROVE  ~h.spoiled /\ Recorded(h, next) = next
BY DEF Recorded

(* A new session. *)
LEMMA CreateEffect ==
    ASSUME SInv, NEW p \in Procs, StartCreate(p), NEW s \in Sessions, s = made + 1
    PROVE  Others(p) /\ Creates(s) /\ hist'[s] = hist[s]
<1>1. /\ IInv /\ now' = now /\ hist' = hist /\ made' = s
      /\ sess \in [Sessions -> SessionType]
  BY DEF StartCreate, SInv, IInv, SessOK
<1>2. Others(p) /\ job'[p].s = 0 /\ s # 0
  BY <1>1, DoneEffect DEF StartCreate, Sessions
<1>3. s > made /\ \A q \in Procs : job'[q].s # s
  <2>1. made \in Nat /\ \A q \in Procs : job[q].s \in Nat /\ job[q].s <= made
    BY BillingAssumption DEF SInv, OnlyMade, IInv, JobsOK, JobType, Sessions
  <2> QED
    BY <1>2, <2>1 DEF Others
<1>4. Becomes(s, "transcribing", now, now, 0, 0)
  BY <1>1 DEF StartCreate, Becomes, Blank
<1> QED
  BY <1>1, <1>2, <1>3, <1>4 DEF Creates

(* StartTranscription, after it looked the session up. *)
LEMMA StartEffect ==
    ASSUME SInv, NEW p \in Procs, NEW s \in Sessions, ~hist'[s].spoiled,
           StartCleanup(p) \/ StartCreate(p) \/ StartRefused(p)
    PROVE  Effect(p, s) /\ ~hist[s].spoiled
<1>1. /\ IInv /\ now' = now /\ hist' = hist
      /\ job[p] \in JobType /\ job[p].op = "start"
      /\ sess \in [Sessions -> SessionType]
  BY DEF StartCleanup, StartCreate, StartRefused, At, SInv, IInv, JobsOK, SessOK
<1>2. ~In(p, "stop", s) /\ ~In(p, "attach", s)
  BY <1>1 DEF In, At
<1>3. s # 0
  BY DEF Sessions
<1>4. Others(p) /\ job'[p].s = 0
  <2>1. PICK j : job' = [job EXCEPT ![p] = j] /\ j.s = 0
    <3>1. CASE StartCleanup(p)
      <4>1. PICK j : j = [job[p] EXCEPT !.at = "create", !.s = 0]
        OBVIOUS
      <4>2. j.s = 0
        BY <1>1, <4>1 DEF JobType
      <4>3. job' = [job EXCEPT ![p] = j]
        BY <3>1, <4>1 DEF StartCleanup, SInv, IInv, JobsOK
      <4> QED
        BY <4>2, <4>3
    <3>2. CASE StartCreate(p) \/ StartRefused(p)
      <4>1. Idle.s = 0
        BY DEF Idle
      <4> QED
        BY <3>2, <4>1 DEF StartCreate, StartRefused, Done
    <3> QED
      BY <3>1, <3>2
  <2> QED
    BY <1>1, <2>1, JobIs
<1>5. CASE Same(s) /\ (cached' = s => cached = s)
  BY <1>1, <1>2, <1>3, <1>4, <1>5, Elsewhere DEF Effect
<1>6. CASE StartCleanup(p)
  <2>1. CASE s = job[p].s /\ CanSettle(s)
    <3>1. /\ sess'[s].status = "completed" /\ sess'[s].lastUpdate = now
          /\ sess'[s].lastBilling = sess[s].lastBilling
          /\ sess'[s].consumed = sess[s].consumed
          /\ sess'[s].persisted = sess[s].persisted
      BY <1>1, <1>6, <2>1 DEF StartCleanup, SessionType
    <3>2. cached' = 0
      BY <1>6, <2>1 DEF StartCleanup
    <3> QED
      BY <1>1, <1>3, <1>4, <2>1, <3>1, <3>2 DEF Cleans, Becomes, Effect
  <2>2. CASE ~(s = job[p].s /\ CanSettle(s))
    <3>1. Same(s) /\ (cached' = s => cached = s)
      BY <1>1, <1>3, <1>6, <2>2 DEF StartCleanup, Same
    <3> QED
      BY <1>5, <3>1
  <2> QED
    BY <2>1, <2>2
<1>7. CASE StartCreate(p)
  <2>1. made + 1 \in Sessions /\ cached' = made + 1
    BY <1>7, BillingAssumption DEF StartCreate, SInv, IInv, Sessions
  <2>2. CASE s = made + 1
    BY <1>7, <2>2, CreateEffect DEF Effect
  <2>3. CASE s # made + 1
    <3>1. Same(s) /\ (cached' = s => cached = s)
      BY <1>1, <1>7, <2>1, <2>3 DEF StartCreate, Same
    <3> QED
      BY <1>5, <3>1
  <2> QED
    BY <2>2, <2>3
<1>8. CASE StartRefused(p)
  BY <1>1, <1>5, <1>8 DEF StartRefused, Same
<1> QED
  BY <1>6, <1>7, <1>8

(* PauseTranscription and ResumeTranscription. *)
LEMMA PauseEffect ==
    ASSUME SInv, NEW p \in Procs, NEW s \in Sessions, ~hist'[s].spoiled,
           PauseApply(p) \/ ResumeApply(p) \/ PutBack(p)
    PROVE  Effect(p, s) /\ ~hist[s].spoiled
<1>1. /\ IInv /\ now' = now
      /\ job[p] \in JobType /\ job[p].op \in {"pause", "resume"}
      /\ sess \in [Sessions -> SessionType] /\ hist \in [Sessions -> HistoryType]
  BY DEF PauseApply, ResumeApply, PutBack, At, SInv, IInv, JobsOK, SessOK, HistOK
<1>2. ~In(p, "stop", s) /\ ~In(p, "attach", s)
  BY <1>1 DEF In, At
<1>3. CASE PutBack(p)
  <2>1. Others(p) /\ job'[p].s = 0 /\ s # 0
    BY <1>1, <1>3, DoneEffect DEF PutBack, Sessions
  <2>2. Same(s) /\ ~hist[s].spoiled /\ cached' = job[p].s
    BY <1>3 DEF PutBack, Same
  <2>3. CASE job[p].s = s
    BY <1>1, <1>2, <2>1, <2>2, <2>3 DEF Leaves, Effect
  <2>4. CASE job[p].s # s
    BY <1>1, <1>2, <2>1, <2>2, <2>4, Elsewhere DEF Effect
  <2> QED
    BY <2>3, <2>4
<1>4. CASE PauseApply(p) \/ ResumeApply(p)
  <2>1. PICK j : /\ j = [job[p] EXCEPT !.at = "set"]
                 /\ job' = [job EXCEPT ![p] = j]
    BY <1>1, <1>4 DEF PauseApply, ResumeApply, IInv, JobsOK
  <2>2. /\ Others(p) /\ job'[p].s = job[p].s /\ job'[p].op = job[p].op
        /\ job'[p].at = "set" /\ cached' = cached
    <3>1. Others(p) /\ job'[p] = j
      BY <1>1, <2>1, JobIs
    <3>2. j.s = job[p].s /\ j.op = job[p].op /\ j.at = "set"
      BY <1>1, <2>1 DEF JobType
    <3>3. cached' = cached
      BY <1>4 DEF PauseApply, ResumeApply
    <3> QED
      BY <3>1, <3>2, <3>3
  <2>3. CASE job[p].s # s
    <3>1. sess'[s] = sess[s] /\ hist'[s] = hist[s]
      <4>1. CASE PauseApply(p)
        BY <1>1, <2>3, <4>1 DEF PauseApply
      <4>2. CASE ResumeApply(p)
        BY <1>1, <2>3, <4>2 DEF ResumeApply
      <4> QED
        BY <1>4, <4>1, <4>2
    <3> QED
      BY <1>2, <2>2, <2>3, <3>1, Elsewhere DEF Same, Effect
  <2>4. CASE job[p].s = s /\ PauseApply(p)
    <3>1. /\ Becomes(s, "paused", sess[s].lastBilling, now, sess[s].consumed,
                    sess[s].persisted)
          /\ sess'[s].meeting = sess[s].meeting
      BY <1>1, <2>4 DEF PauseApply, Becomes, SessionType
    <3>2. ~hist[s].spoiled /\ hist'[s] = Cut(hist[s], TRUE)
      BY <1>1, <2>4, RecordedEffect DEF PauseApply
    <3>3. Charges(s, 0) /\ hist'[s].short
      <4>1. hist[s] \in HistoryType
        BY <1>1
      <4>2. PICK b \in BOOLEAN : b = TRUE
        OBVIOUS
      <4>3. PICK h : h = Cut(hist[s], b)
        OBVIOUS
      <4>4. h = hist'[s] /\ b
        BY <3>2, <4>2, <4>3, Zenon
      <4>5. h.used = hist[s].used /\ h.billed = hist[s].billed /\ (h.short <=> hist[s].short \/ b)
        BY <4>1, <4>3, CutFields
      <4> QED
        BY <4>1, <4>4, <4>5 DEF Charges, HistoryType
    <3>4. job[p].op = "pause"
      BY <2>4 DEF PauseApply, At
    <3> QED
      BY <2>2, <2>4, <3>1, <3>2, <3>3, <3>4 DEF Stays, Pauses, Effect
  <2>5. CASE job[p].s = s /\ ResumeApply(p)
    <3>1. PICK b : sess' = [sess EXCEPT
                     ![s].status = "transcribing", ![s].billing = b,
                     ![s].lastUpdate = now, ![s].lastBilling = now]
      BY <1>1, <2>5 DEF ResumeApply
    <3>2. /\ Becomes(s, "transcribing", now, now, sess[s].consumed, sess[s].persisted)
          /\ sess'[s].meeting = sess[s].meeting
      BY <1>1, <3>1 DEF Becomes, SessionType
    <3>3. hist' = hist /\ job[p].op = "resume"
      BY <2>5 DEF ResumeApply, At
    <3> QED
      BY <2>2, <2>5, <3>2, <3>3 DEF Stays, Resumes, Effect
  <2> QED
    BY <1>4, <2>3, <2>4, <2>5
<1> QED
  BY <1>3, <1>4

(* StopTranscription: the settlement begins. *)
LEMMA SettleEffect ==
    ASSUME SInv, NEW p \in Procs, NEW s \in Sessions, ~hist'[s].spoiled,
           StopSettle(p)
    PROVE  Effect(p, s) /\ ~hist[s].spoiled
<1>1. /\ IInv /\ now' = now /\ cached' = cached
      /\ job[p] \in JobType /\ job[p].op = "stop" /\ job[p].at = "settle"
      /\ sess \in [Sessions -> SessionType] /\ hist \in [Sessions -> HistoryType]
  BY DEF StopSettle, At, SInv, IInv, JobsOK, SessOK, HistOK
<1>2. PICK r : r = job[p].s
  OBVIOUS
<1>3. PICK hasMeeting \in BOOLEAN : hasMeeting = (sess[r].meeting \/ job[p].meeting)
  OBVIOUS
<1>4. PICK handed \in BOOLEAN : handed = (hasMeeting /\ ~sess[r].meeting)
  OBVIOUS
<1>5. PICK closed :
        closed = [sess[r] EXCEPT !.settling = TRUE, !.billing = FALSE,
                                 !.consumed = Final(r), !.status = "completed",
                                 !.lastUpdate = now]
  OBVIOUS
<1>6. PICK told : told = Recorded(hist[r],
             [Cut(hist[r], Outstanding(r) > 0 /\ ~hasMeeting) EXCEPT
                !.clear = (Outstanding(r) = 0)])
  OBVIOUS
<1>7. /\ CanSettle(r)
      /\ job' = [job EXCEPT ![p].at = "charge",
                            ![p].base = IF hasMeeting THEN Outstanding(r) ELSE 0]
  BY <1>2, <1>3, Zenon DEF StopSettle
<1>8. sess'[s] = LET here == IF s = r THEN closed ELSE sess[s]
                 IN  IF s = cached /\ handed THEN [here EXCEPT !.meeting = TRUE] ELSE here
  BY <1>2, <1>3, <1>4, <1>5, Zenon DEF StopSettle
<1>9. hist'[s] = IF s = r THEN told
                 ELSE IF s = cached /\ handed /\ Overlap(p, "stop", s)
                 THEN Spoiled ELSE hist[s]
  BY <1>2, <1>3, <1>4, <1>6, Zenon DEF StopSettle
<1>10. Others(p) /\ job'[p].s = r /\ job'[p].op = "stop" /\ job'[p].at = "charge"
       /\ job'[p].base = IF hasMeeting THEN Outstanding(r) ELSE 0
  <2>1. PICK j : j = [job[p] EXCEPT !.at = "charge",
                                    !.base = IF hasMeeting THEN Outstanding(r) ELSE 0]
    OBVIOUS
  <2>2. job' = [job EXCEPT ![p] = j]
    BY <1>1, <1>7, <2>1 DEF IInv, JobsOK
  <2>3. Others(p) /\ job'[p] = j
    BY <1>1, <2>2, JobIs
  <2> QED
    BY <1>1, <1>2, <2>1, <2>3 DEF JobType
<1>11. CASE s = r
  <2>1. ~hist[s].spoiled
        /\ hist'[s] = [Cut(hist[s], Outstanding(s) > 0 /\ ~hasMeeting) EXCEPT
                        !.clear = (Outstanding(s) = 0)]
    BY <1>6, <1>9, <1>11, RecordedEffect
  <2>2. /\ Charges(s, 0) /\ hist'[s].settled = hist[s].settled
        /\ hist'[s].short <=> hist[s].short \/ (Outstanding(s) > 0 /\ ~hasMeeting)
    <3>1. PICK b \in BOOLEAN : b = (Outstanding(s) > 0 /\ ~hasMeeting)
      OBVIOUS
    <3>2. PICK c : c = (Outstanding(s) = 0)
      OBVIOUS
    <3>3. PICK h : h = Cut(hist[s], b)
      OBVIOUS
    <3>4. hist'[s] = [h EXCEPT !.clear = c]
      BY <2>1, <3>1, <3>2, <3>3, Zenon
    <3>5. h \in HistoryType
      BY <1>1, <3>3, HistoryUpdates
    <3>6. /\ hist'[s].used = h.used /\ hist'[s].billed = h.billed
          /\ hist'[s].settled = h.settled /\ hist'[s].short = h.short
      BY <3>4, <3>5 DEF HistoryType
    <3>7. /\ h.used = hist[s].used /\ h.billed = hist[s].billed
          /\ h.settled = hist[s].settled /\ (h.short <=> hist[s].short \/ b)
      BY <1>1, <3>3, CutFields
    <3>8. Charges(s, 0)
      BY <1>1, <3>6, <3>7 DEF Charges, HistoryType
    <3> QED
      BY <3>1, <3>6, <3>7, <3>8
  <2>3. /\ Becomes(s, "completed", sess[s].lastBilling, now, Final(s), sess[s].persisted)
        /\ sess'[s].settling
    <3>1. \/ sess'[s] = closed \/ sess'[s] = [closed EXCEPT !.meeting = TRUE]
      BY <1>8, <1>11
    <3> QED
      BY <1>1, <1>5, <1>11, <3>1 DEF Becomes, SessionType
  <2>4. ~sess[s].settling
    BY <1>7, <1>11 DEF CanSettle
  <2>5. \/ job'[p].base = Outstanding(s)
        \/ job'[p].base = 0 /\ (Outstanding(s) > 0 => hist'[s].short)
    BY <1>10, <1>11, <2>2
  <2>6. Stays(p, s)
    BY <1>1, <1>2, <1>10, <1>11 DEF Stays
  <2>7. Settles(p, s)
    BY <1>1, <1>10, <2>2, <2>3, <2>4, <2>5, <2>6 DEF Settles
  <2> QED
    BY <1>10, <2>1, <2>7 DEF Effect
<1>12. CASE s # r
  <2>1. /\ ~In(p, "stop", s) /\ ~In(p, "attach", s)
        /\ job[p].s # s /\ job'[p].s # s
    BY <1>1, <1>2, <1>10, <1>12 DEF In, At
  <2>2. hist'[s] = hist[s] /\ (s = cached /\ handed => ~Overlap(p, "stop", s))
    BY <1>9, <1>12 DEF Spoiled, Fresh
  <2>3. CASE s = cached /\ handed
    <3>1. sess'[s] = [sess[s] EXCEPT !.meeting = TRUE]
      BY <1>8, <1>12, <2>3
    <3>2. Apart(p, "stop", s)
      BY <2>2, <2>3, NoOverlap
    <3>3. Gives(p, s)
      BY <1>1, <2>1, <2>2, <2>3, <3>1, <3>2 DEF Gives
    <3> QED
      BY <1>10, <2>2, <3>3 DEF Effect
  <2>4. CASE ~(s = cached /\ handed)
    <3>1. sess'[s] = sess[s]
      BY <1>8, <1>12, <2>4
    <3> QED
      BY <1>1, <1>10, <2>1, <2>2, <3>1, Elsewhere DEF Same, Effect
  <2> QED
    BY <2>3, <2>4
<1> QED
  BY <1>11, <1>12

(* And ends, or is refused. *)
LEMMA FinishEffect ==
    ASSUME SInv, NEW p \in Procs, NEW s \in Sessions, ~hist'[s].spoiled,
           StopRefused(p) \/ StopFinish(p)
    PROVE  Effect(p, s) /\ ~hist[s].spoiled
<1>1. /\ IInv /\ now' = now /\ job[p] \in JobType /\ s # 0
      /\ sess \in [Sessions -> SessionType] /\ hist \in [Sessions -> HistoryType]
  BY DEF StopRefused, StopFinish, SInv, IInv, JobsOK, SessOK, HistOK, Sessions
<1>2. Others(p) /\ job'[p].s = 0
  <2>1. PICK j : j.s = 0 /\ job' = [job EXCEPT ![p] = j]
    <3>1. Idle.s = 0
      BY DEF Idle
    <3>2. \A n : [Idle EXCEPT !.op = "stop", !.at = "get", !.calls = n].s = 0
      BY DEF Idle
    <3> QED
      BY <3>1, <3>2 DEF StopRefused, StopFinish, NextCall
  <2> QED
    BY <1>1, <2>1, JobIs
<1>3. CASE StopRefused(p)
  <2>1. ~In(p, "stop", s) /\ ~In(p, "attach", s)
    BY <1>3 DEF StopRefused, In, At
  <2> QED
    BY <1>1, <1>2, <1>3, <2>1, Elsewhere DEF StopRefused, Same, Effect
<1>4. CASE StopFinish(p) /\ job[p].s # s
  <2>1. sess'[s] = sess[s] /\ hist'[s] = hist[s] /\ cached' = 0
    BY <1>1, <1>4 DEF StopFinish
  <2>2. ~In(p, "stop", s) /\ ~In(p, "attach", s)
    BY <1>4 DEF In
  <2> QED
    BY <1>1, <1>2, <2>1, <2>2, Elsewhere DEF Same, Effect
<1>5. CASE StopFinish(p) /\ job[p].s = s
  <2>1. PICK paid \in 0..job[p].base, uncounted \in BOOLEAN :
          /\ sess' = [sess EXCEPT ![s].settling = FALSE, ![s].persisted = @ + paid]
          /\ hist' = [hist EXCEPT ![s] =
                        IF uncounted THEN Spoiled
                        ELSE Recorded(@, [Charged(Cut(@, paid < job[p].base), paid)
                                            EXCEPT !.settled = TRUE])]
    BY <1>5 DEF StopFinish
  <2>2. paid \in Nat /\ job[p].base \in Nat
    BY <1>1 DEF JobType
  <2>3. PICK b \in BOOLEAN : b = (hist[s].short \/ paid < job[p].base)
    OBVIOUS
  <2>4. PICK c, h : c = [hist[s] EXCEPT !.short = b] /\ h = Charged(c, paid)
    OBVIOUS
  <2>5. hist'[s] = IF uncounted THEN Spoiled
                   ELSE Recorded(hist[s], [h EXCEPT !.settled = TRUE])
    <3>1. Cut(hist[s], paid < job[p].base) = c
      BY <2>3, <2>4, Zenon DEF Cut
    <3> QED
      BY <1>1, <2>1, <2>4, <3>1, Zenon
  <2>6. ~uncounted
    BY <2>5 DEF Spoiled, Fresh
  <2>7. ~hist[s].spoiled /\ hist'[s] = [h EXCEPT !.settled = TRUE]
    BY <2>5, <2>6, RecordedEffect
  <2>8. /\ c \in HistoryType /\ c.used = hist[s].used /\ c.billed = hist[s].billed
        /\ c.short = b
    BY <1>1, <2>4 DEF HistoryType
  <2>9. /\ h \in HistoryType /\ h.used = hist[s].used
        /\ h.billed = hist[s].billed + paid /\ h.short = b
    <3>1. h \in HistoryType
      BY <2>2, <2>4, <2>8, HistoryUpdates
    <3>2. h.used = c.used /\ h.billed = c.billed + paid /\ h.short = c.short
      BY <2>2, <2>4, <2>8, ChargedFields
    <3> QED
      BY <2>8, <3>1, <3>2
  <2>10. hist'[s].used = h.used /\ hist'[s].billed = h.billed /\ hist'[s].short = h.short
    BY <2>7, <2>9 DEF HistoryType
  <2>11. ~hist'[s].short => ~hist[s].short /\ paid = job[p].base
    <3>1. ~hist'[s].short => ~hist[s].short /\ ~(paid < job[p].base)
      BY <2>3, <2>9, <2>10, Zenon
    <3>2. ~(paid < job[p].base) => paid = job[p].base
      BY <2>1, <2>2
    <3> QED
      BY <3>1, <3>2
  <2>12. Becomes(s, sess[s].status, sess[s].lastBilling, sess[s].lastUpdate,
                 sess[s].consumed, sess[s].persisted + paid)
    BY <1>1, <2>1 DEF Becomes, SessionType
  <2>13. In(p, "stop", s) /\ cached' # s
    BY <1>1, <1>5 DEF StopFinish, In
  <2>14. Finishes(p, s)
    BY <1>1, <1>2, <2>9, <2>10, <2>11, <2>12, <2>13 DEF Finishes, Charges
  <2> QED
    BY <1>2, <2>7, <2>14 DEF Effect
<1> QED
  BY <1>3, <1>4, <1>5

(* Realtime billing. *)
LEMMA BillEffect ==
    ASSUME SInv, NEW p \in Procs, NEW s \in Sessions, ~hist'[s].spoiled,
           p = Monitor, BillBegin \/ BillCharged \/ BillFailed
    PROVE  Effect(p, s) /\ ~hist[s].spoiled
<1>1. /\ IInv /\ now' = now /\ cached' = cached /\ s # 0
      /\ job[p] \in JobType /\ job[p].op = "bill"
      /\ sess \in [Sessions -> SessionType] /\ hist \in [Sessions -> HistoryType]
  BY SMTT(30) DEF BillBegin, BillCharged, BillFailed, At, SInv, IInv, JobsOK, SessOK, HistOK, Sessions
<1>2. ~In(p, "stop", s) /\ ~In(p, "attach", s)
  BY <1>1 DEF In, At
<1>3. ASSUME Same(s), Others(p), job'[p].s = 0
      PROVE  Effect(p, s)
  BY <1>1, <1>2, <1>3, Elsewhere DEF Effect
<1>4. CASE BillBegin /\ Done(p)
  <2>1. Others(p) /\ job'[p].s = 0
    BY <1>1, <1>4, DoneEffect
  <2>2. hist'[s] = hist[s]
    BY <1>4 DEF BillBegin
  <2>3. CASE sess' = sess
    BY <1>3, <2>1, <2>2, <2>3 DEF Same
  <2>4. CASE job[p].s # s
    <3>1. sess'[s] = sess[s]
      BY <1>1, <1>4, <2>4 DEF BillBegin
    <3> QED
      BY <1>3, <2>1, <2>2, <3>1 DEF Same
  <2>5. CASE sess' # sess /\ job[p].s = s
    <3>1. ~sess[s].meeting /\ job[p].at = "begin"
      BY <1>1, <1>4, <2>5 DEF BillBegin, At
    <3>2. sess' = [sess EXCEPT ![s].consumed = @ + (now - sess[s].lastBilling),
                               ![s].lastBilling = now, ![s].lastUpdate = now]
      BY <1>1, <1>4, <2>5 DEF BillBegin
    <3>3. Becomes(s, sess[s].status, now, now,
                  sess[s].consumed + (now - sess[s].lastBilling), sess[s].persisted)
          /\ sess'[s].meeting = sess[s].meeting
      BY <1>1, <3>2 DEF Becomes, SessionType
    <3>4. Counts(p, s)
      BY <1>1, <2>1, <2>2, <2>5, <3>1, <3>3 DEF Counts
    <3> QED
      BY <2>1, <2>2, <3>4 DEF Effect
  <2> QED
    BY <2>3, <2>4, <2>5
<1>5. CASE BillBegin /\ ~Done(p)
  <2>1. PICK r : r = job[p].s
    OBVIOUS
  <2>2. /\ job' = [job EXCEPT ![p].at = "charge",
                              ![p].base = now - sess[r].lastBilling,
                              ![p].total = (now - sess[r].lastBilling) + sess[r].consumed,
                              ![p].time = now]
        /\ sess[r].meeting /\ job[p].at = "begin" /\ sess' = sess /\ hist' = hist
    BY <1>1, <1>5, <2>1 DEF BillBegin, At
  <2>3. PICK j : j = [job[p] EXCEPT !.at = "charge",
                        !.base = now - sess[r].lastBilling,
                        !.total = (now - sess[r].lastBilling) + sess[r].consumed,
                        !.time = now]
    OBVIOUS
  <2>4. job' = [job EXCEPT ![p] = j]
    BY <1>1, <2>2, <2>3 DEF IInv, JobsOK
  <2>5. Others(p) /\ job'[p] = j
    BY <1>1, <2>4, JobIs
  <2>6. /\ j.op = "bill" /\ j.s = r /\ j.at = "charge"
        /\ j.base = now - sess[r].lastBilling
        /\ j.total = (now - sess[r].lastBilling) + sess[r].consumed
        /\ j.time = now
    BY <1>1, <2>1, <2>3 DEF JobType
  <2>7. CASE r = s
    <3>1. BeginsBill(p, s)
      BY <1>1, <2>1, <2>2, <2>5, <2>6, <2>7 DEF BeginsBill, Stays, Same
    <3> QED
      BY <2>2, <2>5, <3>1 DEF Effect
  <2>8. CASE r # s
    BY <1>1, <1>2, <2>1, <2>2, <2>5, <2>6, <2>8, Elsewhere DEF Same, Effect
  <2> QED
    BY <2>7, <2>8
<1>6. CASE BillCharged
  <2>1. Others(p) /\ job'[p].s = 0
    BY <1>1, <1>6, DoneEffect DEF BillCharged
  <2>2. PICK r, base, total, time :
          /\ r = job[p].s /\ base = job[p].base /\ total = job[p].total
          /\ time = job[p].time
    OBVIOUS
  <2>3. /\ sess' = [sess EXCEPT ![r].persisted = @ + base, ![r].consumed = 0,
                                ![r].lastBilling = time]
        /\ hist' = [hist EXCEPT ![r] = Recorded(@, Charged(@, total))]
        /\ At(p, "bill", "charge")
    BY <1>1, <1>6, <2>2 DEF BillCharged
  <2>4. CASE r # s
    <3>1. sess'[s] = sess[s] /\ hist'[s] = hist[s]
      BY <1>1, <2>3, <2>4
    <3> QED
      BY <1>3, <2>1, <3>1 DEF Same
  <2>5. CASE r = s
    <3>1. Becomes(s, sess[s].status, time, sess[s].lastUpdate, 0, sess[s].persisted + base)
          /\ sess'[s].meeting = sess[s].meeting
      BY <1>1, <2>3, <2>5 DEF Becomes, SessionType
    <3>2. ~hist[s].spoiled /\ hist'[s] = Charged(hist[s], total)
      BY <1>1, <2>3, <2>5, RecordedEffect
    <3>3. total \in Nat /\ hist[s] \in HistoryType
      BY <1>1, <2>2 DEF JobType
    <3>4. /\ Charges(s, total) /\ hist'[s].short = hist[s].short
          /\ hist'[s].settled = hist[s].settled
      BY <3>2, <3>3, ChargedFields DEF Charges
    <3>5. Bills(p, s)
      BY <1>1, <2>1, <2>2, <2>3, <2>5, <3>1, <3>4 DEF Bills, In
    <3> QED
      BY <2>1, <3>2, <3>5 DEF Effect
  <2> QED
    BY <2>4, <2>5
<1>7. CASE BillFailed
  <2>1. hist'[s] = hist[s] /\ sess' = sess
    BY <1>1, <1>7 DEF BillFailed, Spoiled, Fresh
  <2>2. Others(p) /\ job'[p].s = 0
    <3>1. CASE Done(p)
      BY <1>1, <3>1, DoneEffect
    <3>2. ASSUME NEW n, job' = [job EXCEPT ![p] = Forced(n)]
          PROVE  Others(p) /\ job'[p].s = 0
      <4>1. Others(p) /\ job'[p] = Forced(n)
        BY <1>1, <3>2, JobIs
      <4> QED
        BY <4>1 DEF Forced, Idle
    <3> QED
      BY <1>1, <1>7, <3>1, <3>2 DEF BillFailed
  <2> QED
    BY <1>3, <2>1, <2>2 DEF Same
<1> QED
  BY <1>4, <1>5, <1>6, <1>7

(* An attach. *)
LEMMA AttachEffect ==
    ASSUME Followed \subseteq Harmless,
           SInv, NEW p \in Procs, NEW s \in Sessions, ~hist'[s].spoiled,
           AttachBegin(p) \/ AttachCharged(p) \/ AttachFailed(p) \/ AttachSet(p)
    PROVE  Effect(p, s) /\ ~hist[s].spoiled
<1>1. /\ IInv /\ now' = now /\ cached' = cached /\ s # 0
      /\ job[p] \in JobType /\ job[p].op = "attach"
      /\ sess \in [Sessions -> SessionType] /\ hist \in [Sessions -> HistoryType]
  <2>1. now' = now /\ cached' = cached /\ job[p].op = "attach"
    BY DEF AttachBegin, AttachCharged, AttachFailed, AttachSet, At
  <2> QED
    BY <2>1 DEF SInv, IInv, JobsOK, SessOK, HistOK, Sessions
<1>2. CASE AttachBegin(p)
  <2>1. At(p, "attach", "begin") /\ ~In(p, "stop", s) /\ ~In(p, "attach", s)
    BY <1>2 DEF AttachBegin, In, At
  <2>2. cached # 0 => Final(cached) \in Nat
    BY <1>1, SecondsType DEF IInv
  <2>3. CASE cached = 0
    <3>1. Others(p) /\ job'[p].s = 0
      BY <1>1, <1>2, <2>3, DoneEffect DEF AttachBegin
    <3>2. Same(s) /\ ~hist[s].spoiled
      BY <1>2, <2>3 DEF AttachBegin, Same
    <3> QED
      BY <1>1, <2>1, <3>1, <3>2, Elsewhere DEF Effect
  <2>4. CASE cached # 0 /\ Final(cached) <= 0
    <3>1. PICK j : /\ j = [job[p] EXCEPT !.at = "set", !.s = cached]
                   /\ Hold(p, j)
      <4>1. Hold(p, [job[p] EXCEPT !.at = "set", !.s = cached])
        BY <1>2, <2>4, <2>2 DEF AttachBegin
      <4> QED
        BY <4>1, Zenon
    <3>2. j.at = "set" /\ j.s = cached /\ j.op = "attach"
      BY <1>1, <3>1 DEF JobType
    <3>3. /\ Others(p) /\ job'[p] = j /\ hist'[s] = hist[s]
          /\ s = j.s => Apart(p, j.op, s)
      BY <1>1, <3>1, HoldEffect
    <3>4. CASE s = cached
      <4>1. Final(s) = 0
        BY <1>1, <2>4, <3>4, SecondsType
      <4>2. sess' = [sess EXCEPT ![s].lastBilling = now, ![s].lastUpdate = now]
        BY <1>2, <2>4, <2>2, <3>4 DEF AttachBegin
      <4>3. /\ Becomes(s, sess[s].status, now, now, sess[s].consumed, sess[s].persisted)
            /\ sess'[s].meeting = sess[s].meeting
        BY <1>1, <4>2 DEF Becomes, SessionType
      <4>4. Skips(p, s)
        BY <1>1, <2>1, <3>2, <3>3, <3>4, <4>1, <4>3 DEF Skips
      <4> QED
        BY <3>3, <4>4 DEF Effect
    <3>5. CASE s # cached
      <4>1. sess'[s] = sess[s]
        BY <1>1, <1>2, <2>4, <3>5 DEF AttachBegin
      <4> QED
        BY <1>1, <2>1, <3>2, <3>3, <3>5, <4>1, Elsewhere DEF Same, Effect
    <3> QED
      BY <3>4, <3>5
  <2>5. CASE cached # 0 /\ Final(cached) > 0
    <3>1. PICK j : /\ j = [job[p] EXCEPT !.at = "charge", !.s = cached,
                                         !.total = Final(cached)]
                   /\ job' = [job EXCEPT ![p] = j]
      <4>1. job' = [job EXCEPT ![p].at = "charge", ![p].s = cached,
                               ![p].total = Final(cached)]
        BY <1>2, <2>5, <2>2 DEF AttachBegin
      <4>2. job \in [Procs -> JobType]
        BY <1>1 DEF IInv, JobsOK
      <4>3. PICK j : j = [job[p] EXCEPT !.at = "charge", !.s = cached,
                                       !.total = Final(cached)]
        OBVIOUS
      <4>4. job' = [job EXCEPT ![p] = j]
        BY <4>1, <4>2, <4>3
      <4> QED
        BY <4>3, <4>4, Zenon
    <3>2. /\ j.at = "charge" /\ j.s = cached /\ j.op = "attach"
          /\ j.total = Final(cached)
      BY <1>1, <3>1 DEF JobType
    <3>3. Others(p) /\ job'[p] = j
      BY <1>1, <3>1, JobIs
    <3>4. PICK b : b = (Late(cached) \/ Overlap(p, "attach", cached))
      OBVIOUS
    <3>5. hist' = Unfollow(cached, b)
      <4>1. hist' = Unfollow(cached, Late(cached) \/ Overlap(p, "attach", cached))
        BY <1>2, <2>5, <2>2 DEF AttachBegin
      <4> QED
        BY <3>4, <4>1, Zenon
    <3>6. hist'[s] = hist[s] /\ (s = cached => ~b)
      BY <1>1, <3>5, UnfollowEffect
    <3>7. sess' = [sess EXCEPT ![cached].consumed = Final(cached)]
      BY <1>2, <2>5, <2>2 DEF AttachBegin
    <3>8. CASE s = cached
      <4>1. ~Late(s) /\ ~Overlap(p, "attach", s)
        BY <3>4, <3>6, <3>8, Zenon
      <4>2. ~sess[s].meeting
        <5>1. {"late"} \notin Harmless
          BY DEF Harmless
        <5> QED
          BY <4>1, <5>1 DEF Late
      <4>3. Apart(p, "attach", s)
        BY <4>1, NoOverlap
      <4>4. /\ Becomes(s, sess[s].status, sess[s].lastBilling, sess[s].lastUpdate,
                      Final(s), sess[s].persisted)
            /\ sess'[s].meeting = sess[s].meeting
        BY <1>1, <3>7, <3>8 DEF Becomes, SessionType
      <4>5. Begins(p, s)
        BY <1>1, <2>1, <3>2, <3>3, <3>6, <3>8, <4>2, <4>3, <4>4 DEF Begins
      <4> QED
        BY <3>3, <3>6, <4>5 DEF Effect
    <3>9. CASE s # cached
      <4>1. sess'[s] = sess[s]
        BY <1>1, <3>7, <3>9
      <4> QED
        BY <1>1, <2>1, <3>2, <3>3, <3>6, <3>9, <4>1, Elsewhere DEF Same, Effect
    <3> QED
      BY <3>8, <3>9
  <2> QED
    BY <2>3, <2>4, <2>5, <2>2
<1>3. CASE AttachCharged(p)
  <2>1. PICK r, total : r = job[p].s /\ total = job[p].total
    OBVIOUS
  <2>2. /\ sess' = [sess EXCEPT ![r].persisted = @ + total, ![r].consumed = 0,
                                ![r].lastBilling = now, ![r].lastUpdate = now]
        /\ hist' = [hist EXCEPT ![r] = Recorded(@, Charged(Cut(@, TRUE), total))]
        /\ job[p].at = "charge"
    BY <1>3, <2>1 DEF AttachCharged, At
  <2>3. PICK j : /\ j = [job[p] EXCEPT !.at = "set", !.total = 0]
                 /\ job' = [job EXCEPT ![p] = j]
    BY <1>1, <1>3 DEF AttachCharged, IInv, JobsOK
  <2>4. j.at = "set" /\ j.s = r /\ j.op = "attach"
    BY <1>1, <2>1, <2>3 DEF JobType
  <2>5. Others(p) /\ job'[p] = j
    BY <1>1, <2>3, JobIs
  <2>6. CASE r # s
    <3>1. sess'[s] = sess[s] /\ hist'[s] = hist[s]
      BY <1>1, <2>2, <2>6
    <3>2. ~In(p, "stop", s) /\ ~In(p, "attach", s)
      BY <2>1, <2>6 DEF In
    <3> QED
      BY <1>1, <2>4, <2>5, <2>6, <3>1, <3>2, Elsewhere DEF Same, Effect
  <2>7. CASE r = s
    <3>1. /\ Becomes(s, sess[s].status, now, now, 0, sess[s].persisted + total)
          /\ sess'[s].meeting = sess[s].meeting
      BY <1>1, <2>2, <2>7 DEF Becomes, SessionType
    <3>2. PICK b \in BOOLEAN : b = TRUE
      OBVIOUS
    <3>3. PICK h : h = Cut(hist[s], b)
      OBVIOUS
    <3>4. hist'[s] = Recorded(hist[s], Charged(h, total)) /\ b
      BY <1>1, <2>2, <2>7, <3>2, <3>3, Zenon
    <3>5. ~hist[s].spoiled /\ hist'[s] = Charged(h, total)
      BY <3>4, RecordedEffect
    <3>6. h \in HistoryType
      BY <1>1, <3>3, HistoryUpdates
    <3>7. h.used = hist[s].used /\ h.billed = hist[s].billed /\ (h.short <=> hist[s].short \/ b)
      BY <1>1, <3>3, CutFields
    <3>8. total \in Nat
      BY <1>1, <2>1 DEF JobType
    <3>9. Charges(s, total) /\ hist'[s].short
      <4>1. hist'[s].used = h.used /\ hist'[s].billed = h.billed + total /\ hist'[s].short = h.short
        BY <3>5, <3>6, <3>8, ChargedFields
      <4> QED
        BY <3>4, <3>7, <4>1 DEF Charges
    <3>10. Attaches(p, s)
      BY <1>1, <2>1, <2>2, <2>4, <2>5, <2>7, <3>1, <3>9 DEF Attaches, Stays, In, At
    <3> QED
      BY <2>5, <3>5, <3>10 DEF Effect
  <2> QED
    BY <2>6, <2>7
<1>4. CASE AttachFailed(p)
  <2>1. Others(p) /\ job'[p].s = 0
    BY <1>1, <1>4, DoneEffect DEF AttachFailed
  <2>2. job[p].s # s /\ hist'[s] = hist[s]
    BY <1>1, <1>4 DEF AttachFailed, Spoiled, Fresh
  <2>3. sess' = sess
    BY <1>4 DEF AttachFailed
  <2> QED
    BY <1>1, <2>1, <2>2, <2>3, Elsewhere DEF Same, Effect, In
<1>5. CASE AttachSet(p)
  <2>1. Others(p) /\ job'[p].s = 0
    BY <1>1, <1>5, DoneEffect DEF AttachSet
  <2>2. PICK b : b = (cached # 0 /\ Overlap(p, "attach", cached))
    OBVIOUS
  <2>3. hist' = Unfollow(cached, b)
    BY <1>5, <2>2, Zenon DEF AttachSet
  <2>4. hist'[s] = hist[s] /\ (s = cached => ~b)
    BY <1>1, <2>3, UnfollowEffect
  <2>5. ~In(p, "stop", s) /\ ~In(p, "attach", s)
    BY <1>5 DEF AttachSet, In, At
  <2>6. sess'[s] = [sess[s] EXCEPT !.meeting = @ \/ s = cached]
    BY <1>5 DEF AttachSet
  <2>7. CASE s = cached
    <3>1. ~Overlap(p, "attach", s)
      BY <1>1, <2>2, <2>4, <2>7, Zenon
    <3>2. Apart(p, "attach", s)
      BY <3>1, NoOverlap
    <3>3. sess'[s] = [sess[s] EXCEPT !.meeting = TRUE]
      BY <2>6, <2>7
    <3>4. Gives(p, s)
      BY <1>1, <2>1, <2>4, <2>5, <2>7, <3>2, <3>3 DEF Gives
    <3> QED
      BY <2>1, <2>4, <3>4 DEF Effect
  <2>8. CASE s # cached
    <3>1. PICK m \in BOOLEAN : m = (sess[s].meeting \/ s = cached)
      OBVIOUS
    <3>2. sess'[s] = [sess[s] EXCEPT !.meeting = m]
      BY <2>6, <3>1, Zenon
    <3>3. m = sess[s].meeting
      <4>1. sess[s].meeting \in BOOLEAN
        BY <1>1 DEF SessionType
      <4> QED
        BY <2>8, <3>1, <4>1, Zenon
    <3>4. sess'[s] = sess[s]
      BY <1>1, <3>2, <3>3 DEF SessionType
    <3> QED
      BY <1>1, <2>1, <2>4, <2>5, <3>4, Elsewhere DEF Same, Effect
  <2> QED
    BY <2>7, <2>8
<1> QED
  BY <1>2, <1>3, <1>4, <1>5

(* Every action but the passing of time. *)
LEMMA StepEffect ==
    ASSUME Followed \subseteq Harmless, SInv, Next,
           NEW s \in Sessions, ~hist'[s].spoiled
    PROVE  \/ Elapse
           \/ ~hist[s].spoiled /\ \E p \in Procs : Effect(p, s)
<1>1. ASSUME NEW p \in Workers,
             \/ StartGet(p) \/ StartCleanup(p) \/ StartCreate(p) \/ StartRefused(p)
             \/ PauseGet(p) \/ PauseApply(p) \/ ResumeGet(p) \/ ResumeApply(p)
             \/ PutBack(p) \/ StopCommand(p)
      PROVE  Effect(p, s) /\ ~hist[s].spoiled
  <2>1. p \in Procs /\ IInv
    BY DEF Procs, SInv
  <2> QED
    BY <1>1, <2>1, LookupEffect, StartEffect, PauseEffect
<1>2. ASSUME NEW p \in Workers,
             \/ AttachCheck(p) \/ AttachBegin(p) \/ AttachCharged(p) \/ AttachFailed(p)
             \/ AttachSet(p)
      PROVE  Effect(p, s) /\ ~hist[s].spoiled
  <2>1. p \in Procs /\ IInv
    BY DEF Procs, SInv
  <2> QED
    BY <1>2, <2>1, LookupEffect, AttachEffect
<1>3. ASSUME NEW p \in Procs, StopRefused(p) \/ StopSettle(p) \/ StopFinish(p)
      PROVE  Effect(p, s) /\ ~hist[s].spoiled
  BY <1>3, SettleEffect, FinishEffect
<1>4. ASSUME ForceStop \/ ForceGet \/ BillList \/ BillBegin \/ BillCharged \/ BillFailed
      PROVE  Effect(Monitor, s) /\ ~hist[s].spoiled
  <2>1. Monitor \in Procs /\ IInv
    BY DEF Procs, SInv
  <2> QED
    BY <1>4, <2>1, LookupEffect, BillEffect
<1>5. Workers \subseteq Procs /\ Monitor \in Procs
  BY DEF Procs
<1> QED
  BY <1>1, <1>2, <1>3, <1>4, <1>5 DEF Next

LEMMA EffectBefore ==
    ASSUME Followed \subseteq Harmless, SInv, IInv',
           NEW p \in Procs, NEW s \in Sessions, Effect(p, s), Covered(s)
    PROVE  Before(p, s) /\ Compatible(s)'
<1>1. Compatible(s)'
  <2>1. job'[p].s # s \/ Stays(p, s) \/ Apart(p, job'[p].op, s)
    BY DEF Effect, Away, Takes, Leaves, Creates, Cleans, Pauses, Resumes, Settles,
           Finishes, Counts, BeginsBill, Bills, Skips, Begins, Attaches, Gives
  <2> QED
    BY <2>1, CompatibleStep DEF Covered, Effect
<1>2. Excludes(job, s) /\ Excludes(job', s)
  <2>1. Excludes(job, s)
    BY CompatibleExcludes DEF Covered, Compatible
  <2>2. Excludes(job', s)
    BY <1>1, CompatibleExcludes DEF Compatible
  <2> QED
    BY <2>1, <2>2
<1>3. Fields(s)'
  <2>1. sess'[s] \in SessionType /\ hist'[s] \in HistoryType
    BY DEF IInv, SessOK, HistOK
  <2>2. \A q \in Procs : job'[q] \in JobType
    BY DEF IInv, JobsOK
  <2> QED
    BY <2>1, <2>2 DEF Fields, IInv, SessOK, JobsOK, SessionType, HistoryType, JobType
<1> QED
  BY <1>1, <1>2, <1>3, FieldTypes DEF Before, SInv, Effect

LEMMA EffectCovers ==
    ASSUME Followed \subseteq Harmless, SInv, IInv',
           NEW p \in Procs, NEW s \in Sessions, Effect(p, s), Covered(s)
    PROVE  Covered(s)'
<1>1. Before(p, s) /\ Compatible(s)'
  BY EffectBefore
<1>2. CASE \/ Away(p, s) \/ Takes(p, s) \/ Leaves(p, s)
           \/ Creates(s) \/ Cleans(p, s) \/ Pauses(p, s) \/ Resumes(p, s)
  BY <1>1, <1>2, AwayCovers, TakesCovers, LeavesCovers, CreatesCovers, CleansCovers,
     PausesCovers, ResumesCovers DEF Covered
<1>3. CASE \/ Settles(p, s) \/ Finishes(p, s)
           \/ Counts(p, s) \/ BeginsBill(p, s) \/ Bills(p, s)
  BY <1>1, <1>3, SettlesCovers, FinishesCovers, CountsCovers, BeginsBillCovers,
     BillsCovers DEF Covered
<1>4. CASE Skips(p, s) \/ Begins(p, s) \/ Attaches(p, s) \/ Gives(p, s)
  BY <1>1, <1>4, SkipsCovers, BeginsCovers, AttachesCovers, GivesCovers DEF Covered
<1> QED
  BY <1>2, <1>3, <1>4 DEF Effect

(* What an elapsed second does to a session that is followed. *)
LEMMA ElapseEffect ==
    ASSUME IInv, Elapse, NEW s \in Sessions, ~hist'[s].spoiled
    PROVE  /\ ~hist[s].spoiled
           /\ hist'[s].billed = hist[s].billed
           /\ Transcribing(s) => hist'[s].used = hist[s].used + 1
           /\ ~Transcribing(s) => hist'[s].used = hist[s].used
           /\ hist'[s].short = hist[s].short /\ hist'[s].settled = hist[s].settled
<1>1. hist[s] \in HistoryType
  BY DEF IInv, HistOK
<1>2. hist'[s] = IF Transcribing(s) THEN Recorded(hist[s], Used(hist[s])) ELSE hist[s]
  BY DEF Elapse
<1>3. CASE Transcribing(s)
  <2>1. ~hist[s].spoiled /\ hist'[s] = Used(hist[s])
    BY <1>2, <1>3, RecordedEffect
  <2> QED
    BY <1>1, <1>3, <2>1 DEF Used, HistoryType
<1>4. CASE ~Transcribing(s)
  BY <1>2, <1>4
<1> QED
  BY <1>3, <1>4

LEMMA ElapseCovers ==
    ASSUME IInv, Elapse, NEW s \in Sessions, ~hist'[s].spoiled, Covered(s)
    PROVE  Covered(s)'
<1>1. /\ now' = now + 1 /\ job' = job /\ sess' = sess /\ cached' = cached
      /\ hist'[s].billed = hist[s].billed
      /\ Transcribing(s) => hist'[s].used = hist[s].used + 1
      /\ ~Transcribing(s) => hist'[s].used = hist[s].used
  BY ElapseEffect DEF Elapse
<1>2. Fields(s)
  BY FieldTypes
<1>3. Compatible(s)' /\ BillHeld(s)' /\ Clocks(s)'
  BY <1>1 DEF Covered, Compatible, BillHeld, Clocks, Transcribing
<1>4. BillDue(s)' /\ AttachDue(s)'
  BY <1>1, <1>2 DEF Covered, BillHeld, BillDue, AttachDue, In, At, Fields, Transcribing
<1>5. Stopped(s) => Stopped(s)'
  BY <1>1, <1>2 DEF Stopped, Fields, Transcribing
<1>6. StopDue(s)'
  BY <1>1, <1>5 DEF Covered, StopDue, In, At
<1>7. Open(s) => Open(s)'
  BY <1>1, <1>2 DEF Open, Due, Transcribing, Fields
<1>8. Attaching(s) => Attaching(s)'
  BY <1>1 DEF Attaching, In, At
<1> QED
  BY <1>3, <1>4, <1>5, <1>6, <1>7, <1>8 DEF Covered

LEMMA CInvInit == Init => CInv
<1> SUFFICES ASSUME Init PROVE CInv
  OBVIOUS
<1>1. SInv
  BY SInvInit
<1>2. ASSUME NEW s \in Sessions PROVE Covered(s)
  <2>1. \A p \in Procs : job[p].s # s /\ job[p].s = 0
    BY DEF Init, Idle, Sessions
  <2>2. /\ sess[s] = Blank /\ hist[s] = Fresh
    BY DEF Init
  <2> QED
    BY <2>1, <2>2 DEF Covered, Compatible, BillHeld, BillDue, AttachDue, Clocks, StopDue,
                      Open, Due, Transcribing, In, Blank, Fresh
<1> QED
  BY <1>1, <1>2 DEF CInv

LEMMA CInvStep ==
    ASSUME Followed \subseteq Harmless
    PROVE  CInv /\ [Next]_vars => CInv'
<1> SUFFICES ASSUME CInv, [Next]_vars, NEW s \in Sessions, ~hist'[s].spoiled
             PROVE  Covered(s)'
  BY SInvStep DEF CInv
<1>1. SInv /\ IInv /\ IInv'
  BY SInvStep DEF CInv, SInv
<1>2. CASE UNCHANGED vars
  BY <1>2 DEF vars, CInv, Covered, Compatible, BillHeld, BillDue, AttachDue, Clocks,
              StopDue, Open, Due, Attaching, Stopped, Transcribing, In, At
<1>3. CASE Elapse
  BY <1>1, <1>3, ElapseEffect, ElapseCovers DEF CInv
<1>4. CASE Next /\ ~Elapse
  <2>1. PICK p \in Procs : ~hist[s].spoiled /\ Effect(p, s)
    BY <1>1, <1>4, StepEffect
  <2> QED
    BY <1>1, <2>1, EffectCovers DEF CInv
<1> QED
  BY <1>2, <1>3, <1>4

(* As long as the operations that overlap on a session are harmless ones,   *)
(* it is never charged for more seconds than it transcribed, whatever the   *)
(* number of goroutines and sessions and however long they run.             *)
THEOREM NoOvercharge ==
    ASSUME Followed \subseteq Harmless
    PROVE  Spec => []NeverOvercharged
<1>1. CInv => NeverOvercharged
  <2> SUFFICES ASSUME CInv, NEW s \in Sessions, ~hist[s].spoiled
               PROVE  hist[s].billed <= hist[s].used
    BY DEF NeverOvercharged
  <2>1. Covered(s) /\ Fields(s)
    BY FieldTypes DEF CInv, SInv
  <2> QED
    BY <2>1 DEF Covered, Fields, Open, Due, Transcribing, Attaching, AttachDue, Stopped, In
<1> QED
  BY <1>1, CInvInit, CInvStep, PTL DEF Spec

-----------------------------------------------------------------------------
(* A session whose history is neither spoiled nor short: every second it    *)
(* used is billed, counted or still to come.                                *)

ExactBill(s) ==
    \A p \in Procs : In(p, "bill", s) =>
        /\ hist[s].billed + job[p].total + (now - job[p].time) = hist[s].used
        /\ job[p].time = sess[s].lastUpdate + sess[s].persisted + job[p].base

Running(s) ==
    /\ Transcribing(s) /\ ~hist[s].settled
    /\ hist[s].billed + sess[s].consumed + (now - sess[s].lastBilling) = hist[s].used
    /\ sess[s].lastBilling = sess[s].lastUpdate + sess[s].persisted
    /\ ExactBill(s)

(* A start has closed it without a charge, and nobody will settle it. *)
Dropped(s) ==
    /\ sess[s].status = "completed" /\ ~hist[s].settled /\ cached # s
    /\ \A p \in Procs : job[p].s = s => job[p].op = "start"

Settled(s) ==
    /\ Stopped(s)
    /\ hist[s].billed + (sess[s].consumed - sess[s].persisted) = hist[s].used
    /\ hist[s].settled => sess[s].consumed = sess[s].persisted
    /\ \A p \in Procs : In(p, "stop", s) =>
           sess[s].persisted + job[p].base = sess[s].consumed

Kept(s) ==
    /\ sess[s].status # "paused"
    /\ \A p \in Procs : job[p].s = s => job[p].op # "resume"
    /\ Running(s) \/ Dropped(s) \/ Settled(s) \/ (Attaching(s) /\ ~hist[s].settled)

(* A session not yet made. *)
New(s) ==
    /\ ~Transcribing(s)
    /\ hist[s].used = 0 /\ hist[s].billed = 0 /\ ~hist[s].settled

Exact(s) == IF s > made THEN New(s) ELSE Kept(s)

(* The inductive invariant of ChargedToTheSecond. *)
EInv ==
    /\ CInv
    /\ \A s \in Sessions : ~hist[s].spoiled /\ ~hist[s].short => Exact(s)

(* What the lemmas about the effects start from. *)
ExactBefore(p, s) == Before(p, s) /\ Covered(s)' /\ ~hist'[s].short /\ Kept(s)

LEMMA AwayKeeps ==
    ASSUME IInv, NEW s \in Sessions, NEW p \in Procs, ExactBefore(p, s),
           Away(p, s) \/ Leaves(p, s) \/ Gives(p, s)
    PROVE  Kept(s)'
<1>1. /\ now' = now /\ hist'[s] = hist[s]
      /\ sess'[s].status = sess[s].status
      /\ sess'[s].lastBilling = sess[s].lastBilling
      /\ sess'[s].lastUpdate = sess[s].lastUpdate
      /\ sess'[s].consumed = sess[s].consumed
      /\ sess'[s].persisted = sess[s].persisted
      /\ sess'[s].settling = sess[s].settling
      /\ \A q \in Procs : job'[q].s = s => q # p /\ job'[q] = job[q]
      /\ ~In(p, "stop", s) /\ ~In(p, "attach", s)
      /\ cached' = s => cached = s \/ (job[p].s = s /\ job[p].op \in {"pause", "resume"})
  <2>1. /\ now' = now /\ hist'[s] = hist[s] /\ job'[p].s # s
        /\ sess'[s] = sess[s] \/ sess'[s] = [sess[s] EXCEPT !.meeting = TRUE]
        /\ \A q \in Procs : q # p => job'[q] = job[q]
        /\ cached' = s => cached = s \/ (job[p].s = s /\ job[p].op \in {"pause", "resume"})
    BY DEF ExactBefore, Before, Others, Away, Leaves, Gives, Same
  <2>2. ~In(p, "stop", s) /\ ~In(p, "attach", s)
    BY DEF Away, Leaves, Gives, In
  <2>3. sess[s] \in SessionType
    BY DEF IInv, SessOK
  <2>4. /\ sess'[s].status = sess[s].status
        /\ sess'[s].lastBilling = sess[s].lastBilling
        /\ sess'[s].lastUpdate = sess[s].lastUpdate
        /\ sess'[s].consumed = sess[s].consumed
        /\ sess'[s].persisted = sess[s].persisted
        /\ sess'[s].settling = sess[s].settling
    BY <2>1, <2>3 DEF SessionType
  <2> QED
    BY <2>1, <2>2, <2>4
<1>2. Running(s) => Running(s)'
  BY <1>1 DEF Running, ExactBill, Transcribing, In, At
<1>3. Dropped(s) => Dropped(s)'
  BY <1>1 DEF Dropped
<1>4. Settled(s) => Settled(s)'
  BY <1>1 DEF Settled, Stopped, In, At
<1>5. Attaching(s) => Attaching(s)'
  BY <1>1 DEF ExactBefore, Before, Others, Attaching, In, At
<1> QED
  BY <1>1, <1>2, <1>3, <1>4, <1>5 DEF ExactBefore, Kept

LEMMA TakesKeeps ==
    ASSUME NEW s \in Sessions, NEW p \in Procs, ExactBefore(p, s), Takes(p, s)
    PROVE  Kept(s)'
<1>1. /\ now' = now /\ Same(s) /\ cached = s /\ cached' = s
      /\ \A q \in Procs : q # p => job'[q] = job[q]
      /\ ~In(p, "stop", s) /\ ~In(p, "attach", s) /\ job'[p].s = s
      /\ job'[p].at # "charge"
      /\ job'[p].op = "resume" => sess[s].status = "paused"
  BY DEF ExactBefore, Before, Others, Takes
<1>2. Running(s) => Running(s)'
  BY <1>1 DEF Same, Running, ExactBill, Transcribing, In, At
<1>3. ~Dropped(s)
  BY <1>1 DEF Dropped
<1>4. Settled(s) => Settled(s)'
  <2> SUFFICES ASSUME Settled(s) PROVE Settled(s)'
    OBVIOUS
  <2>1. PICK q \in Procs : In(q, "stop", s)
    BY <1>1 DEF Settled, Stopped, ExactBefore, Before, OneSettlement, Settlers, In
  <2>2. job'[p].op = "stop"
    BY <1>1, <2>1 DEF ExactBefore, Before, Excludes, In, At
  <2> QED
    BY <1>1, <2>2 DEF Same, Settled, Stopped, In, At
<1>5. Attaching(s) => Attaching(s)'
  BY <1>1 DEF Attaching, In, At
<1> QED
  BY <1>1, <1>2, <1>3, <1>4, <1>5 DEF ExactBefore, Kept, Same

LEMMA CleansKeeps ==
    ASSUME NEW s \in Sessions, NEW p \in Procs, ExactBefore(p, s), Cleans(p, s)
    PROVE  Kept(s)'
<1>1. \A q \in Procs : job[q].s = s => job[q].op = "start"
  BY DEF ExactBefore, Before, Excludes, Cleans
<1>2. ~hist[s].settled
  BY <1>1 DEF ExactBefore, Kept, Running, Dropped, Settled, Stopped, Cleans
<1> QED
  BY <1>1, <1>2 DEF ExactBefore, Before, Others, Cleans, Becomes, Kept, Dropped

LEMMA SettlesKeeps ==
    ASSUME NEW s \in Sessions, NEW p \in Procs, ExactBefore(p, s), Settles(p, s)
    PROVE  Kept(s)'
<1>1. /\ \A q \in Procs : job[q].s = s => job[q].op = "stop"
      /\ \A q \in Procs : ~In(q, "stop", s)
  BY DEF ExactBefore, Before, Excludes, OneSettlement, Settlers, Settles, Stays, In
<1>2. /\ \A q \in Procs \ {p} : job'[q] = job[q]
      /\ In(p, "stop", s)' /\ Stopped(s)'
      /\ \A q \in Procs : In(q, "stop", s)' => q = p
  BY <1>1 DEF ExactBefore, Before, Others, Settles, Stays, Covered, StopDue, In, At
<1>3. Running(s) \/ Settled(s)
  BY <1>1 DEF ExactBefore, Kept, Dropped, Attaching, In, At, Settles, Stays
<1>4. /\ hist[s].billed + (Final(s) - sess[s].persisted) = hist[s].used
      /\ hist[s].settled => Final(s) = sess[s].persisted
  BY <1>3 DEF ExactBefore, Before, Fields, Running, Settled, Stopped, Final, Transcribing
<1>5. Final(s) \in Nat /\ Final(s) >= sess[s].persisted
  <2>1. Final(s) \in Nat
    BY DEF ExactBefore, Before, Fields, Final
  <2>2. hist[s].billed <= hist[s].used
    BY <1>2 DEF Stopped, Settles, Charges, ExactBefore, Before, Fields
  <2> QED
    BY <1>4, <2>1, <2>2 DEF ExactBefore, Before, Fields
<1>6. sess[s].persisted + job'[p].base = Final(s)
  <2>1. Outstanding(s) = Final(s) - sess[s].persisted
    BY <1>5 DEF Outstanding, ExactBefore, Before, Fields
  <2>2. job'[p].base = Outstanding(s)
    BY <1>5, <2>1 DEF Settles, ExactBefore, Before, Fields
  <2> QED
    BY <1>5, <2>1, <2>2 DEF ExactBefore, Before, Fields
<1>7. Settled(s)'
  BY <1>2, <1>4, <1>6 DEF Settled, Settles, Becomes, Charges, ExactBefore, Before, Fields
<1> QED
  BY <1>2, <1>7 DEF Kept, Settled, Stopped

LEMMA FinishesKeeps ==
    ASSUME NEW s \in Sessions, NEW p \in Procs, ExactBefore(p, s), Finishes(p, s)
    PROVE  Kept(s)'
<1>1. In(p, "stop", s) /\ Stopped(s)
  BY DEF ExactBefore, Before, Covered, StopDue, Finishes
<1>2. /\ \A q \in Procs \ {p} : job'[q] = job[q] /\ ~In(q, "stop", s)
      /\ job'[p].s # s /\ cached' # s
  BY <1>1 DEF ExactBefore, Before, Others, OneSettlement, Settlers, Finishes, In
<1>3. Settled(s)
  BY <1>1 DEF ExactBefore, Kept, Running, Dropped, Attaching, Stopped, Transcribing, In, At
<1>4. /\ Becomes(s, sess[s].status, sess[s].lastBilling, sess[s].lastUpdate,
                 sess[s].consumed, sess[s].persisted + job[p].base)
      /\ Charges(s, job[p].base)
  BY DEF Finishes, ExactBefore
<1>5. sess[s].persisted + job[p].base = sess[s].consumed
  BY <1>1, <1>3 DEF Settled
<1>6. Settled(s)'
  BY <1>1, <1>2, <1>3, <1>4, <1>5
     DEF Settled, Stopped, Becomes, Charges, ExactBefore, Before, Fields, In, At
<1> QED
  BY <1>6 DEF Kept, Settled, Stopped

LEMMA CountsKeeps ==
    ASSUME NEW s \in Sessions, NEW p \in Procs, ExactBefore(p, s), Counts(p, s)
    PROVE  Kept(s)'
<1>1. /\ Transcribing(s) /\ job[p].op = "bill" /\ job[p].s = s /\ job'[p].s # s
      /\ \A q \in Procs \ {p} : job'[q] = job[q] /\ ~In(q, "bill", s)
  BY DEF ExactBefore, Before, Others, Excludes, Covered, BillHeld, Counts, In, At
<1>2. Running(s) => Running(s)'
  <2> SUFFICES ASSUME Running(s) PROVE Running(s)'
    OBVIOUS
  <2>1. sess[s].persisted = 0
    BY <1>1 DEF Counts, ExactBefore, Before, Covered, Clocks, Fields, Running
  <2>2. ExactBill(s)'
    BY <1>1 DEF ExactBill, In, At
  <2> QED
    BY <1>1, <2>1, <2>2 DEF Counts, Becomes, ExactBefore, Before, Others, Fields,
                            Running, Transcribing
<1>3. Attaching(s) => Attaching(s)'
  BY <1>1 DEF Attaching, In, At
<1>4. Running(s) \/ (Attaching(s) /\ ~hist[s].settled)
  BY <1>1 DEF ExactBefore, Kept, Dropped, Settled, Stopped
<1> QED
  BY <1>1, <1>2, <1>3, <1>4 DEF ExactBefore, Before, Others, Kept, Counts, Becomes

LEMMA BeginsBillKeeps ==
    ASSUME NEW s \in Sessions, NEW p \in Procs, ExactBefore(p, s), BeginsBill(p, s)
    PROVE  Kept(s)'
<1>1. /\ job[p].op = "bill" /\ job[p].s = s /\ job'[p].op = "bill"
      /\ \A q \in Procs \ {p} : job'[q] = job[q] /\ ~In(q, "bill", s)
  BY DEF ExactBefore, Before, Others, Excludes, BeginsBill, Stays, In, At
<1>2. ~Attaching(s)
  BY DEF ExactBefore, Before, Covered, AttachDue, Attaching, BeginsBill
<1>3. Running(s)
  BY <1>1, <1>2 DEF ExactBefore, Kept, Dropped, Settled, Stopped
<1>4. Running(s)'
  BY <1>1, <1>3 DEF BeginsBill, Same, ExactBefore, Before, Others, Fields,
              Running, ExactBill, Transcribing, In, At
<1> QED
  BY <1>1, <1>4 DEF ExactBefore, Before, Others, Kept, BeginsBill, Same

LEMMA BillsKeeps ==
    ASSUME NEW s \in Sessions, NEW p \in Procs, ExactBefore(p, s), Bills(p, s)
    PROVE  Kept(s)'
<1>1. /\ Transcribing(s) /\ job[p].op = "bill" /\ job[p].s = s /\ job'[p].s # s
      /\ In(p, "bill", s)
      /\ \A q \in Procs \ {p} : job'[q] = job[q] /\ ~In(q, "bill", s)
  BY DEF ExactBefore, Before, Others, Excludes, Covered, BillHeld, Bills, In, At
<1>2. ~Attaching(s)
  BY <1>1 DEF ExactBefore, Before, Covered, AttachDue, BillDue, Attaching
<1>3. Running(s)
  BY <1>1, <1>2 DEF ExactBefore, Kept, Dropped, Settled, Stopped
<1>4. Running(s)'
  BY <1>1, <1>3 DEF Bills, Becomes, Charges, ExactBefore, Before, Others, Fields,
              Running, ExactBill, Transcribing, In, At
<1> QED
  BY <1>1, <1>4 DEF ExactBefore, Before, Others, Kept, Bills, Becomes

(* An attach comes to a session that is not settled, as it is in the cache. *)
LEMMA AttachComes ==
    ASSUME NEW s \in Sessions, NEW p \in Procs, ExactBefore(p, s),
           Skips(p, s) \/ Begins(p, s)
    PROVE  /\ Running(s) \/ (Attaching(s) /\ ~hist[s].settled)
           /\ Attaching(s) => Attaching(s)'
           /\ job'[p].op = "attach"
<1>1. /\ At(p, "attach", "begin") /\ cached = s /\ job'[p].s = s
      /\ job'[p].op = "attach"
      /\ \A q \in Procs \ {p} : job'[q] = job[q]
  BY DEF Skips, Begins, ExactBefore, Before, Others
<1>2. ~Dropped(s)
  BY <1>1 DEF Dropped
<1>3. ~Settled(s)
  <2> SUFFICES ASSUME Settled(s) PROVE FALSE
    OBVIOUS
  <2>1. PICK q \in Procs : In(q, "stop", s)
    BY <1>1 DEF Settled, Stopped, ExactBefore, Before, OneSettlement, Settlers, In
  <2> QED
    BY <1>1, <2>1 DEF ExactBefore, Before, Excludes, In, At
<1>4. Attaching(s) => Attaching(s)'
  BY <1>1 DEF Attaching, In, At
<1> QED
  BY <1>1, <1>2, <1>3, <1>4 DEF ExactBefore, Kept

LEMMA SkipsKeeps ==
    ASSUME NEW s \in Sessions, NEW p \in Procs, ExactBefore(p, s), Skips(p, s)
    PROVE  Kept(s)'
<1>1. Running(s) => Running(s)'
  <2> SUFFICES ASSUME Running(s) PROVE Running(s)'
    OBVIOUS
  <2>1. sess[s].consumed = 0 /\ sess[s].lastUpdate = now
        /\ sess[s].persisted = 0 /\ sess[s].lastBilling = now
    <3>1. sess[s].consumed + (now - sess[s].lastUpdate) = 0
      BY DEF Skips, Final, Running
    <3>2. Fields(s)
      BY DEF ExactBefore, Before
    <3>3. sess[s].consumed = 0 /\ sess[s].lastUpdate = now
      <4>1. \A c, n, u \in Nat : c + (n - u) = 0 /\ u <= n => c = 0 /\ u = n
        OBVIOUS
      <4>2. /\ sess[s].consumed \in Nat /\ now \in Nat /\ sess[s].lastUpdate \in Nat
            /\ sess[s].lastUpdate <= now
        BY <3>2 DEF Fields
      <4> QED
        BY <3>1, <4>1, <4>2
    <3> QED
      BY <3>2, <3>3 DEF Running, Fields
  <2> QED
    BY <2>1 DEF Skips, Becomes, ExactBefore, Before, Others,
                Running, ExactBill, Transcribing, In, At
<1> QED
  BY <1>1, AttachComes DEF ExactBefore, Before, Others, Kept, Skips, Becomes

LEMMA BeginsKeeps ==
    ASSUME NEW s \in Sessions, NEW p \in Procs, ExactBefore(p, s), Begins(p, s)
    PROVE  Kept(s)'
<1>1. Attaching(s)'
  BY DEF Begins, Attaching, In, At
<1>2. ~hist[s].settled
  BY AttachComes DEF Running
<1> QED
  BY <1>1, <1>2 DEF ExactBefore, Before, Others, Kept, Begins, Becomes

LEMMA CreatesKeeps ==
    ASSUME NEW s \in Sessions, NEW p \in Procs, Before(p, s), Creates(s), New(s)
    PROVE  Kept(s)'
<1>1. Running(s)'
  BY DEF Creates, New, Becomes, Before, Others, Fields, Running, ExactBill,
         Transcribing, In, At
<1> QED
  BY <1>1 DEF Creates, Becomes, Kept

LEMMA ElapseKeeps ==
    ASSUME IInv, Elapse, NEW s \in Sessions, ~hist'[s].spoiled
    PROVE  /\ Kept(s) => Kept(s)'
           /\ New(s) => New(s)'
<1>1. /\ now' = now + 1 /\ job' = job /\ sess' = sess /\ cached' = cached
      /\ hist'[s].billed = hist[s].billed /\ hist'[s].settled = hist[s].settled
      /\ Transcribing(s) => hist'[s].used = hist[s].used + 1
      /\ ~Transcribing(s) => hist'[s].used = hist[s].used
  BY ElapseEffect DEF Elapse
<1>2. Fields(s)
  BY FieldTypes
<1>3. Running(s) => Running(s)'
  <2> SUFFICES ASSUME Running(s) PROVE Running(s)'
    OBVIOUS
  <2>1. hist'[s].used = hist[s].used + 1
    BY <1>1 DEF Running
  <2>2. ExactBill(s)'
    <3> SUFFICES ASSUME NEW p \in Procs, In(p, "bill", s)
                 PROVE  /\ hist[s].billed + job[p].total + ((now + 1) - job[p].time)
                           = hist[s].used + 1
                        /\ job[p].time = sess[s].lastUpdate + sess[s].persisted + job[p].base
      BY <1>1, <2>1 DEF ExactBill, In, At
    <3>1. /\ hist[s].billed + job[p].total + (now - job[p].time) = hist[s].used
          /\ job[p].time = sess[s].lastUpdate + sess[s].persisted + job[p].base
      BY DEF Running, ExactBill
    <3> QED
      BY <1>2, <3>1 DEF Fields
  <2>3. hist[s].billed + sess[s].consumed + ((now + 1) - sess[s].lastBilling)
          = hist[s].used + 1
    BY <1>2 DEF Running, Fields
  <2> QED
    BY <1>1, <2>1, <2>2, <2>3 DEF Running, Transcribing
<1>4. Dropped(s) => Dropped(s)'
  BY <1>1 DEF Dropped
<1>5. Settled(s) => Settled(s)'
  BY <1>1 DEF Settled, Stopped, Transcribing, In, At
<1>6. Attaching(s) => Attaching(s)'
  BY <1>1 DEF Attaching, In, At
<1>7. New(s) => New(s)'
  BY <1>1 DEF New, Transcribing
<1> QED
  BY <1>1, <1>3, <1>4, <1>5, <1>6, <1>7 DEF Kept

(* Nothing is said again of a session whose history once was short. *)
LEMMA ShortStays ==
    ASSUME NEW p \in Procs, NEW s \in Sessions, Effect(p, s), ~hist'[s].short
    PROVE  ~hist[s].short
BY DEF Effect, Away, Takes, Leaves, Same, Creates, Cleans, Pauses, Resumes, Settles,
       Finishes, Counts, BeginsBill, Bills, Skips, Begins, Attaches, Gives

LEMMA EffectKeeps ==
    ASSUME Followed \subseteq Harmless, SInv, IInv',
           NEW p \in Procs, NEW s \in Sessions, s <= made, Effect(p, s),
           Covered(s), Kept(s), ~hist'[s].short
    PROVE  Kept(s)'
<1>1. ExactBefore(p, s)
  <2>1. Covered(s)' /\ Before(p, s)
    BY EffectCovers, EffectBefore
  <2> QED
    BY <2>1 DEF ExactBefore
<1>2. ~Creates(s)
  <2>1. s \in Nat /\ made \in Nat
    BY BillingAssumption DEF SInv, IInv, Sessions
  <2> QED
    BY <2>1 DEF Creates
<1>3. ~Pauses(p, s) /\ ~Attaches(p, s)
  BY DEF Pauses, Attaches
<1>4. ~Resumes(p, s)
  BY DEF Kept, Resumes, Stays
<1>5. CASE Away(p, s) \/ Takes(p, s) \/ Leaves(p, s) \/ Gives(p, s) \/ Cleans(p, s)
  BY <1>1, <1>5, AwayKeeps, TakesKeeps, CleansKeeps DEF SInv
<1>6. CASE \/ Settles(p, s) \/ Finishes(p, s) \/ Counts(p, s) \/ BeginsBill(p, s)
           \/ Bills(p, s) \/ Skips(p, s) \/ Begins(p, s)
  BY <1>1, <1>6, SettlesKeeps, FinishesKeeps, CountsKeeps, BeginsBillKeeps, BillsKeeps,
     SkipsKeeps, BeginsKeeps
<1> QED
  BY <1>2, <1>3, <1>4, <1>5, <1>6 DEF Effect

(* The effects on a session not yet made. *)
LEMMA NewStays ==
    ASSUME SInv, NEW p \in Procs, NEW s \in Sessions, s > made, Effect(p, s), New(s),
           ~Creates(s)
    PROVE  New(s)'
<1>1. cached # s /\ \A q \in Procs : job[q].s # s
  <2>1. made \in Nat /\ cached \in Nat /\ \A q \in Procs : job[q].s \in Nat
    BY BillingAssumption DEF SInv, IInv, JobsOK, JobType, Sessions
  <2> QED
    BY <2>1 DEF SInv, OnlyMade
<1>2. Away(p, s)
  BY <1>1 DEF Effect, Takes, Leaves, Stays, Cleans, Pauses, Resumes, Settles, Finishes,
              Counts, BeginsBill, Bills, Skips, Begins, Attaches, Gives, In
<1> QED
  BY <1>2 DEF Away, Same, New, Transcribing

(* How the number of sessions grows. *)
LEMMA MadeStep ==
    ASSUME IInv, [Next]_vars
    PROVE  made' = made \/ \E p \in Procs : StartCreate(p) /\ made' = made + 1
<1>1. Workers \subseteq Procs
  BY DEF Procs
<1> QED
  BY <1>1, ZenonT(60) DEF Next, vars, Elapse, StartGet, StartCleanup, StartCreate, StartRefused,
     PauseGet, PauseApply, ResumeGet, ResumeApply, PutBack, StopCommand, AttachCheck,
     AttachBegin, AttachCharged, AttachFailed, AttachSet, StopRefused, StopSettle,
     StopFinish, ForceStop, ForceGet, BillList, BillBegin, BillCharged, BillFailed

LEMMA EInvInit == Init => EInv
<1> SUFFICES ASSUME Init PROVE EInv
  OBVIOUS
<1>1. ASSUME NEW s \in Sessions PROVE Exact(s)
  <2>1. s > made
    BY BillingAssumption DEF Init, Sessions
  <2> QED
    BY <2>1 DEF Init, Exact, New, Transcribing, Blank, Fresh
<1> QED
  BY <1>1, CInvInit DEF EInv

LEMMA EInvStep ==
    ASSUME Followed \subseteq Harmless
    PROVE  EInv /\ [Next]_vars => EInv'
<1> SUFFICES ASSUME EInv, [Next]_vars, NEW s \in Sessions,
                    ~hist'[s].spoiled, ~hist'[s].short
             PROVE  Exact(s)'
  BY CInvStep DEF EInv
<1>1. SInv /\ IInv /\ IInv' /\ made \in Nat /\ made' \in Nat /\ s \in Nat
  BY CInvStep, BillingAssumption DEF EInv, CInv, SInv, IInv, Sessions
<1>2. CASE UNCHANGED vars
  BY <1>2 DEF vars, EInv, Exact, New, Kept, Running, ExactBill, Dropped, Settled,
              Attaching, Stopped, Transcribing, In, At
<1>3. CASE Elapse
  <2>1. Exact(s) /\ made' = made
    BY <1>1, <1>3, ElapseEffect DEF EInv, Elapse
  <2> QED
    BY <1>1, <1>3, <2>1, ElapseKeeps DEF Exact
<1>4. CASE Next /\ ~Elapse
  <2>1. PICK p \in Procs : ~hist[s].spoiled /\ Effect(p, s)
    BY <1>1, <1>4, StepEffect
  <2>2. Exact(s) /\ Covered(s)
    BY <2>1, ShortStays DEF EInv, CInv
  <2>3. CASE s <= made
    <3>1. Kept(s)'
      BY <1>1, <2>1, <2>2, <2>3, EffectKeeps DEF Exact
    <3>2. s <= made'
      BY <1>1, <2>3, MadeStep
    <3> QED
      BY <1>1, <3>1, <3>2 DEF Exact
  <2>4. CASE s > made /\ s <= made'
    <3>1. PICK q \in Procs : StartCreate(q) /\ s = made + 1
      BY <1>1, <2>4, MadeStep
    <3>2. Others(q) /\ Creates(s) /\ Effect(q, s)
      BY <1>1, <3>1, CreateEffect DEF Effect
    <3>3. Before(q, s)
      BY <1>1, <2>2, <3>2, EffectBefore
    <3> QED
      BY <1>1, <2>2, <2>4, <3>2, <3>3, CreatesKeeps DEF Exact
  <2>5. CASE s > made /\ s > made'
    <3>1. CASE ~Creates(s)
      BY <1>1, <2>1, <2>2, <2>5, <3>1, NewStays DEF Exact
    <3>2. CASE Creates(s)
      BY <1>1, <2>5, <3>2 DEF Creates
    <3> QED
      BY <3>1, <3>2
  <2> QED
    BY <1>1, <2>3, <2>4, <2>5
<1> QED
  BY <1>2, <1>3, <1>4

(* A session that was stopped, never paused and refused no charge, and that *)
(* had its meeting before it had seconds to charge, is charged to the       *)
(* second, as long as only harmless operations overlap on it.               *)
THEOREM ToTheSecond ==
    ASSUME Followed \subseteq Harmless
    PROVE  Spec => []ChargedToTheSecond
<1>1. EInv => ChargedToTheSecond
  <2> SUFFICES ASSUME EInv, NEW s \in Sessions,
                      hist[s].settled, ~hist[s].spoiled, ~hist[s].short
               PROVE  hist[s].billed = hist[s].used
    BY DEF ChargedToTheSecond
  <2>1. Settled(s)
    BY DEF EInv, Exact, New, Kept, Running, Dropped
  <2>2. Fields(s)
    BY FieldTypes DEF EInv, CInv, SInv
  <2> QED
    BY <2>1, <2>2 DEF Settled, Fields
<1> QED
  BY <1>1, EInvInit, EInvStep, PTL DEF Spec
=============================================================================
