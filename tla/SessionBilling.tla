--------------------------- MODULE SessionBilling ---------------------------
(***************************************************************************)
(* How the seconds of one user's transcription sessions are billed:        *)
(* unifiedTimeManager of internal/service/unified_time_manager.go on the   *)
(* in-memory TranscriptionCache.                                           *)
(*                                                                         *)
(* Workers are the goroutines that serve the user's commands (the reader   *)
(* of a connection, the receiver of results, the cleanup and health        *)
(* services); the monitor is efficientMonitoringLoop.  The cache hands out *)
(* the live SessionInfo, so an operation keeps a session it got even after *)
(* another one has deleted or replaced it.  A step ends wherever the code  *)
(* gives up the cache lock, a session lock or calls the account service.   *)
(* Time is in whole seconds, as the code bills it.  The account service is *)
(* outside: a charge succeeds, fails, or is committed and reported failed  *)
(* (facade.Consume reads the summary after the commit).                    *)
(***************************************************************************)
EXTENDS Integers

CONSTANTS
    Workers, Monitor,   \* the goroutines
    MaxSessions,        \* sessions the user starts (bound)
    MaxTime,            \* seconds that pass (bound)
    MaxCount,           \* bound on ConsumedSeconds, which an attach that
                        \* keeps failing would raise for ever
    Followed            \* pairs of operations whose overlap on a session
                        \* the histories follow, see Overlap; {"late"} for
                        \* an attach to a session that has its meeting

Procs == Workers \cup {Monitor}
Sessions == 1..MaxSessions
Ops == {"start", "pause", "resume", "stop", "bill", "attach", "late"}

ASSUME BillingAssumption ==
    /\ Monitor \notin Workers
    /\ MaxSessions \in Nat
    /\ MaxTime \in Nat
    /\ MaxCount \in Nat
    /\ Followed \subseteq SUBSET Ops

VARIABLES
    now,        \* the clock
    cached,     \* the session in the cache, 0 for none
    wsMeeting,  \* the websocket session has a MeetingID
    made,       \* sessions created so far
    sess,       \* the SessionInfo objects
    job,        \* what each goroutine is doing
    hist        \* history of each session, for the properties

vars == <<now, cached, wsMeeting, made, sess, job, hist>>

(* IsTranscribing, IsPaused and Status always change together. *)
Statuses == {"none", "transcribing", "paused", "completed"}

Blank == [status |-> "none", meeting |-> FALSE, billing |-> FALSE,
          settling |-> FALSE,
          lastBilling |-> 0,   \* LastBillingTime
          lastUpdate |-> 0,    \* LastUpdate
          consumed |-> 0,      \* ConsumedSeconds
          persisted |-> 0]     \* PersistedBaseSeconds

(* op.at: operation and next step; s: the session it holds (0: none);      *)
(* calls: StopTranscription calls still to make; base, total, time: what   *)
(* it computed before the charge.                                          *)
Idle == [op |-> "idle", at |-> "idle", s |-> 0, calls |-> 0, meeting |-> FALSE,
         base |-> 0, total |-> 0, time |-> 0]

(* used: seconds spent transcribing; billed: seconds charged; short: some  *)
(* seconds were dropped (pause, late meeting, refused charge); clear: a    *)
(* stop found nothing outstanding; settled: a stop has finished.  Spoiled  *)
(* is the history of a session on which two operations not in Followed     *)
(* overlapped, a failed charge was repeated or an attach came late: what   *)
(* it was charged is not followed any more.                                *)
Fresh == [used |-> 0, billed |-> 0, spoiled |-> FALSE, short |-> FALSE,
          clear |-> FALSE, settled |-> FALSE]

Spoiled == [Fresh EXCEPT !.spoiled = TRUE]

Recorded(h, next) == IF h.spoiled THEN h ELSE next

Used(h)       == [h EXCEPT !.used = @ + 1]
Charged(h, n) == [h EXCEPT !.billed = @ + n]
Cut(h, b)     == [h EXCEPT !.short = @ \/ b]

Init ==
    /\ now = 0 /\ cached = 0 /\ wsMeeting = FALSE /\ made = 0
    /\ sess = [s \in Sessions |-> Blank]
    /\ job = [p \in Procs |-> Idle]
    /\ hist = [s \in Sessions |-> Fresh]

-----------------------------------------------------------------------------
Transcribing(s) == sess[s].status = "transcribing"

At(p, op, at) == job[p].op = op /\ job[p].at = at

Done(p) == job' = [job EXCEPT ![p] = Idle]

(* The overlaps on a session that charge no second twice and lose none.    *)
Harmless ==
    {{"start"}, {"pause"}, {"resume"}, {"stop"}, {"pause", "resume"},
     {"attach", "pause"}, {"attach", "resume"}, {"attach", "bill"},
     {"resume", "bill"}}

(* Operation op of goroutine p comes to session s while another one, whose *)
(* overlap with it is not followed, is at work on it.                      *)
Overlap(p, op, s) ==
    \E q \in Procs \ {p} : job[q].s = s /\ {op, job[q].op} \notin Followed

(* The history of session s is followed no more if b. *)
Unfollow(s, b) == IF b THEN [hist EXCEPT ![s] = Spoiled] ELSE hist

(* Goroutine p goes on as j says, holding session j.s. *)
Hold(p, j) ==
    /\ job' = [job EXCEPT ![p] = j]
    /\ hist' = Unfollow(j.s, Overlap(p, j.op, j.s))

Final_DropsTail(s) == sess[s].consumed

(* CalculateFinalTimes: the seconds since the last update join the count. *)
Final(s) ==
    sess[s].consumed + IF Transcribing(s) THEN now - sess[s].lastUpdate ELSE 0

Outstanding_NoFloor(s) == Final(s) - sess[s].persisted

Outstanding_IgnoresPersisted(s) == Final(s)

Outstanding(s) ==
    IF Final(s) > sess[s].persisted THEN Final(s) - sess[s].persisted ELSE 0

CanSettle_Always(s) == TRUE

(* TryStartSettlement *)
CanSettle(s) == ~sess[s].settling

(* Time passes. *)
Elapse ==
    /\ now < MaxTime
    /\ now' = now + 1
    /\ hist' = [s \in Sessions |->
                  IF Transcribing(s)
                  THEN Recorded(hist[s], Used(hist[s])) ELSE hist[s]]
    /\ UNCHANGED <<cached, wsMeeting, made, sess, job>>

-----------------------------------------------------------------------------
(* StartTranscription.  The start command first forgets the meeting of the *)
(* websocket session; a resume that found no session keeps it and passes   *)
(* it on.  An existing session is closed without a charge.                 *)

StartGet(p) ==
    /\ job[p] = Idle
    /\ \E keep \in {FALSE, wsMeeting} :
        /\ wsMeeting' = keep
        /\ IF cached # 0
           THEN Hold(p, [Idle EXCEPT !.op = "start", !.at = "cleanup",
                                     !.s = cached, !.meeting = keep])
           ELSE /\ job' = [job EXCEPT ![p] = [Idle EXCEPT !.op = "start",
                                              !.at = "create", !.meeting = keep]]
                /\ UNCHANGED hist
    /\ UNCHANGED <<now, cached, made, sess>>

(* silentCleanupSession, unless a settlement of the session is under way. *)
StartCleanup(p) ==
    /\ At(p, "start", "cleanup")
    /\ LET s == job[p].s IN
        /\ IF CanSettle(s)
           THEN /\ sess' = [sess EXCEPT ![s].status = "completed",
                                        ![s].billing = FALSE,
                                        ![s].lastUpdate = now]
                /\ cached' = 0
           ELSE UNCHANGED <<cached, sess>>
        /\ job' = [job EXCEPT ![p].at = "create", ![p].s = 0]
    /\ UNCHANGED <<now, wsMeeting, made, hist>>

StartCreate(p) ==
    /\ At(p, "start", "create")
    /\ made < MaxSessions
    /\ made' = made + 1
    /\ sess' = [sess EXCEPT ![made + 1] =
                  [Blank EXCEPT !.status = "transcribing", !.billing = TRUE,
                                !.meeting = job[p].meeting,
                                !.lastBilling = now, !.lastUpdate = now]]
    /\ cached' = made + 1
    /\ Done(p)
    /\ UNCHANGED <<now, wsMeeting, hist>>

(* The balance query failed or showed less than 30 seconds. *)
StartRefused(p) ==
    /\ At(p, "start", "create")
    /\ Done(p)
    /\ UNCHANGED <<now, cached, wsMeeting, made, sess, hist>>

-----------------------------------------------------------------------------
(* PauseTranscription and ResumeTranscription: look the session up and     *)
(* check it, change it, and after the balance query put it back.           *)

PauseGet(p) ==
    /\ job[p] = Idle /\ cached # 0 /\ Transcribing(cached)
    /\ Hold(p, [Idle EXCEPT !.op = "pause", !.at = "apply", !.s = cached])
    /\ UNCHANGED <<now, cached, wsMeeting, made, sess>>

PauseApply(p) ==
    /\ At(p, "pause", "apply")
    /\ LET s == job[p].s IN
        /\ sess' = [sess EXCEPT ![s].status = "paused", ![s].billing = FALSE,
                                ![s].lastUpdate = now]
        /\ job' = [job EXCEPT ![p].at = "set"]
        /\ hist' = [hist EXCEPT ![s] = Recorded(@, Cut(@, TRUE))]
    /\ UNCHANGED <<now, cached, wsMeeting, made>>

ResumeGet(p) ==
    /\ job[p] = Idle /\ cached # 0 /\ sess[cached].status = "paused"
    /\ Hold(p, [Idle EXCEPT !.op = "resume", !.at = "apply", !.s = cached])
    /\ UNCHANGED <<now, cached, wsMeeting, made, sess>>

(* SafeUpdateBillingState(true) is refused during a settlement. *)
ResumeApply(p) ==
    /\ At(p, "resume", "apply")
    /\ LET s == job[p].s IN
        /\ sess' = [sess EXCEPT ![s].status = "transcribing",
                                ![s].billing = IF sess[s].settling THEN @ ELSE TRUE,
                                ![s].lastUpdate = now, ![s].lastBilling = now]
        /\ job' = [job EXCEPT ![p].at = "set"]
    /\ UNCHANGED <<now, cached, wsMeeting, made, hist>>

PutBack(p) ==
    /\ At(p, "pause", "set") \/ At(p, "resume", "set")
    /\ cached' = job[p].s
    /\ Done(p)
    /\ UNCHANGED <<now, wsMeeting, made, sess, hist>>

-----------------------------------------------------------------------------
(* StopTranscription. *)

(* A forced stop calls StopTranscription twice: through the callback to    *)
(* the handler, if the user has a websocket session, then directly.        *)
NextCall(p) ==
    job' = [job EXCEPT ![p] =
              IF job[p].calls <= 1 THEN Idle
              ELSE [Idle EXCEPT !.op = "stop", !.at = "get", !.calls = job[p].calls - 1]]

StopCommand(p) ==
    /\ job[p] = Idle /\ cached # 0
    /\ \E known \in {FALSE, wsMeeting} :
         Hold(p, [Idle EXCEPT !.op = "stop", !.at = "settle", !.s = cached,
                              !.calls = 1, !.meeting = known])
    /\ UNCHANGED <<now, cached, wsMeeting, made, sess>>

Forced(n) == [Idle EXCEPT !.op = "stop", !.at = "get", !.calls = n]

(* The check loop found the balance used up. *)
ForceStop ==
    /\ job[Monitor] = Idle /\ cached # 0 /\ Transcribing(cached)
    /\ \E n \in {1, 2} : job' = [job EXCEPT ![Monitor] = Forced(n)]
    /\ UNCHANGED <<now, cached, wsMeeting, made, sess, hist>>

ForceGet ==
    /\ At(Monitor, "stop", "get")
    /\ IF cached = 0
       THEN NextCall(Monitor) /\ UNCHANGED hist
       ELSE Hold(Monitor, [job[Monitor] EXCEPT !.at = "settle", !.s = cached,
                             !.meeting = @ \/ (job[Monitor].calls = 2 /\ wsMeeting)])
    /\ UNCHANGED <<now, cached, wsMeeting, made, sess>>

(* TryStartSettlement failed: "Session is already being settled". *)
StopRefused(p) ==
    /\ At(p, "stop", "settle")
    /\ ~CanSettle(job[p].s)
    /\ NextCall(p)
    /\ UNCHANGED <<now, cached, wsMeeting, made, sess, hist>>

(* The settlement starts.  A meeting known only to the caller is written   *)
(* to the session in the cache, which need not be the one being settled.   *)
StopSettle(p) ==
    /\ At(p, "stop", "settle")
    /\ LET s == job[p].s
           hasMeeting == sess[s].meeting \/ job[p].meeting
           handed == hasMeeting /\ ~sess[s].meeting
           closed == [sess[s] EXCEPT !.settling = TRUE, !.billing = FALSE,
                                     !.consumed = Final(s), !.status = "completed",
                                     !.lastUpdate = now]
       IN
        /\ CanSettle(s)
        /\ sess' = [t \in Sessions |->
              LET here == IF t = s THEN closed ELSE sess[t]
              IN  IF t = cached /\ handed
                  THEN [here EXCEPT !.meeting = TRUE] ELSE here]
        /\ job' = [job EXCEPT ![p].at = "charge",
                              ![p].base = IF hasMeeting THEN Outstanding(s) ELSE 0]
        /\ hist' = [t \in Sessions |->
              IF t = s
              THEN Recorded(hist[s],
                     [Cut(hist[s], Outstanding(s) > 0 /\ ~hasMeeting) EXCEPT
                        !.clear = (Outstanding(s) = 0)])
              ELSE IF t = cached /\ handed /\ Overlap(p, "stop", t)
              THEN Spoiled ELSE hist[t]]
    /\ UNCHANGED <<now, cached, wsMeeting, made>>

(* The outstanding seconds are charged; if that is refused, as many as the *)
(* balance shows, once.  Either charge may be committed yet reported       *)
(* failed, and is then not counted.  Whatever happened, the user's cache   *)
(* entry is deleted.                                                       *)
StopFinish(p) ==
    /\ At(p, "stop", "charge")
    /\ LET s == job[p].s
           base == job[p].base
       IN \E paid \in 0..base, uncounted \in BOOLEAN :
            /\ uncounted => base > 0
            /\ sess' = [sess EXCEPT ![s].settling = FALSE, ![s].persisted = @ + paid]
            /\ hist' = [hist EXCEPT ![s] =
                          IF uncounted THEN Spoiled
                          ELSE Recorded(@, [Charged(Cut(@, paid < base), paid)
                                              EXCEPT !.settled = TRUE])]
    /\ cached' = 0
    /\ NextCall(p)
    /\ UNCHANGED <<now, wsMeeting, made>>

-----------------------------------------------------------------------------
(* Realtime billing by the monitor: list the active sessions, then bill    *)
(* each one without looking at its state again.                            *)

BillList ==
    /\ job[Monitor] = Idle /\ cached # 0 /\ Transcribing(cached)
    /\ sess[cached].billing /\ ~sess[cached].settling
    /\ Hold(Monitor, [Idle EXCEPT !.op = "bill", !.at = "begin", !.s = cached])
    /\ UNCHANGED <<now, cached, wsMeeting, made, sess>>

BillBegin ==
    /\ At(Monitor, "bill", "begin")
    /\ LET s == job[Monitor].s
           elapsed == now - sess[s].lastBilling
       IN \/ /\ elapsed <= 0
             /\ Done(Monitor)
             /\ UNCHANGED sess
          \/ /\ elapsed > 0 /\ ~sess[s].meeting
             /\ sess' = [sess EXCEPT ![s].consumed = @ + elapsed,
                                     ![s].lastBilling = now, ![s].lastUpdate = now]
             /\ Done(Monitor)
          \/ /\ elapsed > 0 /\ sess[s].meeting
             /\ job' = [job EXCEPT ![Monitor].at = "charge",
                                   ![Monitor].base = elapsed,
                                   ![Monitor].total = elapsed + sess[s].consumed,
                                   ![Monitor].time = now]
             /\ UNCHANGED sess
    /\ UNCHANGED <<now, cached, wsMeeting, made, hist>>

BillCharged ==
    /\ At(Monitor, "bill", "charge")
    /\ LET j == job[Monitor] IN
        /\ sess' = [sess EXCEPT ![j.s].persisted = @ + j.base, ![j.s].consumed = 0,
                                ![j.s].lastBilling = j.time]
        /\ hist' = [hist EXCEPT ![j.s] = Recorded(@, Charged(@, j.total))]
    /\ Done(Monitor)
    /\ UNCHANGED <<now, cached, wsMeeting, made>>

(* With more than a minute left the session goes on, else it is stopped. *)
BillFailed ==
    /\ At(Monitor, "bill", "charge")
    /\ \E committed \in BOOLEAN :
         hist' = [hist EXCEPT ![job[Monitor].s] = IF committed THEN Spoiled ELSE @]
    /\ \/ Done(Monitor)
       \/ \E n \in {1, 2} : job' = [job EXCEPT ![Monitor] = Forced(n)]
    /\ UNCHANGED <<now, cached, wsMeeting, made, sess>>

-----------------------------------------------------------------------------
(* attachMeetingToSession: the websocket session gets its meeting record,  *)
(* at start or with the first result, and the seconds counted so far are   *)
(* charged to it.                                                          *)

AttachCheck(p) ==
    /\ job[p] = Idle /\ ~wsMeeting /\ cached # 0 /\ Final(cached) <= MaxCount
    /\ Hold(p, [Idle EXCEPT !.op = "attach", !.s = cached,
                            !.at = IF Final(cached) <= 0 THEN "set" ELSE "begin"])
    /\ UNCHANGED <<now, cached, wsMeeting, made, sess>>

(* CreateAndMarkInitialUsageLedger looks the session up again and does not *)
(* ask whether it has its meeting: an attach that comes late charges again *)
(* what realtime billing has charged since the last update.                *)
Late(s) == sess[s].meeting /\ {"late"} \notin Followed

AttachBegin(p) ==
    /\ At(p, "attach", "begin")
    /\ \/ /\ cached = 0
          /\ Done(p)
          /\ UNCHANGED <<sess, hist>>
       \/ /\ cached # 0 /\ Final(cached) <= 0
          /\ sess' = [sess EXCEPT ![cached].lastBilling = now, ![cached].lastUpdate = now]
          /\ Hold(p, [job[p] EXCEPT !.at = "set", !.s = cached])
       \/ /\ cached # 0 /\ Final(cached) > 0
          /\ sess' = [sess EXCEPT ![cached].consumed = Final(cached)]
          /\ job' = [job EXCEPT ![p].at = "charge", ![p].s = cached,
                                ![p].total = Final(cached)]
          /\ hist' = Unfollow(cached, Late(cached) \/ Overlap(p, "attach", cached))
    /\ UNCHANGED <<now, cached, wsMeeting, made>>

AttachCharged(p) ==
    /\ At(p, "attach", "charge")
    /\ LET s == job[p].s IN
        /\ sess' = [sess EXCEPT ![s].persisted = @ + job[p].total, ![s].consumed = 0,
                                ![s].lastBilling = now, ![s].lastUpdate = now]
        /\ hist' = [hist EXCEPT ![s] = Recorded(@, Charged(Cut(@, TRUE), job[p].total))]
    /\ job' = [job EXCEPT ![p].at = "set", ![p].total = 0]
    /\ UNCHANGED <<now, cached, wsMeeting, made>>

(* The attach gives up, but the count was already brought up to date. *)
AttachFailed(p) ==
    /\ At(p, "attach", "charge")
    /\ hist' = [hist EXCEPT ![job[p].s] = Spoiled]
    /\ Done(p)
    /\ UNCHANGED <<now, cached, wsMeeting, made, sess>>

(* The meeting is written to the session in the cache, which need not be   *)
(* the one that was charged.                                               *)
AttachSet(p) ==
    /\ At(p, "attach", "set")
    /\ wsMeeting' = TRUE
    /\ sess' = [s \in Sessions |-> [sess[s] EXCEPT !.meeting = @ \/ s = cached]]
    /\ hist' = Unfollow(cached, cached # 0 /\ Overlap(p, "attach", cached))
    /\ Done(p)
    /\ UNCHANGED <<now, cached, made>>

-----------------------------------------------------------------------------
Next ==
    \/ Elapse
    \/ \E p \in Workers :
          \/ StartGet(p) \/ StartCleanup(p) \/ StartCreate(p) \/ StartRefused(p)
          \/ PauseGet(p) \/ PauseApply(p) \/ ResumeGet(p) \/ ResumeApply(p) \/ PutBack(p)
          \/ StopCommand(p)
          \/ AttachCheck(p) \/ AttachBegin(p) \/ AttachCharged(p) \/ AttachFailed(p)
          \/ AttachSet(p)
    \/ \E p \in Procs : StopRefused(p) \/ StopSettle(p) \/ StopFinish(p)
    \/ ForceStop \/ ForceGet
    \/ BillList \/ BillBegin \/ BillCharged \/ BillFailed

Spec == Init /\ [][Next]_vars

-----------------------------------------------------------------------------
JobType ==
    [op : {"idle", "start", "pause", "resume", "stop", "bill", "attach"},
     at : {"idle", "cleanup", "create", "apply", "set", "get", "settle",
           "begin", "charge"},
     s : {0} \cup Sessions, calls : 0..2, meeting : BOOLEAN,
     base : Nat, total : Nat, time : Nat]

SessionType ==
    [status : Statuses, meeting : BOOLEAN, billing : BOOLEAN, settling : BOOLEAN,
     lastBilling : Nat, lastUpdate : Nat, consumed : Nat, persisted : Nat]

HistoryType ==
    [used : Nat, billed : Nat, spoiled : BOOLEAN, short : BOOLEAN,
     clear : BOOLEAN, settled : BOOLEAN]

(* The values the session objects and the goroutines can hold. *)
TypeOK ==
    /\ now \in Nat
    /\ cached \in {0} \cup Sessions
    /\ wsMeeting \in BOOLEAN
    /\ made \in 0..MaxSessions
    /\ sess \in [Sessions -> SessionType]
    /\ job \in [Procs -> JobType]
    /\ hist \in [Sessions -> HistoryType]

(* A session is never charged for more seconds than it transcribed, as     *)
(* long as no failed charge was repeated, no attach came late and no       *)
(* operations overlapped on it but those in Followed.  With {"stop",       *)
(* "bill"} among them it says that the settlement flag keeps a stop and    *)
(* realtime billing from charging the same seconds.                        *)
NeverOvercharged ==
    \A s \in Sessions : ~hist[s].spoiled => hist[s].billed <= hist[s].used

(* A stopped session that was never paused, had its meeting before it had  *)
(* seconds to charge and was refused no charge is charged to the second.   *)
ChargedToTheSecond ==
    \A s \in Sessions :
        /\ hist[s].settled /\ ~hist[s].spoiled /\ ~hist[s].short
        => hist[s].billed = hist[s].used

(* The goroutines that are settling session s. *)
Settlers(s) == {p \in Procs : At(p, "stop", "charge") /\ job[p].s = s}

(* Two settlements of a session never run at once, and no settlement is    *)
(* left open: the flag is up exactly while one goroutine is in one.        *)
OneSettlement ==
    \A s \in Sessions :
        /\ sess[s].settling <=> Settlers(s) # {}
        /\ \A p, q \in Settlers(s) : p = q

-----------------------------------------------------------------------------
(* What comments of the code say and it does not do.                       *)

(* A stop that finds nothing outstanding logs that all time was charged.   *)
NothingOutstandingMeansAllCharged ==
    \A s \in Sessions :
        hist[s].clear /\ ~hist[s].spoiled => hist[s].billed >= hist[s].used

(* A resume turns realtime billing on again: a transcribing session in the *)
(* cache that nobody is working on is billed.                              *)
ResumeReenablesBilling ==
    \A s \in Sessions :
        /\ cached = s /\ Transcribing(s)
        /\ \A p \in Procs : job[p].s # s
        => sess[s].billing

(* A stop deletes its session from the cache, and no other: a session that *)
(* transcribes and that nobody is working on is in the cache, where        *)
(* realtime billing and the balance check look for it.                     *)
LiveSessionIsCached ==
    \A s \in Sessions :
        Transcribing(s) => cached = s \/ \E p \in Procs : job[p].s = s
=============================================================================
