-------------------------- MODULE SessionLifecycle --------------------------
(* The websocket sessions of one user: WebSocketSessionManager, the          *)
(* connection, command and disconnect handlers of WebSocketHandler, the      *)
(* session health checker and the unified cleanup service.                   *)
(*                                                                           *)
(* A session is numbered in the order of connects. Each has a goroutine that *)
(* reads its commands; Workers are the other goroutines: health checker,     *)
(* cleanup service, forced stop. A goroutine carries out a program, the      *)
(* sequence todo of the steps it still has to take on the session `on`; the  *)
(* same step stands for the same function wherever it is called. A step ends *)
(* where the code gives up a lock or calls another component. What the code  *)
(* does "by user id" it does to cur, the session registered at that moment,  *)
(* or to tm, the time manager's session of the user.                         *)
EXTENDS Naturals, Sequences, FiniteSets

CONSTANTS
    MaxSessions,    \* bound on connects
    MaxMeetings,    \* bound on transcriptions started
    Workers,        \* goroutines other than the readers
    Kinds           \* what they do: "health", "cleanup", "forced"

ASSUME LifecycleAssumption ==
    /\ MaxSessions \in Nat \ {0} /\ MaxMeetings \in Nat \ {0}
    /\ Workers \cap Nat = {}
    /\ Kinds \subseteq {"health", "cleanup", "forced"}

VARIABLES
    sess,       \* session objects
    cur,        \* m.sessions[userID], 0 if none
    tm,         \* the time manager's SessionInfo of the user
    status,     \* status column of each meeting
    timed,      \* meetings whose duration column is written
    todo,       \* what each goroutine still has to do
    on,         \* the session it does it on
    spoiled     \* history: a session was cleaned up in another's place

vars == <<sess, cur, tm, status, timed, todo, on, spoiled>>

Sessions == 1..MaxSessions
Meetings == 1..MaxMeetings
Goroutines == Sessions \cup Workers

\* Steps a program is made of.
Steps == {"StartTM", "Dial", "Started", "Resumed", "PauseTM", "PauseDone",
          "ResumeTM", "RestartTM", "StopTM", "StopCmd", "StopFlags", "Await",
          "MarkFailed", "Complete", "CloseRemote", "CloseEmpty", "Remove", "Close", "Return",
          "HealthClose", "CloseListed", "Verify"}

Closed == [conn |-> "none", ctx |-> FALSE, hung |-> FALSE, tr |-> FALSE,
           paused |-> FALSE, stopped |-> FALSE, remote |-> "none",
           uuid |-> 0, meeting |-> 0, stats |-> FALSE, started |-> FALSE,
           late |-> FALSE]
NoSession == [st |-> "none", uuid |-> 0]

TypeOK ==
    /\ sess \in [Sessions ->
          [conn : {"none", "open", "gone", "closed"}, ctx : BOOLEAN,
           hung : BOOLEAN, tr : BOOLEAN, paused : BOOLEAN, stopped : BOOLEAN,
           remote : {"none", "open"}, uuid : 0..MaxMeetings,
           meeting : 0..MaxMeetings, stats : BOOLEAN, started : BOOLEAN,
          late : BOOLEAN]]
    /\ cur \in 0..MaxSessions
    /\ tm \in [st : {"none", "transcribing", "paused"}, uuid : 0..MaxMeetings]
    /\ status \in [Meetings -> {"none", "active", "paused", "completed",
                                "failed", "deleted"}]
    /\ timed \subseteq Meetings
    /\ todo \in [Goroutines -> Seq(Steps)]
    /\ on \in [Goroutines -> 0..MaxSessions]
    /\ spoiled \in BOOLEAN

Init ==
    /\ sess = [s \in Sessions |-> Closed]
    /\ cur = 0 /\ tm = NoSession
    /\ status = [m \in Meetings |-> "none"] /\ timed = {}
    /\ todo = [g \in Goroutines |-> << >>]
    /\ on = [g \in Goroutines |-> IF g \in Sessions THEN g ELSE 0]
    /\ spoiled = FALSE
-----------------------------------------------------------------------------
(* Programs and steps *)

At(g, step) == todo[g] # << >> /\ Head(todo[g]) = step
\* The goroutine goes on with a program; a worker without one has no session.
Goto(g, program) ==
    /\ todo' = [todo EXCEPT ![g] = program]
    /\ on' = IF program = << >> /\ g \in Workers THEN [on EXCEPT ![g] = 0] ELSE on
Then(g) == Goto(g, Tail(todo[g]))
S(g) == sess[on[g]]
Put(g, r) == sess' = [sess EXCEPT ![on[g]] = r]

\* The programs of the commands, and of the workers.
StartProgram == <<"StartTM", "Dial", "Started">>
StopProgram == <<"StopCmd", "StopFlags", "Await">>

\* Mutant: the health checker closes the session and forgets its time.
Tasks_HealthForgetsTime ==
    [health  |-> <<"HealthClose", "Remove">>,
     cleanup |-> <<"StopTM", "CloseListed", "Verify">>, forced |-> StopProgram]

Tasks == [health  |-> <<"StopTM", "HealthClose", "Remove">>,
          cleanup |-> <<"StopTM", "CloseListed", "Verify">>,
          forced  |-> StopProgram]

\* The reader of s is in its loop, between two messages.
Reading(s) == sess[s].conn # "none" /\ ~sess[s].hung /\ todo[s] = << >>
\* HandleConnection has returned.
Returned(s) == sess[s].conn # "none" /\ sess[s].hung /\ todo[s] = << >>
               /\ sess[s].ctx
Ahead(g, steps) == \E i \in DOMAIN todo[g] : todo[g][i] \in steps

\* A worker has stopped the time manager for s and will close s: what s starts
\* now is late. So is what starts after a stop, refused or not, because nothing
\* takes isStopped back.
Doomed(s) == \E w \in Workers : on[w] = s /\ At(w, "HealthClose")
Begun(g, r) == Put(g, [r EXCEPT !.late = @ \/ r.stopped \/ Doomed(on[g])])
\* Mutant: a close that is forgotten.
HangUp_Forgotten(r) == r

\* Closing the remote connection ends its receiver, which clears the flag.
HangUp(r) == [r EXCEPT !.remote = "none", !.tr = @ /\ r.remote = "none"]

\* Mutant: the connection of a replaced session stays open.
AfterClose_RemoteOnly(r) == HangUp(r)

\* session.Close: the second close of the same connection returns an error.
AfterClose(r) == [HangUp(r) EXCEPT !.ctx = TRUE, !.conn = "closed"]
-----------------------------------------------------------------------------
(* Connections *)

\* CreateSession under m.mu: the old session is closed and unregistered; the
\* new one takes over the UUID of the time manager's session.
Connect(n) ==
    /\ sess[n].conn = "none" /\ \A k \in 1..(n - 1) : sess[k].conn # "none"
    /\ sess' = [s \in Sessions |->
                  CASE s = n -> [Closed EXCEPT !.conn = "open", !.uuid = tm.uuid]
                    [] s = cur -> AfterClose(sess[s])
                    [] OTHER -> sess[s]]
    /\ cur' = n
    /\ UNCHANGED <<tm, status, timed, todo, on, spoiled>>

\* The client goes away; the server has not noticed.
ClientLeaves(s) ==
    /\ sess[s].conn = "open"
    /\ sess' = [sess EXCEPT ![s].conn = "gone"]
    /\ UNCHANGED <<cur, tm, status, timed, todo, on, spoiled>>

\* ReadMessage fails or the context is done: handleClientDisconnect reads the
\* flags and decides. Only a stopped session is taken down, any other is kept
\* for a reconnect.
ReaderEnds(s) ==
    LET r == sess[s]
        due == r.meeting # 0 /\ r.started /\ ~r.stats
        opt(c, step) == IF c THEN <<step>> ELSE << >>
    IN
    /\ r.conn # "none" /\ todo[s] = << >> /\ ~Returned(s)
    /\ r.conn # "open" \/ r.ctx
    /\ sess' = [sess EXCEPT ![s].hung = TRUE]
    /\ Goto(s, (IF ~r.stopped THEN opt(due, "MarkFailed") \o <<"Return">>
                ELSE <<"Complete">> \o opt(r.tr /\ ~r.paused, "StopTM")
                     \o <<IF r.paused THEN "CloseRemote" ELSE "CloseEmpty", "Remove", "Close">>))
    /\ UNCHANGED <<cur, tm, status, timed, spoiled>>

\* A failed ping closes the session, while its context lives.
PingFails(s) ==
    /\ sess[s].conn \in {"gone", "closed"} /\ ~sess[s].ctx
    /\ sess' = [sess EXCEPT ![s] = AfterClose(@)]
    /\ UNCHANGED <<cur, tm, status, timed, todo, on, spoiled>>

\* The remote service is lost and the reconnect fails.
RemoteLost(s) ==
    /\ sess[s].remote = "open" /\ ~sess[s].ctx /\ ~sess[s].stopped
    /\ sess' = [sess EXCEPT ![s].remote = "none", ![s].tr = FALSE]
    /\ tm' = NoSession
    /\ UNCHANGED <<cur, status, timed, todo, on, spoiled>>

\* The first result of a transcription creates the meeting if the start could
\* not, and sends the started message.
FirstFinal(s) ==
    LET r == sess[s] IN
    /\ r.remote = "open" /\ r.tr /\ ~r.started /\ r.uuid # 0
    /\ sess' = [sess EXCEPT ![s].started = TRUE, ![s].meeting = IF @ = 0 THEN r.uuid ELSE @]
    /\ status' = IF r.meeting = 0 /\ status[r.uuid] = "none"
                 THEN [status EXCEPT ![r.uuid] = "active"] ELSE status
    /\ UNCHANGED <<cur, tm, timed, todo, on, spoiled>>
-----------------------------------------------------------------------------
(* Commands, on the reader's goroutine *)

\* A message is read: the reader begins the program of the command.
Read(s, program) ==
    /\ Reading(s) /\ sess[s].conn = "open" /\ ~sess[s].ctx
    /\ Goto(s, program)
    /\ UNCHANGED spoiled

\* handleStart and resetSessionForNewStart. The duplicate check looks at flags
\* of SessionInfo that nothing sets, so a second start stops the first.
Reset(r) == [r EXCEPT !.tr = FALSE, !.paused = FALSE, !.remote = "none",
                      !.uuid = 0, !.meeting = 0, !.stats = FALSE, !.started = FALSE]
ReadStart(s) ==
    /\ Read(s, StartProgram)
    /\ sess' = [sess EXCEPT ![s] = Reset(@)]
    /\ tm' = IF sess[s].tr THEN NoSession ELSE tm
    /\ UNCHANGED <<cur, status, timed>>

ReadPause(s) ==
    /\ sess[s].tr /\ ~sess[s].paused
    /\ Read(s, <<"PauseTM", "PauseDone">>)
    /\ UNCHANGED <<sess, cur, tm, status, timed>>

\* handleResume: what the time manager still has is resumed, or else the
\* session's own meeting is transcribed again, or else it is a start.
ReadResume(s) ==
    LET r == sess[s]
        u == IF tm.st # "none" THEN tm.uuid ELSE r.uuid
        found == IF r.meeting # 0 THEN r.meeting
                 ELSE IF u # 0 /\ status[u] \notin {"none", "deleted"} THEN u ELSE 0
    IN
    /\ u # 0
    /\ IF tm.st = "none" /\ found = 0
       THEN /\ Read(s, StartProgram)
            /\ sess' = [sess EXCEPT ![s] = Reset(@)]
                    /\ UNCHANGED <<cur, tm, status, timed>>
       ELSE /\ Read(s, <<IF tm.st = "none" THEN "RestartTM" ELSE "ResumeTM",
                         "Dial", "Resumed">>)
            /\ sess' = [sess EXCEPT ![s].uuid = u, ![s].meeting = found]
            /\ UNCHANGED <<cur, tm, status, timed>>

ReadStop(s) ==
    /\ Read(s, StopProgram)
    /\ sess' = [sess EXCEPT ![s].stopped = TRUE]
    /\ UNCHANGED <<cur, tm, status, timed>>
-----------------------------------------------------------------------------
(* Steps of the commands *)

Unused(m) == status[m] = "none" /\ tm.uuid # m /\ \A s \in Sessions : sess[s].uuid # m

\* A command is given up: what is left of its program is dropped.
GiveUp(g) == Goto(g, << >>)

\* verifyStateConsistency: the flags follow the time manager.
Aligned(r, st) == [r EXCEPT !.tr = st = "transcribing", !.paused = st = "paused"]

\* StartTranscription replaces the user's session or is refused; then the
\* meeting is created, if it can be.
StartTM(g) ==
    /\ At(g, "StartTM")
    /\ \/ /\ \E m \in Meetings, created \in BOOLEAN :
             /\ Unused(m) /\ \A k \in 1..(m - 1) : ~Unused(k)
             /\ tm' = [st |-> "transcribing", uuid |-> m]
             /\ Begun(g, [Aligned(S(g), "transcribing") EXCEPT
                            !.uuid = m, !.meeting = IF created THEN m ELSE 0])
             /\ status' = IF created THEN [status EXCEPT ![m] = "active"] ELSE status
          /\ Then(g)
       \/ tm' = NoSession /\ GiveUp(g) /\ UNCHANGED <<sess, status>>
    /\ UNCHANGED <<cur, timed, spoiled>>

\* Connecting fails when the context is done, and may fail anyway; the time
\* manager is stopped again.
Dial(g) ==
    /\ At(g, "Dial")
    /\ \/ ~S(g).ctx /\ Then(g) /\ UNCHANGED tm
       \/ tm' = NoSession /\ GiveUp(g)
    /\ UNCHANGED <<sess, cur, status, timed, spoiled>>

\* The configuration is answered, whatever has become of the session, or not;
\* late remembers that the session was closed meanwhile.
Configured(g, resumed) ==
    /\ Put(g, [S(g) EXCEPT !.remote = "open", !.tr = TRUE, !.paused = FALSE,
                           !.late = @ \/ S(g).ctx,
                           !.stats = IF resumed /\ S(g).meeting # 0 THEN FALSE ELSE @])
    /\ status' = IF resumed /\ S(g).meeting # 0
                 THEN [status EXCEPT ![S(g).meeting] = "active"] ELSE status
    /\ Then(g) /\ UNCHANGED tm
ConfigFails(g) ==
    /\ Put(g, HangUp(S(g)))
    /\ tm' = NoSession /\ GiveUp(g)
    /\ UNCHANGED status
Started(g) ==
    /\ At(g, "Started") /\ (Configured(g, FALSE) \/ ConfigFails(g))
    /\ UNCHANGED <<cur, timed, spoiled>>
Resumed(g) ==
    /\ At(g, "Resumed") /\ (Configured(g, TRUE) \/ ConfigFails(g))
    /\ UNCHANGED <<cur, timed, spoiled>>

PauseTM(g) ==
    /\ At(g, "PauseTM")
    /\ IF tm.st = "transcribing"
       THEN /\ tm' = [tm EXCEPT !.st = "paused"]
            /\ Put(g, Aligned(S(g), "paused"))
            /\ Then(g)
       ELSE GiveUp(g) /\ UNCHANGED <<sess, tm>>
    /\ UNCHANGED <<cur, status, timed, spoiled>>

\* The remote connection is closed, the meeting is paused and the client is
\* disconnected, to come back with a resume.
PauseDone(g) ==
    /\ At(g, "PauseDone")
    /\ Put(g, [AfterClose(S(g)) EXCEPT !.tr = FALSE, !.paused = TRUE])
    /\ status' = IF S(g).meeting # 0 THEN [status EXCEPT ![S(g).meeting] = "paused"] ELSE status
    /\ Then(g) /\ UNCHANGED <<cur, tm, timed, spoiled>>

ResumeTM(g) ==
    /\ At(g, "ResumeTM")
    /\ IF tm.st = "none" THEN GiveUp(g) /\ UNCHANGED <<sess, tm>>
       ELSE /\ tm' = [tm EXCEPT !.st = "transcribing"]
            /\ Begun(g, S(g)) /\ Then(g)
    /\ UNCHANGED <<cur, status, timed, spoiled>>
RestartTM(g) ==
    /\ At(g, "RestartTM")
    /\ \/ /\ tm' = [st |-> "transcribing", uuid |-> S(g).uuid]
          /\ Begun(g, S(g)) /\ Then(g)
       \/ tm' = NoSession /\ GiveUp(g) /\ UNCHANGED sess
    /\ UNCHANGED <<cur, status, timed, spoiled>>

\* The stop of a command; without a session the command ends with an error.
StopCmd(g) ==
    /\ At(g, "StopCmd")
    /\ IF tm.st = "none" THEN GiveUp(g) ELSE Then(g)
    /\ tm' = NoSession
    /\ UNCHANGED <<sess, cur, status, timed, spoiled>>

\* updateMeetingStatistics with end time writes status and duration;
\* cleanupEmptyMeeting deletes a meeting that is active and has no duration.
Ended(m, st) == [status EXCEPT ![m] = st]

\* Mutant: empty meetings stay.
Emptied_Never(r, st, written) == st

Emptied(r, st, written) ==
    LET m == IF r.meeting # 0 THEN r.meeting ELSE r.uuid IN
    IF m # 0 /\ st[m] = "active" /\ m \notin written THEN [st EXCEPT ![m] = "deleted"] ELSE st

\* handleStop after the stop: remote connection, flags, meeting.
StopFlags(g) ==
    LET r == S(g)
        counts == r.meeting # 0 /\ r.started
        written == IF counts THEN timed \cup {r.meeting} ELSE timed
    IN
    /\ At(g, "StopFlags")
    /\ Put(g, [r EXCEPT !.remote = "none", !.tr = FALSE,
                        !.paused = FALSE, !.stats = counts \/ @])
    /\ timed' = written
    /\ status' = Emptied(r, IF counts THEN Ended(r.meeting, "completed") ELSE status, written)
    /\ Then(g) /\ UNCHANGED <<cur, tm, spoiled>>

\* Three seconds for the client to disconnect, then its connection is closed.
Await(g) ==
    /\ At(g, "Await")
    /\ Put(g, [S(g) EXCEPT !.conn = IF S(g).hung THEN @ ELSE "closed"])
    /\ Then(g) /\ UNCHANGED <<cur, tm, status, timed, spoiled>>
-----------------------------------------------------------------------------
(* Steps of the disconnect *)

MarkFailed(g) ==
    /\ At(g, "MarkFailed")
    /\ Put(g, [S(g) EXCEPT !.stats = TRUE])
    /\ status' = IF S(g).meeting # 0 THEN Ended(S(g).meeting, "failed") ELSE status
    /\ timed' = timed \cup ({S(g).meeting} \ {0})
    /\ Then(g) /\ UNCHANGED <<cur, tm, spoiled>>

\* Check and set of StatisticsUpdated under one lock.
Complete(g) ==
    /\ At(g, "Complete")
    /\ IF S(g).meeting # 0 /\ S(g).started /\ ~S(g).stats
       THEN /\ Put(g, [S(g) EXCEPT !.stats = TRUE])
            /\ status' = Ended(S(g).meeting, "completed")
            /\ timed' = timed \cup {S(g).meeting}
       ELSE UNCHANGED <<sess, status, timed>>
    /\ Then(g) /\ UNCHANGED <<cur, tm, spoiled>>

\* Mutant: the time manager is not stopped.
StopTM_Skipped(g) ==
    /\ At(g, "StopTM") /\ Then(g)
    /\ UNCHANGED <<sess, cur, tm, status, timed, spoiled>>

StopTM(g) ==
    /\ At(g, "StopTM") /\ tm' = NoSession /\ Then(g)
    /\ UNCHANGED <<sess, cur, status, timed, spoiled>>

\* The remote connection is closed; an empty meeting is deleted unless paused.
CloseRemote(g) ==
    /\ At(g, "CloseRemote") /\ Put(g, HangUp(S(g))) /\ Then(g)
    /\ UNCHANGED <<cur, tm, status, timed, spoiled>>
CloseEmpty(g) ==
    /\ At(g, "CloseEmpty") /\ Put(g, HangUp(S(g))) /\ Then(g)
    /\ status' = Emptied(S(g), status, timed)
    /\ UNCHANGED <<cur, tm, timed, spoiled>>

\* RemoveSession takes the user's entry, whichever session it is.
Remove(g) ==
    /\ At(g, "Remove")
    /\ cur' = 0
    /\ spoiled' = (spoiled \/ cur \notin {0, on[g]})
    /\ Then(g) /\ UNCHANGED <<sess, tm, status, timed>>

Close(g) ==
    /\ At(g, "Close") /\ Put(g, AfterClose(S(g))) /\ Then(g)
    /\ UNCHANGED <<cur, tm, status, timed, spoiled>>

\* HandleConnection returns and with it the request, whose context is the
\* parent of the session's.
Return(g) ==
    /\ At(g, "Return") /\ Put(g, [S(g) EXCEPT !.ctx = TRUE]) /\ Then(g)
    /\ UNCHANGED <<cur, tm, status, timed, spoiled>>
-----------------------------------------------------------------------------
(* Health checker, cleanup service and forced stop *)

\* The worker finds the session of the user. The cleanup holds the user's lock.
Begin(w, kind) ==
    /\ todo[w] = << >>
    /\ kind \in {"health", "forced"} => cur # 0
    /\ kind = "forced" => tm.st = "transcribing"
    /\ kind = "cleanup" => \A v \in Workers : ~Ahead(v, {"Verify"})
    /\ todo' = [todo EXCEPT ![w] = Tasks[kind]]
    /\ on' = [on EXCEPT ![w] = cur]
    /\ UNCHANGED <<sess, cur, tm, status, timed, spoiled>>

\* cleanupSession of the health checker, before it takes the entry.
HealthClose(w) ==
    /\ At(w, "HealthClose")
    /\ Put(w, [AfterClose(S(w)) EXCEPT !.tr = FALSE, !.paused = FALSE])
    /\ Then(w) /\ UNCHANGED <<cur, tm, status, timed, spoiled>>

\* cleanupWebSocketConnections closes what is registered and removes the entry.
CloseListed(w) ==
    /\ At(w, "CloseListed")
    /\ IF cur = 0 THEN Then(w) /\ UNCHANGED sess
       ELSE /\ sess' = [sess EXCEPT ![cur] = AfterClose(@)]
            /\ IF sess[cur].conn = "closed" THEN Then(w)
               ELSE Goto(w, <<"Remove">> \o Tail(todo[w]))
    /\ spoiled' = (spoiled \/ cur \notin {0, on[w]})
    /\ UNCHANGED <<cur, tm, status, timed>>

\* cleanupRemoteConnections closes what a registered session still has, and
\* verifyCleanupResult stops what is left in the time manager once more.
Verify(w) ==
    /\ At(w, "Verify") /\ tm' = NoSession /\ Then(w)
    /\ sess' = IF cur # 0 THEN [sess EXCEPT ![cur] = HangUp(@)] ELSE sess
    /\ UNCHANGED <<cur, status, timed, spoiled>>
-----------------------------------------------------------------------------
Step(g) ==
    \/ StartTM(g) \/ Dial(g) \/ Started(g) \/ Resumed(g) \/ PauseTM(g) \/ PauseDone(g)
    \/ ResumeTM(g) \/ RestartTM(g) \/ StopCmd(g) \/ StopFlags(g) \/ Await(g) \/ MarkFailed(g)
    \/ Complete(g) \/ StopTM(g) \/ CloseRemote(g) \/ CloseEmpty(g) \/ Remove(g) \/ Close(g)
    \/ Return(g) \/ HealthClose(g) \/ CloseListed(g) \/ Verify(g)

Next ==
    \/ \E s \in Sessions :
          \/ Connect(s) \/ ClientLeaves(s) \/ ReaderEnds(s) \/ PingFails(s)
          \/ RemoteLost(s) \/ FirstFinal(s)
          \/ ReadStart(s) \/ ReadPause(s) \/ ReadResume(s) \/ ReadStop(s)
    \/ \E w \in Workers, kind \in Kinds : Begin(w, kind)
    \/ \E g \in Goroutines : Step(g)

\* Goroutines go on, readers notice that the connection is gone, and the health
\* checker's ticker brings it to a session whose handler has returned: nothing
\* updates the activity of such a session, so a threshold passes.
Fairness ==
    /\ \A g \in Goroutines : WF_vars(Step(g))
    /\ \A s \in Sessions : WF_vars(ReaderEnds(s))
    /\ \A w \in Workers : SF_vars(cur # 0 /\ Returned(cur) /\ Begin(w, "health"))

Spec == Init /\ [][Next]_vars /\ Fairness
-----------------------------------------------------------------------------
(* Properties *)

\* A session whose client is connected and being read is the one registered
\* for the user (websocket_session.go:552, :783): warnings, forced stops and
\* the health checker reach it.
LiveIsRegistered ==
    spoiled \/ \A s \in Sessions :
        (Reading(s) /\ sess[s].conn = "open" /\ ~sess[s].ctx) => cur = s

\* No user without a registered session is left transcribing, hence billed,
\* once every goroutine is through (websocket_handler.go:1117,
\* session_health_checker.go:262): nobody would ever stop it.
Quiet == \A g \in Goroutines : todo[g] = << >>
NobodyBilledUnseen ==
    (Quiet /\ cur = 0 /\ tm.st = "transcribing")
        => spoiled \/ \E s \in Sessions : sess[s].late \/ Reading(s)

\* A session that is neither registered nor read, and that nobody works on, has
\* no open remote connection and so no key (remote_connection.go:381), unless
\* the connection was made after the session was closed.
NoLeakedRemote ==
    spoiled \/ \A s \in Sessions :
        (s # cur /\ Returned(s) /\ \A w \in Workers : on[w] # s)
            => sess[s].remote = "none" \/ sess[s].late

\* When everything is through, the meeting of a session the user stopped is
\* completed or, if it stayed empty, deleted (websocket_commands.go:901,
\* websocket_handler.go:1190), as long as the user had no other
\* session (a reconnect takes the meeting over).
StoppedIsSettled ==
    Quiet => spoiled \/ \A s \in Sessions :
        LET r == sess[s]
            m == IF r.meeting # 0 THEN r.meeting ELSE r.uuid
            own == \A k \in Sessions \ {s} : sess[k].conn = "none"
        IN (r.stopped /\ Returned(s) /\ ~r.late /\ m # 0 /\ own)
               => status[m] \in {"none", "completed", "deleted"}

\* A paused meeting stays paused until it is resumed or stopped
\* (websocket_handler.go:1157: if pause has written, the disconnect does not).
PausedStaysPaused ==
    [][\A m \in Meetings : status[m] = "paused" => status'[m] # "failed"]_vars

\* A user who went away while transcribing is stopped in the end, or is back:
\* the health checker finds the session that the disconnect kept for a
\* reconnect (websocket_handler.go:1131, session_health_checker.go:148), unless
\* a session was cleaned up in another's place or started late.
AbandonedStops ==
    (cur # 0 /\ Returned(cur) /\ tm.st = "transcribing")
        ~> \/ tm.st # "transcribing" \/ spoiled
           \/ \E s \in Sessions : sess[s].late \/ (s = cur /\ ~Returned(s))
=============================================================================
