------------------------ MODULE SessionLifecycleProofs ------------------------
(* Theorems about SessionLifecycle, for any number of sessions, meetings and *)
(* workers.                                                                  *)
(*                                                                           *)
(* The argument speaks of the phase a goroutine is in rather than of the     *)
(* program it has left: Known are the programs that occur, Phase says what   *)
(* one is about, Course which phase follows which step.  The inductive       *)
(* invariant is Sound /\ Rest.  Sound is the type and                        *)
(*   Programs    who does what, on which session, and which of its flags     *)
(*               that fixes,                                                 *)
(*   Safe        unless a session was cleaned up in another's place: what    *)
(*               lives is registered, what is not registered has no remote   *)
(*               connection, and somebody will stop a transcription.         *)
(* Rest says of the database, as long as the user has had one session only,  *)
(*   Untouched, Fresh   which rows and durations there are at all,           *)
(*   Settling    what the flags of the session say of the meeting's row      *)
(*               (Books), and what a stop has left to do (Stopped).          *)
EXTENDS SessionLifecycle, TLAPS

Session == [conn : {"none", "open", "gone", "closed"}, ctx : BOOLEAN,
            hung : BOOLEAN, tr : BOOLEAN, paused : BOOLEAN, stopped : BOOLEAN,
            remote : {"none", "open"}, uuid : 0..MaxMeetings,
            meeting : 0..MaxMeetings, stats : BOOLEAN, started : BOOLEAN,
            late : BOOLEAN]
Status == {"none", "active", "paused", "completed", "failed", "deleted"}

-----------------------------------------------------------------------------
(* Programs and their phases *)

\* What a goroutine may have left to do.
Known ==
    {<< >>,
     <<"StartTM", "Dial", "Started">>, <<"ResumeTM", "Dial", "Resumed">>,
     <<"RestartTM", "Dial", "Resumed">>,
     <<"Dial", "Started">>, <<"Dial", "Resumed">>, <<"Started">>, <<"Resumed">>,
     <<"PauseTM", "PauseDone">>, <<"PauseDone">>,
     <<"StopCmd", "StopFlags", "Await">>, <<"StopFlags", "Await">>, <<"Await">>,
     <<"MarkFailed", "Return">>, <<"Return">>,
     <<"Complete", "StopTM", "CloseEmpty", "Remove", "Close">>,
     <<"Complete", "CloseRemote", "Remove", "Close">>,
     <<"Complete", "CloseEmpty", "Remove", "Close">>,
     <<"StopTM", "CloseEmpty", "Remove", "Close">>,
     <<"CloseRemote", "Remove", "Close">>, <<"CloseEmpty", "Remove", "Close">>,
     <<"Remove", "Close">>, <<"Close">>,
     <<"StopTM", "HealthClose", "Remove">>, <<"HealthClose", "Remove">>, <<"Remove">>,
     <<"StopTM", "CloseListed", "Verify">>, <<"CloseListed", "Verify">>,
     <<"Remove", "Verify">>, <<"Verify">>}

\* What a program is about.
Phase(p) ==
    IF p = << >> THEN "idle" ELSE
    CASE Head(p) = "StartTM" -> "starting"
      [] Head(p) \in {"ResumeTM", "RestartTM"} -> "resuming"
      [] Head(p) \in {"Dial", "Started", "Resumed"} -> "opening"
      [] Head(p) = "PauseTM" -> "pausing"
      [] Head(p) = "PauseDone" -> "paused"
      [] Head(p) = "StopCmd" -> "stopping"
      [] Head(p) \in {"StopFlags", "Await"} -> "stopped"
      [] Head(p) = "MarkFailed" -> "failing"
      [] Head(p) = "Return" -> "leaving"
      [] Head(p) = "Complete" ->
           IF p[Len(p) - 2] = "CloseRemote" THEN "completingPaused" ELSE "completing"
      [] Head(p) = "StopTM" ->
           CASE p[2] = "CloseEmpty" -> "closing"
             [] p[2] = "HealthClose" -> "found"
             [] OTHER -> "cleaning"
      [] Head(p) = "CloseRemote" -> "closingPaused"
      [] Head(p) = "CloseEmpty" -> "closing"
      [] Head(p) = "Remove" ->
           IF Len(p) = 1 THEN "removing" ELSE IF p[2] = "Close" THEN "closed" ELSE "listed"
      [] Head(p) = "Close" -> "closed"
      [] Head(p) = "HealthClose" -> "doomed"
      [] OTHER -> "cleaning"

Commands == {"starting", "resuming", "opening", "pausing", "paused", "stopping", "stopped"}
Leaving == {"failing", "leaving"}
TakingDown == {"completing", "completingPaused", "closing", "closingPaused", "closed"}
Health == {"found", "doomed", "removing"}
Cleaning == {"cleaning", "listed"}

-----------------------------------------------------------------------------
(* The inductive invariant *)

Doing(g) == Phase(todo[g])

Programs ==
    /\ \A g \in Goroutines : todo[g] \in Known
    /\ \A s \in Sessions : on[s] = s /\ Doing(s) \in {"idle"} \cup Commands \cup Leaving \cup TakingDown
    /\ \A w \in Workers :
          /\ Doing(w) \in {"idle", "stopping", "stopped"} \cup Health \cup Cleaning
          /\ Doing(w) \in {"stopping", "stopped"} \cup Health => on[w] # 0
          /\ on[w] # 0 => sess[on[w]].conn # "none"
    /\ cur # 0 => sess[cur].conn # "none"
    /\ \A s \in Sessions :
          /\ sess[s].conn = "none" => sess[s] = Closed /\ Doing(s) = "idle"
          /\ Doing(s) \in Leaving => sess[s].hung /\ ~sess[s].stopped
          /\ Doing(s) \in TakingDown => sess[s].hung /\ sess[s].stopped
          /\ Doing(s) \in Commands => ~sess[s].hung

\* A session that lives is the one registered; who takes the entry away has
\* closed the session it belongs to.
Registered ==
    /\ \A s \in Sessions : sess[s].conn # "none" /\ ~sess[s].ctx /\ ~sess[s].hung => cur = s
    /\ \A w \in Workers : Doing(w) \in {"removing", "listed"} => on[w] # 0 /\ sess[on[w]].ctx

\* The remote connection is closed before the entry is taken away.
Off(s) == sess[s].remote = "none" \/ sess[s].late
NoneOpen ==
    /\ \A s \in Sessions : s # cur \/ Doing(s) = "closed" => Off(s)
    /\ \A w \in Workers : Doing(w) \in {"removing", "listed"} => Off(on[w])

\* Settled: who closes the session has stopped the time manager for it.
\* A transcription has a registered session that is not, or a session that has
\* yet to learn that its connection fails, or a cleanup that will stop it.
Settled(c) == \/ sess[c].stopped /\ Doing(c) # "stopping"
              \/ \E w \in Workers : on[w] = c /\ Doing(w) \in {"doomed", "removing"}
Late == \E s \in Sessions : sess[s].late
Watched ==
    tm.st = "transcribing" =>
      \/ Late
      \/ cur # 0 /\ ~Settled(cur)
      \/ \E s \in Sessions : Doing(s) = "opening" /\ sess[s].ctx
      \/ \E w \in Workers : Doing(w) \in Cleaning

Safe == spoiled \/ (Registered /\ NoneOpen /\ Watched)

\* Before the first connect nothing is recorded.
Untouched == (\A s \in Sessions : sess[s].conn = "none") =>
     tm = NoSession /\ timed = {} /\ \A m \in Meetings : status[m] = "none"

\* A meeting without a row has no duration and no session holds it.
Fresh == \A m \in Meetings : status[m] = "none" =>
             m \notin timed /\ \A s \in Sessions : sess[s].meeting # m

\* What the flags of the user's only session say of the meeting's row.
Alone(s) == \A k \in Sessions \ {s} : sess[k].conn = "none"
Meeting(s) == IF sess[s].meeting # 0 THEN sess[s].meeting ELSE sess[s].uuid
Books(s) ==
    LET r == sess[s]  m == Meeting(s) IN
    /\ tm.st # "none" => tm.uuid = r.uuid \/ Doing(s) = "starting"
    /\ m # 0 /\ m \in timed => /\ r.meeting # 0 /\ r.started
                               /\ status[m] = "active" => ~r.stats
    /\ Doing(s) = "failing" => r.meeting # 0 /\ r.started
    /\ r.paused => r.ctx \/ Doing(s) = "paused"
    /\ \A k \in Meetings : /\ status[k] = "paused" => r.ctx
                           /\ status[k] = "failed" => r.hung
    /\ Doing(s) \in {"closing", "closingPaused"} => (m # 0 /\ status[m] = "active" => m \notin timed)

\* What a stop has done, and what the disconnect after it does.
Stopped(s) ==
    LET r == sess[s]  m == Meeting(s) IN
    /\ Doing(s) # "stopping" => tm.st = "none"
    /\ ~r.paused
    /\ Doing(s) \notin {"paused", "completingPaused", "closingPaused"}
    /\ \A k \in Meetings : status[k] \notin {"paused", "failed"}
    /\ r.hung /\ Doing(s) \in {"closed", "idle"}
         => r.remote = "none" /\ (m # 0 => status[m] # "active")
Settles(s) == Books(s) /\ (sess[s].stopped /\ ~sess[s].late => Stopped(s))
Settling == \A s \in Sessions : Alone(s) /\ sess[s].conn # "none" => Settles(s)
-----------------------------------------------------------------------------
(* From phase to phase *)

\* What the next step of a program is, and the phases before and after it.
Course(p) ==
    <<Head(p), Phase(p), Phase(Tail(p))>> \in
       {<<"StartTM", "starting", "opening">>,
        <<"ResumeTM", "resuming", "opening">>,
        <<"RestartTM", "resuming", "opening">>,
        <<"Dial", "opening", "opening">>,
        <<"Started", "opening", "idle">>,
        <<"Resumed", "opening", "idle">>,
        <<"PauseTM", "pausing", "paused">>,
        <<"PauseDone", "paused", "idle">>,
        <<"StopCmd", "stopping", "stopped">>,
        <<"StopFlags", "stopped", "stopped">>,
        <<"Await", "stopped", "idle">>,
        <<"MarkFailed", "failing", "leaving">>,
        <<"Return", "leaving", "idle">>,
        <<"Complete", "completing", "closing">>,
        <<"Complete", "completingPaused", "closingPaused">>,
        <<"StopTM", "cleaning", "cleaning">>,
        <<"StopTM", "closing", "closing">>,
        <<"StopTM", "found", "doomed">>,
        <<"CloseRemote", "closingPaused", "closed">>,
        <<"CloseEmpty", "closing", "closed">>,
        <<"Remove", "closed", "closed">>,
        <<"Remove", "listed", "cleaning">>,
        <<"Remove", "removing", "idle">>,
        <<"Close", "closed", "idle">>,
        <<"HealthClose", "doomed", "removing">>,
        <<"CloseListed", "cleaning", "cleaning">>,
        <<"Verify", "cleaning", "idle">>}

\* Every program that occurs has a next step, and what is left occurs too.
LEMMA ProgramGoesOn ==
  ASSUME NEW p \in Known
  PROVE  /\ p \in Seq(Steps)
         /\ IF p = << >> THEN Phase(p) = "idle"
            ELSE Tail(p) \in Known /\ Course(p) /\ Phase(p) # "idle"
<1>1. CASE p = <<"StartTM", "Dial", "Started">>
  <2>1. Tail(p) = <<"Dial", "Started">>
    BY <1>1
  <2>2. QED
    BY <1>1, <2>1 DEF Phase, Course, Known, Steps
<1>2. CASE p = <<"ResumeTM", "Dial", "Resumed">>
  <2>1. Tail(p) = <<"Dial", "Resumed">>
    BY <1>2
  <2>2. QED
    BY <1>2, <2>1 DEF Phase, Course, Known, Steps
<1>3. CASE p = <<"RestartTM", "Dial", "Resumed">>
  <2>1. Tail(p) = <<"Dial", "Resumed">>
    BY <1>3
  <2>2. QED
    BY <1>3, <2>1 DEF Phase, Course, Known, Steps
<1>4. CASE p = <<"Dial", "Started">>
  <2>1. Tail(p) = <<"Started">>
    BY <1>4
  <2>2. QED
    BY <1>4, <2>1 DEF Phase, Course, Known, Steps
<1>5. CASE p = <<"Dial", "Resumed">>
  <2>1. Tail(p) = <<"Resumed">>
    BY <1>5
  <2>2. QED
    BY <1>5, <2>1 DEF Phase, Course, Known, Steps
<1>6. CASE p = <<"Started">>
  <2>1. Tail(p) = << >>
    BY <1>6
  <2>2. QED
    BY <1>6, <2>1 DEF Phase, Course, Known, Steps
<1>7. CASE p = <<"Resumed">>
  <2>1. Tail(p) = << >>
    BY <1>7
  <2>2. QED
    BY <1>7, <2>1 DEF Phase, Course, Known, Steps
<1>8. CASE p = <<"PauseTM", "PauseDone">>
  <2>1. Tail(p) = <<"PauseDone">>
    BY <1>8
  <2>2. QED
    BY <1>8, <2>1 DEF Phase, Course, Known, Steps
<1>9. CASE p = <<"PauseDone">>
  <2>1. Tail(p) = << >>
    BY <1>9
  <2>2. QED
    BY <1>9, <2>1 DEF Phase, Course, Known, Steps
<1>10. CASE p = <<"StopCmd", "StopFlags", "Await">>
  <2>1. Tail(p) = <<"StopFlags", "Await">>
    BY <1>10
  <2>2. QED
    BY <1>10, <2>1 DEF Phase, Course, Known, Steps
<1>11. CASE p = <<"StopFlags", "Await">>
  <2>1. Tail(p) = <<"Await">>
    BY <1>11
  <2>2. QED
    BY <1>11, <2>1 DEF Phase, Course, Known, Steps
<1>12. CASE p = <<"Await">>
  <2>1. Tail(p) = << >>
    BY <1>12
  <2>2. QED
    BY <1>12, <2>1 DEF Phase, Course, Known, Steps
<1>13. CASE p = <<"MarkFailed", "Return">>
  <2>1. Tail(p) = <<"Return">>
    BY <1>13
  <2>2. QED
    BY <1>13, <2>1 DEF Phase, Course, Known, Steps
<1>14. CASE p = <<"Return">>
  <2>1. Tail(p) = << >>
    BY <1>14
  <2>2. QED
    BY <1>14, <2>1 DEF Phase, Course, Known, Steps
<1>15. CASE p = <<"Complete", "StopTM", "CloseEmpty", "Remove", "Close">>
  <2>1. Tail(p) = <<"StopTM", "CloseEmpty", "Remove", "Close">>
    BY <1>15
  <2>2. QED
    BY <1>15, <2>1 DEF Phase, Course, Known, Steps
<1>16. CASE p = <<"Complete", "CloseRemote", "Remove", "Close">>
  <2>1. Tail(p) = <<"CloseRemote", "Remove", "Close">>
    BY <1>16
  <2>2. QED
    BY <1>16, <2>1 DEF Phase, Course, Known, Steps
<1>17. CASE p = <<"Complete", "CloseEmpty", "Remove", "Close">>
  <2>1. Tail(p) = <<"CloseEmpty", "Remove", "Close">>
    BY <1>17
  <2>2. QED
    BY <1>17, <2>1 DEF Phase, Course, Known, Steps
<1>18. CASE p = <<"StopTM", "CloseEmpty", "Remove", "Close">>
  <2>1. Tail(p) = <<"CloseEmpty", "Remove", "Close">>
    BY <1>18
  <2>2. QED
    BY <1>18, <2>1 DEF Phase, Course, Known, Steps
<1>19. CASE p = <<"CloseRemote", "Remove", "Close">>
  <2>1. Tail(p) = <<"Remove", "Close">>
    BY <1>19
  <2>2. QED
    BY <1>19, <2>1 DEF Phase, Course, Known, Steps
<1>20. CASE p = <<"CloseEmpty", "Remove", "Close">>
  <2>1. Tail(p) = <<"Remove", "Close">>
    BY <1>20
  <2>2. QED
    BY <1>20, <2>1 DEF Phase, Course, Known, Steps
<1>21. CASE p = <<"Remove", "Close">>
  <2>1. Tail(p) = <<"Close">>
    BY <1>21
  <2>2. QED
    BY <1>21, <2>1 DEF Phase, Course, Known, Steps
<1>22. CASE p = <<"Close">>
  <2>1. Tail(p) = << >>
    BY <1>22
  <2>2. QED
    BY <1>22, <2>1 DEF Phase, Course, Known, Steps
<1>23. CASE p = <<"StopTM", "HealthClose", "Remove">>
  <2>1. Tail(p) = <<"HealthClose", "Remove">>
    BY <1>23
  <2>2. QED
    BY <1>23, <2>1 DEF Phase, Course, Known, Steps
<1>24. CASE p = <<"HealthClose", "Remove">>
  <2>1. Tail(p) = <<"Remove">>
    BY <1>24
  <2>2. QED
    BY <1>24, <2>1 DEF Phase, Course, Known, Steps
<1>25. CASE p = <<"Remove">>
  <2>1. Tail(p) = << >>
    BY <1>25
  <2>2. QED
    BY <1>25, <2>1 DEF Phase, Course, Known, Steps
<1>26. CASE p = <<"StopTM", "CloseListed", "Verify">>
  <2>1. Tail(p) = <<"CloseListed", "Verify">>
    BY <1>26
  <2>2. QED
    BY <1>26, <2>1 DEF Phase, Course, Known, Steps
<1>27. CASE p = <<"CloseListed", "Verify">>
  <2>1. Tail(p) = <<"Verify">>
    BY <1>27
  <2>2. QED
    BY <1>27, <2>1 DEF Phase, Course, Known, Steps
<1>28. CASE p = <<"Remove", "Verify">>
  <2>1. Tail(p) = <<"Verify">>
    BY <1>28
  <2>2. QED
    BY <1>28, <2>1 DEF Phase, Course, Known, Steps
<1>29. CASE p = <<"Verify">>
  <2>1. Tail(p) = << >>
    BY <1>29
  <2>2. QED
    BY <1>29, <2>1 DEF Phase, Course, Known, Steps
<1>30. CASE p = << >>
  BY <1>30 DEF Phase
<1>31. QED
  BY <1>1, <1>2, <1>3, <1>4, <1>5, <1>6, <1>7, <1>8, <1>9, <1>10, <1>11, <1>12, <1>13, <1>14, <1>15, <1>16, <1>17, <1>18, <1>19, <1>20, <1>21, <1>22, <1>23, <1>24, <1>25, <1>26, <1>27, <1>28, <1>29, <1>30 DEF Known

\* Short programs are put together as one expects.
LEMMA PairIs ==
  ASSUME NEW T, NEW x \in T, NEW y \in T, NEW c \in Seq(T), Len(c) = 2 /\ c[1] = x /\ c[2] = y
  PROVE  c = <<x, y>>
OBVIOUS

LEMMA FourIs ==
  ASSUME NEW T, NEW x \in T, NEW y \in T, NEW z \in T, NEW u \in T,
         NEW c \in Seq(T), Len(c) = 4 /\ c[1] = x /\ c[2] = y /\ c[3] = z /\ c[4] = u
  PROVE  c = <<x, y, z, u>>
OBVIOUS

LEMMA FiveIs ==
  ASSUME NEW T, NEW x \in T, NEW y \in T, NEW z \in T, NEW u \in T, NEW v \in T,
         NEW c \in Seq(T), Len(c) = 5 /\ c[1] = x /\ c[2] = y /\ c[3] = z /\ c[4] = u /\ c[5] = v
  PROVE  c = <<x, y, z, u, v>>
OBVIOUS

LEMMA Join2 ==
  ASSUME NEW T, NEW x \in T, NEW y \in T
  PROVE  <<x>> \o <<y>> = <<x, y>>
<1>1. ASSUME NEW c, c = <<x>> \o <<y>>
      PROVE  c \in Seq(T) /\ Len(c) = 2 /\ c[1] = x /\ c[2] = y
  BY <1>1
<1>2. QED
  BY <1>1, PairIs

LEMMA Join4 ==
  ASSUME NEW T, NEW x \in T, NEW y \in T, NEW z \in T, NEW u \in T
  PROVE  <<x>> \o <<y, z, u>> = <<x, y, z, u>>
<1>1. ASSUME NEW c, c = <<x>> \o <<y, z, u>>
      PROVE  c \in Seq(T) /\ Len(c) = 4 /\ c[1] = x /\ c[2] = y /\ c[3] = z /\ c[4] = u
  <2>1. c \in Seq(T)
    BY <1>1
  <2>2. Len(c) = 4
    BY <1>1
  <2>3. c[1] = x
    BY <1>1
  <2>4. c[2] = y
    BY <1>1
  <2>5. c[3] = z
    BY <1>1
  <2>6. c[4] = u
    BY <1>1
  <2>7. QED
    BY <2>1, <2>2, <2>3, <2>4, <2>5, <2>6
<1>2. x \in T /\ y \in T /\ z \in T /\ u \in T
  OBVIOUS
<1>3. ASSUME NEW c, c = <<x>> \o <<y, z, u>>
      PROVE  c = <<x, y, z, u>>
  <2>1. c \in Seq(T) /\ Len(c) = 4 /\ c[1] = x /\ c[2] = y /\ c[3] = z /\ c[4] = u
    BY <1>1, <1>3
  <2>2. QED
    BY ONLY <1>2, <2>1, FourIs
<1>4. QED
  BY <1>3

LEMMA Join5 ==
  ASSUME NEW T, NEW x \in T, NEW y \in T, NEW z \in T, NEW u \in T, NEW v \in T
  PROVE  <<x, y>> \o <<z, u, v>> = <<x, y, z, u, v>>
<1>1. ASSUME NEW c, c = <<x, y>> \o <<z, u, v>>
      PROVE  c \in Seq(T) /\ Len(c) = 5 /\ c[1] = x /\ c[2] = y /\ c[3] = z /\ c[4] = u /\ c[5] = v
  <2>1. c \in Seq(T)
    BY <1>1
  <2>2. Len(c) = 5
    BY <1>1
  <2>3. c[1] = x /\ c[2] = y
    BY <1>1
  <2>4. c[3] = z
    BY <1>1
  <2>5. c[4] = u
    BY <1>1
  <2>6. c[5] = v
    BY <1>1
  <2>7. QED
    BY <2>1, <2>2, <2>3, <2>4, <2>5, <2>6
<1>2. x \in T /\ y \in T /\ z \in T /\ u \in T /\ v \in T
  OBVIOUS
<1>3. ASSUME NEW c, c = <<x, y>> \o <<z, u, v>>
      PROVE  c = <<x, y, z, u, v>>
  <2>1. c \in Seq(T) /\ Len(c) = 5 /\ c[1] = x /\ c[2] = y /\ c[3] = z /\ c[4] = u /\ c[5] = v
    BY <1>1, <1>3
  <2>2. QED
    BY ONLY <1>2, <2>1, FiveIs
<1>4. QED
  BY <1>3

\* What the reader does when its connection has ended.
Disconnect(r) ==
    LET due == r.meeting # 0 /\ r.started /\ ~r.stats
        opt(c, step) == IF c THEN <<step>> ELSE << >>
    IN IF ~r.stopped THEN opt(due, "MarkFailed") \o <<"Return">>
       ELSE <<"Complete">> \o opt(r.tr /\ ~r.paused, "StopTM")
              \o <<IF r.paused THEN "CloseRemote" ELSE "CloseEmpty", "Remove", "Close">>

LEMMA DisconnectIs ==
  ASSUME NEW r \in Session
  PROVE  /\ Disconnect(r) \in Known
         /\ ~r.stopped => \/ /\ Phase(Disconnect(r)) = "failing"
                             /\ r.meeting # 0 /\ r.started /\ ~r.stats
                          \/ Phase(Disconnect(r)) = "leaving"
         /\ r.stopped => Phase(Disconnect(r)) = IF r.paused THEN "completingPaused" ELSE "completing"
<1>1. /\ "Return" \in Steps /\ "MarkFailed" \in Steps /\ "Complete" \in Steps /\ "StopTM" \in Steps
      /\ "CloseRemote" \in Steps /\ "CloseEmpty" \in Steps /\ "Remove" \in Steps /\ "Close" \in Steps
  BY DEF Steps
<1>2. CASE ~r.stopped /\ r.meeting # 0 /\ r.started /\ ~r.stats
  <2>1. Disconnect(r) = <<"MarkFailed">> \o <<"Return">>
    BY <1>2 DEF Disconnect
  <2>2. Disconnect(r) = <<"MarkFailed", "Return">>
    BY <1>1, <2>1, Join2
  <2>3. QED
    BY <1>2, <2>2 DEF Known, Phase
<1>3. CASE ~r.stopped /\ ~(r.meeting # 0 /\ r.started /\ ~r.stats)
  <2>1. Disconnect(r) = << >> \o <<"Return">>
    BY <1>3 DEF Disconnect
  <2>2. Disconnect(r) = <<"Return">>
    BY <2>1
  <2>3. QED
    BY <1>3, <2>2 DEF Known, Phase
<1>4. CASE r.stopped /\ r.tr /\ ~r.paused
  <2>1. Disconnect(r) = <<"Complete">> \o <<"StopTM">> \o <<"CloseEmpty", "Remove", "Close">>
    BY <1>4 DEF Disconnect
  <2>2. <<"Complete">> \o <<"StopTM">> = <<"Complete", "StopTM">>
    BY <1>1, Join2
  <2>3. <<"Complete", "StopTM">> \o <<"CloseEmpty", "Remove", "Close">>
           = <<"Complete", "StopTM", "CloseEmpty", "Remove", "Close">>
    BY <1>1, Join5
  <2>4. Disconnect(r) = <<"Complete", "StopTM", "CloseEmpty", "Remove", "Close">>
    BY <2>1, <2>2, <2>3, Zenon
  <2>5. QED
    BY <1>4, <2>4 DEF Known, Phase
<1>5. CASE r.stopped /\ r.paused
  <2>1. Disconnect(r) = <<"Complete">> \o << >> \o <<"CloseRemote", "Remove", "Close">>
    BY <1>5 DEF Disconnect
  <2>2. <<"Complete">> \o << >> = <<"Complete">>
    OBVIOUS
  <2>3. <<"Complete">> \o <<"CloseRemote", "Remove", "Close">>
           = <<"Complete", "CloseRemote", "Remove", "Close">>
    BY <1>1, Join4
  <2>4. Disconnect(r) = <<"Complete", "CloseRemote", "Remove", "Close">>
    BY <2>1, <2>2, <2>3, Zenon
  <2>5. QED
    BY <1>5, <2>4 DEF Known, Phase
<1>6. CASE r.stopped /\ ~r.tr /\ ~r.paused
  <2>1. Disconnect(r) = <<"Complete">> \o << >> \o <<"CloseEmpty", "Remove", "Close">>
    BY <1>6 DEF Disconnect
  <2>2. <<"Complete">> \o << >> = <<"Complete">>
    OBVIOUS
  <2>3. <<"Complete">> \o <<"CloseEmpty", "Remove", "Close">>
           = <<"Complete", "CloseEmpty", "Remove", "Close">>
    BY <1>1, Join4
  <2>4. Disconnect(r) = <<"Complete", "CloseEmpty", "Remove", "Close">>
    BY <2>1, <2>2, <2>3, Zenon
  <2>5. QED
    BY <1>6, <2>4 DEF Known, Phase
<1>7. QED
  BY <1>2, <1>3, <1>4, <1>5, <1>6

\* The programs the handlers and the workers begin.
LEMMA ProgramsBegun ==
  /\ StartProgram \in Known /\ Phase(StartProgram) = "starting"
  /\ StopProgram \in Known /\ Phase(StopProgram) = "stopping"
  /\ <<"PauseTM", "PauseDone">> \in Known /\ Phase(<<"PauseTM", "PauseDone">>) = "pausing"
  /\ <<"RestartTM", "Dial", "Resumed">> \in Known
  /\ Phase(<<"RestartTM", "Dial", "Resumed">>) = "resuming"
  /\ <<"ResumeTM", "Dial", "Resumed">> \in Known
  /\ Phase(<<"ResumeTM", "Dial", "Resumed">>) = "resuming"
  /\ << >> \in Known /\ Phase(<< >>) = "idle"
<1>1. StartProgram \in Known /\ Phase(StartProgram) = "starting"
  BY DEF StartProgram, Known, Phase
<1>2. StopProgram \in Known /\ Phase(StopProgram) = "stopping"
  BY DEF StopProgram, Known, Phase
<1>3. <<"PauseTM", "PauseDone">> \in Known /\ Phase(<<"PauseTM", "PauseDone">>) = "pausing"
  BY DEF Known, Phase
<1>4. /\ <<"RestartTM", "Dial", "Resumed">> \in Known
      /\ Phase(<<"RestartTM", "Dial", "Resumed">>) = "resuming"
  BY DEF Known, Phase
<1>5. /\ <<"ResumeTM", "Dial", "Resumed">> \in Known
      /\ Phase(<<"ResumeTM", "Dial", "Resumed">>) = "resuming"
  BY DEF Known, Phase
<1>6. << >> \in Known /\ Phase(<< >>) = "idle"
  BY DEF Known, Phase
<1>7. QED
  BY <1>1, <1>2, <1>3, <1>4, <1>5, <1>6

LEMMA Apart ==
  /\ Sessions \cap Workers = {} /\ Goroutines = Sessions \cup Workers
  /\ 0 \notin Sessions /\ Sessions \subseteq Nat
BY LifecycleAssumption DEF Sessions, Goroutines

\* What the next step of a goroutine is, and what follows it.
LEMMA Next1 ==
  ASSUME TypeOK, Programs, NEW g \in Goroutines, NEW step, At(g, step)
  PROVE  /\ todo[g] # << >> /\ Tail(todo[g]) \in Known /\ Doing(g) # "idle"
         /\ Course(todo[g]) /\ Head(todo[g]) = step
<1>1. todo[g] \in Known
  BY DEF Programs
<1>2. QED
  BY <1>1, ProgramGoesOn DEF At, Doing

\* Going on with a program.
LEMMA GotoIs ==
  ASSUME TypeOK, NEW g \in Goroutines, NEW p \in Known, Goto(g, p)
  PROVE  /\ todo' \in [Goroutines -> Seq(Steps)] /\ todo'[g] = p
         /\ on' \in [Goroutines -> 0..MaxSessions]
         /\ on'[g] = on[g] \/ (g \in Workers /\ p = << >> /\ on'[g] = 0)
         /\ \A k \in Goroutines \ {g} : todo'[k] = todo[k] /\ on'[k] = on[k]
<1>1. p \in Seq(Steps)
  BY ProgramGoesOn
<1>2. 0 \in 0..MaxSessions
  BY LifecycleAssumption
<1>3. QED
  BY <1>1, <1>2 DEF Goto, TypeOK

\* Changing one session.
LEMMA PutIs ==
  ASSUME TypeOK, NEW s \in Sessions, NEW q \in Session, sess' = [sess EXCEPT ![s] = q]
  PROVE  /\ sess' \in [Sessions -> Session] /\ sess'[s] = q
         /\ \A k \in Sessions \ {s} : sess'[k] = sess[k]
BY DEF TypeOK, Session

\* A goroutine at work has a session, unless it cleans up.
LEMMA Where ==
  ASSUME TypeOK, Programs, NEW g \in Goroutines,
         Doing(g) \notin {"idle", "cleaning", "listed"}
  PROVE  /\ on[g] \in Sessions /\ sess[on[g]] \in Session
         /\ sess[on[g]].conn # "none" /\ (g \in Sessions => on[g] = g)
<1>1. sess \in [Sessions -> Session] /\ on[g] \in 0..MaxSessions
  BY DEF TypeOK, Session
<1>2. CASE g \in Sessions
  BY <1>1, <1>2 DEF Programs
<1>3. CASE g \in Workers
  <2>1. on[g] # 0
    BY <1>3 DEF Programs, Health, Cleaning
  <2>2. on[g] \in Sessions /\ sess[on[g]].conn # "none"
    BY <1>1, <1>3, <2>1, LifecycleAssumption DEF Programs, Sessions
  <2>3. QED
    BY <1>1, <1>3, <2>2, Apart
<1>4. QED
  BY <1>2, <1>3 DEF Goroutines

-----------------------------------------------------------------------------
(* Who does what *)

\* A step that leaves alone what Programs says of sessions.
Kept ==
    /\ cur' \in {0, cur}
    /\ \A s \in Sessions :
          /\ sess[s].conn = "none" => sess'[s] = sess[s]
          /\ sess[s].conn # "none" => sess'[s].conn # "none"
          /\ sess'[s].hung = sess[s].hung /\ sess'[s].stopped = sess[s].stopped

\* From one phase a goroutine comes to another of the same kind.
Along(a, b) ==
    /\ a # "idle"
    /\ \A C \in {Commands, Leaving, TakingDown, {"stopping", "stopped"} \cup Health, Cleaning} :
          a \in C => b \in C \cup {"idle"}

LEMMA MovePrograms ==
  ASSUME TypeOK, Programs, NEW g \in Goroutines, NEW p \in Known, Goto(g, p),
         Along(Doing(g), Phase(p)), Kept
  PROVE  Programs'
<1>1. /\ todo'[g] = p
      /\ on'[g] = on[g] \/ (g \in Workers /\ p = << >> /\ on'[g] = 0)
      /\ \A k \in Goroutines \ {g} : todo'[k] = todo[k] /\ on'[k] = on[k]
  BY GotoIs
<1>2. /\ Doing(g) # "idle"
      /\ Doing(g) \in Commands => Phase(p) \in Commands \cup {"idle"}
      /\ Doing(g) \in Leaving => Phase(p) \in Leaving \cup {"idle"}
      /\ Doing(g) \in TakingDown => Phase(p) \in TakingDown \cup {"idle"}
      /\ Doing(g) \in {"stopping", "stopped"} \cup Health
            => Phase(p) \in {"stopping", "stopped"} \cup Health \cup {"idle"}
      /\ Doing(g) \in Cleaning => Phase(p) \in Cleaning \cup {"idle"}
      /\ p = << >> <=> Phase(p) = "idle"
  BY ProgramsBegun, ProgramGoesOn DEF Along
<1>3. \A s \in Sessions : s \in Goroutines /\ s \notin Workers
  BY Apart
<1>4. \A w \in Workers : w \in Goroutines /\ w \notin Sessions
  BY Apart
<1>5. \A k \in Goroutines : todo'[k] \in Known
  BY <1>1 DEF Programs
<1>6. \A s \in Sessions : /\ on'[s] = s
                          /\ Phase(todo'[s]) \in {"idle"} \cup Commands \cup Leaving \cup TakingDown
  BY <1>1, <1>2, <1>3 DEF Programs, Doing
<1>7. \A w \in Workers :
          /\ Phase(todo'[w]) \in {"idle", "stopping", "stopped"} \cup Health \cup Cleaning
          /\ Phase(todo'[w]) \in {"stopping", "stopped"} \cup Health => on'[w] # 0
          /\ on'[w] # 0 => sess'[on'[w]].conn # "none"
  <2> SUFFICES ASSUME NEW w \in Workers
               PROVE  /\ Phase(todo'[w]) \in {"idle", "stopping", "stopped"} \cup Health \cup Cleaning
                      /\ Phase(todo'[w]) \in {"stopping", "stopped"} \cup Health => on'[w] # 0
                      /\ on'[w] # 0 => sess'[on'[w]].conn # "none"
    OBVIOUS
  <2>1. /\ Doing(w) \in {"idle", "stopping", "stopped"} \cup Health \cup Cleaning
        /\ Doing(w) \in {"stopping", "stopped"} \cup Health => on[w] # 0
        /\ on[w] # 0 => sess[on[w]].conn # "none"
    BY DEF Programs
  <2>2. on'[w] # 0 => on'[w] = on[w] /\ on[w] \in Sessions
    BY <1>1, <1>4, LifecycleAssumption DEF TypeOK, Sessions
  <2>3. on'[w] # 0 => sess'[on'[w]].conn # "none"
    BY <2>1, <2>2 DEF Kept
  <2>4. CASE w # g
    BY <2>1, <2>3, <2>4, <1>1, <1>4 DEF Doing
  <2>5. CASE w = g
    BY <2>1, <2>3, <2>5, <1>1, <1>2 DEF Health, Cleaning
  <2>6. QED
    BY <2>4, <2>5
<1>8. cur' # 0 => sess'[cur'].conn # "none"
  <2>1. cur # 0 => cur \in Sessions
    BY LifecycleAssumption DEF TypeOK, Sessions
  <2>2. QED
    BY <2>1 DEF Kept, Programs
<1>9. \A s \in Sessions :
          /\ sess'[s].conn = "none" => sess'[s] = Closed /\ Phase(todo'[s]) = "idle"
          /\ Phase(todo'[s]) \in Leaving => sess'[s].hung /\ ~sess'[s].stopped
          /\ Phase(todo'[s]) \in TakingDown => sess'[s].hung /\ sess'[s].stopped
          /\ Phase(todo'[s]) \in Commands => ~sess'[s].hung
  <2> SUFFICES ASSUME NEW s \in Sessions
               PROVE  /\ sess'[s].conn = "none" => sess'[s] = Closed /\ Phase(todo'[s]) = "idle"
                      /\ Phase(todo'[s]) \in Leaving => sess'[s].hung /\ ~sess'[s].stopped
                      /\ Phase(todo'[s]) \in TakingDown => sess'[s].hung /\ sess'[s].stopped
                      /\ Phase(todo'[s]) \in Commands => ~sess'[s].hung
    OBVIOUS
  <2>1. /\ sess[s].conn = "none" => sess[s] = Closed /\ Doing(s) = "idle"
        /\ Doing(s) \in Leaving => sess[s].hung /\ ~sess[s].stopped
        /\ Doing(s) \in TakingDown => sess[s].hung /\ sess[s].stopped
        /\ Doing(s) \in Commands => ~sess[s].hung
        /\ Doing(s) \in {"idle"} \cup Commands \cup Leaving \cup TakingDown
    BY DEF Programs
  <2>2. /\ sess[s].conn = "none" => sess'[s] = sess[s]
        /\ sess[s].conn # "none" => sess'[s].conn # "none"
        /\ sess'[s].hung = sess[s].hung /\ sess'[s].stopped = sess[s].stopped
    BY DEF Kept
  <2>3. CASE s # g
    BY <2>1, <2>2, <2>3, <1>1, <1>3 DEF Doing
  <2>4. CASE s = g
    BY <2>1, <2>2, <2>4, <1>1, <1>2 DEF Commands, Leaving, TakingDown
  <2>5. QED
    BY <2>3, <2>4
<1>10. QED
  BY <1>5, <1>6, <1>7, <1>8, <1>9 DEF Programs, Doing

\* A goroutine goes on with its program or gives it up.
LEMMA StepPrograms ==
  ASSUME TypeOK, Programs, NEW g \in Goroutines, NEW step, At(g, step),
         Then(g) \/ GiveUp(g), Kept
  PROVE  Programs'
<1>1. PICK p \in Known : p \in {<< >>, Tail(todo[g])} /\ Goto(g, p)
  BY Next1, ProgramsBegun DEF Then, GiveUp
<1>2. Doing(g) # "idle" /\ Phase(p) \in {"idle", Phase(Tail(todo[g]))}
  BY <1>1, Next1, ProgramsBegun
<1>3. Course(todo[g]) /\ Doing(g) = Phase(todo[g])
  BY Next1 DEF Doing
<1>4. Along(Doing(g), Phase(p))
  BY <1>2, <1>3 DEF Along, Course, Commands, Leaving, TakingDown, Health, Cleaning
<1>5. QED
  BY <1>1, <1>4, MovePrograms

\* An event in which no goroutine goes on.
LEMMA EventPrograms ==
  ASSUME TypeOK, Programs, Kept, UNCHANGED <<todo, on>>
  PROVE  Programs'
<1>1. cur # 0 => cur \in Sessions
  BY LifecycleAssumption DEF TypeOK, Sessions
<1>2. \A w \in Workers : on[w] # 0 => on[w] \in Sessions
  BY LifecycleAssumption DEF TypeOK, Sessions, Goroutines
<1>3. cur' # 0 => sess'[cur'].conn # "none"
  BY <1>1 DEF Kept, Programs
<1>4. \A w \in Workers : on[w] # 0 => sess'[on[w]].conn # "none"
  BY <1>2 DEF Kept, Programs
<1>5. \A s \in Sessions :
          /\ sess'[s].conn = "none" => sess'[s] = Closed /\ Doing(s) = "idle"
          /\ Doing(s) \in Leaving => sess'[s].hung /\ ~sess'[s].stopped
          /\ Doing(s) \in TakingDown => sess'[s].hung /\ sess'[s].stopped
          /\ Doing(s) \in Commands => ~sess'[s].hung
  BY DEF Kept, Programs
<1>6. QED
  BY <1>3, <1>4, <1>5 DEF Programs, Doing

-----------------------------------------------------------------------------
(* What is registered, what is open, what is watched *)

\* A session stays as closed, as hung up and as late as it was; a connection
\* is made late or in a session that lives.
Soft(s) ==
    /\ sess[s].conn = "none" => sess'[s] = sess[s]
    /\ sess[s].ctx => sess'[s].ctx
    /\ sess[s].hung => sess'[s].hung
    /\ sess[s].late => sess'[s].late
    /\ sess'[s].remote # "none" => \/ sess'[s].remote = sess[s].remote
                                   \/ sess'[s].late
                                   \/ ~sess[s].ctx /\ ~sess[s].hung

\* Who is about to take an entry away has closed the session.
Mindful(g) ==
    /\ Phase(todo'[g]) \in {"removing", "listed"} =>
          \/ todo'[g] = todo[g] /\ on'[g] = on[g]
          \/ /\ on'[g] = on[g] /\ on[g] \in Sessions
             /\ sess'[on[g]].ctx /\ sess'[on[g]].remote = "none"
    /\ Phase(todo'[g]) = "closed" => Doing(g) = "closed" \/ sess'[g].remote = "none"

\* A reader begins a transcription, late if its session is being stopped.
Begins(g) ==
    /\ g \in Sessions /\ Phase(todo'[g]) = "opening" /\ sess[g].conn # "none" /\ ~sess[g].hung
    /\ sess'[g].stopped = sess[g].stopped
    /\ sess[g].stopped \/ Doomed(g) => sess'[g].late

\* Who could stop a transcription still can.
Wakeful(g) ==
    /\ tm.st = "transcribing" \/ Begins(g)
    /\ \A s \in Sessions : sess'[s].stopped => sess[s].stopped \/ Phase(todo'[s]) = "stopping"
    /\ Doing(g) = "stopping" => Phase(todo'[g]) = "stopping"
    /\ Phase(todo'[g]) \in {"doomed", "removing"}
          => Doing(g) \in {"doomed", "removing"} /\ on'[g] = on[g]
    /\ g \in Sessions /\ Doing(g) = "opening" /\ sess[g].ctx
          => Phase(todo'[g]) = "opening" \/ sess'[g].late
    /\ Doing(g) \in Cleaning => Phase(todo'[g]) \in Cleaning

LEMMA DoomedIs ==
  ASSUME Programs, NEW s \in Sessions
  PROVE  Doomed(s) <=> \E w \in Workers : on[w] = s /\ Doing(w) = "doomed"
<1>1. ASSUME NEW w \in Workers
      PROVE  At(w, "HealthClose") <=> Doing(w) = "doomed"
  <2>1. todo[w] \in Known
    BY DEF Programs, Goroutines
  <2>2. IF todo[w] = << >> THEN Doing(w) = "idle" ELSE Course(todo[w])
    BY <2>1, ProgramGoesOn DEF Doing
  <2>3. QED
    BY <2>2 DEF Course, At, Doing
<1>2. QED
  BY <1>1 DEF Doomed

LEMMA GentleSafe ==
  ASSUME TypeOK, Programs, Programs', Safe, NEW g \in Goroutines,
         UNCHANGED <<cur, spoiled>>,
         \A k \in Goroutines \ {g} : todo'[k] = todo[k] /\ on'[k] = on[k],
         \A s \in Sessions : Soft(s), Mindful(g),
         tm'.st = "transcribing" => Wakeful(g)
  PROVE  Safe'
<1> SUFFICES ASSUME ~spoiled PROVE (Registered /\ NoneOpen /\ Watched)'
  BY DEF Safe
<1>1. Registered /\ NoneOpen /\ Watched
  BY DEF Safe
<1>2. \A s \in Sessions : s \in Goroutines /\ s \notin Workers
  BY Apart
<1>3. \A w \in Workers : w \in Goroutines /\ w \notin Sessions
  BY Apart
<1>4. \A w \in Workers : on[w] \in Sessions \cup {0}
  BY <1>3, LifecycleAssumption DEF TypeOK, Sessions
<1>5. ASSUME NEW w \in Workers, Phase(todo'[w]) \in {"removing", "listed"}
      PROVE  on'[w] \in Sessions /\ sess'[on'[w]].ctx /\ Off(on[w])' /\ on'[w] = on[w]
  <2>1. \/ todo'[w] = todo[w] /\ on'[w] = on[w]
        \/ /\ on'[w] = on[w] /\ on[w] \in Sessions
           /\ sess'[on[w]].ctx /\ sess'[on[w]].remote = "none"
    <3>1. CASE w = g
      BY <1>5, <3>1 DEF Mindful
    <3>2. CASE w # g
      BY <1>3, <3>2
    <3>3. QED
      BY <3>1, <3>2
  <2>2. CASE todo'[w] = todo[w] /\ on'[w] = on[w]
    <3>1. on[w] \in Sessions /\ sess[on[w]].ctx /\ Off(on[w])
      BY <1>1, <1>4, <1>5, <2>2 DEF Registered, NoneOpen, Doing
    <3>2. QED
      BY <2>2, <3>1 DEF Soft, Off
  <2>3. CASE /\ on'[w] = on[w] /\ on[w] \in Sessions
             /\ sess'[on[w]].ctx /\ sess'[on[w]].remote = "none"
    BY <2>3 DEF Off
  <2>4. QED
    BY <2>1, <2>2, <2>3
<1>6. Registered'
  <2>1. ASSUME NEW s \in Sessions, sess'[s].conn # "none", ~sess'[s].ctx, ~sess'[s].hung
        PROVE  cur' = s
    <3>1. sess[s].conn # "none" /\ ~sess[s].ctx /\ ~sess[s].hung
      BY <2>1 DEF Soft
    <3>2. QED
      BY <1>1, <3>1 DEF Registered
  <2>2. ASSUME NEW w \in Workers, Phase(todo'[w]) \in {"removing", "listed"}
        PROVE  on'[w] # 0 /\ sess'[on'[w]].ctx
    BY <1>5, <2>2, Apart
  <2>3. QED
    BY <2>1, <2>2 DEF Registered, Doing
<1>7. NoneOpen'
  <2>1. ASSUME NEW s \in Sessions, s # cur' \/ Phase(todo'[s]) = "closed"
        PROVE  Off(s)'
    <3>1. \/ sess'[s].remote = "none"
          \/ sess'[s].remote = sess[s].remote
          \/ sess'[s].late
          \/ ~sess[s].ctx /\ ~sess[s].hung /\ sess[s].conn # "none"
      BY DEF Soft
    <3>2. CASE ~sess[s].ctx /\ ~sess[s].hung /\ sess[s].conn # "none" /\ sess'[s].remote # sess[s].remote
               /\ sess'[s].remote # "none" /\ ~sess'[s].late
      <4>1. cur' = s
        BY <1>1, <3>2 DEF Registered
      <4>2. Phase(todo'[s]) # "closed"
        <5>1. Doing(s) # "closed"
          BY <3>2 DEF Programs, TakingDown
        <5>2. CASE s = g
          BY <3>2, <5>1, <5>2 DEF Mindful
        <5>3. CASE s # g
          BY <1>2, <5>1, <5>3 DEF Doing
        <5>4. QED
          BY <5>2, <5>3
      <4>3. QED
        BY <2>1, <4>1, <4>2
    <3>3. CASE sess'[s].remote = sess[s].remote
      <4>1. CASE s # cur \/ Doing(s) = "closed"
        <5>1. Off(s)
          BY <1>1, <4>1 DEF NoneOpen
        <5>2. QED
          BY <3>3, <5>1 DEF Off, Soft
      <4>2. CASE s = cur /\ Doing(s) # "closed"
        <5>1. s = g \/ todo'[s] = todo[s]
          BY <1>2
        <5>2. QED
          BY <2>1, <4>2, <5>1 DEF Mindful, Off, Doing
      <4>3. QED
        BY <4>1, <4>2
    <3>4. QED
      BY <3>1, <3>2, <3>3 DEF Off
  <2>2. ASSUME NEW w \in Workers, Phase(todo'[w]) \in {"removing", "listed"}
        PROVE  sess'[on'[w]].remote = "none" \/ sess'[on'[w]].late
    BY <1>5, <2>2 DEF Off
  <2>3. QED
    BY <2>1, <2>2 DEF NoneOpen, Off, Doing
<1>8. Watched'
  <2> SUFFICES ASSUME tm'.st = "transcribing", ~Late'
               PROVE  \/ cur' # 0 /\ ~Settled(cur)'
                      \/ \E s \in Sessions : Phase(todo'[s]) = "opening" /\ sess'[s].ctx
                      \/ \E w \in Workers : Phase(todo'[w]) \in Cleaning
    BY DEF Watched, Doing
  <2>1. Wakeful(g)
    OBVIOUS
  <2>2. ~Late /\ \A s \in Sessions : ~sess'[s].late
    BY DEF Late, Soft
  <2>3. cur' = cur /\ (cur # 0 => cur \in Sessions)
    BY LifecycleAssumption DEF TypeOK, Sessions
  <2>4. ASSUME cur # 0, ~Settled(cur)
        PROVE  ~Settled(cur)'
    <3>1. sess'[cur].stopped => Phase(todo'[cur]) = "stopping"
      <4>1. sess'[cur].stopped => sess[cur].stopped \/ Phase(todo'[cur]) = "stopping"
        BY <2>1, <2>3, <2>4 DEF Wakeful
      <4>2. sess[cur].stopped => Doing(cur) = "stopping"
        BY <2>4 DEF Settled
      <4>3. Doing(cur) = "stopping" => Phase(todo'[cur]) = "stopping"
        BY <1>2, <2>1, <2>3, <2>4 DEF Wakeful, Doing
      <4>4. QED
        BY <4>1, <4>2, <4>3
    <3>2. ASSUME NEW w \in Workers, on'[w] = cur, Phase(todo'[w]) \in {"doomed", "removing"}
          PROVE  FALSE
      <4>1. on[w] = cur /\ Doing(w) \in {"doomed", "removing"}
        BY <1>3, <2>1, <3>2 DEF Wakeful, Doing
      <4>2. QED
        BY <2>4, <4>1 DEF Settled
    <3>3. QED
      BY <2>3, <3>1, <3>2 DEF Settled, Doing
  <2>5. CASE tm.st = "transcribing" /\ cur # 0 /\ ~Settled(cur)
    BY <2>3, <2>4, <2>5
  <2>6. ASSUME NEW s \in Sessions, Doing(s) = "opening", sess[s].ctx
        PROVE  Phase(todo'[s]) = "opening" /\ sess'[s].ctx
    BY <1>2, <2>1, <2>2, <2>6 DEF Wakeful, Doing, Soft
  <2>7. ASSUME NEW w \in Workers, Doing(w) \in Cleaning
        PROVE  Phase(todo'[w]) \in Cleaning
    BY <1>3, <2>1, <2>7 DEF Wakeful, Doing
  <2>8. CASE tm.st = "transcribing"
    BY <1>1, <2>2, <2>5, <2>6, <2>7, <2>8 DEF Watched
  <2>9. CASE Begins(g)
    <3>1. CASE sess[g].ctx
      BY <2>9, <3>1 DEF Begins, Soft
    <3>2. CASE ~sess[g].ctx
      <4>1. cur = g /\ cur # 0 /\ g \in Sessions
        BY <1>1, <2>9, <3>2, Apart DEF Registered, Begins
      <4>2. ~sess[g].stopped /\ ~Doomed(g) /\ ~sess'[g].stopped
        BY <2>2, <2>9 DEF Begins
      <4>3. \A w \in Workers : on[w] = g => Doing(w) \notin {"doomed", "removing"}
        BY <1>1, <3>2, <4>1, <4>2, DoomedIs DEF Registered
      <4>4. \A w \in Workers : w # g
        BY <1>2, <4>1
      <4>5. ~Settled(cur)'
        BY <1>3, <2>3, <4>1, <4>2, <4>3, <4>4 DEF Settled, Doing
      <4>6. QED
        BY <2>3, <4>1, <4>5
    <3>3. QED
      BY <3>1, <3>2
  <2>10. QED
    BY <2>1, <2>8, <2>9 DEF Wakeful
<1>9. QED
  BY <1>6, <1>7, <1>8

-----------------------------------------------------------------------------
(* The steps of programs *)

Info == [st : {"none", "transcribing", "paused"}, uuid : 0..MaxMeetings]

LEMMA NoSessionIs == NoSession \in Info /\ NoSession.st = "none" /\ NoSession.uuid = 0
BY LifecycleAssumption DEF NoSession, Info

LEMMA HangUpIs ==
  ASSUME NEW r \in Session
  PROVE  /\ HangUp(r) \in Session
         /\ HangUp(r).remote = "none" /\ HangUp(r).conn = r.conn /\ HangUp(r).ctx = r.ctx
         /\ HangUp(r).hung = r.hung /\ HangUp(r).paused = r.paused
         /\ HangUp(r).stopped = r.stopped /\ HangUp(r).uuid = r.uuid
         /\ HangUp(r).meeting = r.meeting /\ HangUp(r).stats = r.stats
         /\ HangUp(r).started = r.started /\ HangUp(r).late = r.late
<1>1. PICK b \in BOOLEAN : b = (r.tr /\ r.remote = "none")
  OBVIOUS
<1>2. HangUp(r) = [r EXCEPT !.remote = "none", !.tr = b]
  BY <1>1 DEF HangUp
<1>3. QED
  BY <1>2 DEF Session

LEMMA AfterCloseIs ==
  ASSUME NEW r \in Session
  PROVE  /\ AfterClose(r) \in Session
         /\ AfterClose(r).remote = "none" /\ AfterClose(r).conn = "closed" /\ AfterClose(r).ctx = TRUE
         /\ AfterClose(r).hung = r.hung /\ AfterClose(r).paused = r.paused
         /\ AfterClose(r).stopped = r.stopped /\ AfterClose(r).uuid = r.uuid
         /\ AfterClose(r).meeting = r.meeting /\ AfterClose(r).stats = r.stats
         /\ AfterClose(r).started = r.started /\ AfterClose(r).late = r.late
<1>1. PICK h \in Session : h = HangUp(r)
  BY HangUpIs
<1>2. AfterClose(r) = [h EXCEPT !.ctx = TRUE, !.conn = "closed"]
  BY <1>1 DEF AfterClose
<1>3. /\ h.remote = "none" /\ h.hung = r.hung /\ h.paused = r.paused
      /\ h.stopped = r.stopped /\ h.uuid = r.uuid /\ h.meeting = r.meeting
      /\ h.stats = r.stats /\ h.started = r.started /\ h.late = r.late
  BY <1>1, HangUpIs
<1>4. PICK a \in Session : a = AfterClose(r) /\ a = [h EXCEPT !.ctx = TRUE, !.conn = "closed"]
  BY <1>2 DEF Session
<1>5. QED
  BY <1>3, <1>4 DEF Session

\* What most steps leave of a session when they change it.
Touched(r, q) ==
    /\ r.conn # "none" /\ q.conn # "none" /\ q.hung = r.hung /\ q.stopped = r.stopped
    /\ r.ctx => q.ctx
    /\ r.late => q.late
    /\ q.remote # "none" => q.remote = r.remote \/ q.late \/ (~r.ctx /\ ~r.hung)

LEMMA TouchIs ==
  ASSUME TypeOK, NEW s \in Sessions, NEW q \in Session, Touched(sess[s], q),
         sess' = [sess EXCEPT ![s] = q], UNCHANGED cur
  PROVE  /\ sess' \in [Sessions -> Session] /\ sess'[s] = q
         /\ \A k \in Sessions \ {s} : sess'[k] = sess[k]
         /\ Kept /\ \A k \in Sessions : Soft(k)
<1>1. /\ sess' \in [Sessions -> Session] /\ sess'[s] = q
      /\ \A k \in Sessions \ {s} : sess'[k] = sess[k]
  BY PutIs
<1>2. Kept
  BY <1>1 DEF Kept, Touched
<1>3. \A k \in Sessions : Soft(k)
  BY <1>1 DEF Soft, Touched
<1>4. QED
  BY <1>1, <1>2, <1>3

\* Where a step leads.
LEMMA StepIs ==
  ASSUME TypeOK, Programs, NEW g \in Goroutines, NEW step, At(g, step),
         Then(g) \/ GiveUp(g)
  PROVE  /\ Course(todo[g]) /\ Head(todo[g]) = step /\ Doing(g) = Phase(todo[g])
         /\ GiveUp(g) => Phase(todo'[g]) = "idle"
         /\ Then(g) => Phase(todo'[g]) = Phase(Tail(todo[g]))
         /\ todo' \in [Goroutines -> Seq(Steps)] /\ on' \in [Goroutines -> 0..MaxSessions]
         /\ on'[g] = on[g] \/ (g \in Workers /\ Phase(todo'[g]) = "idle")
         /\ \A k \in Goroutines \ {g} : todo'[k] = todo[k] /\ on'[k] = on[k]
<1>1. Course(todo[g]) /\ Head(todo[g]) = step /\ Tail(todo[g]) \in Known
  BY Next1
<1>2. ASSUME NEW p \in Known, Goto(g, p)
      PROVE  /\ todo'[g] = p
             /\ todo' \in [Goroutines -> Seq(Steps)] /\ on' \in [Goroutines -> 0..MaxSessions]
             /\ on'[g] = on[g] \/ (g \in Workers /\ Phase(todo'[g]) = "idle")
             /\ \A k \in Goroutines \ {g} : todo'[k] = todo[k] /\ on'[k] = on[k]
  BY <1>2, GotoIs, ProgramsBegun
<1>3. Then(g) => Goto(g, Tail(todo[g]))
  BY DEF Then
<1>4. GiveUp(g) => Goto(g, << >>)
  BY DEF GiveUp
<1>5. QED
  BY <1>1, <1>2, <1>3, <1>4, ProgramsBegun DEF Doing

\* A step whose effects are gentle keeps what has been said so far.
Sound == TypeOK /\ Programs /\ Safe

LEMMA StepSound ==
  ASSUME Sound, NEW g \in Goroutines, NEW step, At(g, step), Then(g) \/ GiveUp(g),
         UNCHANGED <<cur, spoiled>>,
         sess' \in [Sessions -> Session], tm' \in Info,
         status' \in [Meetings -> Status], timed' \subseteq Meetings,
         Kept, \A s \in Sessions : Soft(s), Mindful(g), tm'.st = "transcribing" => Wakeful(g)
  PROVE  Sound'
<1>0. TypeOK /\ Programs /\ Safe
  BY DEF Sound
<1>1. Programs'
  BY <1>0, StepPrograms
<1>2. /\ todo' \in [Goroutines -> Seq(Steps)] /\ on' \in [Goroutines -> 0..MaxSessions]
      /\ \A k \in Goroutines \ {g} : todo'[k] = todo[k] /\ on'[k] = on[k]
  BY <1>0, StepIs
<1>3. TypeOK'
  BY <1>0, <1>2 DEF TypeOK, Session, Info, Status
<1>4. Safe'
  BY <1>0, <1>1, <1>2, GentleSafe
<1>5. QED
  BY <1>1, <1>3, <1>4 DEF Sound

\* A step on the goroutine's own session.
LEMMA PutSound ==
  ASSUME Sound, NEW g \in Goroutines, NEW step, At(g, step), Then(g) \/ GiveUp(g),
         on[g] \in Sessions, NEW q \in Session, Put(g, q), Touched(S(g), q),
         UNCHANGED <<cur, spoiled>>,
         tm' \in Info, status' \in [Meetings -> Status], timed' \subseteq Meetings,
         Mindful(g), tm'.st = "transcribing" => Wakeful(g)
  PROVE  Sound'
<1>1. TypeOK
  BY DEF Sound
<1>2. /\ sess' \in [Sessions -> Session] /\ Kept /\ \A k \in Sessions : Soft(k)
  BY <1>1, TouchIs DEF Put, S
<1>3. QED
  BY <1>2, StepSound

\* A step that leaves the sessions alone.
LEMMA IdleSound ==
  ASSUME Sound, NEW g \in Goroutines, NEW step, At(g, step), Then(g) \/ GiveUp(g),
         UNCHANGED <<sess, cur, status, timed, spoiled>>,
         tm' \in Info, Mindful(g), tm'.st = "transcribing" => Wakeful(g)
  PROVE  Sound'
<1>1. TypeOK
  BY DEF Sound
<1>2. /\ sess' \in [Sessions -> Session] /\ status' \in [Meetings -> Status]
      /\ timed' \subseteq Meetings
  BY <1>1 DEF TypeOK, Session, Status
<1>3. Kept /\ \A s \in Sessions : Soft(s)
  BY DEF Kept, Soft
<1>4. QED
  BY <1>2, <1>3, StepSound

LEMMA StartTMSound ==
  ASSUME Sound, NEW g \in Goroutines, StartTM(g)
  PROVE  Sound'
<1>1. TypeOK /\ Programs /\ At(g, "StartTM")
  BY DEF Sound, StartTM
<1>2. Doing(g) = "starting" /\ Phase(Tail(todo[g])) = "opening" /\ Course(todo[g])
  BY <1>1, Next1 DEF Course, Doing
<1>3. g \in Sessions /\ on[g] = g /\ sess[g] \in Session /\ sess[g].conn # "none" /\ ~sess[g].hung
  BY <1>1, <1>2, Where DEF Programs, Goroutines, Health, Cleaning, Commands
<1>4. timed' \subseteq Meetings /\ status \in [Meetings -> Status]
  BY <1>1 DEF TypeOK, StartTM, Status
<1>5. CASE tm' = NoSession /\ GiveUp(g) /\ UNCHANGED <<sess, status>>
  <2>1. Mindful(g)
    BY <1>1, <1>5, StepIs DEF Mindful
  <2>2. QED
    BY <1>1, <1>5, <2>1, NoSessionIs, IdleSound DEF StartTM
<1>6. ASSUME NEW m \in Meetings, NEW created \in BOOLEAN,
             tm' = [st |-> "transcribing", uuid |-> m],
             Begun(g, [Aligned(S(g), "transcribing") EXCEPT
                            !.uuid = m, !.meeting = IF created THEN m ELSE 0]),
             status' = IF created THEN [status EXCEPT ![m] = "active"] ELSE status,
             Then(g)
      PROVE  Sound'
  <2>1. m \in 0..MaxMeetings /\ 0 \in 0..MaxMeetings
    BY LifecycleAssumption DEF Meetings
  <2>2. PICK n \in 0..MaxMeetings : n = IF created THEN m ELSE 0
    BY <2>1
  <2>3. PICK a \in Session : a = [Aligned(S(g), "transcribing") EXCEPT !.uuid = m, !.meeting = n]
    BY <1>3, <2>1 DEF Aligned, S, Session
  <2>4. /\ a.conn = S(g).conn /\ a.ctx = S(g).ctx /\ a.hung = S(g).hung /\ a.stopped = S(g).stopped
        /\ a.remote = S(g).remote /\ a.late = S(g).late
    BY <1>3, <2>3 DEF Aligned, S, Session
  <2>5. PICK b \in BOOLEAN : b = (a.late \/ a.stopped \/ Doomed(on[g]))
    OBVIOUS
  <2>6. PICK q \in Session : q = [a EXCEPT !.late = b]
    BY DEF Session
  <2>7. Put(g, q)
    BY <1>6, <2>2, <2>3, <2>5, <2>6 DEF Begun
  <2>8. /\ q.conn = a.conn /\ q.ctx = a.ctx /\ q.hung = a.hung /\ q.stopped = a.stopped
        /\ q.remote = a.remote /\ q.late = b
    BY <2>6 DEF Session
  <2>9. b <=> (sess[g].late \/ sess[g].stopped \/ Doomed(g))
    BY <1>3, <2>4, <2>5 DEF S
  <2>10. Touched(S(g), q)
    BY <1>3, <2>4, <2>8, <2>9 DEF Touched, S
  <2>11. tm' \in Info /\ status' \in [Meetings -> Status]
    BY <1>4, <1>6, <2>1 DEF Info, Status
  <2>12. Phase(todo'[g]) = "opening" /\ \A k \in Goroutines \ {g} : todo'[k] = todo[k]
    BY <1>1, <1>2, <1>6, StepIs, Next1
  <2>13. sess'[g] = q /\ \A s \in Sessions \ {g} : sess'[s] = sess[s]
    BY <1>1, <1>3, <2>7, PutIs DEF Put
  <2>14. Mindful(g)
    BY <2>12 DEF Mindful
  <2>15. Begins(g)
    BY <1>3, <2>4, <2>8, <2>9, <2>12, <2>13 DEF Begins, S
  <2>16. \A s \in Sessions : sess'[s].stopped => sess[s].stopped
    BY <1>3, <2>4, <2>8, <2>13 DEF S
  <2>17. Wakeful(g)
    BY <1>2, <2>12, <2>15, <2>16 DEF Wakeful, Cleaning
  <2>18. QED
    BY <1>1, <1>3, <1>4, <1>6, <2>7, <2>10, <2>11, <2>14, <2>17, PutSound DEF StartTM
<1>7. QED
  BY <1>5, <1>6 DEF StartTM

\* A resumed or restarted transcription begins as one that is started does.
LEMMA BegunSound ==
  ASSUME Sound, NEW g \in Goroutines, NEW step \in {"ResumeTM", "RestartTM"}, At(g, step),
         Begun(g, S(g)), Then(g), UNCHANGED <<cur, status, timed, spoiled>>, tm' \in Info
  PROVE  Sound'
<1>1. TypeOK /\ Programs
  BY DEF Sound
<1>2. Doing(g) = "resuming" /\ Phase(Tail(todo[g])) = "opening" /\ Course(todo[g])
  BY <1>1, Next1 DEF Course, Doing
<1>3. g \in Sessions /\ on[g] = g /\ sess[g] \in Session /\ sess[g].conn # "none" /\ ~sess[g].hung
  BY <1>1, <1>2, Where DEF Programs, Goroutines, Health, Cleaning, Commands
<1>4. timed' \subseteq Meetings /\ status' \in [Meetings -> Status]
  BY <1>1 DEF TypeOK, Status
<1>5. PICK b \in BOOLEAN : b = (sess[g].late \/ sess[g].stopped \/ Doomed(g))
  OBVIOUS
<1>6. PICK q \in Session : q = [sess[g] EXCEPT !.late = b]
  BY <1>3 DEF Session
<1>7. Put(g, q)
  BY <1>3, <1>5, <1>6 DEF Begun, S
<1>8. /\ q.conn = sess[g].conn /\ q.ctx = sess[g].ctx /\ q.hung = sess[g].hung
      /\ q.stopped = sess[g].stopped /\ q.remote = sess[g].remote /\ q.late = b
  BY <1>3, <1>6 DEF Session
<1>9. b <=> (sess[g].late \/ sess[g].stopped \/ Doomed(g))
  BY <1>5
<1>10. Touched(S(g), q)
  BY <1>3, <1>8, <1>9 DEF Touched, S
<1>11. Phase(todo'[g]) = "opening" /\ \A k \in Goroutines \ {g} : todo'[k] = todo[k]
  BY <1>1, <1>2, StepIs, Next1
<1>12. sess'[g] = q /\ \A s \in Sessions \ {g} : sess'[s] = sess[s]
  BY <1>1, <1>3, <1>7, PutIs DEF Put
<1>13. Begins(g) /\ \A s \in Sessions : sess'[s].stopped => sess[s].stopped
  BY <1>3, <1>8, <1>9, <1>11, <1>12 DEF Begins
<1>14. Mindful(g) /\ Wakeful(g)
  BY <1>2, <1>11, <1>13 DEF Wakeful, Mindful, Cleaning
<1>15. QED
  BY <1>3, <1>4, <1>7, <1>10, <1>14, PutSound

LEMMA ResumeTMSound ==
  ASSUME Sound, NEW g \in Goroutines, ResumeTM(g)
  PROVE  Sound'
<1>1. TypeOK /\ Programs /\ At(g, "ResumeTM")
  BY DEF Sound, ResumeTM
<1>2. CASE tm.st = "none"
  <2>1. GiveUp(g) /\ UNCHANGED <<sess, cur, tm, status, timed, spoiled>>
    BY <1>2 DEF ResumeTM
  <2>2. tm' \in Info /\ tm'.st # "transcribing"
    BY <1>1, <1>2, <2>1 DEF TypeOK, Info
  <2>3. Mindful(g)
    BY <1>1, <2>1, StepIs DEF Mindful
  <2>4. QED
    BY <1>1, <2>1, <2>2, <2>3, IdleSound
<1>3. CASE tm.st # "none"
  <2>1. /\ tm' = [tm EXCEPT !.st = "transcribing"] /\ Begun(g, S(g)) /\ Then(g)
        /\ UNCHANGED <<cur, status, timed, spoiled>>
    BY <1>3 DEF ResumeTM
  <2>2. tm' \in Info
    BY <1>1, <2>1 DEF TypeOK, Info
  <2>3. QED
    BY <1>1, <2>1, <2>2, BegunSound
<1>4. QED
  BY <1>2, <1>3

LEMMA RestartTMSound ==
  ASSUME Sound, NEW g \in Goroutines, RestartTM(g)
  PROVE  Sound'
<1>1. TypeOK /\ Programs /\ At(g, "RestartTM")
  BY DEF Sound, RestartTM
<1>2. CASE tm' = NoSession /\ GiveUp(g) /\ UNCHANGED sess
  <2>1. Mindful(g)
    BY <1>1, <1>2, StepIs DEF Mindful
  <2>2. QED
    BY <1>1, <1>2, <2>1, NoSessionIs, IdleSound DEF RestartTM
<1>3. CASE tm' = [st |-> "transcribing", uuid |-> S(g).uuid] /\ Begun(g, S(g)) /\ Then(g)
  <2>1. Doing(g) = "resuming"
    BY <1>1, Next1 DEF Course, Doing
  <2>2. S(g) \in Session
    BY <1>1, <2>1, Where DEF S
  <2>3. tm' \in Info
    BY <1>3, <2>2 DEF Info, Session
  <2>4. QED
    BY <1>1, <1>3, <2>3, BegunSound DEF RestartTM
<1>4. QED
  BY <1>2, <1>3 DEF RestartTM

LEMMA DialSound ==
  ASSUME Sound, NEW g \in Goroutines, Dial(g)
  PROVE  Sound'
<1>1. TypeOK /\ Programs /\ At(g, "Dial") /\ tm \in Info
  BY DEF Sound, Dial, TypeOK, Info
<1>2. Doing(g) = "opening" /\ Phase(Tail(todo[g])) = "opening"
  BY <1>1, Next1 DEF Course, Doing
<1>3. Phase(todo'[g]) \in {"idle", "opening"} /\ (Then(g) \/ GiveUp(g))
  BY <1>1, <1>2, StepIs DEF Dial
<1>4. Mindful(g)
  BY <1>3 DEF Mindful
<1>5. CASE tm' = NoSession
  BY <1>1, <1>3, <1>4, <1>5, NoSessionIs, IdleSound DEF Dial
<1>6. CASE ~S(g).ctx /\ Then(g) /\ UNCHANGED tm
  <2>1. g \in Sessions => on[g] = g
    BY <1>1 DEF Programs
  <2>2. tm'.st = "transcribing" => Wakeful(g)
    BY <1>2, <1>3, <1>6, <2>1 DEF Wakeful, Cleaning, S, Dial
  <2>3. QED
    BY <1>1, <1>3, <1>4, <1>6, <2>2, IdleSound DEF Dial
<1>7. QED
  BY <1>5, <1>6 DEF Dial

\* The configuration is answered: the connection is late if the session is closed.
LEMMA ConfiguredSound ==
  ASSUME Sound, NEW g \in Goroutines, NEW step \in {"Started", "Resumed"}, At(g, step),
         NEW resumed \in BOOLEAN, Configured(g, resumed), UNCHANGED <<cur, timed, spoiled>>
  PROVE  Sound'
<1>1. TypeOK /\ Programs
  BY DEF Sound
<1>2. Doing(g) = "opening" /\ Phase(todo'[g]) = "idle"
  BY <1>1, Next1, StepIs DEF Course, Doing, Configured
<1>3. g \in Sessions /\ on[g] = g /\ sess[g] \in Session /\ sess[g].conn # "none" /\ ~sess[g].hung
  BY <1>1, <1>2, Where DEF Programs, Goroutines, Health, Cleaning, Commands
<1>4. PICK b \in BOOLEAN : b = (sess[g].late \/ sess[g].ctx)
  OBVIOUS
<1>5. PICK t \in BOOLEAN : t = IF resumed /\ sess[g].meeting # 0 THEN FALSE ELSE sess[g].stats
  BY <1>3 DEF Session
<1>6. PICK q \in Session :
         q = [sess[g] EXCEPT !.remote = "open", !.tr = TRUE, !.paused = FALSE, !.late = b, !.stats = t]
  BY <1>3 DEF Session
<1>7. Put(g, q)
  BY <1>3, <1>4, <1>5, <1>6 DEF Configured, S
<1>8. /\ q.conn = sess[g].conn /\ q.ctx = sess[g].ctx /\ q.hung = sess[g].hung
      /\ q.stopped = sess[g].stopped /\ q.late = b
  BY <1>3, <1>6 DEF Session
<1>9. b <=> (sess[g].late \/ sess[g].ctx)
  BY <1>4
<1>10. Touched(S(g), q)
  BY <1>3, <1>8, <1>9 DEF Touched, S
<1>11. /\ tm' \in Info /\ tm' = tm /\ timed' \subseteq Meetings
       /\ status' \in [Meetings -> Status] /\ Then(g)
  BY <1>1, <1>3 DEF Configured, TypeOK, Info, Status, Meetings, Session, S
<1>12. sess'[g] = q /\ \A s \in Sessions \ {g} : sess'[s] = sess[s]
  BY <1>1, <1>3, <1>7, PutIs DEF Put
<1>13. \A s \in Sessions : sess'[s].stopped => sess[s].stopped
  BY <1>3, <1>8, <1>12
<1>14. tm'.st = "transcribing" => Mindful(g) /\ Wakeful(g)
  BY <1>2, <1>8, <1>9, <1>11, <1>12, <1>13 DEF Wakeful, Mindful, Cleaning
<1>15. Mindful(g)
  BY <1>2 DEF Mindful
<1>16. QED
  BY <1>3, <1>7, <1>10, <1>11, <1>14, <1>15, PutSound

LEMMA ConfigFailsSound ==
  ASSUME Sound, NEW g \in Goroutines, NEW step \in {"Started", "Resumed"}, At(g, step),
         ConfigFails(g), UNCHANGED <<cur, timed, spoiled>>
  PROVE  Sound'
<1>1. TypeOK /\ Programs
  BY DEF Sound
<1>2. Doing(g) = "opening" /\ Phase(todo'[g]) = "idle"
  BY <1>1, Next1, StepIs DEF Course, Doing, ConfigFails
<1>3. on[g] \in Sessions /\ S(g) \in Session /\ S(g).conn # "none"
  BY <1>1, <1>2, Where DEF S
<1>4. PICK q \in Session : q = HangUp(S(g))
  BY <1>3, HangUpIs
<1>5. Put(g, q) /\ Touched(S(g), q)
  BY <1>3, <1>4, HangUpIs DEF ConfigFails, Touched
<1>6. /\ tm' \in Info /\ tm'.st = "none" /\ timed' \subseteq Meetings
      /\ status' \in [Meetings -> Status] /\ GiveUp(g)
  BY <1>1, NoSessionIs DEF ConfigFails, TypeOK, Status
<1>7. Mindful(g)
  BY <1>2 DEF Mindful
<1>8. QED
  BY <1>3, <1>5, <1>6, <1>7, PutSound

LEMMA OpenedSound ==
  ASSUME Sound, NEW g \in Goroutines, Started(g) \/ Resumed(g)
  PROVE  Sound'
BY ConfiguredSound, ConfigFailsSound DEF Started, Resumed

\* Most other steps only have to be shown to go from phase to phase as they do.
LEMMA CalmPut ==
  ASSUME Sound, NEW g \in Goroutines, NEW step, At(g, step), Then(g) \/ GiveUp(g),
         Doing(g) \notin {"opening"} \cup Cleaning,
         NEW q \in Session, Put(g, q), Touched(S(g), q), UNCHANGED <<cur, spoiled>>,
         tm' \in Info, status' \in [Meetings -> Status], timed' \subseteq Meetings,
         tm'.st = "transcribing" =>
            /\ tm.st = "transcribing" /\ Doing(g) # "stopping"
            /\ Phase(todo'[g]) \in {"doomed", "removing"} =>
                  Doing(g) \in {"doomed", "removing"} /\ on'[g] = on[g],
         Mindful(g)
  PROVE  Sound'
<1>1. TypeOK /\ Programs
  BY DEF Sound
<1>2. Doing(g) # "idle"
  BY <1>1, Next1
<1>3. on[g] \in Sessions
  BY <1>1, <1>2, Where DEF Cleaning
<1>4. \A s \in Sessions : sess'[s].stopped = sess[s].stopped
  BY <1>1, <1>3, TouchIs DEF Put, S, Kept
<1>5. tm'.st = "transcribing" => Wakeful(g)
  BY <1>4 DEF Wakeful, Cleaning
<1>6. QED
  BY <1>3, <1>5, PutSound

\* A goroutine whose session is another's has one.
LEMMA PauseTMSound ==
  ASSUME Sound, NEW g \in Goroutines, PauseTM(g)
  PROVE  Sound'
<1>1. TypeOK /\ Programs /\ At(g, "PauseTM")
  BY DEF Sound, PauseTM
<1>2. Doing(g) = "pausing" /\ Phase(Tail(todo[g])) = "paused"
  BY <1>1, Next1 DEF Course, Doing
<1>3. S(g) \in Session /\ S(g).conn # "none"
  BY <1>1, <1>2, Where DEF S
<1>4. CASE tm.st = "transcribing"
  <2>1. PICK q \in Session : q = Aligned(S(g), "paused")
    BY <1>3 DEF Aligned, Session
  <2>2. Put(g, q) /\ Touched(S(g), q)
    BY <1>3, <1>4, <2>1 DEF PauseTM, Touched, Aligned, Session
  <2>3. /\ tm' \in Info /\ tm'.st = "paused" /\ Then(g) /\ UNCHANGED <<cur, spoiled>>
        /\ status' \in [Meetings -> Status] /\ timed' \subseteq Meetings
    BY <1>1, <1>4 DEF PauseTM, TypeOK, Info, Status
  <2>4. Mindful(g)
    BY <1>1, <1>2, <2>3, StepIs DEF Mindful
  <2>5. QED
    BY <1>1, <1>2, <2>2, <2>3, <2>4, CalmPut DEF Cleaning
<1>5. CASE tm.st # "transcribing"
  <2>1. GiveUp(g) /\ UNCHANGED <<sess, cur, tm, status, timed, spoiled>>
    BY <1>5 DEF PauseTM
  <2>2. tm' \in Info /\ tm'.st # "transcribing"
    BY <1>1, <1>5, <2>1 DEF TypeOK, Info
  <2>3. Mindful(g)
    BY <1>1, <2>1, StepIs DEF Mindful
  <2>4. QED
    BY <1>1, <2>1, <2>2, <2>3, IdleSound
<1>6. QED
  BY <1>4, <1>5

LEMMA PauseDoneSound ==
  ASSUME Sound, NEW g \in Goroutines, PauseDone(g)
  PROVE  Sound'
<1>1. TypeOK /\ Programs /\ At(g, "PauseDone") /\ Then(g)
  BY DEF Sound, PauseDone
<1>2. Doing(g) = "paused" /\ Phase(todo'[g]) = "idle"
  BY <1>1, Next1, StepIs DEF Course, Doing
<1>3. S(g) \in Session /\ S(g).conn # "none"
  BY <1>1, <1>2, Where DEF S
<1>4. PICK a \in Session : a = AfterClose(S(g))
  BY <1>3, AfterCloseIs
<1>5. /\ a.conn = "closed" /\ a.remote = "none" /\ a.ctx = TRUE /\ a.hung = S(g).hung
      /\ a.stopped = S(g).stopped /\ a.late = S(g).late
  BY <1>3, <1>4, AfterCloseIs
<1>6. PICK q \in Session : q = [a EXCEPT !.tr = FALSE, !.paused = TRUE]
  BY DEF Session
<1>7. Touched(S(g), q)
  BY <1>3, <1>5, <1>6 DEF Touched, Session
<1>8. /\ Put(g, q) /\ tm' \in Info /\ tm' = tm /\ timed' \subseteq Meetings
      /\ status' \in [Meetings -> Status] /\ UNCHANGED <<cur, spoiled>>
  BY <1>1, <1>3, <1>4, <1>6 DEF PauseDone, TypeOK, Info, Status, Session, Meetings
<1>9. Mindful(g)
  BY <1>2 DEF Mindful
<1>10. QED
  BY <1>1, <1>2, <1>7, <1>8, <1>9, CalmPut DEF Cleaning

LEMMA StopCmdSound ==
  ASSUME Sound, NEW g \in Goroutines, StopCmd(g)
  PROVE  Sound'
<1>1. TypeOK /\ Programs /\ At(g, "StopCmd") /\ (Then(g) \/ GiveUp(g))
  BY DEF Sound, StopCmd
<1>2. Phase(todo'[g]) \in {"idle", "stopped"}
  BY <1>1, Next1, StepIs, SMTT(30) DEF Course
<1>3. Mindful(g)
  BY <1>2 DEF Mindful
<1>4. QED
  BY <1>1, <1>3, NoSessionIs, IdleSound DEF StopCmd

LEMMA EmptiedIs ==
  ASSUME NEW r \in Session, NEW st \in [Meetings -> Status], NEW written
  PROVE  Emptied(r, st, written) \in [Meetings -> Status]
BY DEF Emptied, Status

LEMMA StopFlagsSound ==
  ASSUME Sound, NEW g \in Goroutines, StopFlags(g)
  PROVE  Sound'
<1>1. TypeOK /\ Programs /\ At(g, "StopFlags") /\ Then(g)
  BY DEF Sound, StopFlags
<1>2. Doing(g) = "stopped" /\ Phase(todo'[g]) = "stopped"
  BY <1>1, Next1, StepIs DEF Course, Doing
<1>3. S(g) \in Session /\ S(g).conn # "none"
  BY <1>1, <1>2, Where DEF S
<1>4. PICK c \in BOOLEAN : c = (S(g).meeting # 0 /\ S(g).started)
  OBVIOUS
<1>5. PICK t \in BOOLEAN : t = (c \/ S(g).stats)
  OBVIOUS
<1>6. PICK q \in Session :
         q = [S(g) EXCEPT !.remote = "none", !.tr = FALSE, !.paused = FALSE, !.stats = t]
  BY <1>3 DEF Session
<1>7. Put(g, q)
  BY <1>4, <1>5, <1>6 DEF StopFlags
<1>8. Touched(S(g), q)
  BY <1>3, <1>6 DEF Touched, Session
<1>9. timed' \subseteq Meetings /\ (c => S(g).meeting \in Meetings)
  <2>1. timed' = IF c THEN timed \cup {S(g).meeting} ELSE timed
    BY <1>4 DEF StopFlags
  <2>2. S(g).meeting \in 0..MaxMeetings
    BY <1>3 DEF Session
  <2>3. c => S(g).meeting # 0
    BY <1>4, Zenon
  <2>4. c => S(g).meeting \in Meetings
    BY <2>2, <2>3, LifecycleAssumption DEF Meetings
  <2>5. QED
    BY <1>1, <2>1, <2>4 DEF TypeOK
<1>10. PICK st \in [Meetings -> Status] :
          st = IF c THEN Ended(S(g).meeting, "completed") ELSE status
  BY <1>1, <1>9 DEF Ended, TypeOK, Status
<1>11. status' = Emptied(S(g), st, timed')
  BY <1>4, <1>10 DEF StopFlags
<1>12. status' \in [Meetings -> Status]
  BY <1>3, <1>11, EmptiedIs
<1>13. tm' \in Info /\ tm' = tm /\ UNCHANGED <<cur, spoiled>>
  BY <1>1 DEF StopFlags, TypeOK, Info
<1>14. Mindful(g)
  BY <1>2 DEF Mindful
<1>15. QED
  BY <1>1, <1>2, <1>7, <1>8, <1>9, <1>12, <1>13, <1>14, CalmPut DEF Cleaning

LEMMA AwaitSound ==
  ASSUME Sound, NEW g \in Goroutines, Await(g)
  PROVE  Sound'
<1>1. TypeOK /\ Programs /\ At(g, "Await") /\ Then(g)
  BY DEF Sound, Await
<1>2. Doing(g) = "stopped" /\ Phase(todo'[g]) = "idle"
  BY <1>1, Next1, StepIs DEF Course, Doing
<1>3. S(g) \in Session /\ S(g).conn # "none"
  BY <1>1, <1>2, Where DEF S
<1>4. PICK c \in {"none", "open", "gone", "closed"} : c = IF S(g).hung THEN S(g).conn ELSE "closed"
  BY <1>3 DEF Session
<1>5. PICK q \in Session : q = [S(g) EXCEPT !.conn = c]
  BY <1>3 DEF Session
<1>6. Put(g, q) /\ Touched(S(g), q)
  BY <1>3, <1>4, <1>5 DEF Touched, Session, Await
<1>7. /\ tm' \in Info /\ tm' = tm /\ UNCHANGED <<cur, spoiled>>
      /\ status' \in [Meetings -> Status] /\ timed' \subseteq Meetings
  BY <1>1 DEF Await, TypeOK, Info, Status
<1>8. Mindful(g)
  BY <1>2 DEF Mindful
<1>9. QED
  BY <1>1, <1>2, <1>6, <1>7, <1>8, CalmPut DEF Cleaning

LEMMA MarkFailedSound ==
  ASSUME Sound, NEW g \in Goroutines, MarkFailed(g)
  PROVE  Sound'
<1>1. TypeOK /\ Programs /\ At(g, "MarkFailed") /\ Then(g)
  BY DEF Sound, MarkFailed
<1>2. Doing(g) = "failing" /\ Phase(todo'[g]) = "leaving"
  BY <1>1, Next1, StepIs DEF Course, Doing
<1>3. S(g) \in Session /\ S(g).conn # "none"
  BY <1>1, <1>2, Where DEF S
<1>4. PICK q \in Session : q = [S(g) EXCEPT !.stats = TRUE]
  BY <1>3 DEF Session
<1>5. Put(g, q) /\ Touched(S(g), q)
  BY <1>3, <1>4 DEF Touched, Session, MarkFailed
<1>6. S(g).meeting # 0 => S(g).meeting \in Meetings
  BY <1>3 DEF Session, Meetings
<1>7. /\ tm' \in Info /\ tm' = tm /\ UNCHANGED <<cur, spoiled>>
      /\ status' \in [Meetings -> Status] /\ timed' \subseteq Meetings
  BY <1>1, <1>6 DEF MarkFailed, TypeOK, Info, Status, Ended
<1>8. Mindful(g)
  BY <1>2 DEF Mindful
<1>9. QED
  BY <1>1, <1>2, <1>5, <1>7, <1>8, CalmPut DEF Cleaning

LEMMA CompleteSound ==
  ASSUME Sound, NEW g \in Goroutines, Complete(g)
  PROVE  Sound'
<1>1. TypeOK /\ Programs /\ At(g, "Complete") /\ Then(g)
  BY DEF Sound, Complete
<1>2. /\ Doing(g) \in {"completing", "completingPaused"}
      /\ Phase(todo'[g]) \in {"closing", "closingPaused"}
  BY <1>1, Next1, StepIs DEF Course, Doing
<1>3. on[g] \in Sessions /\ S(g) \in Session /\ S(g).conn # "none"
  BY <1>1, <1>2, Where DEF S
<1>4. /\ tm' \in Info /\ tm' = tm /\ UNCHANGED <<cur, spoiled>>
      /\ status \in [Meetings -> Status] /\ timed \subseteq Meetings
  BY <1>1 DEF Complete, TypeOK, Info, Status
<1>5. Mindful(g)
  BY <1>2 DEF Mindful
<1>6. CASE S(g).meeting # 0 /\ S(g).started /\ ~S(g).stats
  <2>1. PICK q \in Session : q = [S(g) EXCEPT !.stats = TRUE]
    BY <1>3 DEF Session
  <2>2. Put(g, q) /\ Touched(S(g), q)
    BY <1>3, <1>6, <2>1 DEF Touched, Session, Complete
  <2>3. status' \in [Meetings -> Status] /\ timed' \subseteq Meetings
    BY <1>3, <1>4, <1>6 DEF Complete, Status, Ended, Session, Meetings
  <2>4. QED
    BY <1>1, <1>2, <1>4, <1>5, <2>2, <2>3, CalmPut DEF Cleaning
<1>7. CASE ~(S(g).meeting # 0 /\ S(g).started /\ ~S(g).stats)
  <2>1. UNCHANGED <<sess, cur, status, timed, spoiled>>
    BY <1>7 DEF Complete
  <2>2. tm'.st = "transcribing" => Wakeful(g)
    BY <1>2, <1>4, <2>1 DEF Wakeful, Cleaning
  <2>3. QED
    BY <1>1, <1>4, <1>5, <2>1, <2>2, IdleSound
<1>8. QED
  BY <1>6, <1>7

LEMMA StopTMSound ==
  ASSUME Sound, NEW g \in Goroutines, StopTM(g)
  PROVE  Sound'
<1>1. TypeOK /\ Programs /\ At(g, "StopTM") /\ Then(g)
  BY DEF Sound, StopTM
<1>2. Phase(todo'[g]) \in {"closing", "closingPaused", "doomed", "cleaning"}
  BY <1>1, Next1, StepIs DEF Course
<1>3. Mindful(g)
  BY <1>2 DEF Mindful
<1>4. QED
  BY <1>1, <1>3, NoSessionIs, IdleSound DEF StopTM

\* The steps of the disconnect that close the remote connection.
LEMMA HangUpSound ==
  ASSUME Sound, NEW g \in Goroutines, NEW step \in {"CloseRemote", "CloseEmpty", "Close"},
         At(g, step), Then(g), NEW q \in {HangUp(S(g)), AfterClose(S(g))}, Put(g, q),
         status' = status \/ status' = Emptied(S(g), status, timed),
         UNCHANGED <<cur, tm, timed, spoiled>>
  PROVE  Sound'
<1>1. TypeOK /\ Programs
  BY DEF Sound
<1>2. Doing(g) \in {"closing", "closingPaused", "closed"} /\ Phase(todo'[g]) \in {"closed", "idle"}
  BY <1>1, Next1, StepIs DEF Course, Doing
<1>3. on[g] \in Sessions /\ S(g) \in Session /\ S(g).conn # "none" /\ g \in Sessions /\ on[g] = g
  BY <1>1, <1>2, Where DEF S, Programs, Goroutines, Health, Cleaning
<1>4. q \in Session /\ Touched(S(g), q) /\ q.remote = "none"
  <2>1. CASE q = HangUp(S(g))
    BY <1>3, <2>1, HangUpIs DEF Touched
  <2>2. CASE q = AfterClose(S(g))
    BY <1>3, <2>2, AfterCloseIs DEF Touched
  <2>3. QED
    BY <2>1, <2>2
<1>5. /\ tm' \in Info /\ status \in [Meetings -> Status] /\ timed' \subseteq Meetings
  BY <1>1 DEF TypeOK, Info, Status
<1>6. status' \in [Meetings -> Status]
  BY <1>3, <1>5, EmptiedIs
<1>7. sess'[g].remote = "none"
  BY <1>1, <1>3, <1>4, PutIs DEF Put
<1>8. Mindful(g)
  BY <1>2, <1>7 DEF Mindful
<1>9. QED
  BY <1>2, <1>4, <1>5, <1>6, <1>8, CalmPut DEF Cleaning

LEMMA ClosesSound ==
  ASSUME Sound, NEW g \in Goroutines, CloseRemote(g) \/ CloseEmpty(g) \/ Close(g)
  PROVE  Sound'
<1>1. CASE CloseRemote(g)
  BY <1>1, HangUpSound DEF CloseRemote
<1>2. CASE CloseEmpty(g)
  BY <1>2, HangUpSound DEF CloseEmpty
<1>3. CASE Close(g)
  BY <1>3, HangUpSound DEF Close
<1>4. QED
  BY <1>1, <1>2, <1>3

LEMMA ReturnSound ==
  ASSUME Sound, NEW g \in Goroutines, Return(g)
  PROVE  Sound'
<1>1. TypeOK /\ Programs /\ At(g, "Return") /\ Then(g)
  BY DEF Sound, Return
<1>2. Doing(g) = "leaving" /\ Phase(todo'[g]) = "idle"
  BY <1>1, Next1, StepIs DEF Course, Doing
<1>3. S(g) \in Session /\ S(g).conn # "none"
  BY <1>1, <1>2, Where DEF S
<1>4. PICK q \in Session : q = [S(g) EXCEPT !.ctx = TRUE]
  BY <1>3 DEF Session
<1>5. Put(g, q) /\ Touched(S(g), q)
  BY <1>3, <1>4 DEF Touched, Session, Return
<1>6. /\ tm' \in Info /\ tm' = tm /\ UNCHANGED <<cur, spoiled>>
      /\ status' \in [Meetings -> Status] /\ timed' \subseteq Meetings
  BY <1>1 DEF Return, TypeOK, Info, Status
<1>7. Mindful(g)
  BY <1>2 DEF Mindful
<1>8. QED
  BY <1>1, <1>2, <1>5, <1>6, <1>7, CalmPut DEF Cleaning

LEMMA HealthCloseSound ==
  ASSUME Sound, NEW g \in Goroutines, HealthClose(g)
  PROVE  Sound'
<1>1. TypeOK /\ Programs /\ At(g, "HealthClose") /\ Then(g)
  BY DEF Sound, HealthClose
<1>2. Doing(g) = "doomed" /\ Phase(todo'[g]) = "removing" /\ on'[g] = on[g]
  BY <1>1, Next1, StepIs DEF Course, Doing
<1>3. on[g] \in Sessions /\ S(g) \in Session /\ S(g).conn # "none"
  BY <1>1, <1>2, Where DEF S
<1>4. PICK a \in Session : a = AfterClose(S(g))
  BY <1>3, AfterCloseIs
<1>5. /\ a.conn = "closed" /\ a.remote = "none" /\ a.ctx = TRUE /\ a.hung = S(g).hung
      /\ a.stopped = S(g).stopped /\ a.late = S(g).late
  BY <1>3, <1>4, AfterCloseIs
<1>6. PICK q \in Session : q = [a EXCEPT !.tr = FALSE, !.paused = FALSE]
  BY DEF Session
<1>7. Touched(S(g), q) /\ q.ctx /\ q.remote = "none"
  BY <1>3, <1>5, <1>6 DEF Touched, Session
<1>8. /\ Put(g, q) /\ tm' \in Info /\ tm' = tm /\ timed' \subseteq Meetings
      /\ status' \in [Meetings -> Status] /\ UNCHANGED <<cur, spoiled>>
  BY <1>1, <1>4, <1>6 DEF HealthClose, TypeOK, Info, Status
<1>9. sess'[on[g]] = q
  BY <1>1, <1>3, <1>8, PutIs DEF Put
<1>10. Mindful(g)
  BY <1>2, <1>3, <1>7, <1>9 DEF Mindful
<1>11. QED
  BY <1>1, <1>2, <1>7, <1>8, <1>10, CalmPut DEF Cleaning

LEMMA VerifySound ==
  ASSUME Sound, NEW g \in Goroutines, Verify(g)
  PROVE  Sound'
<1>1. TypeOK /\ Programs /\ At(g, "Verify") /\ Then(g)
  BY DEF Sound, Verify
<1>2. Doing(g) = "cleaning" /\ Phase(todo'[g]) = "idle"
  BY <1>1, Next1, StepIs DEF Course, Doing
<1>3. /\ tm' \in Info /\ tm'.st = "none" /\ timed' \subseteq Meetings
      /\ status' \in [Meetings -> Status] /\ UNCHANGED <<cur, spoiled>>
  BY <1>1, NoSessionIs DEF Verify, TypeOK, Status
<1>4. Mindful(g)
  BY <1>2 DEF Mindful
<1>5. CASE cur = 0
  BY <1>1, <1>3, <1>4, <1>5, IdleSound DEF Verify
<1>6. CASE cur # 0
  <2>1. cur \in Sessions /\ sess[cur] \in Session /\ sess[cur].conn # "none"
    BY <1>1, <1>6, LifecycleAssumption DEF TypeOK, Sessions, Session, Programs
  <2>2. PICK q \in Session : q = HangUp(sess[cur])
    BY <2>1, HangUpIs
  <2>3. sess' = [sess EXCEPT ![cur] = q] /\ Touched(sess[cur], q)
    BY <1>6, <2>1, <2>2, HangUpIs DEF Verify, Touched
  <2>4. /\ sess' \in [Sessions -> Session] /\ Kept /\ \A s \in Sessions : Soft(s)
    BY <1>1, <1>3, <2>1, <2>3, TouchIs
  <2>5. QED
    BY <1>1, <1>3, <1>4, <2>4, StepSound
<1>7. QED
  BY <1>5, <1>6

\* The entry is taken away by the goroutine of the session it belongs to, or
\* the step is remembered in spoiled.
LEMMA RemoveSound ==
  ASSUME Sound, NEW g \in Goroutines, Remove(g)
  PROVE  Sound'
<1>1. TypeOK /\ Programs /\ Safe /\ At(g, "Remove") /\ Then(g)
  BY DEF Sound, Remove
<1>2. cur' = 0 /\ UNCHANGED <<sess, tm, status, timed>>
  BY DEF Remove
<1>3. spoiled' \in BOOLEAN /\ (~spoiled' => ~spoiled /\ cur \in {0, on[g]})
  <2>1. spoiled' = (spoiled \/ cur \notin {0, on[g]})
    BY DEF Remove
  <2>2. (spoiled \/ cur \notin {0, on[g]}) \in BOOLEAN
    BY Zenon
  <2>3. QED
    BY <2>1, <2>2, Zenon
<1>4. /\ <<Doing(g), Phase(todo'[g])>> \in
           {<<"closed", "closed">>, <<"removing", "idle">>, <<"listed", "cleaning">>}
      /\ todo' \in [Goroutines -> Seq(Steps)] /\ on' \in [Goroutines -> 0..MaxSessions]
      /\ on'[g] = on[g] \/ (g \in Workers /\ Phase(todo'[g]) = "idle")
      /\ \A k \in Goroutines \ {g} : todo'[k] = todo[k] /\ on'[k] = on[k]
  <2>1. /\ Course(todo[g]) /\ Head(todo[g]) = "Remove" /\ Doing(g) = Phase(todo[g])
        /\ Phase(todo'[g]) = Phase(Tail(todo[g]))
    BY <1>1, StepIs
  <2>2. <<Doing(g), Phase(todo'[g])>> \in
           {<<"closed", "closed">>, <<"removing", "idle">>, <<"listed", "cleaning">>}
    BY <2>1 DEF Course
  <2>3. QED
    BY <1>1, <2>2, StepIs
<1>5. TypeOK'
  BY <1>1, <1>2, <1>3, <1>4, LifecycleAssumption DEF TypeOK
<1>6. Kept
  BY <1>2 DEF Kept
<1>7. Programs'
  BY <1>1, <1>6, StepPrograms
<1>8. ASSUME ~spoiled' PROVE (Registered /\ NoneOpen /\ Watched)'
  <2>1. Registered /\ NoneOpen /\ Watched /\ cur \in {0, on[g]}
    BY <1>1, <1>3, <1>8 DEF Safe
  <2>2. \A s \in Sessions : s \in Goroutines /\ s \notin Workers /\ s # 0
    BY Apart
  <2>3. \A w \in Workers : w \in Goroutines /\ w \notin Sessions
    BY Apart
  <2>4. g \in Sessions => on[g] = g /\ Doing(g) = "closed" /\ sess[g].hung /\ sess[g].stopped
    BY <1>1, <1>4 DEF Programs, Commands, Leaving, TakingDown
  <2>5. g \in Workers => on[g] \in Sessions /\ Doing(g) \in {"removing", "listed"} /\ sess[on[g]].ctx
    <3>1. g \in Workers => Doing(g) \in {"removing", "listed"}
      BY <1>1, <1>4, <2>3 DEF Programs, Health, Cleaning
    <3>2. g \in Workers => on[g] # 0 /\ sess[on[g]].ctx
      BY <2>1, <3>1 DEF Registered
    <3>3. QED
      BY <1>1, <3>1, <3>2, LifecycleAssumption DEF TypeOK, Sessions
  <2>6. g \in Sessions \cup Workers
    BY Apart
  <2>7. Registered'
    <3>1. ASSUME NEW s \in Sessions, sess[s].conn # "none", ~sess[s].ctx, ~sess[s].hung
          PROVE  FALSE
      BY <2>1, <2>2, <2>4, <2>5, <2>6, <3>1 DEF Registered
    <3>2. ASSUME NEW w \in Workers, Phase(todo'[w]) \in {"removing", "listed"}
          PROVE  on'[w] # 0 /\ sess[on'[w]].ctx
      BY <1>4, <2>1, <2>3, <3>2 DEF Registered, Doing
    <3>3. QED
      BY <1>2, <3>1, <3>2 DEF Registered, Doing
  <2>8. NoneOpen'
    <3>1. ASSUME NEW s \in Sessions
          PROVE  Off(s)
      BY <2>1, <2>2, <2>4, <2>5, <2>6 DEF NoneOpen
    <3>2. ASSUME NEW w \in Workers, Phase(todo'[w]) \in {"removing", "listed"}
          PROVE  Off(on'[w])
      BY <1>4, <2>1, <2>3, <3>2 DEF NoneOpen, Doing
    <3>3. QED
      BY <1>2, <3>1, <3>2 DEF NoneOpen, Off, Doing
  <2>9. Watched'
    <3> SUFFICES ASSUME tm.st = "transcribing", ~Late
                 PROVE  \/ \E s \in Sessions : Phase(todo'[s]) = "opening" /\ sess[s].ctx
                        \/ \E w \in Workers : Phase(todo'[w]) \in Cleaning
      BY <1>2 DEF Watched, Late, Doing
    <3>1. CASE cur # 0 /\ ~Settled(cur)
      <4>1. on[g] = cur
        BY <2>1, <3>1
      <4>2. g \in Workers /\ Doing(g) = "listed"
        BY <2>4, <2>5, <2>6, <3>1, <4>1 DEF Settled
      <4>3. QED
        BY <1>4, <4>2 DEF Cleaning
    <3>2. ASSUME NEW s \in Sessions, Doing(s) = "opening", sess[s].ctx
          PROVE  Phase(todo'[s]) = "opening"
      BY <1>4, <2>2, <3>2 DEF Doing
    <3>3. ASSUME NEW w \in Workers, Doing(w) \in Cleaning
          PROVE  Phase(todo'[w]) \in Cleaning \/ (w = g /\ Phase(todo'[w]) = "cleaning")
      BY <1>4, <2>3, <3>3 DEF Doing, Cleaning
    <3>4. QED
      BY <2>1, <3>1, <3>2, <3>3 DEF Watched, Cleaning
  <2>10. QED
    BY <2>7, <2>8, <2>9
<1>9. QED
  BY <1>5, <1>7, <1>8 DEF Sound, Safe

\* The cleanup closes the session that is registered now; if it is not the one
\* it set out for, that is remembered.
LEMMA CloseListedSound ==
  ASSUME Sound, NEW g \in Workers, CloseListed(g)
  PROVE  Sound'
<1>1. TypeOK /\ Programs /\ Safe /\ At(g, "CloseListed")
  BY DEF Sound, CloseListed
<1>2. UNCHANGED <<cur, tm, status, timed>>
  BY DEF CloseListed
<1>3. spoiled' \in BOOLEAN /\ (~spoiled' => ~spoiled /\ cur \in {0, on[g]})
  <2>1. spoiled' = (spoiled \/ cur \notin {0, on[g]})
    BY DEF CloseListed
  <2>2. (spoiled \/ cur \notin {0, on[g]}) \in BOOLEAN
    BY Zenon
  <2>3. QED
    BY <2>1, <2>2, Zenon
<1>4. g \in Goroutines /\ g \notin Sessions
  BY Apart
<1>5. /\ todo[g] = <<"CloseListed", "Verify">> /\ Tail(todo[g]) = <<"Verify">>
      /\ Doing(g) = "cleaning"
  <2>1. todo[g] \in Known /\ todo[g] # << >> /\ Head(todo[g]) = "CloseListed"
    BY <1>1, <1>4 DEF Programs, At
  <2>2. todo[g] = <<"CloseListed", "Verify">>
    BY <2>1 DEF Known
  <2>3. QED
    BY <2>2 DEF Doing, Phase
<1>6. /\ <<"Verify">> \in Known /\ Phase(<<"Verify">>) = "cleaning"
      /\ <<"Remove", "Verify">> \in Known /\ Phase(<<"Remove", "Verify">>) = "listed"
      /\ <<"Remove">> \o <<"Verify">> = <<"Remove", "Verify">>
  <2>1. <<"Remove">> \o <<"Verify">> = <<"Remove", "Verify">>
    <3>1. "Remove" \in Steps /\ "Verify" \in Steps
      BY DEF Steps
    <3>2. QED
      BY <3>1, Join2
  <2>2. QED
    BY <2>1 DEF Known, Phase
<1>7. PICK p \in Known : /\ p \in {<<"Verify">>, <<"Remove", "Verify">>} /\ Goto(g, p)
                         /\ p = <<"Remove", "Verify">> => cur # 0
  BY <1>5, <1>6 DEF CloseListed, Then
<1>8. /\ todo'[g] = p /\ Phase(p) \in Cleaning /\ p # << >> /\ on'[g] = on[g]
      /\ p = <<"Remove", "Verify">> \/ Phase(p) = "cleaning"
      /\ todo' \in [Goroutines -> Seq(Steps)] /\ on' \in [Goroutines -> 0..MaxSessions]
      /\ \A k \in Goroutines \ {g} : todo'[k] = todo[k] /\ on'[k] = on[k]
  BY <1>1, <1>4, <1>6, <1>7, GotoIs, ProgramsBegun DEF Cleaning
<1>9. cur # 0 => cur \in Sessions /\ sess[cur] \in Session /\ sess[cur].conn # "none"
  BY <1>1, LifecycleAssumption DEF TypeOK, Sessions, Session, Programs
<1>10. /\ sess' \in [Sessions -> Session] /\ Kept /\ \A s \in Sessions : Soft(s)
       /\ cur # 0 => sess'[cur].ctx /\ sess'[cur].remote = "none"
  <2>1. CASE cur = 0
    BY <1>1, <2>1 DEF CloseListed, Kept, Soft, TypeOK, Session
  <2>2. CASE cur # 0
    <3>1. PICK q \in Session : q = AfterClose(sess[cur])
      BY <1>9, <2>2, AfterCloseIs
    <3>2. Touched(sess[cur], q) /\ q.ctx /\ q.remote = "none"
      BY <1>9, <2>2, <3>1, AfterCloseIs DEF Touched
    <3>3. sess' = [sess EXCEPT ![cur] = q]
      BY <2>2, <3>1 DEF CloseListed
    <3>4. QED
      BY <1>1, <1>2, <1>9, <2>2, <3>2, <3>3, TouchIs
  <2>3. QED
    BY <2>1, <2>2
<1>11. TypeOK'
  BY <1>1, <1>2, <1>3, <1>8, <1>10 DEF TypeOK, Session
<1>12. Along(Doing(g), Phase(p))
  BY <1>5, <1>8 DEF Along, Commands, Leaving, TakingDown, Health, Cleaning
<1>13. Programs'
  BY <1>1, <1>4, <1>7, <1>10, <1>12, MovePrograms
<1>14. CASE spoiled'
  BY <1>11, <1>13, <1>14 DEF Sound, Safe
<1>15. CASE ~spoiled'
  <2>1. ~spoiled /\ cur \in {0, on[g]} /\ UNCHANGED <<cur, spoiled>>
    BY <1>1, <1>2, <1>3, <1>15 DEF TypeOK
  <2>2. Mindful(g)
    BY <1>6, <1>7, <1>8, <1>9, <1>10, <2>1 DEF Mindful
  <2>3. tm'.st = "transcribing" => Wakeful(g)
    BY <1>2, <1>4, <1>5, <1>8, <1>10 DEF Wakeful, Cleaning, Kept
  <2>4. Safe'
    BY <1>1, <1>4, <1>8, <1>10, <1>13, <2>1, <2>2, <2>3, GentleSafe
  <2>5. QED
    BY <1>11, <1>13, <2>4 DEF Sound
<1>16. QED
  BY <1>14, <1>15

LEMMA BeginSound ==
  ASSUME Sound, NEW w \in Workers, NEW kind \in Kinds, Begin(w, kind)
  PROVE  Sound'
<1>1. TypeOK /\ Programs /\ Safe
  BY DEF Sound
<1>2. /\ todo[w] = << >> /\ kind \in {"health", "cleanup", "forced"}
      /\ kind \in {"health", "forced"} => cur # 0
      /\ todo' = [todo EXCEPT ![w] = Tasks[kind]] /\ on' = [on EXCEPT ![w] = cur]
      /\ UNCHANGED <<sess, cur, tm, status, timed, spoiled>>
  BY LifecycleAssumption DEF Begin
<1>3. Doing(w) = "idle" /\ w \in Goroutines /\ w \notin Sessions
  BY <1>2, ProgramsBegun, Apart DEF Doing
<1>4. PICK p \in Known :
         /\ p = Tasks[kind] /\ p \in Seq(Steps)
         /\ Phase(p) \in {"found", "cleaning", "stopping"}
         /\ Phase(p) # "cleaning" => cur # 0
  <2>1. CASE kind = "health"
    <3>1. Tasks[kind] = <<"StopTM", "HealthClose", "Remove">>
      BY <2>1 DEF Tasks
    <3>2. Tasks[kind] \in Known /\ Phase(Tasks[kind]) = "found"
      BY <3>1 DEF Known, Phase
    <3>3. QED
      BY <1>2, <2>1, <3>2, ProgramGoesOn
  <2>2. CASE kind = "cleanup"
    <3>1. Tasks[kind] = <<"StopTM", "CloseListed", "Verify">>
      BY <2>2 DEF Tasks
    <3>2. Tasks[kind] \in Known /\ Phase(Tasks[kind]) = "cleaning"
      BY <3>1 DEF Known, Phase
    <3>3. QED
      BY <1>2, <2>2, <3>2, ProgramGoesOn
  <2>3. CASE kind = "forced"
    <3>1. Tasks[kind] = StopProgram
      BY <2>3 DEF Tasks
    <3>2. QED
      BY <1>2, <2>3, <3>1, ProgramsBegun, ProgramGoesOn
  <2>4. QED
    BY <1>2, <2>1, <2>2, <2>3
<1>5. /\ todo' \in [Goroutines -> Seq(Steps)] /\ on' \in [Goroutines -> 0..MaxSessions]
      /\ todo'[w] = p /\ on'[w] = cur
      /\ \A k \in Goroutines \ {w} : todo'[k] = todo[k] /\ on'[k] = on[k]
  BY <1>1, <1>2, <1>3, <1>4 DEF TypeOK
<1>6. TypeOK'
  BY <1>1, <1>2, <1>5 DEF TypeOK
<1>7. Programs'
  <2>1. \A s \in Sessions : todo'[s] = todo[s] /\ on'[s] = on[s]
    BY <1>3, <1>5, Apart
  <2>2. \A g \in Goroutines : todo'[g] \in Known
    BY <1>1, <1>5 DEF Programs
  <2>3. ASSUME NEW v \in Workers
        PROVE  /\ Phase(todo'[v]) \in {"idle", "stopping", "stopped"} \cup Health \cup Cleaning
               /\ Phase(todo'[v]) \in {"stopping", "stopped"} \cup Health => on'[v] # 0
               /\ on'[v] # 0 => sess[on'[v]].conn # "none"
    <3>1. CASE v = w
      <4>1. cur # 0 => sess[cur].conn # "none"
        BY <1>1 DEF Programs
      <4>2. QED
        BY <1>4, <1>5, <3>1, <4>1 DEF Health, Cleaning
    <3>2. CASE v # w
      <4>1. todo'[v] = todo[v] /\ on'[v] = on[v]
        BY <1>5, <3>2, Apart
      <4>2. /\ Doing(v) \in {"idle", "stopping", "stopped"} \cup Health \cup Cleaning
            /\ Doing(v) \in {"stopping", "stopped"} \cup Health => on[v] # 0
            /\ on[v] # 0 => sess[on[v]].conn # "none"
        BY <1>1 DEF Programs
      <4>3. QED
        BY <4>1, <4>2 DEF Doing
    <3>3. QED
      BY <3>1, <3>2
  <2>4. QED
    BY <1>1, <1>2, <2>1, <2>2, <2>3 DEF Programs, Doing
<1>8. \A s \in Sessions : Soft(s) /\ sess'[s].stopped = sess[s].stopped
  BY <1>2 DEF Soft
<1>9. Mindful(w)
  BY <1>4, <1>5 DEF Mindful
<1>10. tm'.st = "transcribing" => Wakeful(w)
  BY <1>2, <1>3, <1>4, <1>5, <1>8 DEF Wakeful, Cleaning
<1>11. Safe'
  BY <1>1, <1>2, <1>3, <1>5, <1>7, <1>8, <1>9, <1>10, GentleSafe
<1>12. QED
  BY <1>6, <1>7, <1>11 DEF Sound

-----------------------------------------------------------------------------
(* Events and messages *)

\* Something happens to a session while no goroutine goes on.
LEMMA EventSound ==
  ASSUME Sound, NEW s \in Sessions, NEW q \in Session, sess' = [sess EXCEPT ![s] = q],
         Touched(sess[s], q), UNCHANGED <<cur, todo, on, spoiled>>,
         tm' \in Info, tm'.st = "transcribing" => tm.st = "transcribing",
         status' \in [Meetings -> Status], timed' \subseteq Meetings
  PROVE  Sound'
<1>1. TypeOK /\ Programs /\ Safe
  BY DEF Sound
<1>2. /\ sess' \in [Sessions -> Session] /\ Kept /\ \A k \in Sessions : Soft(k)
  BY <1>1, TouchIs
<1>3. TypeOK'
  BY <1>1, <1>2 DEF TypeOK, Session, Info, Status
<1>4. Programs'
  BY <1>1, <1>2, EventPrograms
<1>5. s \in Goroutines
  BY Apart
<1>6. Mindful(s)
  BY DEF Mindful, Doing
<1>7. Doing(s) \in {"doomed", "removing"} => FALSE
  BY <1>1 DEF Programs, Commands, Leaving, TakingDown
<1>8. tm'.st = "transcribing" => Wakeful(s)
  BY <1>2, <1>7 DEF Wakeful, Doing, Kept
<1>9. Safe'
  BY <1>1, <1>2, <1>4, <1>5, <1>6, <1>8, GentleSafe
<1>10. QED
  BY <1>3, <1>4, <1>9 DEF Sound

LEMMA ClientLeavesSound ==
  ASSUME Sound, NEW s \in Sessions, ClientLeaves(s)
  PROVE  Sound'
<1>1. TypeOK /\ sess[s] \in Session /\ sess[s].conn = "open"
  BY DEF Sound, TypeOK, Session, ClientLeaves
<1>2. PICK q \in Session : q = [sess[s] EXCEPT !.conn = "gone"]
  BY <1>1 DEF Session
<1>3. sess' = [sess EXCEPT ![s] = q] /\ Touched(sess[s], q)
  BY <1>1, <1>2 DEF ClientLeaves, Touched, Session
<1>4. QED
  BY <1>1, <1>3, EventSound DEF ClientLeaves, TypeOK, Info, Status

LEMMA PingFailsSound ==
  ASSUME Sound, NEW s \in Sessions, PingFails(s)
  PROVE  Sound'
<1>1. TypeOK /\ sess[s] \in Session /\ sess[s].conn # "none"
  BY DEF Sound, TypeOK, Session, PingFails
<1>2. PICK q \in Session : q = AfterClose(sess[s])
  BY <1>1, AfterCloseIs
<1>3. sess' = [sess EXCEPT ![s] = q] /\ Touched(sess[s], q)
  BY <1>1, <1>2, AfterCloseIs DEF PingFails, Touched
<1>4. QED
  BY <1>1, <1>3, EventSound DEF PingFails, TypeOK, Info, Status

LEMMA RemoteLostSound ==
  ASSUME Sound, NEW s \in Sessions, RemoteLost(s)
  PROVE  Sound'
<1>1. TypeOK /\ Programs /\ sess[s] \in Session /\ sess[s].remote = "open"
  BY DEF Sound, TypeOK, Session, RemoteLost
<1>2. sess[s].conn # "none"
  BY <1>1 DEF Programs, Closed
<1>3. PICK q \in Session : q = [sess[s] EXCEPT !.remote = "none", !.tr = FALSE]
  BY <1>1 DEF Session
<1>4. sess' = [sess EXCEPT ![s] = q] /\ Touched(sess[s], q)
  BY <1>1, <1>2, <1>3, ZenonT(60) DEF RemoteLost, Touched, Session
<1>5. QED
  BY <1>1, <1>4, EventSound, NoSessionIs DEF RemoteLost, TypeOK, Status

LEMMA FirstFinalSound ==
  ASSUME Sound, NEW s \in Sessions, FirstFinal(s)
  PROVE  Sound'
<1>1. TypeOK /\ Programs /\ sess[s] \in Session /\ sess[s].remote = "open" /\ sess[s].uuid # 0
  BY DEF Sound, TypeOK, Session, FirstFinal
<1>2. sess[s].conn # "none"
  BY <1>1 DEF Programs, Closed
<1>3. PICK m \in 0..MaxMeetings : m = IF sess[s].meeting = 0 THEN sess[s].uuid ELSE sess[s].meeting
  BY <1>1 DEF Session
<1>4. PICK q \in Session : q = [sess[s] EXCEPT !.started = TRUE, !.meeting = m]
  BY <1>1 DEF Session
<1>5. sess' = [sess EXCEPT ![s] = q] /\ Touched(sess[s], q)
  BY <1>1, <1>2, <1>3, <1>4, ZenonT(60) DEF FirstFinal, Touched, Session
<1>6. status' \in [Meetings -> Status]
  BY <1>1 DEF FirstFinal, TypeOK, Session, Status, Meetings
<1>7. QED
  BY <1>1, <1>5, <1>6, EventSound DEF FirstFinal, TypeOK, Info

\* A reader sets out: it was idle, and what it does next fits its flags.
LEMMA SetsOut ==
  ASSUME Sound, NEW s \in Sessions, NEW p \in Known, Goto(s, p), Doing(s) = "idle",
         NEW q \in Session, sess' = [sess EXCEPT ![s] = q], UNCHANGED <<cur, spoiled>>,
         sess[s].conn # "none", q.conn # "none", sess[s].ctx => q.ctx, sess[s].hung => q.hung,
         sess[s].late => q.late, q.remote \in {"none", sess[s].remote},
         Phase(p) \in (Commands \ {"opening"}) \cup Leaving \cup (TakingDown \ {"closed"}),
         Phase(p) \in Leaving => q.hung /\ ~q.stopped,
         Phase(p) \in TakingDown => q.hung /\ q.stopped,
         Phase(p) \in Commands => ~q.hung,
         q.stopped => sess[s].stopped \/ Phase(p) = "stopping",
         tm' \in Info, tm'.st = "transcribing" => tm.st = "transcribing",
         status' \in [Meetings -> Status], timed' \subseteq Meetings
  PROVE  Sound'
<1>1. TypeOK /\ Programs /\ Safe
  BY DEF Sound
<1>2. s \in Goroutines /\ s \notin Workers /\ (\A w \in Workers : w \in Goroutines /\ w # s)
      /\ \A k \in Sessions : k \in Goroutines
  BY Apart
<1>3. /\ sess' \in [Sessions -> Session] /\ sess'[s] = q
      /\ \A k \in Sessions \ {s} : sess'[k] = sess[k]
  BY <1>1, PutIs
<1>4. /\ todo' \in [Goroutines -> Seq(Steps)] /\ on' \in [Goroutines -> 0..MaxSessions]
      /\ todo'[s] = p /\ on'[s] = on[s]
      /\ \A k \in Goroutines \ {s} : todo'[k] = todo[k] /\ on'[k] = on[k]
  BY <1>1, <1>2, GotoIs
<1>5. TypeOK'
  BY <1>1, <1>3, <1>4 DEF TypeOK, Session, Info, Status
<1>6. Programs'
  <2>1. \A g \in Goroutines : todo'[g] \in Known
    BY <1>1, <1>4 DEF Programs
  <2>2. ASSUME NEW k \in Sessions
        PROVE  /\ on'[k] = k
               /\ Phase(todo'[k]) \in {"idle"} \cup Commands \cup Leaving \cup TakingDown
               /\ sess'[k].conn = "none" => sess'[k] = Closed /\ Phase(todo'[k]) = "idle"
               /\ Phase(todo'[k]) \in Leaving => sess'[k].hung /\ ~sess'[k].stopped
               /\ Phase(todo'[k]) \in TakingDown => sess'[k].hung /\ sess'[k].stopped
               /\ Phase(todo'[k]) \in Commands => ~sess'[k].hung
    <3>1. CASE k = s
      <4>1. todo'[k] = p /\ on'[k] = on[s] /\ sess'[k] = q /\ on[s] = s
        BY <1>1, <1>3, <1>4, <3>1 DEF Programs
      <4>2. QED
        BY <3>1, <4>1
    <3>2. CASE k # s
      <4>1. todo'[k] = todo[k] /\ on'[k] = on[k] /\ sess'[k] = sess[k]
        BY <1>2, <1>3, <1>4, <3>2
      <4>2. QED
        BY <1>1, <4>1 DEF Programs, Doing
    <3>3. QED
      BY <3>1, <3>2
  <2>3. ASSUME NEW w \in Workers
        PROVE  /\ Phase(todo'[w]) \in {"idle", "stopping", "stopped"} \cup Health \cup Cleaning
               /\ Phase(todo'[w]) \in {"stopping", "stopped"} \cup Health => on'[w] # 0
               /\ on'[w] # 0 => sess'[on'[w]].conn # "none"
    <3>1. todo'[w] = todo[w] /\ on'[w] = on[w] /\ (on[w] # 0 => on[w] \in Sessions)
      <4>1. w \in Goroutines /\ w # s
        BY <1>2
      <4>2. on[w] \in 0..MaxSessions
        BY <1>1, <4>1 DEF TypeOK
      <4>3. on[w] # 0 => on[w] \in Sessions
        BY <4>2, LifecycleAssumption DEF Sessions
      <4>4. QED
        BY <1>4, <4>1, <4>3
    <3>2. /\ Doing(w) \in {"idle", "stopping", "stopped"} \cup Health \cup Cleaning
          /\ Doing(w) \in {"stopping", "stopped"} \cup Health => on[w] # 0
          /\ on[w] # 0 => sess[on[w]].conn # "none"
      BY <1>1 DEF Programs
    <3>3. on[w] # 0 => sess'[on[w]].conn # "none"
      BY <1>3, <3>1, <3>2
    <3>4. QED
      BY <3>1, <3>2, <3>3 DEF Doing
  <2>4. cur' # 0 => sess'[cur'].conn # "none"
    <3>1. cur # 0 => cur \in Sessions /\ sess[cur].conn # "none"
      BY <1>1, LifecycleAssumption DEF TypeOK, Sessions, Programs
    <3>2. QED
      BY <1>3, <3>1
  <2>5. QED
    BY <2>1, <2>2, <2>3, <2>4 DEF Programs, Doing
<1>7. \A k \in Sessions : Soft(k)
  BY <1>3 DEF Soft
<1>8. Mindful(s)
  BY <1>4 DEF Mindful, Commands, Leaving, TakingDown
<1>9. tm'.st = "transcribing" => Wakeful(s)
  BY <1>3, <1>4 DEF Wakeful, Commands, Leaving, TakingDown, Cleaning
<1>10. Safe'
  BY <1>1, <1>2, <1>4, <1>6, <1>7, <1>8, <1>9, GentleSafe
<1>11. QED
  BY <1>5, <1>6, <1>10 DEF Sound

LEMMA ReaderEndsSound ==
  ASSUME Sound, NEW s \in Sessions, ReaderEnds(s)
  PROVE  Sound'
<1>1. TypeOK /\ sess[s] \in Session /\ sess[s].conn # "none" /\ todo[s] = << >>
  BY DEF Sound, TypeOK, Session, ReaderEnds
<1>2. PICK q \in Session : q = [sess[s] EXCEPT !.hung = TRUE]
  BY <1>1 DEF Session
<1>3. /\ q.conn = sess[s].conn /\ q.ctx = sess[s].ctx /\ q.hung = TRUE /\ q.late = sess[s].late
      /\ q.remote = sess[s].remote /\ q.stopped = sess[s].stopped
  BY <1>1, <1>2 DEF Session
<1>4. sess' = [sess EXCEPT ![s] = q] /\ UNCHANGED <<cur, tm, status, timed, spoiled>>
  BY <1>2 DEF ReaderEnds
<1>5. Goto(s, Disconnect(sess[s]))
  BY DEF ReaderEnds, Disconnect
<1>6. PICK p \in Known :
         /\ Goto(s, p)
         /\ ~sess[s].stopped => Phase(p) \in {"failing", "leaving"}
         /\ sess[s].stopped => Phase(p) \in {"completing", "completingPaused"}
  BY <1>1, <1>5, DisconnectIs
<1>7. Doing(s) = "idle"
  BY <1>1, ProgramsBegun DEF Doing
<1>8. tm' \in Info /\ status' \in [Meetings -> Status] /\ timed' \subseteq Meetings
  BY <1>1, <1>4 DEF TypeOK, Info, Status
<1>9. /\ Phase(p) \in (Commands \ {"opening"}) \cup Leaving \cup (TakingDown \ {"closed"})
      /\ Phase(p) \in Leaving => ~sess[s].stopped
      /\ Phase(p) \in TakingDown => sess[s].stopped
      /\ Phase(p) \notin Commands
  BY <1>6 DEF Commands, Leaving, TakingDown
<1>10. QED
  BY <1>1, <1>3, <1>4, <1>6, <1>7, <1>8, <1>9, SetsOut

\* A command is read in the loop of the reader.
LEMMA ReadSound ==
  ASSUME Sound, NEW s \in Sessions, NEW p \in Known, Read(s, p),
         Phase(p) \in {"starting", "resuming", "pausing", "stopping"},
         NEW q \in Session, sess' = [sess EXCEPT ![s] = q], UNCHANGED cur,
         q.conn = sess[s].conn, q.ctx = sess[s].ctx, q.hung = sess[s].hung, q.late = sess[s].late,
         q.remote \in {"none", sess[s].remote}, q.stopped => sess[s].stopped \/ Phase(p) = "stopping",
         tm' \in Info, tm'.st = "transcribing" => tm.st = "transcribing",
         status' \in [Meetings -> Status], timed' \subseteq Meetings
  PROVE  Sound'
<1>1. Goto(s, p) /\ sess[s].conn # "none" /\ ~sess[s].hung /\ todo[s] = << >> /\ UNCHANGED spoiled
  BY DEF Read, Reading
<1>2. Doing(s) = "idle"
  BY <1>1, ProgramsBegun DEF Doing
<1>3. /\ Phase(p) \in (Commands \ {"opening"}) \cup Leaving \cup (TakingDown \ {"closed"})
      /\ Phase(p) \notin Leaving /\ Phase(p) \notin TakingDown
  BY DEF Commands, Leaving, TakingDown
<1>4. QED
  BY <1>1, <1>2, <1>3, SetsOut

LEMMA ResetIs ==
  ASSUME NEW r \in Session
  PROVE  /\ Reset(r) \in Session
         /\ Reset(r).conn = r.conn /\ Reset(r).ctx = r.ctx /\ Reset(r).hung = r.hung
         /\ Reset(r).late = r.late /\ Reset(r).stopped = r.stopped /\ Reset(r).remote = "none"
         /\ Reset(r).paused = FALSE /\ Reset(r).uuid = 0 /\ Reset(r).meeting = 0
         /\ Reset(r).stats = FALSE /\ Reset(r).started = FALSE
<1>1. 0 \in 0..MaxMeetings
  BY LifecycleAssumption
<1>2. PICK q \in Session :
         q = [r EXCEPT !.tr = FALSE, !.paused = FALSE, !.remote = "none",
                       !.uuid = 0, !.meeting = 0, !.stats = FALSE, !.started = FALSE]
  BY <1>1 DEF Session
<1>3. q = Reset(r)
  BY <1>2 DEF Reset
<1>4. q.conn = r.conn /\ q.ctx = r.ctx /\ q.hung = r.hung /\ q.late = r.late /\ q.stopped = r.stopped
  BY <1>2 DEF Session
<1>5. /\ q.remote = "none" /\ q.paused = FALSE /\ q.uuid = 0 /\ q.meeting = 0
      /\ q.stats = FALSE /\ q.started = FALSE
  BY <1>2 DEF Session
<1>6. QED
  BY <1>3, <1>4, <1>5

LEMMA ReadStartSound ==
  ASSUME Sound, NEW s \in Sessions, ReadStart(s)
  PROVE  Sound'
<1>1. TypeOK /\ sess[s] \in Session
  BY DEF Sound, TypeOK, Session
<1>2. PICK q \in Session : q = Reset(sess[s])
  BY <1>1, ResetIs
<1>3. /\ sess' = [sess EXCEPT ![s] = q] /\ Read(s, StartProgram)
      /\ tm' \in {NoSession, tm} /\ UNCHANGED <<cur, status, timed>>
  BY <1>2 DEF ReadStart
<1>4. /\ q.conn = sess[s].conn /\ q.ctx = sess[s].ctx /\ q.hung = sess[s].hung
      /\ q.late = sess[s].late /\ q.stopped = sess[s].stopped /\ q.remote = "none"
  BY <1>1, <1>2, ResetIs
<1>5. /\ tm' \in Info /\ (tm'.st = "transcribing" => tm.st = "transcribing")
      /\ status' \in [Meetings -> Status] /\ timed' \subseteq Meetings
  BY <1>1, <1>3, NoSessionIs DEF TypeOK, Info, Status
<1>6. QED
  BY <1>3, <1>4, <1>5, ProgramsBegun, ReadSound

LEMMA ReadPauseSound ==
  ASSUME Sound, NEW s \in Sessions, ReadPause(s)
  PROVE  Sound'
<1>1. TypeOK /\ sess[s] \in Session
  BY DEF Sound, TypeOK, Session
<1>2. sess' = [sess EXCEPT ![s] = sess[s]] /\ Read(s, <<"PauseTM", "PauseDone">>)
      /\ UNCHANGED <<cur, tm, status, timed>>
  BY <1>1 DEF ReadPause, TypeOK
<1>3. /\ tm' \in Info /\ (tm'.st = "transcribing" => tm.st = "transcribing")
      /\ status' \in [Meetings -> Status] /\ timed' \subseteq Meetings
  BY <1>1, <1>2 DEF TypeOK, Info, Status
<1>4. QED
  BY <1>1, <1>2, <1>3, ProgramsBegun, ReadSound

LEMMA ReadStopSound ==
  ASSUME Sound, NEW s \in Sessions, ReadStop(s)
  PROVE  Sound'
<1>1. TypeOK /\ sess[s] \in Session
  BY DEF Sound, TypeOK, Session
<1>2. PICK q \in Session : q = [sess[s] EXCEPT !.stopped = TRUE]
  BY <1>1 DEF Session
<1>3. /\ sess' = [sess EXCEPT ![s] = q] /\ Read(s, StopProgram)
      /\ UNCHANGED <<cur, tm, status, timed>>
  BY <1>2 DEF ReadStop
<1>4. /\ q.conn = sess[s].conn /\ q.ctx = sess[s].ctx /\ q.hung = sess[s].hung
      /\ q.late = sess[s].late /\ q.remote = sess[s].remote
  BY <1>1, <1>2 DEF Session
<1>5. /\ tm' \in Info /\ (tm'.st = "transcribing" => tm.st = "transcribing")
      /\ status' \in [Meetings -> Status] /\ timed' \subseteq Meetings
  BY <1>1, <1>3 DEF TypeOK, Info, Status
<1>6. QED
  BY <1>3, <1>4, <1>5, ProgramsBegun, ReadSound

LEMMA ReadResumeSound ==
  ASSUME Sound, NEW s \in Sessions, ReadResume(s)
  PROVE  Sound'
<1>1. TypeOK /\ sess[s] \in Session /\ tm \in Info
  BY DEF Sound, TypeOK, Session, Info
<1>2. /\ tm' \in Info /\ (tm'.st = "transcribing" => tm.st = "transcribing") /\ UNCHANGED cur
      /\ status' \in [Meetings -> Status] /\ timed' \subseteq Meetings
  BY <1>1 DEF TypeOK, Info, Status, ReadResume
<1>3. PICK u \in 0..MaxMeetings : u = IF tm.st # "none" THEN tm.uuid ELSE sess[s].uuid
  BY <1>1 DEF Session, Info
<1>4. PICK found \in 0..MaxMeetings :
         found = IF sess[s].meeting # 0 THEN sess[s].meeting
                 ELSE IF u # 0 /\ status[u] \notin {"none", "deleted"} THEN u ELSE 0
  BY <1>1, <1>3, LifecycleAssumption DEF Session
<1>5. CASE tm.st = "none" /\ found = 0
  <2>1. PICK q \in Session : q = Reset(sess[s])
    BY <1>1, ResetIs
  <2>2. sess' = [sess EXCEPT ![s] = q] /\ Read(s, StartProgram)
    BY <1>3, <1>4, <1>5, <2>1 DEF ReadResume
  <2>3. /\ q.conn = sess[s].conn /\ q.ctx = sess[s].ctx /\ q.hung = sess[s].hung
        /\ q.late = sess[s].late /\ q.stopped = sess[s].stopped /\ q.remote = "none"
    BY <1>1, <2>1, ResetIs
  <2>4. QED
    BY <1>2, <2>2, <2>3, ProgramsBegun, ReadSound
<1>6. CASE ~(tm.st = "none" /\ found = 0)
  <2>1. PICK q \in Session : q = [sess[s] EXCEPT !.uuid = u, !.meeting = found]
    BY <1>1 DEF Session
  <2>2. /\ sess' = [sess EXCEPT ![s].uuid = u, ![s].meeting = found]
        /\ Read(s, <<IF tm.st = "none" THEN "RestartTM" ELSE "ResumeTM", "Dial", "Resumed">>)
    BY <1>3, <1>4, <1>6 DEF ReadResume
  <2>3. sess' = [sess EXCEPT ![s] = q]
    BY <1>1, <2>1, <2>2 DEF TypeOK
  <2>4. PICK p \in Known : Read(s, p) /\ Phase(p) = "resuming"
    BY <2>2, ProgramsBegun
  <2>5. /\ q.conn = sess[s].conn /\ q.ctx = sess[s].ctx /\ q.hung = sess[s].hung
        /\ q.late = sess[s].late /\ q.stopped = sess[s].stopped /\ q.remote = sess[s].remote
    BY <1>1, <2>1 DEF Session
  <2>6. QED
    BY <1>2, <2>3, <2>4, <2>5, ReadSound
<1>7. QED
  BY <1>5, <1>6

LEMMA ClosedIs == Closed \in Session
<1>1. 0 \in 0..MaxMeetings
  BY LifecycleAssumption
<1>2. QED
  BY <1>1 DEF Closed, Session

\* The old session is closed and the new one registered in its place.
LEMMA ConnectSound ==
  ASSUME Sound, NEW n \in Sessions, Connect(n)
  PROVE  Sound'
<1>1. /\ TypeOK /\ Programs /\ Safe /\ sess[n].conn = "none"
      /\ cur' = n /\ UNCHANGED <<tm, status, timed, todo, on, spoiled>>
  BY DEF Sound, Connect
<1>2. /\ cur # 0 => cur \in Sessions /\ sess[cur].conn # "none" /\ cur # n
      /\ \A s \in Sessions : sess[s] \in Session
      /\ tm \in Info /\ n \in 0..MaxSessions /\ n # 0
  BY <1>1, LifecycleAssumption DEF TypeOK, Sessions, Session, Programs, Info
<1>3. PICK q \in Session : q = [Closed EXCEPT !.conn = "open", !.uuid = tm.uuid]
  BY <1>2, ClosedIs DEF Session, Info
<1>4. /\ q.conn = "open" /\ q.ctx = FALSE /\ q.hung = FALSE /\ q.stopped = FALSE
      /\ q.remote = "none" /\ q.late = FALSE
  BY <1>3 DEF Closed
<1>5. PICK rest \in [Sessions -> Session] :
         rest = [s \in Sessions |-> IF s = cur THEN AfterClose(sess[s]) ELSE sess[s]]
  BY <1>2, AfterCloseIs
<1>6. /\ sess' = [rest EXCEPT ![n] = q]
      /\ sess'[n] = q /\ sess' \in [Sessions -> Session]
      /\ \A s \in Sessions \ {n} : sess'[s] = IF s = cur THEN AfterClose(sess[s]) ELSE sess[s]
  <2>1. sess' = [s \in Sessions |->
                   CASE s = n -> q [] s = cur -> AfterClose(sess[s]) [] OTHER -> sess[s]]
    BY <1>3 DEF Connect
  <2>2. sess'[n] = q
    BY <1>2, <2>1
  <2>3. \A s \in Sessions \ {n} : sess'[s] = IF s = cur THEN AfterClose(sess[s]) ELSE sess[s]
    BY <2>1
  <2>4. \A s \in Sessions \ {n} : sess'[s] = rest[s]
    BY <1>5, <2>3
  <2>5. sess' = [rest EXCEPT ![n] = q]
    BY <1>5, <2>1, <2>2, <2>4
  <2>6. QED
    BY <1>5, <2>2, <2>3, <2>5
<1>7. ASSUME NEW s \in Sessions \ {n}
      PROVE  /\ sess[s].conn # "none" => sess'[s].conn # "none"
             /\ sess[s].conn = "none" => sess'[s] = sess[s]
             /\ sess'[s].hung = sess[s].hung /\ sess'[s].stopped = sess[s].stopped
             /\ sess'[s].late = sess[s].late /\ (sess[s].ctx => sess'[s].ctx)
             /\ s = cur => sess'[s].ctx /\ sess'[s].remote = "none"
             /\ s # cur => sess'[s].remote = sess[s].remote
  <2>1. CASE s = cur
    <3>1. sess'[s] = AfterClose(sess[s]) /\ sess[s] \in Session /\ sess[s].conn # "none"
      BY <1>1, <1>2, <1>6, <2>1, Apart
    <3>2. PICK a \in Session : a = AfterClose(sess[s])
      BY <3>1, AfterCloseIs
    <3>3. /\ a.conn = "closed" /\ a.hung = sess[s].hung /\ a.stopped = sess[s].stopped
          /\ a.late = sess[s].late /\ a.ctx /\ a.remote = "none"
      BY <3>1, <3>2, AfterCloseIs
    <3>4. QED
      BY <2>1, <3>1, <3>2, <3>3
  <2>2. CASE s # cur
    BY <1>6, <1>7, <2>2
  <2>3. QED
    BY <2>1, <2>2
<1>8. /\ Doing(n) = "idle" /\ on[n] = n
      /\ \A w \in Workers : on[w] # n /\ (on[w] # 0 => on[w] \in Sessions \ {n})
  BY <1>1, Apart, LifecycleAssumption, SMTT(30) DEF Programs, TypeOK, Sessions
<1>9. TypeOK'
  BY <1>1, <1>2, <1>6 DEF TypeOK, Session
<1>10. Programs'
  <2>1. ASSUME NEW s \in Sessions
        PROVE  /\ sess'[s].conn = "none" => sess'[s] = Closed /\ Doing(s) = "idle"
               /\ Doing(s) \in Leaving => sess'[s].hung /\ ~sess'[s].stopped
               /\ Doing(s) \in TakingDown => sess'[s].hung /\ sess'[s].stopped
               /\ Doing(s) \in Commands => ~sess'[s].hung
    <3>1. CASE s = n
      BY <1>4, <1>6, <1>8, <3>1 DEF Leaving, TakingDown
    <3>2. CASE s # n
      BY <1>1, <1>7, <3>2 DEF Programs
    <3>3. QED
      BY <3>1, <3>2
  <2>2. \A w \in Workers : on[w] # 0 => sess'[on[w]].conn # "none"
    BY <1>1, <1>7, <1>8 DEF Programs
  <2>3. cur' # 0 => sess'[cur'].conn # "none"
    BY <1>1, <1>4, <1>6
  <2>4. QED
    BY <1>1, <2>1, <2>2, <2>3 DEF Programs, Doing
<1>11. ASSUME ~spoiled PROVE (Registered /\ NoneOpen /\ Watched)'
  <2>1. Registered /\ NoneOpen /\ Watched
    BY <1>1, <1>11 DEF Safe
  <2>2. Registered'
    <3>1. ASSUME NEW s \in Sessions, sess'[s].conn # "none", ~sess'[s].ctx, ~sess'[s].hung
          PROVE  cur' = s
      <4>1. CASE s # n
        BY <1>7, <2>1, <3>1, <4>1 DEF Registered
      <4>2. QED
        BY <1>1, <4>1
    <3>2. ASSUME NEW w \in Workers, Doing(w) \in {"removing", "listed"}
          PROVE  on[w] # 0 /\ sess'[on[w]].ctx
      BY <1>7, <1>8, <2>1, <3>2 DEF Registered
    <3>3. QED
      BY <1>1, <3>1, <3>2 DEF Registered, Doing
  <2>3. NoneOpen'
    <3>1. ASSUME NEW s \in Sessions \ {n}
          PROVE  Off(s)'
      BY <1>7, <2>1 DEF NoneOpen, Off
    <3>2. Off(n)'
      BY <1>4, <1>6 DEF Off
    <3>3. ASSUME NEW w \in Workers, Doing(w) \in {"removing", "listed"}
          PROVE  sess'[on[w]].remote = "none" \/ sess'[on[w]].late
      <4>1. on[w] \in Sessions \ {n}
        BY <1>8, <2>1, <3>3 DEF Registered
      <4>2. QED
        BY <3>1, <4>1 DEF Off
    <3>4. QED
      BY <1>1, <3>1, <3>2, <3>3 DEF NoneOpen, Off, Doing
  <2>4. ~Settled(n)'
    BY <1>1, <1>4, <1>6, <1>8 DEF Settled, Doing
  <2>5. Watched'
    BY <1>1, <1>2, <2>4 DEF Watched
  <2>6. QED
    BY <2>2, <2>3, <2>5
<1>12. QED
  BY <1>1, <1>9, <1>10, <1>11 DEF Sound, Safe

-----------------------------------------------------------------------------
(* Registered, closed and watched *)

LEMMA InitSound == Init => Sound
<1> SUFFICES ASSUME Init PROVE Sound
  OBVIOUS
<1>1. TypeOK
  <2>1. 0 \in 0..MaxSessions /\ << >> \in Seq(Steps)
    BY LifecycleAssumption
  <2>2. \A s \in Sessions : s \in 0..MaxSessions
    BY DEF Sessions
  <2>3. on \in [Goroutines -> 0..MaxSessions]
    BY <2>1, <2>2 DEF Init
  <2>4. sess \in [Sessions -> Session] /\ status \in [Meetings -> Status] /\ timed \subseteq Meetings
    BY ClosedIs DEF Init, Status
  <2>5. tm \in Info /\ todo \in [Goroutines -> Seq(Steps)] /\ spoiled \in BOOLEAN /\ cur = 0
    BY <2>1, NoSessionIs DEF Init
  <2>6. QED
    BY <2>1, <2>3, <2>4, <2>5 DEF TypeOK, Session, Info, Status
<1>2. \A g \in Goroutines : todo[g] = << >> /\ Doing(g) = "idle"
  BY ProgramsBegun DEF Init, Doing
<1>3. /\ \A s \in Sessions : on[s] = s /\ s \in Goroutines
      /\ \A w \in Workers : on[w] = 0 /\ w \in Goroutines
  BY Apart DEF Init
<1>4. \A s \in Sessions : sess[s] = Closed /\ sess[s].conn = "none" /\ sess[s].remote = "none"
  BY DEF Init, Closed
<1>5. cur = 0 /\ tm.st = "none"
  BY NoSessionIs DEF Init
<1>6. Programs
  BY <1>2, <1>3, <1>4, <1>5, ProgramsBegun
     DEF Programs, Commands, Leaving, TakingDown, Health, Cleaning
<1>7. Registered /\ NoneOpen /\ Watched
  BY <1>2, <1>3, <1>4, <1>5 DEF Registered, NoneOpen, Off, Watched
<1>8. QED
  BY <1>1, <1>6, <1>7 DEF Sound, Safe

LEMMA StepKeepsSound ==
  ASSUME Sound, NEW g \in Goroutines, Step(g)
  PROVE  Sound'
<1>1. CASE CloseListed(g)
  <2>1. TypeOK /\ Programs /\ At(g, "CloseListed")
    BY <1>1 DEF Sound, CloseListed
  <2>2. Doing(g) = "cleaning"
    BY <2>1, Next1 DEF Course, Doing
  <2>3. g \in Workers
    BY <2>1, <2>2, Apart DEF Programs, Commands, Leaving, TakingDown
  <2>4. QED
    BY <1>1, <2>3, CloseListedSound
<1>2. CASE \/ StartTM(g) \/ Dial(g) \/ Started(g) \/ Resumed(g) \/ PauseTM(g) \/ PauseDone(g)
           \/ ResumeTM(g) \/ RestartTM(g) \/ StopCmd(g) \/ StopFlags(g) \/ Await(g)
  BY <1>2, StartTMSound, DialSound, OpenedSound, PauseTMSound, PauseDoneSound, ResumeTMSound,
     RestartTMSound, StopCmdSound, StopFlagsSound, AwaitSound
<1>3. CASE \/ MarkFailed(g) \/ Complete(g) \/ StopTM(g) \/ CloseRemote(g) \/ CloseEmpty(g)
           \/ Remove(g) \/ Close(g) \/ Return(g) \/ HealthClose(g) \/ Verify(g)
  BY <1>3, MarkFailedSound, CompleteSound, StopTMSound, ClosesSound, RemoveSound, ReturnSound,
     HealthCloseSound, VerifySound
<1>4. QED
  BY <1>1, <1>2, <1>3 DEF Step

LEMMA NextKeepsSound == Sound /\ [Next]_vars => Sound'
<1> SUFFICES ASSUME Sound, [Next]_vars PROVE Sound'
  OBVIOUS
<1>1. ASSUME NEW s \in Sessions,
             \/ Connect(s) \/ ClientLeaves(s) \/ ReaderEnds(s) \/ PingFails(s)
             \/ RemoteLost(s) \/ FirstFinal(s)
             \/ ReadStart(s) \/ ReadPause(s) \/ ReadResume(s) \/ ReadStop(s)
      PROVE  Sound'
  BY <1>1, ConnectSound, ClientLeavesSound, ReaderEndsSound, PingFailsSound, RemoteLostSound,
     FirstFinalSound, ReadStartSound, ReadPauseSound, ReadResumeSound, ReadStopSound
<1>2. ASSUME NEW w \in Workers, NEW kind \in Kinds, Begin(w, kind) PROVE Sound'
  BY <1>2, BeginSound
<1>3. ASSUME NEW g \in Goroutines, Step(g) PROVE Sound'
  BY <1>3, StepKeepsSound
<1>4. CASE UNCHANGED vars
  BY <1>4 DEF vars, Sound, TypeOK, Programs, Safe, Registered, NoneOpen, Watched, Settled, Off,
              Late, Doing
<1>5. QED
  BY <1>1, <1>2, <1>3, <1>4 DEF Next

\* Types, programs and what protects the user hold in every reachable state.
THEOREM SoundAlways == Spec => []Sound
BY InitSound, NextKeepsSound, PTL DEF Spec

\* Every variable has its type: a goroutine never has an unknown step to take.
THEOREM TypeCorrect == Spec => []TypeOK
<1>1. Sound => TypeOK
  BY DEF Sound
<1>2. QED
  BY <1>1, SoundAlways, PTL

\* A session that is being read is the one registered for the user
\* (websocket_session.go:552, :783), unless a session was cleaned up in
\* another's place.
THEOREM LiveSessionsRegistered == Spec => []LiveIsRegistered
<1>1. Sound => LiveIsRegistered
  BY DEF Sound, Safe, Registered, LiveIsRegistered, Reading
<1>2. QED
  BY <1>1, SoundAlways, PTL

\* A session nobody works on any more has no remote connection and so no key
\* (remote_connection.go:381), unless it was opened after the close.
THEOREM NoRemoteLeaked == Spec => []NoLeakedRemote
<1>1. Sound => NoLeakedRemote
  BY DEF Sound, Safe, NoneOpen, Off, NoLeakedRemote
<1>2. QED
  BY <1>1, SoundAlways, PTL

\* A user without a registered session is not left transcribing
\* (websocket_handler.go:1117, session_health_checker.go:262).
THEOREM NobodyBilledForever == Spec => []NobodyBilledUnseen
<1>1. Sound => NobodyBilledUnseen
  <2> SUFFICES ASSUME Sound, Quiet, cur = 0, tm.st = "transcribing", ~spoiled
               PROVE  \E s \in Sessions : sess[s].late \/ Reading(s)
    BY DEF NobodyBilledUnseen
  <2>1. \A g \in Goroutines : Doing(g) = "idle"
    BY ProgramsBegun DEF Quiet, Doing
  <2>2. Watched
    BY DEF Sound, Safe
  <2>3. QED
    BY <2>1, <2>2, Apart DEF Watched, Late, Cleaning
<1>2. QED
  BY <1>1, SoundAlways, PTL

-----------------------------------------------------------------------------
(* The meeting of the user's only session *)

LEMMA Only ==
  ASSUME Sound, NEW s \in Sessions, Alone(s), sess[s].conn # "none"
  PROVE  /\ \A k \in Sessions \ {s} : Doing(k) = "idle" /\ sess[k].conn = "none"
         /\ \A g \in Goroutines : Doing(g) \notin {"idle", "cleaning", "listed"} => on[g] = s
         /\ cur \in {0, s}
<1>1. TypeOK /\ Programs
  BY DEF Sound
<1>2. \A k \in Sessions \ {s} : Doing(k) = "idle" /\ sess[k].conn = "none"
  BY <1>1 DEF Alone, Programs
<1>3. ASSUME NEW g \in Goroutines, Doing(g) \notin {"idle", "cleaning", "listed"}
      PROVE  on[g] = s
  BY <1>1, <1>2, <1>3, Where
<1>4. cur # 0 => cur \in Sessions /\ sess[cur].conn # "none"
  BY <1>1, LifecycleAssumption DEF TypeOK, Sessions, Programs
<1>5. QED
  BY <1>2, <1>3, <1>4

\* A step that leaves the meeting, its row and what the stop has done alone.
Muted(r, q) ==
    /\ q.meeting = r.meeting /\ q.uuid = r.uuid /\ q.started = r.started /\ q.stats = r.stats
    /\ q.stopped = r.stopped /\ q.hung = r.hung
    /\ q.paused => r.paused
    /\ r.ctx => q.ctx
    /\ r.late => q.late
Steady(s) ==
    /\ Muted(sess[s], sess'[s])
    /\ UNCHANGED <<status, timed>> /\ (tm' = tm \/ tm'.st = "none")

\* ... and goes on in a way that keeps what Books and Stopped say of phases.
Onward(s) ==
    LET p == Phase(todo'[s]) IN
    /\ Doing(s) \in {"starting", "stopping"} => p = Doing(s) \/ tm'.st = "none"
    /\ p \in {"failing", "completingPaused"} => Doing(s) = p
    /\ p \in {"closing", "closingPaused"} => Doing(s) = p
    /\ p = "paused" => Doing(s) = p \/ ~sess[s].stopped \/ sess'[s].late
    /\ Doing(s) = "paused" => p = Doing(s) \/ sess'[s].ctx \/ ~sess'[s].paused
    /\ sess[s].stopped /\ sess[s].hung /\ p \in {"closed", "idle"} =>
          \/ Doing(s) = "closingPaused"
          \/ Doing(s) \in {"closed", "idle"} /\ sess'[s].remote \in {"none", sess[s].remote}

LEMMA SteadyKeeps ==
  ASSUME NEW s \in Sessions, Settles(s), Steady(s), Onward(s)
  PROVE  Settles(s)'
<1>1. Meeting(s)' = Meeting(s)
  BY DEF Meeting, Steady, Muted
<1>2. Books(s) /\ (sess[s].stopped /\ ~sess[s].late => Stopped(s))
  BY DEF Settles
<1>3. Books(s)'
  <2>1. tm'.st # "none" => tm'.uuid = sess'[s].uuid \/ Phase(todo'[s]) = "starting"
    BY <1>2 DEF Books, Steady, Muted, Onward
  <2>2. /\ Meeting(s) # 0 /\ Meeting(s) \in timed'
             => sess'[s].meeting # 0 /\ sess'[s].started
                /\ (status'[Meeting(s)] = "active" => ~sess'[s].stats)
        /\ Phase(todo'[s]) = "failing" => sess'[s].meeting # 0 /\ sess'[s].started
        /\ sess'[s].paused => sess'[s].ctx \/ Phase(todo'[s]) = "paused"
    BY <1>2 DEF Books, Steady, Muted, Onward
  <2>3. /\ \A k \in Meetings : /\ status'[k] = "paused" => sess'[s].ctx
                               /\ status'[k] = "failed" => sess'[s].hung
        /\ Phase(todo'[s]) \in {"closing", "closingPaused"} =>
             (Meeting(s) # 0 /\ status'[Meeting(s)] = "active" => Meeting(s) \notin timed')
    BY <1>2 DEF Books, Steady, Muted, Onward
  <2>4. QED
    BY <1>1, <2>1, <2>2, <2>3 DEF Books, Doing
<1>4. ASSUME sess'[s].stopped, ~sess'[s].late PROVE Stopped(s)'
  <2>1. sess[s].stopped /\ ~sess[s].late /\ Stopped(s)
    BY <1>2, <1>4 DEF Steady, Muted
  <2>2. Phase(todo'[s]) # "stopping" => tm'.st = "none"
    BY <2>1 DEF Stopped, Steady, Muted, Onward
  <2>3. /\ ~sess'[s].paused
        /\ Phase(todo'[s]) \notin {"paused", "completingPaused", "closingPaused"}
        /\ \A k \in Meetings : status'[k] \notin {"paused", "failed"}
    BY <1>4, <2>1 DEF Stopped, Steady, Muted, Onward
  <2>4. sess'[s].hung /\ Phase(todo'[s]) \in {"closed", "idle"}
         => sess'[s].remote = "none" /\ (Meeting(s) # 0 => status'[Meeting(s)] # "active")
    BY <2>1 DEF Stopped, Steady, Muted, Onward
  <2>5. QED
    BY <1>1, <2>2, <2>3, <2>4 DEF Stopped, Doing
<1>5. QED
  BY <1>3, <1>4 DEF Settles

\* What the goroutine of s or another one does next.
LEMMA Turn ==
  ASSUME Sound, NEW g \in Goroutines, NEW step, At(g, step), Then(g) \/ GiveUp(g),
         NEW s \in Sessions
  PROVE  Phase(todo'[s]) = IF s = g THEN Phase(todo'[g]) ELSE Doing(s)
BY StepIs, Apart DEF Sound, Doing

\* A step of another goroutine that does not open the remote connection.
LEMMA OtherOnward ==
  ASSUME NEW s \in Sessions, Phase(todo'[s]) = Doing(s), sess'[s].remote \in {"none", sess[s].remote}
  PROVE  Onward(s)
BY DEF Onward

\* A step that changes nothing of what Settles speaks of.
LEMMA QuietStep ==
  ASSUME Sound, NEW g \in Goroutines, NEW step, At(g, step), Then(g) \/ GiveUp(g),
         NEW s \in Sessions, Settles(s), Steady(s), g = s => Onward(s),
         g # s => sess'[s].remote \in {"none", sess[s].remote}
  PROVE  Settles(s)'
<1>1. CASE g = s
  BY <1>1, SteadyKeeps
<1>2. CASE g # s
  <2>1. Phase(todo'[s]) = Doing(s)
    BY <1>2, Turn
  <2>2. QED
    BY <1>2, <2>1, OtherOnward, SteadyKeeps
<1>3. QED
  BY <1>1, <1>2

\* The same when the sessions are left alone.
LEMMA QuietIdle ==
  ASSUME Sound, NEW g \in Goroutines, NEW step, At(g, step), Then(g) \/ GiveUp(g),
         NEW s \in Sessions, Settles(s), UNCHANGED <<sess, status, timed>>,
         tm' = tm \/ tm' = NoSession, g = s => Onward(s)
  PROVE  Settles(s)'
<1>1. Steady(s)
  BY NoSessionIs DEF Steady, Muted
<1>2. QED
  BY <1>1, QuietStep

\* The flags of a reader in its loop, and what it does next.
LEMMA ReaderIs ==
  ASSUME Sound, NEW g \in Goroutines, NEW step, At(g, step), Then(g) \/ GiveUp(g)
  PROVE  /\ Course(todo[g]) /\ Head(todo[g]) = step /\ Doing(g) = Phase(todo[g])
         /\ GiveUp(g) => Phase(todo'[g]) = "idle"
         /\ Then(g) => Phase(todo'[g]) = Phase(Tail(todo[g]))
         /\ g \in Sessions => /\ Doing(g) \in Leaving => sess[g].hung /\ ~sess[g].stopped
                              /\ Doing(g) \in TakingDown => sess[g].hung /\ sess[g].stopped
                              /\ Doing(g) \in Commands => ~sess[g].hung
BY StepIs DEF Sound, Programs

LEMMA DialSettles ==
  ASSUME Sound, NEW g \in Goroutines, Dial(g), NEW s \in Sessions, Settles(s)
  PROVE  Settles(s)'
<1>1. At(g, "Dial") /\ (Then(g) \/ GiveUp(g)) /\ (tm' = tm \/ tm' = NoSession)
      /\ UNCHANGED <<sess, status, timed>>
  BY DEF Dial
<1>2. /\ Doing(g) = "opening" /\ Phase(todo'[g]) \in {"opening", "idle"}
      /\ g \in Sessions => ~sess[g].hung
  BY <1>1, ReaderIs DEF Course, Commands
<1>3. g = s => Onward(s)
  BY <1>2 DEF Onward
<1>4. QED
  BY <1>1, <1>3, QuietIdle

\* A command that is given up leaves the time manager without a session or
\* with the one it has.
LEMMA GivenUpSettles ==
  ASSUME Sound, NEW g \in Goroutines, NEW step \in {"StartTM", "PauseTM", "ResumeTM", "RestartTM", "StopCmd"},
         At(g, step), GiveUp(g), UNCHANGED <<sess, status, timed>>,
         tm' = tm \/ tm' = NoSession, step \in {"StartTM", "StopCmd"} => tm' = NoSession,
         NEW s \in Sessions, Settles(s)
  PROVE  Settles(s)'
<1>1. /\ Doing(g) \in {"starting", "pausing", "resuming", "stopping"} /\ Phase(todo'[g]) = "idle"
      /\ Doing(g) \in {"starting", "stopping"} => tm'.st = "none"
      /\ g \in Sessions => ~sess[g].hung
  BY ReaderIs, NoSessionIs DEF Course, Commands
<1>2. g = s => Onward(s)
  BY <1>1 DEF Onward
<1>3. QED
  BY <1>2, QuietIdle

LEMMA StopCmdSettles ==
  ASSUME Sound, NEW g \in Goroutines, StopCmd(g), NEW s \in Sessions, Settles(s)
  PROVE  Settles(s)'
<1>1. At(g, "StopCmd") /\ (Then(g) \/ GiveUp(g)) /\ tm' = NoSession
      /\ UNCHANGED <<sess, status, timed>>
  BY DEF StopCmd
<1>2. /\ Doing(g) = "stopping" /\ Phase(todo'[g]) \in {"stopped", "idle"} /\ tm'.st = "none"
      /\ g \in Sessions => ~sess[g].hung
  BY <1>1, ReaderIs, NoSessionIs DEF Course, Commands
<1>3. g = s => Onward(s)
  BY <1>2 DEF Onward
<1>4. QED
  BY <1>1, <1>3, QuietIdle

LEMMA StopTMSettles ==
  ASSUME Sound, NEW g \in Goroutines, StopTM(g), NEW s \in Sessions, Settles(s)
  PROVE  Settles(s)'
<1>1. At(g, "StopTM") /\ Then(g) /\ tm' = NoSession /\ UNCHANGED <<sess, status, timed>>
  BY DEF StopTM
<1>2. <<Doing(g), Phase(todo'[g])>> \in {<<"closing", "closing">>, <<"found", "doomed">>,
                                        <<"cleaning", "cleaning">>}
  BY <1>1, ReaderIs DEF Course
<1>3. g = s => Onward(s)
  BY <1>2 DEF Onward
<1>4. QED
  BY <1>1, <1>3, QuietIdle

LEMMA RemoveSettles ==
  ASSUME Sound, NEW g \in Goroutines, Remove(g), NEW s \in Sessions, Settles(s)
  PROVE  Settles(s)'
<1>1. At(g, "Remove") /\ Then(g) /\ UNCHANGED <<sess, tm, status, timed>>
  BY DEF Remove
<1>2. <<Doing(g), Phase(todo'[g])>> \in
         {<<"closed", "closed">>, <<"removing", "idle">>, <<"listed", "cleaning">>}
  BY <1>1, ReaderIs DEF Course
<1>3. Doing(s) \in {"removing", "listed"} => FALSE
  BY DEF Sound, Programs, Commands, Leaving, TakingDown
<1>4. g = s => Onward(s)
  BY <1>1, <1>2, <1>3 DEF Onward
<1>5. QED
  BY <1>1, <1>4, QuietIdle

\* A change of the session that keeps what Steady says of it.
LEMMA PutSteady ==
  ASSUME Sound, NEW s \in Sessions, NEW q \in Session, sess' = [sess EXCEPT ![s] = q],
         Muted(sess[s], q), UNCHANGED <<status, timed>>, tm' = tm \/ tm' = NoSession
  PROVE  Steady(s) /\ sess'[s] = q
<1>1. sess'[s] = q
  BY PutIs DEF Sound
<1>2. QED
  BY <1>1, NoSessionIs DEF Steady

LEMMA ClosedIsMuted ==
  ASSUME NEW r \in Session
  PROVE  /\ Muted(r, r)
         /\ HangUp(r) \in Session /\ HangUp(r).remote = "none" /\ Muted(r, HangUp(r))
         /\ AfterClose(r) \in Session /\ AfterClose(r).remote = "none" /\ Muted(r, AfterClose(r))
BY HangUpIs, AfterCloseIs DEF Muted

\* Closing steps: the session is hung up or closed by its reader or a worker.
LEMMA ClosesSettles ==
  ASSUME Sound, NEW g \in Goroutines, NEW s \in Sessions, Alone(s), sess[s].conn # "none", Settles(s),
         CloseRemote(g) \/ Close(g)
  PROVE  Settles(s)'
<1>1. PICK step \in {"CloseRemote", "Close"} :
         /\ At(g, step) /\ Then(g) /\ UNCHANGED <<tm, status, timed>>
         /\ Put(g, HangUp(S(g))) \/ Put(g, AfterClose(S(g)))
  BY DEF CloseRemote, Close
<1>2. <<Doing(g), Phase(todo'[g])>> \in
         {<<"closingPaused", "closed">>, <<"closed", "idle">>}
  BY <1>1, ReaderIs DEF Course
<1>3. on[g] = s /\ g = s /\ sess[s] \in Session
  BY <1>2, Only, Where DEF Sound, Programs, Goroutines, Health, Cleaning
<1>4. PICK q \in Session :
         sess' = [sess EXCEPT ![s] = q] /\ q.remote = "none" /\ Muted(sess[s], q)
  BY <1>1, <1>3, ClosedIsMuted DEF Put, S
<1>5. Steady(s) /\ sess'[s] = q
  BY <1>1, <1>4, PutSteady
<1>6. Onward(s)
  BY <1>2, <1>3, <1>4, <1>5 DEF Onward
<1>7. QED
  BY <1>5, <1>6, SteadyKeeps

\* Nothing moves on, and nothing of what Settles speaks of changes.
LEMMA EventSettles ==
  ASSUME Sound, NEW s \in Sessions, Settles(s), NEW q \in Session, sess' = [sess EXCEPT ![s] = q],
         Muted(sess[s], q), q.remote \in {"none", sess[s].remote},
         UNCHANGED <<status, timed, todo>>, tm' = tm \/ tm' = NoSession
  PROVE  Settles(s)'
<1>1. Steady(s) /\ sess'[s] = q
  BY PutSteady
<1>2. Onward(s)
  BY <1>1, OtherOnward DEF Doing
<1>3. QED
  BY <1>1, <1>2, SteadyKeeps

\* Only the user's session changes, by the code of a connection.
LEMMA ConnectionSettles ==
  ASSUME Sound, NEW k \in Sessions, NEW s \in Sessions, Alone(s), sess[s].conn # "none", Settles(s),
         ClientLeaves(k) \/ PingFails(k) \/ RemoteLost(k)
  PROVE  Settles(s)'
<1>1. sess[k].conn # "none" /\ k = s /\ sess[s] \in Session
  BY DEF Sound, TypeOK, Session, Programs, Closed, Alone, ClientLeaves, PingFails, RemoteLost
<1>2. CASE ClientLeaves(s)
  <2>1. PICK q \in Session : q = [sess[s] EXCEPT !.conn = "gone"]
    BY <1>1 DEF Session
  <2>2. sess' = [sess EXCEPT ![s] = q] /\ Muted(sess[s], q) /\ q.remote = sess[s].remote
    BY <1>1, <1>2, <2>1 DEF ClientLeaves, Muted, Session
  <2>3. QED
    BY <1>2, <2>2, EventSettles DEF ClientLeaves
<1>3. CASE PingFails(s)
  BY <1>1, <1>3, EventSettles, ClosedIsMuted DEF PingFails
<1>4. CASE RemoteLost(s)
  <2>1. PICK q \in Session : q = [sess[s] EXCEPT !.remote = "none", !.tr = FALSE]
    BY <1>1 DEF Session
  <2>2. sess' = [sess EXCEPT ![s] = q] /\ Muted(sess[s], q) /\ q.remote = "none"
    BY <1>1, <1>4, <2>1, ZenonT(60) DEF RemoteLost, Muted, Session
  <2>3. QED
    BY <1>4, <2>2, EventSettles DEF RemoteLost
<1>5. QED
  BY <1>1, <1>2, <1>3, <1>4

LEMMA BeginSettles ==
  ASSUME Sound, NEW w \in Workers, NEW kind \in Kinds, Begin(w, kind), NEW s \in Sessions, Settles(s)
  PROVE  Settles(s)'
<1>1. todo'[s] = todo[s] /\ UNCHANGED <<sess, tm, status, timed>>
  BY Apart DEF Begin, Sound, TypeOK
<1>2. Steady(s) /\ Onward(s)
  BY <1>1, OtherOnward DEF Steady, Muted, Doing
<1>3. QED
  BY <1>2, SteadyKeeps

LEMMA ReadPauseSettles ==
  ASSUME Sound, NEW k \in Sessions, ReadPause(k), NEW s \in Sessions, Alone(s),
         sess[s].conn # "none", Settles(s)
  PROVE  Settles(s)'
<1>1. /\ k = s /\ Doing(s) = "idle" /\ Goto(s, <<"PauseTM", "PauseDone">>)
      /\ UNCHANGED <<sess, tm, status, timed>> /\ s \in Goroutines
  BY Apart, ProgramsBegun DEF ReadPause, Read, Reading, Alone, Doing
<1>2. Phase(todo'[s]) = "pausing"
  BY <1>1, GotoIs, ProgramsBegun DEF Sound
<1>3. Steady(s) /\ Onward(s)
  BY <1>1, <1>2 DEF Steady, Muted, Onward
<1>4. QED
  BY <1>3, SteadyKeeps

\* A step on the user's session that does not concern the meeting.
LEMMA MutedSettles ==
  ASSUME Sound, NEW g \in Goroutines, NEW step, At(g, step), Then(g) \/ GiveUp(g),
         NEW s \in Sessions, Settles(s), NEW q \in Session, sess' = [sess EXCEPT ![s] = q],
         Muted(sess[s], q), q.remote \in {"none", sess[s].remote},
         UNCHANGED <<status, timed>>, tm' = tm \/ tm' = NoSession,
         g = s => Onward(s)
  PROVE  Settles(s)'
<1>1. Steady(s) /\ sess'[s] = q
  BY PutSteady
<1>2. QED
  BY <1>1, QuietStep

LEMMA AwaitSettles ==
  ASSUME Sound, NEW g \in Goroutines, Await(g), NEW s \in Sessions, Alone(s),
         sess[s].conn # "none", Settles(s)
  PROVE  Settles(s)'
<1>1. At(g, "Await") /\ Then(g) /\ UNCHANGED <<tm, status, timed>>
  BY DEF Await
<1>2. /\ Doing(g) = "stopped" /\ Phase(todo'[g]) = "idle"
      /\ g \in Sessions => ~sess[g].hung
  BY <1>1, ReaderIs DEF Course, Commands
<1>3. on[g] = s /\ sess[s] \in Session
  BY <1>2, Only, Where DEF Sound
<1>4. PICK q \in Session :
         q = [sess[s] EXCEPT !.conn = IF sess[s].hung THEN sess[s].conn ELSE "closed"]
  BY <1>3 DEF Session
<1>5. /\ sess' = [sess EXCEPT ![s] = q] /\ Muted(sess[s], q) /\ q.remote = sess[s].remote
  BY <1>3, <1>4 DEF Await, Put, S, Muted, Session
<1>6. g = s => Onward(s)
  BY <1>2 DEF Onward
<1>7. QED
  BY <1>1, <1>5, <1>6, MutedSettles

LEMMA ReturnSettles ==
  ASSUME Sound, NEW g \in Goroutines, Return(g), NEW s \in Sessions, Alone(s),
         sess[s].conn # "none", Settles(s)
  PROVE  Settles(s)'
<1>1. At(g, "Return") /\ Then(g) /\ UNCHANGED <<tm, status, timed>>
  BY DEF Return
<1>2. /\ Doing(g) = "leaving" /\ Phase(todo'[g]) = "idle"
      /\ g \in Sessions => ~sess[g].stopped
  BY <1>1, ReaderIs DEF Course, Leaving
<1>3. on[g] = s /\ sess[s] \in Session
  BY <1>2, Only, Where DEF Sound
<1>4. PICK q \in Session : q = [sess[s] EXCEPT !.ctx = TRUE]
  BY <1>3 DEF Session
<1>5. /\ sess' = [sess EXCEPT ![s] = q] /\ Muted(sess[s], q) /\ q.remote = sess[s].remote
  BY <1>3, <1>4 DEF Return, Put, S, Muted, Session
<1>6. g = s => Onward(s)
  BY <1>2 DEF Onward
<1>7. QED
  BY <1>1, <1>5, <1>6, MutedSettles

LEMMA HealthCloseSettles ==
  ASSUME Sound, NEW g \in Goroutines, HealthClose(g), NEW s \in Sessions, Alone(s),
         sess[s].conn # "none", Settles(s)
  PROVE  Settles(s)'
<1>1. At(g, "HealthClose") /\ Then(g) /\ UNCHANGED <<tm, status, timed>>
  BY DEF HealthClose
<1>2. Doing(g) = "doomed" /\ Phase(todo'[g]) = "removing"
  BY <1>1, ReaderIs DEF Course
<1>3. on[g] = s /\ sess[s] \in Session /\ g # s
  BY <1>2, Only, Where DEF Sound, Programs, Commands, Leaving, TakingDown
<1>4. PICK a \in Session : /\ a = AfterClose(sess[s]) /\ a.remote = "none" /\ Muted(sess[s], a)
  BY <1>3, ClosedIsMuted
<1>5. PICK q \in Session : q = [a EXCEPT !.tr = FALSE, !.paused = FALSE]
  BY DEF Session
<1>6. /\ sess' = [sess EXCEPT ![s] = q] /\ Muted(sess[s], q) /\ q.remote = "none"
  BY <1>3, <1>4, <1>5 DEF HealthClose, Put, S, Muted, Session
<1>7. QED
  BY <1>1, <1>3, <1>6, MutedSettles

LEMMA ConfigFailsSettles ==
  ASSUME Sound, NEW g \in Goroutines, At(g, "Started") \/ At(g, "Resumed"), ConfigFails(g),
         UNCHANGED timed, NEW s \in Sessions, Alone(s), sess[s].conn # "none", Settles(s)
  PROVE  Settles(s)'
<1>1. PICK step \in {"Started", "Resumed"} : At(g, step)
  OBVIOUS
<1>2. GiveUp(g) /\ UNCHANGED <<status, timed>> /\ tm' = NoSession
  BY DEF ConfigFails
<1>3. /\ Doing(g) = "opening" /\ Phase(todo'[g]) = "idle"
      /\ g \in Sessions => ~sess[g].hung
  BY <1>1, <1>2, ReaderIs DEF Course, Commands
<1>4. on[g] = s /\ sess[s] \in Session
  BY <1>3, Only, Where DEF Sound
<1>5. PICK q \in Session :
         sess' = [sess EXCEPT ![s] = q] /\ Muted(sess[s], q) /\ q.remote = "none"
  BY <1>4, ClosedIsMuted DEF ConfigFails, Put, S
<1>6. g = s => Onward(s)
  BY <1>3 DEF Onward
<1>7. QED
  BY <1>1, <1>2, <1>5, <1>6, MutedSettles

\* The cleanup closes or hangs up what is registered.
LEMMA CleanupSettles ==
  ASSUME Sound, NEW w \in Workers, NEW s \in Sessions, Alone(s), sess[s].conn # "none", Settles(s),
         todo'[s] = todo[s], UNCHANGED <<status, timed>>, tm' = tm \/ tm' = NoSession,
         \/ UNCHANGED sess
         \/ cur # 0 /\ sess' = [sess EXCEPT ![cur] = AfterClose(@)]
         \/ cur # 0 /\ sess' = [sess EXCEPT ![cur] = HangUp(@)]
  PROVE  Settles(s)'
<1>1. sess[s] \in Session /\ cur \in {0, s}
  BY Only DEF Sound, TypeOK, Session
<1>2. PICK q \in Session : /\ q.remote \in {"none", sess[s].remote} /\ Muted(sess[s], q)
                           /\ q = sess[s] \/ sess' = [sess EXCEPT ![s] = q]
                           /\ q = sess[s] => UNCHANGED sess \/ sess' = [sess EXCEPT ![s] = q]
  BY <1>1, ClosedIsMuted
<1>3. Steady(s) /\ sess'[s] = q
  BY <1>1, <1>2, PutIs, NoSessionIs DEF Steady, Sound
<1>4. Onward(s)
  BY <1>2, <1>3, OtherOnward DEF Doing
<1>5. QED
  BY <1>3, <1>4, SteadyKeeps

LEMMA CloseListedSettles ==
  ASSUME Sound, NEW w \in Workers, CloseListed(w), NEW s \in Sessions, Alone(s),
         sess[s].conn # "none", Settles(s)
  PROVE  Settles(s)'
<1>1. todo'[s] = todo[s]
  BY Apart DEF CloseListed, Then, Goto, Sound, TypeOK
<1>2. /\ UNCHANGED <<tm, status, timed>>
      /\ UNCHANGED sess \/ (cur # 0 /\ sess' = [sess EXCEPT ![cur] = AfterClose(@)])
  BY DEF CloseListed
<1>3. QED
  BY <1>1, <1>2, CleanupSettles

LEMMA VerifySettles ==
  ASSUME Sound, NEW w \in Workers, Verify(w), NEW s \in Sessions, Alone(s),
         sess[s].conn # "none", Settles(s)
  PROVE  Settles(s)'
<1>1. todo'[s] = todo[s]
  BY Apart DEF Verify, Then, Goto, Sound, TypeOK
<1>2. /\ UNCHANGED <<status, timed>> /\ tm' = NoSession
      /\ UNCHANGED sess \/ (cur # 0 /\ sess' = [sess EXCEPT ![cur] = HangUp(@)])
  BY DEF Verify
<1>3. QED
  BY <1>1, <1>2, CleanupSettles

-----------------------------------------------------------------------------
(* Steps that change the meeting *)

\* What there is to show of the state after a step.
LEMMA SettledAfter ==
  ASSUME NEW s \in Sessions, NEW q, sess'[s] = q, NEW p, Phase(todo'[s]) = p,
         NEW m, m = IF q.meeting # 0 THEN q.meeting ELSE q.uuid,
         tm'.st # "none" => tm'.uuid = q.uuid \/ p = "starting",
         m # 0 /\ m \in timed' => /\ q.meeting # 0 /\ q.started
                                  /\ status'[m] = "active" => ~q.stats,
         p = "failing" => q.meeting # 0 /\ q.started,
         q.paused => q.ctx \/ p = "paused",
         \A k \in Meetings : /\ status'[k] = "paused" => q.ctx
                             /\ status'[k] = "failed" => q.hung,
         p \in {"closing", "closingPaused"} => (m # 0 /\ status'[m] = "active" => m \notin timed'),
         q.stopped /\ ~q.late =>
            /\ p # "stopping" => tm'.st = "none"
            /\ ~q.paused
            /\ p \notin {"paused", "completingPaused", "closingPaused"}
            /\ \A k \in Meetings : status'[k] \notin {"paused", "failed"}
            /\ q.hung /\ p \in {"closed", "idle"}
                 => q.remote = "none" /\ (m # 0 => status'[m] # "active")
  PROVE  Settles(s)'
<1>1. Meeting(s)' = m /\ Doing(s)' = p
  BY DEF Meeting, Doing
<1>2. Books(s)'
  BY <1>1 DEF Books
<1>3. sess'[s].stopped /\ ~sess'[s].late => Stopped(s)'
  BY <1>1 DEF Stopped
<1>4. QED
  BY <1>2, <1>3 DEF Settles

\* The same of the state before it.
LEMMA SettledBefore ==
  ASSUME NEW s \in Sessions, Settles(s), NEW r, r = sess[s], NEW p, p = Doing(s),
         NEW m, m = IF r.meeting # 0 THEN r.meeting ELSE r.uuid
  PROVE  /\ tm.st # "none" => tm.uuid = r.uuid \/ p = "starting"
         /\ m # 0 /\ m \in timed => /\ r.meeting # 0 /\ r.started
                                    /\ status[m] = "active" => ~r.stats
         /\ p = "failing" => r.meeting # 0 /\ r.started
         /\ r.paused => r.ctx \/ p = "paused"
         /\ \A k \in Meetings : /\ status[k] = "paused" => r.ctx
                                /\ status[k] = "failed" => r.hung
         /\ p \in {"closing", "closingPaused"} => (m # 0 /\ status[m] = "active" => m \notin timed)
         /\ r.stopped /\ ~r.late =>
            /\ p # "stopping" => tm.st = "none"
            /\ ~r.paused
            /\ p \notin {"paused", "completingPaused", "closingPaused"}
            /\ \A k \in Meetings : status[k] \notin {"paused", "failed"}
            /\ r.hung /\ p \in {"closed", "idle"}
                 => r.remote = "none" /\ (m # 0 => status[m] # "active")
<1>1. m = Meeting(s)
  BY DEF Meeting
<1>2. QED
  BY <1>1 DEF Settles, Books, Stopped

\* The goroutine of the command is that of the user's session.
LEMMA Own ==
  ASSUME Sound, NEW g \in Goroutines, NEW step, At(g, step), Then(g) \/ GiveUp(g),
         Doing(g) \in {"starting", "resuming", "opening", "pausing", "paused",
                       "failing", "completing", "completingPaused", "closing"},
         NEW s \in Sessions, Alone(s), sess[s].conn # "none"
  PROVE  /\ g = s /\ on[g] = s /\ S(g) = sess[s] /\ sess[s] \in Session /\ TypeOK
         /\ Doing(s) \in Commands => ~sess[s].hung
         /\ Doing(s) \in Leaving => sess[s].hung /\ ~sess[s].stopped
         /\ Doing(s) \in TakingDown => sess[s].hung /\ sess[s].stopped
<1>1. g \in Sessions
  BY DEF Sound, Programs, Goroutines, Health, Cleaning
<1>2. QED
  BY <1>1, Only, Where DEF Sound, Programs, S, Commands, Leaving, TakingDown

LEMMA ConfiguredSettles ==
  ASSUME Sound, NEW g \in Goroutines, At(g, "Started") \/ At(g, "Resumed"), NEW resumed \in BOOLEAN,
         Configured(g, resumed), UNCHANGED timed, NEW s \in Sessions, Alone(s),
         sess[s].conn # "none", Settles(s)
  PROVE  Settles(s)'
<1>1. PICK step \in {"Started", "Resumed"} : At(g, step)
  OBVIOUS
<1>2. Then(g) /\ UNCHANGED tm
  BY DEF Configured
<1>3. Doing(g) = "opening" /\ Phase(todo'[g]) = "idle"
  BY <1>1, <1>2, ReaderIs DEF Course
<1>4. /\ g = s /\ on[g] = s /\ S(g) = sess[s] /\ sess[s] \in Session /\ TypeOK /\ ~sess[s].hung
  BY <1>1, <1>2, <1>3, Own DEF Commands
<1>5. PICK l \in BOOLEAN : l = (sess[s].late \/ sess[s].ctx)
  OBVIOUS
<1>6. PICK t \in BOOLEAN : t = IF resumed /\ sess[s].meeting # 0 THEN FALSE ELSE sess[s].stats
  BY <1>4 DEF Session
<1>7. PICK q \in Session : q = [sess[s] EXCEPT !.remote = "open", !.tr = TRUE, !.paused = FALSE,
                                               !.late = l, !.stats = t]
  BY <1>4 DEF Session
<1>8. sess'[s] = q
  <2>1. sess' = [sess EXCEPT ![s] = q]
    BY <1>4, <1>5, <1>6, <1>7 DEF Configured, Put
  <2>2. QED
    BY <1>4, <2>1, PutIs
<1>9. /\ q.meeting = sess[s].meeting /\ q.uuid = sess[s].uuid /\ q.started = sess[s].started
      /\ q.ctx = sess[s].ctx /\ q.hung = sess[s].hung /\ q.stopped = sess[s].stopped
      /\ ~q.paused /\ q.late = l /\ q.stats = t
  BY <1>4, <1>7 DEF Session
<1>10. /\ \A k \in Meetings : status'[k] = status[k] \/ status'[k] = "active"
       /\ (resumed /\ sess[s].meeting # 0) \/ status' = status
  BY <1>4 DEF Configured, TypeOK
<1>11. QED
  <2>1. PICK m : m = IF sess[s].meeting # 0 THEN sess[s].meeting ELSE sess[s].uuid
    OBVIOUS
  <2>2. PICK r : r = sess[s]
    OBVIOUS
  <2>3. /\ m # 0 /\ m \in timed' => q.meeting # 0 /\ q.started /\ (status'[m] = "active" => ~q.stats)
    BY <1>6, <1>9, <1>10, <2>1, SettledBefore
  <2>4. \A k \in Meetings : /\ status'[k] = "paused" => q.ctx
                            /\ status'[k] = "failed" => q.hung
    BY <1>9, <1>10, SettledBefore
  <2>5. tm'.st # "none" => tm'.uuid = q.uuid
    BY <1>2, <1>3, <1>4, <1>9, SettledBefore
  <2>6. q.stopped /\ ~q.late =>
            /\ tm'.st = "none"
            /\ \A k \in Meetings : status'[k] \notin {"paused", "failed"}
    <3>1. q.stopped /\ ~q.late => sess[s].stopped /\ ~sess[s].late
      BY <1>5, <1>9
    <3>2. sess[s].stopped /\ ~sess[s].late => tm.st = "none" /\ \A k \in Meetings : status[k] \notin {"paused", "failed"}
      BY <1>3, <1>4, SettledBefore
    <3>3. QED
      BY <1>2, <1>10, <3>1, <3>2
  <2>7. QED
    BY <1>3, <1>4, <1>8, <1>9, <2>1, <2>3, <2>4, <2>5, <2>6, SettledAfter

LEMMA PauseTMSettles ==
  ASSUME Sound, NEW g \in Goroutines, PauseTM(g), NEW s \in Sessions, Alone(s),
         sess[s].conn # "none", Settles(s)
  PROVE  Settles(s)'
<1>1. At(g, "PauseTM") /\ (Then(g) \/ GiveUp(g)) /\ UNCHANGED <<status, timed>>
  BY DEF PauseTM
<1>2. CASE GiveUp(g) /\ UNCHANGED <<sess, tm>>
  BY <1>1, <1>2, GivenUpSettles
<1>3. CASE /\ tm.st = "transcribing" /\ tm' = [tm EXCEPT !.st = "paused"]
           /\ Put(g, Aligned(S(g), "paused")) /\ Then(g)
  <2>1. Doing(g) = "pausing" /\ Phase(todo'[g]) = "paused"
    BY <1>1, <1>3, ReaderIs DEF Course
  <2>2. /\ g = s /\ on[g] = s /\ S(g) = sess[s] /\ sess[s] \in Session /\ TypeOK /\ ~sess[s].hung
    BY <1>1, <2>1, Own DEF Commands
  <2>3. PICK q \in Session : q = [sess[s] EXCEPT !.tr = FALSE, !.paused = TRUE]
    BY <2>2 DEF Session
  <2>4. sess'[s] = q
    <3>1. sess' = [sess EXCEPT ![s] = q]
      BY <1>3, <2>2, <2>3 DEF Put, Aligned
    <3>2. QED
      BY <2>2, <3>1, PutIs
  <2>5. /\ q.meeting = sess[s].meeting /\ q.uuid = sess[s].uuid /\ q.started = sess[s].started
        /\ q.ctx = sess[s].ctx /\ q.hung = sess[s].hung /\ q.stopped = sess[s].stopped
        /\ q.late = sess[s].late /\ q.stats = sess[s].stats
    BY <2>2, <2>3 DEF Session
  <2>6. tm'.uuid = tm.uuid
    BY <1>3, <2>2 DEF TypeOK
  <2>7. ~(q.stopped /\ ~q.late)
    BY <1>3, <2>1, <2>2, <2>5, SettledBefore
  <2>8. PICK m : m = IF q.meeting # 0 THEN q.meeting ELSE q.uuid
    OBVIOUS
  <2>9. /\ tm'.uuid = q.uuid
        /\ m # 0 /\ m \in timed => q.meeting # 0 /\ q.started /\ (status[m] = "active" => ~q.stats)
        /\ \A k \in Meetings : /\ status[k] = "paused" => q.ctx
                               /\ status[k] = "failed" => q.hung
    BY <1>3, <2>1, <2>2, <2>5, <2>6, <2>8, SettledBefore
  <2>10. QED
    BY <1>1, <2>1, <2>2, <2>4, <2>7, <2>8, <2>9, SettledAfter
<1>4. QED
  BY <1>2, <1>3 DEF PauseTM

LEMMA PauseDoneSettles ==
  ASSUME Sound, NEW g \in Goroutines, PauseDone(g), NEW s \in Sessions, Alone(s),
         sess[s].conn # "none", Settles(s)
  PROVE  Settles(s)'
<1>1. At(g, "PauseDone") /\ Then(g) /\ UNCHANGED <<tm, timed>>
  BY DEF PauseDone
<1>2. Doing(g) = "paused" /\ Phase(todo'[g]) = "idle"
  BY <1>1, ReaderIs DEF Course
<1>3. /\ g = s /\ on[g] = s /\ S(g) = sess[s] /\ sess[s] \in Session /\ TypeOK /\ ~sess[s].hung
  BY <1>1, <1>2, Own DEF Commands
<1>4. PICK a \in Session : a = AfterClose(sess[s]) /\ Muted(sess[s], a) /\ a.ctx /\ a.late = sess[s].late
  BY <1>3, ClosedIsMuted, AfterCloseIs
<1>5. PICK q \in Session : q = [a EXCEPT !.tr = FALSE, !.paused = TRUE]
  BY DEF Session
<1>6. sess'[s] = q
  <2>1. sess' = [sess EXCEPT ![s] = q]
    BY <1>3, <1>4, <1>5 DEF PauseDone, Put
  <2>2. QED
    BY <1>3, <2>1, PutIs
<1>7. /\ q.meeting = sess[s].meeting /\ q.uuid = sess[s].uuid /\ q.started = sess[s].started
      /\ q.ctx /\ q.hung = sess[s].hung /\ q.stopped = sess[s].stopped
      /\ q.late = sess[s].late /\ q.stats = sess[s].stats
  BY <1>4, <1>5 DEF Session, Muted
<1>8. \A k \in Meetings : status'[k] = status[k] \/ status'[k] = "paused"
  BY <1>3 DEF PauseDone, TypeOK
<1>9. ~(q.stopped /\ ~q.late)
  BY <1>2, <1>3, <1>7, SettledBefore
<1>10. PICK m : m = IF q.meeting # 0 THEN q.meeting ELSE q.uuid
  OBVIOUS
<1>11. m # 0 /\ m \in timed => q.meeting # 0 /\ q.started /\ (status'[m] = "active" => ~q.stats)
  <2>1. TypeOK
    BY <1>3
  <2>2. m \in timed => m \in Meetings
    BY <2>1 DEF TypeOK
  <2>3. QED
    BY <1>7, <1>8, <1>10, <2>2, SettledBefore
<1>12. /\ tm.st # "none" => tm.uuid = q.uuid
       /\ \A k \in Meetings : status'[k] = "failed" => q.hung
  BY <1>2, <1>3, <1>7, <1>8, SettledBefore
<1>13. QED
  BY <1>1, <1>2, <1>3, <1>6, <1>7, <1>9, <1>10, <1>11, <1>12, SettledAfter

\* A command that begins to transcribe: what follows a stop is late.
LEMMA BegunSettles ==
  ASSUME Sound, NEW g \in Goroutines, NEW step \in {"ResumeTM", "RestartTM"}, At(g, step), Then(g),
         Begun(g, S(g)), UNCHANGED <<status, timed>>, NEW s \in Sessions, Alone(s),
         sess[s].conn # "none", Settles(s),
         tm'.uuid = sess[s].uuid \/ (tm.st # "none" /\ tm'.uuid = tm.uuid)
  PROVE  Settles(s)'
<1>1. Doing(g) = "resuming" /\ Phase(todo'[g]) = "opening"
  BY ReaderIs DEF Course
<1>2. /\ g = s /\ on[g] = s /\ S(g) = sess[s] /\ sess[s] \in Session /\ TypeOK /\ ~sess[s].hung
  BY <1>1, Own DEF Commands
<1>3. PICK l \in BOOLEAN : l = (sess[s].late \/ sess[s].stopped \/ Doomed(s))
  OBVIOUS
<1>4. PICK q \in Session : q = [sess[s] EXCEPT !.late = l]
  BY <1>2 DEF Session
<1>5. sess'[s] = q
  <2>1. sess' = [sess EXCEPT ![s] = q]
    BY <1>2, <1>3, <1>4 DEF Begun, Put
  <2>2. QED
    BY <1>2, <2>1, PutIs
<1>6. /\ q.meeting = sess[s].meeting /\ q.uuid = sess[s].uuid /\ q.started = sess[s].started
      /\ q.ctx = sess[s].ctx /\ q.hung = sess[s].hung /\ q.stopped = sess[s].stopped
      /\ q.late = l /\ q.stats = sess[s].stats /\ q.paused = sess[s].paused
  BY <1>2, <1>4 DEF Session
<1>7. q.stopped => q.late
  BY <1>3, <1>6
<1>8. PICK m : m = IF q.meeting # 0 THEN q.meeting ELSE q.uuid
  OBVIOUS
<1>9. /\ tm'.st # "none" => tm'.uuid = q.uuid
      /\ m # 0 /\ m \in timed => q.meeting # 0 /\ q.started /\ (status[m] = "active" => ~q.stats)
      /\ \A k \in Meetings : /\ status[k] = "paused" => q.ctx
                             /\ status[k] = "failed" => q.hung
      /\ q.paused => q.ctx
  BY <1>1, <1>2, <1>6, <1>8, SettledBefore
<1>10. QED
  BY <1>1, <1>2, <1>5, <1>7, <1>8, <1>9, SettledAfter

LEMMA ResumeTMSettles ==
  ASSUME Sound, NEW g \in Goroutines, ResumeTM(g), NEW s \in Sessions, Alone(s),
         sess[s].conn # "none", Settles(s)
  PROVE  Settles(s)'
<1>1. At(g, "ResumeTM") /\ UNCHANGED <<status, timed>>
  BY DEF ResumeTM
<1>2. CASE GiveUp(g) /\ UNCHANGED <<sess, tm>>
  BY <1>1, <1>2, GivenUpSettles
<1>3. CASE /\ tm.st # "none" /\ tm' = [tm EXCEPT !.st = "transcribing"]
           /\ Begun(g, S(g)) /\ Then(g)
  <2>1. tm'.uuid = tm.uuid
    BY <1>3 DEF Sound, TypeOK
  <2>2. QED
    BY <1>1, <1>3, <2>1, BegunSettles
<1>4. QED
  BY <1>2, <1>3 DEF ResumeTM

LEMMA RestartTMSettles ==
  ASSUME Sound, NEW g \in Goroutines, RestartTM(g), NEW s \in Sessions, Alone(s),
         sess[s].conn # "none", Settles(s)
  PROVE  Settles(s)'
<1>1. At(g, "RestartTM") /\ UNCHANGED <<status, timed>>
  BY DEF RestartTM
<1>2. CASE GiveUp(g) /\ UNCHANGED sess /\ tm' = NoSession
  BY <1>1, <1>2, GivenUpSettles
<1>3. CASE /\ tm' = [st |-> "transcribing", uuid |-> S(g).uuid]
           /\ Begun(g, S(g)) /\ Then(g)
  <2>1. Doing(g) = "resuming"
    BY <1>1, <1>3, ReaderIs DEF Course
  <2>2. S(g) = sess[s]
    BY <1>1, <1>3, <2>1, Own
  <2>3. tm'.uuid = sess[s].uuid
    BY <1>3, <2>2
  <2>4. QED
    BY <1>1, <1>3, <2>3, BegunSettles
<1>4. QED
  BY <1>2, <1>3 DEF RestartTM

\* A new transcription has a meeting nothing has been written to.
LEMMA StartTMSettles ==
  ASSUME Sound, Fresh, NEW g \in Goroutines, StartTM(g), NEW s \in Sessions, Alone(s),
         sess[s].conn # "none", Settles(s)
  PROVE  Settles(s)'
<1>1. At(g, "StartTM") /\ UNCHANGED timed
  BY DEF StartTM
<1>2. CASE GiveUp(g) /\ UNCHANGED <<sess, status>> /\ tm' = NoSession
  BY <1>1, <1>2, GivenUpSettles
<1>3. ASSUME NEW m \in Meetings, NEW created \in BOOLEAN, Unused(m),
             tm' = [st |-> "transcribing", uuid |-> m],
             Begun(g, [Aligned(S(g), "transcribing") EXCEPT
                            !.uuid = m, !.meeting = IF created THEN m ELSE 0]),
             status' = IF created THEN [status EXCEPT ![m] = "active"] ELSE status,
             Then(g)
      PROVE  Settles(s)'
  <2>1. Doing(g) = "starting" /\ Phase(todo'[g]) = "opening"
    BY <1>1, <1>3, ReaderIs DEF Course
  <2>2. /\ g = s /\ on[g] = s /\ S(g) = sess[s] /\ sess[s] \in Session /\ TypeOK /\ ~sess[s].hung
    BY <1>1, <1>3, <2>1, Own DEF Commands
  <2>3. PICK r \in Session : r = sess[s]
    BY <2>2
  <2>4. PICK c \in 0..MaxMeetings : c = IF created THEN m ELSE 0
    BY LifecycleAssumption DEF Meetings
  <2>5. PICK b \in Session :
           b = [r EXCEPT !.tr = TRUE, !.paused = FALSE, !.uuid = m, !.meeting = c]
    <3>1. m \in 0..MaxMeetings
      BY LifecycleAssumption DEF Meetings
    <3>2. QED
      BY <3>1 DEF Session
  <2>6. PICK l \in BOOLEAN : l = (b.late \/ b.stopped \/ Doomed(s))
    OBVIOUS
  <2>7. PICK q \in Session : q = [b EXCEPT !.late = l]
    BY DEF Session
  <2>8. sess'[s] = q
    <3>1. b = [Aligned(S(g), "transcribing") EXCEPT !.uuid = m, !.meeting = IF created THEN m ELSE 0]
      BY <2>2, <2>3, <2>4, <2>5 DEF Aligned, Session
    <3>2. sess' = [sess EXCEPT ![s] = q]
      BY <1>3, <2>2, <2>6, <2>7, <3>1 DEF Begun, Put
    <3>3. QED
      BY <2>2, <3>2, PutIs
  <2>9. /\ q.meeting = c /\ q.uuid = m /\ q.ctx = r.ctx /\ q.hung = r.hung /\ ~q.paused
        /\ q.stopped = r.stopped /\ q.late = l /\ b.stopped = r.stopped
    BY <2>5, <2>7 DEF Session
  <2>10. q.stopped => q.late
    BY <2>6, <2>9
  <2>11. m = IF q.meeting # 0 THEN q.meeting ELSE q.uuid
    BY <2>4, <2>9
  <2>12. m \notin timed
    BY <1>3 DEF Unused, Fresh
  <2>13. /\ tm'.uuid = m
         /\ \A k \in Meetings : status'[k] = status[k] \/ status'[k] = "active"
    BY <1>3, <2>2 DEF TypeOK
  <2>14. \A k \in Meetings : /\ status'[k] = "paused" => q.ctx
                             /\ status'[k] = "failed" => q.hung
    BY <2>3, <2>9, <2>13, SettledBefore
  <2>15. QED
    BY <1>1, <2>1, <2>2, <2>8, <2>9, <2>10, <2>11, <2>12, <2>13, <2>14, SettledAfter
<1>4. QED
  BY <1>2, <1>3 DEF StartTM

\* A start begins with a session without meeting.
LEMMA ResetSettles ==
  ASSUME Sound, NEW s \in Sessions, Settles(s), Reading(s), Goto(s, StartProgram),
         sess' = [sess EXCEPT ![s] = Reset(@)], UNCHANGED <<status, timed>>,
         tm' = tm \/ tm' = NoSession
  PROVE  Settles(s)'
<1>1. /\ TypeOK /\ sess[s] \in Session /\ ~sess[s].hung /\ s \in Goroutines /\ Doing(s) = "idle"
  BY Apart, ProgramsBegun DEF Reading, Doing, Sound, TypeOK, Session
<1>2. Phase(todo'[s]) = "starting"
  BY <1>1, GotoIs, ProgramsBegun
<1>3. PICK q \in Session : q = Reset(sess[s])
  <2>1. 0 \in 0..MaxMeetings
    BY LifecycleAssumption
  <2>2. QED
    BY <1>1, <2>1 DEF Reset, Session
<1>4. sess'[s] = q
  BY <1>1, <1>3, PutIs
<1>5. /\ q.meeting = 0 /\ q.uuid = 0 /\ q.ctx = sess[s].ctx /\ q.hung = sess[s].hung
      /\ q.stopped = sess[s].stopped /\ q.late = sess[s].late /\ ~q.paused
  BY <1>1, <1>3 DEF Reset, Session
<1>6. \A k \in Meetings : /\ status'[k] = "paused" => q.ctx
                          /\ status'[k] = "failed" => q.hung
  BY <1>5, SettledBefore
<1>7. q.stopped /\ ~q.late =>
            /\ tm'.st = "none"
            /\ \A k \in Meetings : status'[k] \notin {"paused", "failed"}
  BY <1>1, <1>5, SettledBefore, NoSessionIs
<1>8. PICK m : m = IF q.meeting # 0 THEN q.meeting ELSE q.uuid
  OBVIOUS
<1>9. m = 0
  BY <1>5, <1>8
<1>10. QED
  BY <1>1, <1>2, <1>4, <1>5, <1>6, <1>7, <1>8, <1>9, SettledAfter

LEMMA ReadStartSettles ==
  ASSUME Sound, NEW k \in Sessions, ReadStart(k), NEW s \in Sessions, Alone(s),
         sess[s].conn # "none", Settles(s)
  PROVE  Settles(s)'
<1>1. k = s
  BY DEF ReadStart, Read, Reading, Alone
<1>2. QED
  BY <1>1, ResetSettles DEF ReadStart, Read

LEMMA ReadStopSettles ==
  ASSUME Sound, NEW k \in Sessions, ReadStop(k), NEW s \in Sessions, Alone(s),
         sess[s].conn # "none", Settles(s)
  PROVE  Settles(s)'
<1>1. /\ k = s /\ Reading(s) /\ ~sess[s].ctx /\ Goto(s, StopProgram)
      /\ sess' = [sess EXCEPT ![s].stopped = TRUE] /\ UNCHANGED <<tm, status, timed>>
  BY DEF ReadStop, Read, Reading, Alone
<1>2. /\ TypeOK /\ sess[s] \in Session /\ ~sess[s].hung /\ s \in Goroutines /\ Doing(s) = "idle"
  BY <1>1, Apart, ProgramsBegun DEF Reading, Doing, Sound, TypeOK, Session
<1>3. Phase(todo'[s]) = "stopping"
  BY <1>1, <1>2, GotoIs, ProgramsBegun
<1>4. PICK q \in Session : q = [sess[s] EXCEPT !.stopped = TRUE]
  BY <1>2 DEF Session
<1>5. sess'[s] = q
  BY <1>1, <1>2, <1>4, PutIs
<1>6. /\ q.meeting = sess[s].meeting /\ q.uuid = sess[s].uuid /\ q.started = sess[s].started
      /\ q.ctx = sess[s].ctx /\ q.hung = sess[s].hung /\ q.paused = sess[s].paused
      /\ q.late = sess[s].late /\ q.stats = sess[s].stats
  BY <1>2, <1>4 DEF Session
<1>7. PICK m : m = IF q.meeting # 0 THEN q.meeting ELSE q.uuid
  OBVIOUS
<1>8. /\ tm.st # "none" => tm.uuid = q.uuid
      /\ m # 0 /\ m \in timed => q.meeting # 0 /\ q.started /\ (status[m] = "active" => ~q.stats)
      /\ ~q.paused
      /\ \A i \in Meetings : status[i] \notin {"paused", "failed"}
  BY <1>1, <1>2, <1>6, <1>7, SettledBefore
<1>9. QED
  BY <1>1, <1>2, <1>3, <1>5, <1>6, <1>7, <1>8, SettledAfter

\* What the client resumes is the meeting the session has.
LEMMA ReadResumeSettles ==
  ASSUME Sound, NEW k \in Sessions, ReadResume(k), NEW s \in Sessions, Alone(s),
         sess[s].conn # "none", Settles(s)
  PROVE  Settles(s)'
<1>1. PICK u : u = IF tm.st # "none" THEN tm.uuid ELSE sess[s].uuid
  OBVIOUS
<1>2. PICK found : found = IF sess[s].meeting # 0 THEN sess[s].meeting
                           ELSE IF u # 0 /\ status[u] \notin {"none", "deleted"} THEN u ELSE 0
  OBVIOUS
<1>3. k = s /\ Reading(s) /\ u # 0
  BY <1>1 DEF ReadResume, Read, Reading, Alone
<1>4. /\ TypeOK /\ sess[s] \in Session /\ ~sess[s].hung /\ s \in Goroutines /\ Doing(s) = "idle"
  BY <1>3, Apart, ProgramsBegun DEF Reading, Doing, Sound, TypeOK, Session
<1>5. \/ /\ Goto(s, StartProgram) /\ sess' = [sess EXCEPT ![s] = Reset(@)]
         /\ UNCHANGED <<tm, status, timed>>
      \/ /\ Goto(s, <<IF tm.st = "none" THEN "RestartTM" ELSE "ResumeTM", "Dial", "Resumed">>)
         /\ sess' = [sess EXCEPT ![s].uuid = u, ![s].meeting = found]
         /\ UNCHANGED <<tm, status, timed>>
  BY <1>1, <1>2, <1>3 DEF ReadResume, Read
<1>6. CASE /\ Goto(s, StartProgram) /\ sess' = [sess EXCEPT ![s] = Reset(@)]
           /\ UNCHANGED <<tm, status, timed>>
  BY <1>3, <1>6, ResetSettles
<1>7. CASE /\ Goto(s, <<IF tm.st = "none" THEN "RestartTM" ELSE "ResumeTM", "Dial", "Resumed">>)
           /\ sess' = [sess EXCEPT ![s].uuid = u, ![s].meeting = found]
           /\ UNCHANGED <<tm, status, timed>>
  <2>1. Phase(todo'[s]) = "resuming"
    <3>1. CASE tm.st = "none"
      BY <1>4, <1>7, <3>1, GotoIs, ProgramsBegun
    <3>2. CASE tm.st # "none"
      BY <1>4, <1>7, <3>2, GotoIs, ProgramsBegun
    <3>3. QED
      BY <3>1, <3>2
  <2>2. u = sess[s].uuid
    BY <1>1, <1>4, SettledBefore
  <2>3. u \in 0..MaxMeetings /\ found \in 0..MaxMeetings
    <3>1. u \in 0..MaxMeetings
      BY <1>4, <2>2 DEF Session
    <3>2. QED
      BY <1>2, <1>4, <3>1, LifecycleAssumption DEF Session
  <2>4. PICK q \in Session : q = [sess[s] EXCEPT !.uuid = u, !.meeting = found]
    BY <1>4, <2>3 DEF Session
  <2>5. sess'[s] = q
    <3>1. sess' = [sess EXCEPT ![s] = q]
      BY <1>7, <2>4 DEF TypeOK
    <3>2. QED
      BY <1>4, <3>1, PutIs
  <2>6. /\ q.meeting = found /\ q.uuid = sess[s].uuid /\ q.started = sess[s].started
        /\ q.ctx = sess[s].ctx /\ q.hung = sess[s].hung /\ q.paused = sess[s].paused
        /\ q.late = sess[s].late /\ q.stats = sess[s].stats /\ q.stopped = sess[s].stopped
    BY <1>4, <2>2, <2>4 DEF Session
  <2>7. PICK m : m = IF q.meeting # 0 THEN q.meeting ELSE q.uuid
    OBVIOUS
  <2>8. m = IF sess[s].meeting # 0 THEN sess[s].meeting ELSE sess[s].uuid
    BY <1>2, <2>2, <2>6, <2>7
  <2>9. sess[s].meeting # 0 => q.meeting # 0
    BY <1>2, <2>6
  <2>10. /\ tm.st # "none" => tm.uuid = q.uuid
         /\ m # 0 /\ m \in timed => q.meeting # 0 /\ q.started /\ (status[m] = "active" => ~q.stats)
         /\ q.paused => q.ctx
         /\ \A i \in Meetings : /\ status[i] = "paused" => q.ctx
                                /\ status[i] = "failed" => q.hung
    BY <1>4, <2>6, <2>8, <2>9, SettledBefore
  <2>11. q.stopped /\ ~q.late =>
            /\ tm.st = "none" /\ ~q.paused
            /\ \A i \in Meetings : status[i] \notin {"paused", "failed"}
    BY <1>4, <2>6, SettledBefore
  <2>12. tm' = tm /\ status' = status /\ timed' = timed /\ ~q.hung
    BY <1>4, <1>7, <2>6
  <2>13. QED
    BY <2>1, <2>12, <2>5, <2>7, <2>10, <2>11, SettledAfter
<1>8. QED
  BY <1>5, <1>6, <1>7

\* The first result gives the session the meeting it already spoke of.
LEMMA FirstFinalSettles ==
  ASSUME Sound, NEW k \in Sessions, FirstFinal(k), NEW s \in Sessions, Alone(s),
         sess[s].conn # "none", Settles(s)
  PROVE  Settles(s)'
<1>1. /\ TypeOK /\ sess[s] \in Session /\ sess[k] \in Session /\ sess[k].remote = "open"
  BY DEF FirstFinal, Sound, TypeOK, Session
<1>2. sess[k].conn # "none"
  BY <1>1 DEF Sound, Programs, Closed
<1>3. k = s
  BY <1>2 DEF Alone
<1>4. PICK m \in 0..MaxMeetings : m = IF sess[s].meeting = 0 THEN sess[s].uuid ELSE sess[s].meeting
  BY <1>1 DEF Session
<1>5. PICK q \in Session : q = [sess[s] EXCEPT !.started = TRUE, !.meeting = m]
  BY <1>1 DEF Session
<1>6. sess'[s] = q
  <2>1. sess' = [sess EXCEPT ![s] = q]
    BY <1>1, <1>3, <1>4, <1>5 DEF FirstFinal, TypeOK
  <2>2. QED
    BY <1>1, <2>1, PutIs
<1>7. /\ q.meeting = m /\ q.uuid = sess[s].uuid /\ q.started /\ q.remote = sess[s].remote
      /\ q.ctx = sess[s].ctx /\ q.hung = sess[s].hung /\ q.paused = sess[s].paused
      /\ q.late = sess[s].late /\ q.stats = sess[s].stats /\ q.stopped = sess[s].stopped
  BY <1>1, <1>5 DEF Session
<1>8. /\ ~sess[s].started /\ sess[s].uuid # 0 /\ sess[s].remote = "open"
      /\ UNCHANGED <<tm, timed, todo>>
  BY <1>3 DEF FirstFinal
<1>9. m # 0 /\ m = IF q.meeting # 0 THEN q.meeting ELSE q.uuid
  BY <1>4, <1>7, <1>8
<1>10. m \notin timed
  BY <1>4, <1>8, SettledBefore
<1>11. \A i \in Meetings : status'[i] = status[i] \/ status'[i] = "active"
  BY <1>1, <1>3 DEF FirstFinal, TypeOK
<1>12. PICK p : p = Doing(s) /\ Phase(todo'[s]) = p
  BY <1>8 DEF Doing
<1>13. \A i \in Meetings : /\ status'[i] = "paused" => q.ctx
                           /\ status'[i] = "failed" => q.hung
  BY <1>7, <1>11, SettledBefore
<1>14. q.stopped /\ ~q.late =>
            /\ p # "stopping" => tm'.st = "none"
            /\ ~q.paused
            /\ p \notin {"paused", "completingPaused", "closingPaused"}
            /\ \A i \in Meetings : status'[i] \notin {"paused", "failed"}
            /\ ~(q.hung /\ p \in {"closed", "idle"})
  <2>1. PICK d : d = Doing(s)
    OBVIOUS
  <2>2. sess[s].stopped /\ ~sess[s].late =>
            /\ d # "stopping" => tm.st = "none"
            /\ ~sess[s].paused
            /\ d \notin {"paused", "completingPaused", "closingPaused"}
            /\ \A i \in Meetings : status[i] \notin {"paused", "failed"}
            /\ sess[s].hung /\ d \in {"closed", "idle"} => sess[s].remote = "none"
    BY <2>1, SettledBefore
  <2>3. d = p
    BY <1>12, <2>1
  <2>4. QED
    BY <1>7, <1>8, <1>11, <2>2, <2>3
<1>15. /\ tm'.st # "none" => tm'.uuid = q.uuid \/ p = "starting"
       /\ q.paused => q.ctx \/ p = "paused"
  BY <1>7, <1>8, <1>12, SettledBefore
<1>16. m \notin timed'
  BY <1>8, <1>10
<1>17. QED
  BY <1>6, <1>7, <1>9, <1>12, <1>13, <1>14, <1>15, <1>16, SettledAfter

\* The stop writes the meeting completed, or it is empty and deleted.
LEMMA EmptiedActive ==
  ASSUME NEW m \in Meetings, NEW r, m = IF r.meeting # 0 THEN r.meeting ELSE r.uuid,
         NEW st \in [Meetings -> Status], NEW written, st[m] = "active" => m \notin written
  PROVE  /\ Emptied(r, st, written) \in [Meetings -> Status]
         /\ Emptied(r, st, written)[m] # "active"
         /\ \A k \in Meetings : Emptied(r, st, written)[k] \in {st[k], "deleted"}
<1>1. PICK e : e = Emptied(r, st, written)
  OBVIOUS
<1>2. e = IF m # 0 /\ st[m] = "active" /\ m \notin written THEN [st EXCEPT ![m] = "deleted"] ELSE st
  BY <1>1 DEF Emptied
<1>3. m # 0
  BY DEF Meetings
<1>4. CASE st[m] = "active"
  BY <1>1, <1>2, <1>3, <1>4 DEF Status
<1>5. CASE st[m] # "active"
  BY <1>1, <1>2, <1>5
<1>6. QED
  BY <1>4, <1>5

LEMMA StopFlagsSettles ==
  ASSUME Sound, NEW g \in Goroutines, StopFlags(g), NEW s \in Sessions, Alone(s),
         sess[s].conn # "none", Settles(s)
  PROVE  Settles(s)'
<1>1. At(g, "StopFlags") /\ Then(g) /\ UNCHANGED tm
  BY DEF StopFlags
<1>2. /\ Doing(g) = "stopped" /\ Phase(todo'[g]) = "stopped"
      /\ g \in Sessions => ~sess[g].hung
  BY <1>1, ReaderIs DEF Course, Commands
<1>3. on[g] = s /\ S(g) = sess[s] /\ sess[s] \in Session /\ TypeOK
  BY <1>2, Only, Where DEF Sound, S
<1>4. PICK c \in BOOLEAN : c = (sess[s].meeting # 0 /\ sess[s].started)
  OBVIOUS
<1>5. PICK t \in BOOLEAN : t = (c \/ sess[s].stats)
  OBVIOUS
<1>6. PICK q \in Session : q = [sess[s] EXCEPT !.remote = "none", !.tr = FALSE, !.paused = FALSE,
                                               !.stats = t]
  BY <1>3, ZenonT(60) DEF Session
<1>7. sess'[s] = q
  <2>1. sess' = [sess EXCEPT ![s] = q]
    BY <1>3, <1>4, <1>5, <1>6 DEF StopFlags, Put
  <2>2. QED
    BY <1>3, <2>1, PutIs
<1>8. /\ q.meeting = sess[s].meeting /\ q.uuid = sess[s].uuid /\ q.started = sess[s].started
      /\ q.ctx = sess[s].ctx /\ q.hung = sess[s].hung /\ q.stopped = sess[s].stopped
      /\ q.late = sess[s].late /\ ~q.paused /\ q.remote = "none"
  BY <1>3, <1>6 DEF Session
<1>9. PICK m : m = IF q.meeting # 0 THEN q.meeting ELSE q.uuid
  OBVIOUS
<1>10. m # 0 => m \in Meetings
  BY <1>9, LifecycleAssumption DEF Session, Meetings
<1>11. /\ m # 0 /\ m \in timed => c
       /\ c => m = sess[s].meeting /\ m # 0 /\ m \in Meetings
  BY <1>4, <1>8, <1>9, <1>10, SettledBefore, ZenonT(60)
<1>12. PICK st \in [Meetings -> Status] :
          st = IF c THEN Ended(sess[s].meeting, "completed") ELSE status
  <2>1. status \in [Meetings -> Status]
    BY <1>3 DEF TypeOK, Status
  <2>2. QED
    BY <1>11, <2>1 DEF Ended, Status
<1>13. PICK written : written = IF c THEN timed \cup {sess[s].meeting} ELSE timed
  OBVIOUS
<1>14. timed' = written /\ status' = Emptied(sess[s], st, written)
  BY <1>3, <1>4, <1>12, <1>13 DEF StopFlags
<1>15. m # 0 /\ st[m] = "active" => m \notin written
  <2>1. CASE c
    BY <1>3, <1>11, <1>12, <2>1 DEF Ended, TypeOK
  <2>2. CASE ~c
    BY <1>11, <1>13, <2>2
  <2>3. QED
    BY <2>1, <2>2
<1>16. \A k \in Meetings : st[k] \in {status[k], "completed"}
  BY <1>3, <1>12 DEF Ended, TypeOK
<1>17. m # 0 => status'[m] # "active"
  BY <1>8, <1>9, <1>10, <1>14, <1>15, EmptiedActive
<1>18. \A k \in Meetings : status'[k] \in {status[k], "completed", "deleted"}
  <2>1. CASE m # 0
    BY <1>8, <1>9, <1>10, <1>14, <1>15, <1>16, <2>1, EmptiedActive
  <2>2. CASE m = 0
    <3>1. status' = st
      BY <1>8, <1>9, <1>14, <2>2 DEF Emptied
    <3>2. QED
      BY <1>16, <3>1
  <2>3. QED
    BY <2>1, <2>2
<1>19. PICK d : d = Doing(s)
  OBVIOUS
<1>20. PICK p : p = Phase(todo'[s]) /\ p = d /\ (d = "stopped" \/ g # s)
  <2>1. CASE g = s
    BY <1>2, <1>19, <2>1
  <2>2. CASE g # s
    BY <1>1, <1>19, <2>2, Turn
  <2>3. QED
    BY <2>1, <2>2
<1>21. m # 0 /\ m \in timed' => q.meeting # 0 /\ q.started
  <2>1. m # 0 /\ m \in written => c
    BY <1>11, <1>13
  <2>2. QED
    BY <1>4, <1>8, <1>14, <2>1
<1>22. /\ tm'.st # "none" => tm'.uuid = q.uuid \/ p = "starting"
       /\ p = "failing" => q.meeting # 0 /\ q.started
  BY <1>1, <1>8, <1>19, <1>20, SettledBefore
<1>23. \A k \in Meetings : /\ status'[k] = "paused" => q.ctx
                           /\ status'[k] = "failed" => q.hung
  BY <1>8, <1>18, SettledBefore
<1>24. q.stopped /\ ~q.late =>
            /\ p # "stopping" => tm'.st = "none"
            /\ p \notin {"paused", "completingPaused", "closingPaused"}
            /\ \A k \in Meetings : status'[k] \notin {"paused", "failed"}
  <2>1. sess[s].stopped /\ ~sess[s].late =>
            /\ d # "stopping" => tm.st = "none"
            /\ d \notin {"paused", "completingPaused", "closingPaused"}
            /\ \A k \in Meetings : status[k] \notin {"paused", "failed"}
    BY <1>19, SettledBefore
  <2>2. QED
    BY <1>1, <1>8, <1>18, <1>20, <2>1
<1>25. QED
  <2>1. /\ p \in {"closing", "closingPaused"} => (m # 0 /\ status'[m] = "active" => m \notin timed')
        /\ m # 0 /\ m \in timed' => /\ q.meeting # 0 /\ q.started
                                    /\ status'[m] = "active" => ~q.stats
    BY <1>17, <1>21
  <2>2. q.stopped /\ ~q.late =>
            /\ p # "stopping" => tm'.st = "none"
            /\ ~q.paused
            /\ p \notin {"paused", "completingPaused", "closingPaused"}
            /\ \A k \in Meetings : status'[k] \notin {"paused", "failed"}
            /\ q.hung /\ p \in {"closed", "idle"}
                 => q.remote = "none" /\ (m # 0 => status'[m] # "active")
    BY <1>8, <1>17, <1>24
  <2>3. ~q.paused /\ Phase(todo'[s]) = p
    BY <1>8, <1>20
  <2>4. QED
    BY <1>7, <1>9, <1>22, <1>23, <2>1, <2>2, <2>3, SettledAfter

LEMMA MarkFailedSettles ==
  ASSUME Sound, NEW g \in Goroutines, MarkFailed(g), NEW s \in Sessions, Alone(s),
         sess[s].conn # "none", Settles(s)
  PROVE  Settles(s)'
<1>1. At(g, "MarkFailed") /\ Then(g) /\ UNCHANGED tm
  BY DEF MarkFailed
<1>2. Doing(g) = "failing" /\ Phase(todo'[g]) = "leaving"
  BY <1>1, ReaderIs DEF Course
<1>3. /\ g = s /\ on[g] = s /\ S(g) = sess[s] /\ sess[s] \in Session /\ TypeOK
      /\ sess[s].hung /\ ~sess[s].stopped
  BY <1>1, <1>2, Own DEF Leaving
<1>4. PICK q \in Session : q = [sess[s] EXCEPT !.stats = TRUE]
  BY <1>3 DEF Session
<1>5. sess'[s] = q
  <2>1. sess' = [sess EXCEPT ![s] = q]
    BY <1>3, <1>4 DEF MarkFailed, Put
  <2>2. QED
    BY <1>3, <2>1, PutIs
<1>6. /\ q.meeting = sess[s].meeting /\ q.uuid = sess[s].uuid /\ q.started = sess[s].started
      /\ q.ctx = sess[s].ctx /\ q.hung /\ ~q.stopped /\ q.paused = sess[s].paused
  BY <1>3, <1>4 DEF Session
<1>7. PICK m : m = IF q.meeting # 0 THEN q.meeting ELSE q.uuid
  OBVIOUS
<1>8. q.meeting # 0 /\ q.started /\ m = sess[s].meeting /\ m \in Meetings
  <2>1. q.meeting # 0 /\ q.started /\ m = sess[s].meeting
    BY <1>2, <1>3, <1>6, <1>7, SettledBefore
  <2>2. QED
    BY <1>3, <1>6, <2>1, LifecycleAssumption DEF Session, Meetings
<1>9. status' = [status EXCEPT ![m] = "failed"] /\ status \in [Meetings -> Status]
  BY <1>3, <1>6, <1>8 DEF MarkFailed, Ended, TypeOK, Status
<1>10. status'[m] # "active" /\ \A k \in Meetings : status'[k] \in {status[k], "failed"}
  BY <1>8, <1>9
<1>11. /\ \A k \in Meetings : status'[k] = "paused" => q.ctx
       /\ q.paused => q.ctx
       /\ tm'.st # "none" => tm'.uuid = q.uuid
  BY <1>1, <1>2, <1>3, <1>6, <1>10, SettledBefore
<1>12. QED
  BY <1>2, <1>3, <1>5, <1>6, <1>7, <1>8, <1>10, <1>11, SettledAfter

\* Who takes down a stopped session completes the meeting if nobody has.
LEMMA CompleteSettles ==
  ASSUME Sound, NEW g \in Goroutines, Complete(g), NEW s \in Sessions, Alone(s),
         sess[s].conn # "none", Settles(s)
  PROVE  Settles(s)'
<1>1. At(g, "Complete") /\ Then(g) /\ UNCHANGED tm
  BY DEF Complete
<1>2. <<Doing(g), Phase(todo'[g])>> \in
         {<<"completing", "closing">>, <<"completingPaused", "closingPaused">>}
  BY <1>1, ReaderIs DEF Course
<1>3. /\ g = s /\ on[g] = s /\ S(g) = sess[s] /\ sess[s] \in Session /\ TypeOK
      /\ sess[s].hung /\ sess[s].stopped
  BY <1>1, <1>2, Own DEF TakingDown
<1>4. PICK p : p = Phase(todo'[s]) /\ p \in {"closing", "closingPaused"}
  BY <1>2, <1>3
<1>5. PICK d : d = Doing(s) /\ d \in {"completing", "completingPaused"}
               /\ (p = "closingPaused" <=> d = "completingPaused")
  BY <1>2, <1>3, <1>4
<1>6. PICK m : m = IF sess[s].meeting # 0 THEN sess[s].meeting ELSE sess[s].uuid
  OBVIOUS
<1>7. PICK q \in Session :
        /\ sess'[s] = q
        /\ q.meeting = sess[s].meeting /\ q.uuid = sess[s].uuid /\ q.started = sess[s].started
        /\ q.ctx = sess[s].ctx /\ q.hung /\ q.stopped /\ q.paused = sess[s].paused
        /\ q.late = sess[s].late
        /\ m # 0 /\ m \in timed' => q.meeting # 0 /\ q.started /\ status'[m] # "active"
        /\ \A k \in Meetings : status'[k] \in {status[k], "completed"}
  <2>1. CASE sess[s].meeting # 0 /\ sess[s].started /\ ~sess[s].stats
    <3>1. PICK q \in Session : q = [sess[s] EXCEPT !.stats = TRUE]
      BY <1>3 DEF Session
    <3>2. sess'[s] = q
      <4>1. sess' = [sess EXCEPT ![s] = q]
        BY <1>3, <2>1, <3>1 DEF Complete, Put
      <4>2. QED
        BY <1>3, <4>1, PutIs
    <3>3. /\ q.meeting = sess[s].meeting /\ q.uuid = sess[s].uuid /\ q.started = sess[s].started
          /\ q.ctx = sess[s].ctx /\ q.hung /\ q.stopped /\ q.paused = sess[s].paused
          /\ q.late = sess[s].late
      BY <1>3, <3>1 DEF Session
    <3>4. m = sess[s].meeting /\ m \in Meetings
      BY <1>3, <1>6, <2>1, LifecycleAssumption DEF Session, Meetings
    <3>5. status' = [status EXCEPT ![m] = "completed"] /\ status \in [Meetings -> Status]
      BY <1>3, <2>1, <3>4 DEF Complete, Ended, TypeOK, Status
    <3>6. status'[m] # "active" /\ \A k \in Meetings : status'[k] \in {status[k], "completed"}
      BY <3>4, <3>5
    <3>7. QED
      BY <2>1, <3>2, <3>3, <3>6
  <2>2. CASE ~(sess[s].meeting # 0 /\ sess[s].started /\ ~sess[s].stats)
    <3>1. UNCHANGED <<sess, status, timed>>
      BY <1>3, <2>2 DEF Complete
    <3>2. m # 0 /\ m \in timed => sess[s].meeting # 0 /\ sess[s].started /\ status[m] # "active"
      BY <1>6, <2>2, SettledBefore
    <3>3. QED
      BY <1>3, <3>1, <3>2
  <2>3. QED
    BY <2>1, <2>2
<1>8. m = IF q.meeting # 0 THEN q.meeting ELSE q.uuid
  BY <1>6, <1>7
<1>9. /\ tm'.st # "none" => tm'.uuid = q.uuid
      /\ q.paused => q.ctx
  <2>1. /\ tm.st # "none" => tm.uuid = sess[s].uuid \/ d = "starting"
        /\ sess[s].paused => sess[s].ctx \/ d = "paused"
    BY <1>5, SettledBefore
  <2>2. QED
    BY <1>1, <1>5, <1>7, <2>1
<1>10. \A k \in Meetings : status'[k] = "paused" => q.ctx
  BY <1>7, SettledBefore
<1>11. ~q.late => /\ tm'.st = "none" /\ ~q.paused /\ p # "closingPaused"
                  /\ \A k \in Meetings : status'[k] \notin {"paused", "failed"}
  <2>1. ~sess[s].late => /\ d # "stopping" => tm.st = "none"
                         /\ ~sess[s].paused /\ d # "completingPaused"
                         /\ \A k \in Meetings : status[k] \notin {"paused", "failed"}
    BY <1>3, <1>5, SettledBefore
  <2>2. QED
    BY <1>1, <1>5, <1>7, <2>1
<1>12. QED
  <2>1. /\ m # 0 /\ m \in timed' => /\ q.meeting # 0 /\ q.started
                                    /\ status'[m] = "active" => ~q.stats
        /\ m # 0 /\ status'[m] = "active" => m \notin timed'
        /\ p # "failing" /\ p # "stopping" /\ p # "paused" /\ p \notin {"closed", "idle"}
    BY <1>4, <1>7
  <2>2. q.stopped /\ ~q.late =>
            /\ p # "stopping" => tm'.st = "none"
            /\ ~q.paused
            /\ p \notin {"paused", "completingPaused", "closingPaused"}
            /\ \A k \in Meetings : status'[k] \notin {"paused", "failed"}
    BY <1>4, <1>11
  <2>3. QED
    BY <1>4, <1>7, <1>8, <1>9, <1>10, <2>1, <2>2, SettledAfter

\* The taking down deletes the meeting if it is still empty.
LEMMA CloseEmptySettles ==
  ASSUME Sound, NEW g \in Goroutines, CloseEmpty(g), NEW s \in Sessions, Alone(s),
         sess[s].conn # "none", Settles(s)
  PROVE  Settles(s)'
<1>1. At(g, "CloseEmpty") /\ Then(g) /\ UNCHANGED <<tm, timed>>
  BY DEF CloseEmpty
<1>2. Doing(g) = "closing" /\ Phase(todo'[g]) = "closed"
  BY <1>1, ReaderIs DEF Course
<1>3. /\ g = s /\ on[g] = s /\ S(g) = sess[s] /\ sess[s] \in Session /\ TypeOK
      /\ sess[s].hung /\ sess[s].stopped
  BY <1>1, <1>2, Own DEF TakingDown
<1>4. PICK q \in Session : q = HangUp(sess[s]) /\ Muted(sess[s], q) /\ q.remote = "none"
                           /\ q.ctx = sess[s].ctx /\ q.late = sess[s].late
  BY <1>3, ClosedIsMuted, HangUpIs
<1>5. sess'[s] = q
  <2>1. sess' = [sess EXCEPT ![s] = q]
    BY <1>3, <1>4 DEF CloseEmpty, Put
  <2>2. QED
    BY <1>3, <2>1, PutIs
<1>6. PICK m : m = IF sess[s].meeting # 0 THEN sess[s].meeting ELSE sess[s].uuid
  OBVIOUS
<1>7. m # 0 => m \in Meetings
  BY <1>3, <1>6, LifecycleAssumption DEF Session, Meetings
<1>8. status \in [Meetings -> Status] /\ status' = Emptied(sess[s], status, timed)
  BY <1>3 DEF TypeOK, Status, CloseEmpty
<1>9. m # 0 => (status[m] = "active" => m \notin timed)
  BY <1>2, <1>3, <1>6, SettledBefore
<1>10. m # 0 => status'[m] # "active"
  BY <1>6, <1>7, <1>8, <1>9, EmptiedActive
<1>11. \A k \in Meetings : status'[k] \in {status[k], "deleted"}
  <2>1. CASE m # 0
    BY <1>6, <1>7, <1>8, <1>9, <2>1, EmptiedActive
  <2>2. CASE m = 0
    BY <1>6, <1>8, <2>2 DEF Emptied
  <2>3. QED
    BY <2>1, <2>2
<1>12. /\ m = IF q.meeting # 0 THEN q.meeting ELSE q.uuid
       /\ q.meeting = sess[s].meeting /\ q.started = sess[s].started /\ q.uuid = sess[s].uuid
       /\ q.hung /\ q.stopped /\ (q.paused => sess[s].paused)
  BY <1>3, <1>4, <1>6 DEF Muted
<1>13. /\ tm'.st # "none" => tm'.uuid = q.uuid
       /\ m # 0 /\ m \in timed' => q.meeting # 0 /\ q.started
       /\ q.paused => q.ctx
       /\ \A k \in Meetings : status'[k] = "paused" => q.ctx
  <2>1. /\ tm.st # "none" => tm.uuid = sess[s].uuid
        /\ m # 0 /\ m \in timed => sess[s].meeting # 0 /\ sess[s].started
        /\ sess[s].paused => sess[s].ctx
        /\ \A k \in Meetings : status[k] = "paused" => sess[s].ctx
    BY <1>2, <1>3, <1>6, SettledBefore
  <2>2. QED
    BY <1>1, <1>4, <1>11, <1>12, <2>1
<1>14. ~q.late => /\ tm'.st = "none" /\ ~q.paused
                  /\ \A k \in Meetings : status'[k] \notin {"paused", "failed"}
  <2>1. ~sess[s].late => /\ tm.st = "none" /\ ~sess[s].paused
                         /\ \A k \in Meetings : status[k] \notin {"paused", "failed"}
    BY <1>2, <1>3, SettledBefore
  <2>2. QED
    BY <1>1, <1>4, <1>11, <1>12, <2>1
<1>15. Phase(todo'[s]) = "closed"
  BY <1>2, <1>3
<1>16. QED
  BY <1>4, <1>5, <1>10, <1>12, <1>13, <1>14, <1>15, SettledAfter

\* The reader decides by the flags what its disconnect has to do.
LEMMA ReaderEndsSettles ==
  ASSUME Sound, NEW k \in Sessions, ReaderEnds(k), NEW s \in Sessions, Alone(s),
         sess[s].conn # "none", Settles(s)
  PROVE  Settles(s)'
<1>1. /\ k = s /\ todo[s] = << >> /\ UNCHANGED <<tm, status, timed>>
      /\ sess' = [sess EXCEPT ![s].hung = TRUE]
  BY DEF ReaderEnds, Alone
<1>2. /\ TypeOK /\ sess[s] \in Session /\ s \in Goroutines /\ Doing(s) = "idle"
  BY <1>1, Apart, ProgramsBegun DEF Doing, Sound, TypeOK, Session
<1>3. PICK pr \in Known : pr = Disconnect(sess[s])
  BY <1>2, DisconnectIs
<1>4. Goto(s, pr)
  BY <1>1, <1>3 DEF ReaderEnds, Disconnect
<1>5. PICK p : p = Phase(todo'[s]) /\ p = Phase(pr)
  BY <1>2, <1>4, GotoIs
<1>6. PICK q \in Session : q = [sess[s] EXCEPT !.hung = TRUE]
  BY <1>2 DEF Session
<1>7. sess'[s] = q
  <2>1. sess' = [sess EXCEPT ![s] = q]
    BY <1>1, <1>6
  <2>2. QED
    BY <1>2, <2>1, PutIs
<1>8. /\ q.meeting = sess[s].meeting /\ q.uuid = sess[s].uuid /\ q.started = sess[s].started
      /\ q.ctx = sess[s].ctx /\ q.hung /\ q.paused = sess[s].paused
      /\ q.late = sess[s].late /\ q.stats = sess[s].stats /\ q.stopped = sess[s].stopped
  BY <1>2, <1>6 DEF Session
<1>9. /\ p \in {"failing", "leaving", "completingPaused", "completing"}
      /\ p = "failing" => sess[s].meeting # 0 /\ sess[s].started
      /\ p = "completingPaused" => sess[s].paused
      /\ p \in {"failing", "leaving"} => ~sess[s].stopped
  BY <1>2, <1>3, <1>5, DisconnectIs
<1>10. PICK m : m = IF q.meeting # 0 THEN q.meeting ELSE q.uuid
  OBVIOUS
<1>11. m = IF sess[s].meeting # 0 THEN sess[s].meeting ELSE sess[s].uuid
  BY <1>8, <1>10
<1>12. /\ tm.st # "none" => tm.uuid = q.uuid
       /\ m # 0 /\ m \in timed => q.meeting # 0 /\ q.started /\ (status[m] = "active" => ~q.stats)
       /\ q.paused => q.ctx
       /\ \A i \in Meetings : status[i] = "paused" => q.ctx
  BY <1>2, <1>8, <1>11, SettledBefore
<1>13. q.stopped /\ ~q.late =>
            /\ tm.st = "none" /\ ~q.paused
            /\ \A i \in Meetings : status[i] \notin {"paused", "failed"}
  BY <1>2, <1>8, SettledBefore
<1>14. tm' = tm /\ status' = status /\ timed' = timed
  BY <1>1
<1>15. p = "failing" => q.meeting # 0 /\ q.started
  BY <1>8, <1>9
<1>16. q.stopped /\ ~q.late => p \in {"completing"}
  BY <1>8, <1>9, <1>13
<1>17. /\ p \notin {"closing", "closingPaused", "stopping", "paused", "closed", "idle"}
       /\ Phase(todo'[s]) = p /\ q.hung
  BY <1>5, <1>8, <1>9
<1>18. QED
  BY <1>7, <1>10, <1>12, <1>13, <1>14, <1>15, <1>16, <1>17, SettledAfter

\* The user's first session.
LEMMA FirstSettles ==
  ASSUME Sound, Untouched, NEW n \in Sessions, Connect(n), \A k \in Sessions : sess[k].conn = "none"
  PROVE  Settles(n)'
<1>1. tm = NoSession /\ timed = {} /\ \A m \in Meetings : status[m] = "none"
  BY DEF Untouched
<1>2. UNCHANGED <<tm, status, timed, todo>> /\ Doing(n) = "idle"
  BY DEF Connect, Sound, Programs
<1>3. PICK q \in Session : q = [Closed EXCEPT !.conn = "open", !.uuid = tm.uuid]
  <2>1. tm.uuid \in 0..MaxMeetings
    BY DEF Sound, TypeOK
  <2>2. QED
    BY <2>1, ClosedIs DEF Session
<1>4. sess'[n] = q
  <2>1. sess' = [s \in Sessions |->
                   CASE s = n -> q [] s = cur -> AfterClose(sess[s]) [] OTHER -> sess[s]]
    BY <1>3 DEF Connect
  <2>2. n # cur
    BY Apart DEF Sound, Programs, Connect
  <2>3. QED
    BY <2>1, <2>2
<1>5. q.meeting = 0 /\ q.uuid = 0 /\ ~q.paused /\ ~q.stopped
  BY <1>1, <1>3, NoSessionIs DEF Closed
<1>6. Phase(todo'[n]) = "idle" /\ tm'.st = "none"
  BY <1>1, <1>2, NoSessionIs DEF Doing
<1>7. PICK m : m = IF q.meeting # 0 THEN q.meeting ELSE q.uuid
  OBVIOUS
<1>8. m = 0
  BY <1>5, <1>7
<1>9. \A k \in Meetings : status'[k] = "none"
  BY <1>1, <1>2
<1>10. QED
  BY <1>4, <1>5, <1>6, <1>7, <1>8, <1>9, SettledAfter

-----------------------------------------------------------------------------
(* What no step takes back *)

\* A step on a connected session that gives it no meeting.
Changed ==
    \/ UNCHANGED sess
    \/ \E c \in Sessions, q \in Session :
          /\ sess[c].conn # "none" /\ sess' = [sess EXCEPT ![c] = q]
          /\ q.conn # "none" /\ q.meeting \in {sess[c].meeting, 0}
\* Who is connected stays so, and a meeting that is given to a session has a row.
Lasting == \A k \in Sessions : sess'[k].conn = "none" <=> sess[k].conn = "none"
Holding == \A k \in Sessions : \/ sess'[k].meeting \in {sess[k].meeting, 0}
                               \/ status'[sess'[k].meeting] # "none"
\* A row that exists stays, and a duration is written to a row that exists.
Writing == \A m \in Meetings : status'[m] = "none" =>
               status[m] = "none" /\ (m \in timed' => m \in timed)

LEMMA ChangedLasts ==
  ASSUME TypeOK, Changed
  PROVE  Lasting /\ Holding
<1>1. CASE UNCHANGED sess
  BY <1>1 DEF Lasting, Holding
<1>2. ASSUME NEW c \in Sessions, NEW q \in Session, sess[c].conn # "none",
             sess' = [sess EXCEPT ![c] = q], q.conn # "none", q.meeting \in {sess[c].meeting, 0}
      PROVE  Lasting /\ Holding
  BY <1>2, PutIs DEF Lasting, Holding
<1>3. QED
  BY <1>1, <1>2 DEF Changed

LEMMA FreshKept ==
  ASSUME Fresh, Holding, Writing
  PROVE  Fresh'
BY Apart, LifecycleAssumption DEF Fresh, Holding, Writing, Meetings

\* The steps on a session.
LEMMA AtWork ==
  ASSUME Sound, NEW g \in Goroutines, NEW step, At(g, step),
         step \notin {"CloseListed", "Verify", "StopTM", "Remove"}
  PROVE  on[g] \in Sessions /\ S(g) \in Session /\ S(g).conn # "none" /\ S(g) = sess[on[g]]
<1>1. Course(todo[g]) /\ Head(todo[g]) = step /\ Doing(g) = Phase(todo[g])
  BY Next1 DEF Sound, Doing
<1>2. Doing(g) \notin {"idle", "cleaning", "listed"}
  BY <1>1 DEF Course
<1>3. QED
  BY <1>2, Where DEF Sound, S

LEMMA PutChanged ==
  ASSUME Sound, NEW g \in Goroutines, NEW step, At(g, step),
         step \notin {"CloseListed", "Verify", "StopTM", "Remove"},
         NEW q \in Session, Put(g, q), q.conn \in {S(g).conn, "closed"},
         q.meeting \in {S(g).meeting, 0}
  PROVE  Changed
<1>1. on[g] \in Sessions /\ S(g).conn # "none" /\ S(g) = sess[on[g]]
  BY AtWork
<1>2. QED
  BY <1>1 DEF Changed, Put

LEMMA BegunChanged ==
  ASSUME Sound, NEW g \in Goroutines, NEW step, At(g, step),
         step \in {"StartTM", "ResumeTM", "RestartTM"}, NEW r \in Session, Begun(g, r),
         r.conn = S(g).conn
  PROVE  /\ Lasting
         /\ \A k \in Sessions : sess'[k].meeting \in {sess[k].meeting, r.meeting}
<1>1. on[g] \in Sessions /\ S(g) \in Session /\ S(g).conn # "none" /\ S(g) = sess[on[g]]
  BY AtWork
<1>2. PICK l \in BOOLEAN : l = (r.late \/ r.stopped \/ Doomed(on[g]))
  OBVIOUS
<1>3. PICK q \in Session : q = [r EXCEPT !.late = l]
  BY DEF Session
<1>4. sess' = [sess EXCEPT ![on[g]] = q] /\ q.conn = r.conn /\ q.meeting = r.meeting
  BY <1>2, <1>3 DEF Begun, Put, Session
<1>5. QED
  BY <1>1, <1>4, PutIs DEF Sound, Lasting

LEMMA CommandsChanged ==
  ASSUME Sound, NEW g \in Goroutines,
         \/ Dial(g) \/ Started(g) \/ Resumed(g) \/ PauseTM(g) \/ PauseDone(g) \/ StopCmd(g)
         \/ StopFlags(g) \/ Await(g)
  PROVE  Changed
<1>1. CASE Dial(g) \/ StopCmd(g)
  BY <1>1 DEF Dial, StopCmd, Changed
<1>2. CASE Started(g) \/ Resumed(g)
  <2>1. PICK step \in {"Started", "Resumed"} : At(g, step)
    BY <1>2 DEF Started, Resumed
  <2>2. S(g) \in Session
    BY <2>1, AtWork
  <2>3. ASSUME NEW resumed \in BOOLEAN, Configured(g, resumed) PROVE Changed
    <3>1. PICK l \in BOOLEAN : l = (S(g).late \/ S(g).ctx)
      OBVIOUS
    <3>2. PICK t \in BOOLEAN : t = IF resumed /\ S(g).meeting # 0 THEN FALSE ELSE S(g).stats
      BY <2>2 DEF Session
    <3>3. PICK q \in Session : q = [S(g) EXCEPT !.remote = "open", !.tr = TRUE, !.paused = FALSE,
                                                !.late = l, !.stats = t]
      BY <2>2, ZenonT(60) DEF Session
    <3>4. Put(g, q) /\ q.conn = S(g).conn /\ q.meeting = S(g).meeting
      BY <2>2, <2>3, <3>1, <3>2, <3>3 DEF Configured, Put, Session
    <3>5. QED
      BY <2>1, <3>4, PutChanged
  <2>4. CASE ConfigFails(g)
    BY <2>1, <2>2, <2>4, PutChanged, HangUpIs DEF ConfigFails
  <2>5. QED
    BY <1>2, <2>3, <2>4 DEF Started, Resumed
<1>3. CASE PauseTM(g)
  <2>1. At(g, "PauseTM") /\ S(g) \in Session
    BY <1>3, AtWork DEF PauseTM
  <2>2. PICK q \in Session : q = [S(g) EXCEPT !.tr = FALSE, !.paused = TRUE]
    BY <2>1 DEF Session
  <2>3. q.conn = S(g).conn /\ q.meeting = S(g).meeting
    BY <2>1, <2>2 DEF Session
  <2>4. UNCHANGED sess \/ Put(g, q)
    BY <1>3, <2>2 DEF PauseTM, Put, Aligned
  <2>5. QED
    BY <2>1, <2>3, <2>4, PutChanged DEF Changed
<1>4. CASE PauseDone(g)
  <2>1. At(g, "PauseDone") /\ S(g) \in Session
    BY <1>4, AtWork DEF PauseDone
  <2>2. PICK a \in Session : a = AfterClose(S(g)) /\ a.conn = "closed" /\ a.meeting = S(g).meeting
    BY <2>1, AfterCloseIs
  <2>3. PICK q \in Session : q = [a EXCEPT !.tr = FALSE, !.paused = TRUE]
    BY DEF Session
  <2>4. Put(g, q) /\ q.conn = "closed" /\ q.meeting = S(g).meeting
    BY <1>4, <2>2, <2>3 DEF PauseDone, Put, Session
  <2>5. QED
    BY <2>1, <2>4, PutChanged
<1>5. CASE StopFlags(g)
  <2>1. At(g, "StopFlags") /\ S(g) \in Session
    BY <1>5, AtWork DEF StopFlags
  <2>2. PICK c \in BOOLEAN : c = (S(g).meeting # 0 /\ S(g).started)
    OBVIOUS
  <2>3. PICK t \in BOOLEAN : t = (c \/ S(g).stats)
    OBVIOUS
  <2>4. PICK q \in Session : q = [S(g) EXCEPT !.remote = "none", !.tr = FALSE, !.paused = FALSE,
                                              !.stats = t]
    BY <2>1 DEF Session
  <2>5. Put(g, q) /\ q.conn = S(g).conn /\ q.meeting = S(g).meeting
    BY <1>5, <2>1, <2>2, <2>3, <2>4 DEF StopFlags, Put, Session
  <2>6. QED
    BY <2>1, <2>5, PutChanged
<1>6. CASE Await(g)
  <2>1. At(g, "Await") /\ S(g) \in Session
    BY <1>6, AtWork DEF Await
  <2>2. PICK q \in Session : q = [S(g) EXCEPT !.conn = IF S(g).hung THEN S(g).conn ELSE "closed"]
    BY <2>1 DEF Session
  <2>3. Put(g, q) /\ q.conn \in {S(g).conn, "closed"} /\ q.meeting = S(g).meeting
    BY <1>6, <2>1, <2>2 DEF Await, Put, Session
  <2>4. QED
    BY <2>1, <2>3, PutChanged
<1>7. QED
  BY <1>1, <1>2, <1>3, <1>4, <1>5, <1>6

LEMMA TakingDownChanged ==
  ASSUME Sound, NEW g \in Goroutines,
         \/ MarkFailed(g) \/ Complete(g) \/ StopTM(g) \/ CloseRemote(g) \/ CloseEmpty(g)
         \/ Remove(g) \/ Close(g) \/ Return(g) \/ HealthClose(g) \/ CloseListed(g) \/ Verify(g)
  PROVE  Changed
<1>1. CASE StopTM(g) \/ Remove(g)
  BY <1>1 DEF StopTM, Remove, Changed
<1>2. CASE MarkFailed(g) \/ Complete(g)
  <2>1. PICK step \in {"MarkFailed", "Complete"} : At(g, step)
    BY <1>2 DEF MarkFailed, Complete
  <2>2. S(g) \in Session
    BY <2>1, AtWork
  <2>3. PICK q \in Session : q = [S(g) EXCEPT !.stats = TRUE]
    BY <2>2 DEF Session
  <2>4. q.conn = S(g).conn /\ q.meeting = S(g).meeting
    BY <2>2, <2>3 DEF Session
  <2>5. UNCHANGED sess \/ Put(g, q)
    BY <1>2, <2>3 DEF MarkFailed, Complete
  <2>6. QED
    BY <2>1, <2>4, <2>5, PutChanged DEF Changed
<1>3. CASE Return(g)
  <2>1. At(g, "Return") /\ S(g) \in Session
    BY <1>3, AtWork DEF Return
  <2>2. PICK q \in Session : q = [S(g) EXCEPT !.ctx = TRUE]
    BY <2>1 DEF Session
  <2>3. Put(g, q) /\ q.conn = S(g).conn /\ q.meeting = S(g).meeting
    BY <1>3, <2>1, <2>2 DEF Return, Session
  <2>4. QED
    BY <2>1, <2>3, PutChanged
<1>4. CASE CloseRemote(g) \/ CloseEmpty(g) \/ Close(g)
  <2>1. PICK step \in {"CloseRemote", "CloseEmpty", "Close"} : At(g, step)
    BY <1>4 DEF CloseRemote, CloseEmpty, Close
  <2>2. S(g) \in Session
    BY <2>1, AtWork
  <2>3. Put(g, HangUp(S(g))) \/ Put(g, AfterClose(S(g)))
    BY <1>4 DEF CloseRemote, CloseEmpty, Close
  <2>4. QED
    BY <2>1, <2>2, <2>3, PutChanged, HangUpIs, AfterCloseIs
<1>5. CASE HealthClose(g)
  <2>1. At(g, "HealthClose") /\ S(g) \in Session
    BY <1>5, AtWork DEF HealthClose
  <2>2. PICK a \in Session : a = AfterClose(S(g)) /\ a.conn = "closed" /\ a.meeting = S(g).meeting
    BY <2>1, AfterCloseIs
  <2>3. PICK q \in Session : q = [a EXCEPT !.tr = FALSE, !.paused = FALSE]
    BY DEF Session
  <2>4. Put(g, q) /\ q.conn = "closed" /\ q.meeting = S(g).meeting
    BY <1>5, <2>2, <2>3 DEF HealthClose, Put, Session
  <2>5. QED
    BY <2>1, <2>4, PutChanged
<1>6. CASE CloseListed(g) \/ Verify(g)
  <2>1. \/ UNCHANGED sess
        \/ cur # 0 /\ sess' = [sess EXCEPT ![cur] = AfterClose(@)]
        \/ cur # 0 /\ sess' = [sess EXCEPT ![cur] = HangUp(@)]
    BY <1>6 DEF CloseListed, Verify
  <2>2. cur # 0 => cur \in Sessions /\ sess[cur] \in Session /\ sess[cur].conn # "none"
    BY LifecycleAssumption DEF Sound, TypeOK, Sessions, Session, Programs
  <2>3. cur # 0 => \E q \in Session : /\ q = AfterClose(sess[cur])
                                      /\ q.conn # "none" /\ q.meeting = sess[cur].meeting
    BY <2>2, AfterCloseIs
  <2>4. cur # 0 => \E q \in Session : /\ q = HangUp(sess[cur])
                                      /\ q.conn # "none" /\ q.meeting = sess[cur].meeting
    BY <2>2, HangUpIs
  <2>5. QED
    BY <2>1, <2>2, <2>3, <2>4 DEF Changed
<1>7. QED
  BY <1>1, <1>2, <1>3, <1>4, <1>5, <1>6

\* One row is written, and a duration only with it.
LEMMA OneWritten ==
  ASSUME TypeOK, NEW m, NEW v \in Status \ {"none"},
         status' = status \/ status' = [status EXCEPT ![m] = v],
         timed' = timed \/ (timed' = timed \cup {m} /\ status' = [status EXCEPT ![m] = v])
  PROVE  Writing
BY DEF Writing, TypeOK, Status

LEMMA StopFlagsWrites ==
  ASSUME Sound, NEW g \in Goroutines, StopFlags(g)
  PROVE  Writing
<1>1. TypeOK /\ At(g, "StopFlags")
  BY DEF Sound, StopFlags
<1>2. S(g) \in Session
  BY <1>1, AtWork
<1>3. PICK r \in Session : r = S(g)
  BY <1>2
<1>4. PICK c \in BOOLEAN : c = (r.meeting # 0 /\ r.started)
  OBVIOUS
<1>5. PICK st : st = IF c THEN Ended(r.meeting, "completed") ELSE status
  OBVIOUS
<1>6. PICK written : written = IF c THEN timed \cup {r.meeting} ELSE timed
  OBVIOUS
<1>7. timed' = written /\ status' = Emptied(r, st, written)
  BY <1>3, <1>4, <1>5, <1>6 DEF StopFlags
<1>8. c => r.meeting \in Meetings
  <2>1. r.meeting \in 0..MaxMeetings
    BY DEF Session
  <2>2. c => r.meeting # 0
    BY <1>4
  <2>3. QED
    BY <2>1, <2>2, LifecycleAssumption DEF Meetings
<1>9. /\ st \in [Meetings -> Status]
      /\ \A k \in Meetings : st[k] = "none" => status[k] = "none" /\ (k \in written => k \in timed)
  <2>1. CASE c
    BY <1>1, <1>5, <1>6, <1>8, <2>1 DEF Ended, TypeOK, Status
  <2>2. CASE ~c
    BY <1>1, <1>5, <1>6, <2>2 DEF TypeOK, Status
  <2>3. QED
    BY <2>1, <2>2
<1>10. PICK m : m = IF r.meeting # 0 THEN r.meeting ELSE r.uuid
  OBVIOUS
<1>11. \A k \in Meetings : Emptied(r, st, written)[k] = "none" => st[k] = "none"
  <2>1. Emptied(r, st, written) =
          IF m # 0 /\ st[m] = "active" /\ m \notin written THEN [st EXCEPT ![m] = "deleted"] ELSE st
    BY <1>10 DEF Emptied
  <2>2. QED
    BY <1>9, <2>1
<1>12. QED
  BY <1>7, <1>9, <1>11 DEF Writing

LEMMA StepWrites ==
  ASSUME Sound, NEW g \in Goroutines, Step(g)
  PROVE  Writing
<1>1. TypeOK
  BY DEF Sound
<1>2. CASE UNCHANGED <<status, timed>>
  BY <1>2 DEF Writing
<1>3. CASE \/ Dial(g) \/ PauseTM(g) \/ ResumeTM(g) \/ RestartTM(g) \/ StopCmd(g) \/ Await(g)
           \/ StopTM(g) \/ CloseRemote(g) \/ Remove(g) \/ Close(g) \/ Return(g) \/ HealthClose(g)
           \/ CloseListed(g) \/ Verify(g)
  <2>1. UNCHANGED <<status, timed>>
    BY <1>3 DEF Dial, PauseTM, ResumeTM, RestartTM, StopCmd, Await, StopTM, CloseRemote, Remove,
                Close, Return, HealthClose, CloseListed, Verify
  <2>2. QED
    BY <1>2, <2>1
<1>4. CASE StartTM(g)
  <2>1. \E m : /\ status' = status \/ status' = [status EXCEPT ![m] = "active"]
               /\ timed' = timed
    BY <1>4 DEF StartTM
  <2>2. QED
    BY <1>1, <2>1, OneWritten DEF Status
<1>5. CASE Started(g) \/ Resumed(g)
  <2>1. \E m : /\ status' = status \/ status' = [status EXCEPT ![m] = "active"]
               /\ timed' = timed
    BY <1>5 DEF Started, Resumed, Configured, ConfigFails
  <2>2. QED
    BY <1>1, <2>1, OneWritten DEF Status
<1>6. CASE PauseDone(g)
  <2>1. \E m : /\ status' = status \/ status' = [status EXCEPT ![m] = "paused"]
               /\ timed' = timed
    BY <1>6 DEF PauseDone
  <2>2. QED
    BY <1>1, <2>1, OneWritten DEF Status
<1>7. CASE MarkFailed(g)
  <2>1. PICK m : m = S(g).meeting
    OBVIOUS
  <2>2. CASE m # 0
    <3>1. status' = [status EXCEPT ![m] = "failed"] /\ timed' = timed \cup {m}
      BY <1>7, <2>1, <2>2 DEF MarkFailed, Ended
    <3>2. QED
      BY <1>1, <3>1, OneWritten DEF Status
  <2>3. CASE m = 0
    <3>1. status' = status /\ timed' = timed
      BY <1>7, <2>1, <2>3 DEF MarkFailed
    <3>2. QED
      BY <1>2, <3>1
  <2>4. QED
    BY <2>2, <2>3
<1>8. CASE Complete(g)
  <2>1. PICK m : m = S(g).meeting
    OBVIOUS
  <2>2. \/ status' = [status EXCEPT ![m] = "completed"] /\ timed' = timed \cup {m}
        \/ UNCHANGED <<status, timed>>
    BY <1>8, <2>1 DEF Complete, Ended
  <2>3. QED
    BY <1>1, <1>2, <2>2, OneWritten DEF Status
<1>9. CASE StopFlags(g)
  BY <1>9, StopFlagsWrites
<1>10. CASE CloseEmpty(g)
  <2>1. \E m : /\ status' = status \/ status' = [status EXCEPT ![m] = "deleted"]
               /\ timed' = timed
    BY <1>10 DEF CloseEmpty, Emptied
  <2>2. QED
    BY <1>1, <2>1, OneWritten DEF Status
<1>11. QED
  BY <1>3, <1>4, <1>5, <1>6, <1>7, <1>8, <1>9, <1>10 DEF Step

\* A start gives the session the meeting it creates.
LEMMA StartTMLasts ==
  ASSUME Sound, NEW g \in Goroutines, StartTM(g)
  PROVE  Lasting /\ Holding
<1>1. At(g, "StartTM") /\ S(g) \in Session /\ TypeOK
  BY AtWork DEF StartTM, Sound
<1>2. CASE UNCHANGED sess
  BY <1>2 DEF Lasting, Holding
<1>3. ASSUME NEW m \in Meetings, NEW created \in BOOLEAN,
             Begun(g, [Aligned(S(g), "transcribing") EXCEPT
                            !.uuid = m, !.meeting = IF created THEN m ELSE 0]),
             status' = IF created THEN [status EXCEPT ![m] = "active"] ELSE status
      PROVE  Lasting /\ Holding
  <2>1. PICK c \in 0..MaxMeetings : c = IF created THEN m ELSE 0
    BY LifecycleAssumption DEF Meetings
  <2>2. m \in 0..MaxMeetings
    BY LifecycleAssumption DEF Meetings
  <2>3. PICK r \in Session : r = S(g)
    BY <1>1
  <2>4. PICK b \in Session :
           b = [r EXCEPT !.tr = TRUE, !.paused = FALSE, !.uuid = m, !.meeting = c]
    BY <2>2 DEF Session
  <2>5. b = [Aligned(S(g), "transcribing") EXCEPT !.uuid = m, !.meeting = IF created THEN m ELSE 0]
    BY <2>1, <2>3, <2>4 DEF Aligned, Session
  <2>6. b.conn = S(g).conn /\ b.meeting = c
    BY <2>3, <2>4 DEF Session
  <2>7. Lasting /\ \A k \in Sessions : sess'[k].meeting \in {sess[k].meeting, c}
    BY <1>1, <1>3, <2>5, <2>6, BegunChanged
  <2>8. c # 0 => status'[c] # "none"
    BY <1>1, <1>3, <2>1 DEF TypeOK
  <2>9. QED
    BY <2>7, <2>8 DEF Holding
<1>4. QED
  BY <1>2, <1>3 DEF StartTM

LEMMA StepLasts ==
  ASSUME Sound, NEW g \in Goroutines, Step(g)
  PROVE  Lasting /\ Holding
<1>1. TypeOK
  BY DEF Sound
<1>2. CASE StartTM(g)
  BY <1>2, StartTMLasts
<1>3. CASE ResumeTM(g) \/ RestartTM(g)
  <2>1. PICK step \in {"ResumeTM", "RestartTM"} : At(g, step)
    BY <1>3 DEF ResumeTM, RestartTM
  <2>2. UNCHANGED sess \/ Begun(g, S(g))
    BY <1>3 DEF ResumeTM, RestartTM
  <2>3. CASE UNCHANGED sess
    BY <2>3 DEF Lasting, Holding
  <2>4. CASE Begun(g, S(g))
    <3>1. S(g) \in Session /\ S(g) = sess[on[g]] /\ on[g] \in Sessions
      BY <2>1, AtWork
    <3>2. PICK l \in BOOLEAN : l = (S(g).late \/ S(g).stopped \/ Doomed(on[g]))
      OBVIOUS
    <3>3. PICK q \in Session : q = [S(g) EXCEPT !.late = l]
      BY <3>1 DEF Session
    <3>4. Put(g, q) /\ q.conn = S(g).conn /\ q.meeting = S(g).meeting
      BY <2>4, <3>1, <3>2, <3>3 DEF Begun, Put, Session
    <3>5. QED
      BY <1>1, <2>1, <3>4, PutChanged, ChangedLasts
  <2>5. QED
    BY <2>2, <2>3, <2>4
<1>4. QED
  BY <1>1, <1>2, <1>3, CommandsChanged, TakingDownChanged, ChangedLasts DEF Step

\* What happens to a connected session, outside of its programs.
LEMMA EventChanged ==
  ASSUME Sound, NEW k \in Sessions,
         ClientLeaves(k) \/ ReaderEnds(k) \/ PingFails(k) \/ RemoteLost(k) \/ ReadStart(k)
         \/ ReadPause(k) \/ ReadStop(k)
  PROVE  Changed /\ UNCHANGED <<status, timed>> /\ sess[k].conn # "none"
<1>1. TypeOK /\ sess[k] \in Session
  BY DEF Sound, TypeOK, Session
<1>2. UNCHANGED <<status, timed>>
  BY DEF ClientLeaves, ReaderEnds, PingFails, RemoteLost, ReadStart, ReadPause, ReadStop
<1>3. sess[k].conn # "none"
  BY <1>1 DEF Sound, Programs, Closed, ClientLeaves, ReaderEnds, PingFails, RemoteLost, ReadStart,
              ReadPause, ReadStop, Read, Reading
<1>4. ASSUME NEW q \in Session, sess' = [sess EXCEPT ![k] = q], q.conn # "none",
             q.meeting \in {sess[k].meeting, 0}
      PROVE  Changed
  BY <1>3, <1>4 DEF Changed
<1>5. CASE ClientLeaves(k)
  <2>1. PICK q \in Session : q = [sess[k] EXCEPT !.conn = "gone"]
    BY <1>1 DEF Session
  <2>2. q.conn # "none" /\ q.meeting = sess[k].meeting
    BY <1>1, <2>1 DEF Session
  <2>3. QED
    BY <1>2, <1>3, <1>4, <1>5, <2>1, <2>2 DEF ClientLeaves
<1>6. CASE ReaderEnds(k)
  <2>1. PICK q \in Session : q = [sess[k] EXCEPT !.hung = TRUE]
    BY <1>1 DEF Session
  <2>2. q.conn # "none" /\ q.meeting = sess[k].meeting
    BY <1>1, <1>3, <2>1 DEF Session
  <2>3. sess' = [sess EXCEPT ![k] = q]
    BY <1>6, <2>1 DEF ReaderEnds
  <2>4. QED
    BY <1>2, <1>3, <1>4, <2>2, <2>3
<1>7. CASE PingFails(k)
  BY <1>1, <1>2, <1>3, <1>4, <1>7, AfterCloseIs DEF PingFails
<1>8. CASE RemoteLost(k)
  <2>1. PICK q \in Session : q = [sess[k] EXCEPT !.remote = "none", !.tr = FALSE]
    BY <1>1 DEF Session
  <2>2. q.conn # "none" /\ q.meeting = sess[k].meeting
    BY <1>1, <1>3, <2>1 DEF Session
  <2>3. sess' = [sess EXCEPT ![k] = q]
    BY <1>1, <1>8, <2>1 DEF RemoteLost, TypeOK
  <2>4. QED
    BY <1>2, <1>3, <1>4, <2>2, <2>3
<1>9. CASE ReadStart(k)
  <2>1. PICK q \in Session : q = Reset(sess[k])
    BY <1>1, ResetIs
  <2>2. q.conn # "none" /\ q.meeting = 0
    BY <1>1, <1>3, <2>1 DEF Session, Reset
  <2>3. sess' = [sess EXCEPT ![k] = q]
    BY <1>9, <2>1 DEF ReadStart
  <2>4. QED
    BY <1>2, <1>3, <1>4, <2>2, <2>3
<1>10. CASE ReadPause(k)
  BY <1>2, <1>3, <1>10 DEF ReadPause, Changed
<1>11. CASE ReadStop(k)
  <2>1. PICK q \in Session : q = [sess[k] EXCEPT !.stopped = TRUE]
    BY <1>1 DEF Session
  <2>2. q.conn # "none" /\ q.meeting = sess[k].meeting
    BY <1>1, <1>3, <2>1 DEF Session
  <2>3. sess' = [sess EXCEPT ![k] = q]
    BY <1>11, <2>1 DEF ReadStop
  <2>4. QED
    BY <1>2, <1>3, <1>4, <2>2, <2>3
<1>12. QED
  BY <1>5, <1>6, <1>7, <1>8, <1>9, <1>10, <1>11

LEMMA FirstFinalLasts ==
  ASSUME Sound, NEW k \in Sessions, FirstFinal(k)
  PROVE  Lasting /\ Holding /\ Writing /\ sess[k].conn # "none"
<1>1. TypeOK /\ sess[k] \in Session /\ sess[k].remote = "open" /\ sess[k].uuid # 0
  BY DEF FirstFinal, Sound, TypeOK, Session
<1>2. sess[k].conn # "none"
  BY <1>1 DEF Sound, Programs, Closed
<1>3. PICK m \in 0..MaxMeetings : m = IF sess[k].meeting = 0 THEN sess[k].uuid ELSE sess[k].meeting
  BY <1>1 DEF Session
<1>4. PICK q \in Session : q = [sess[k] EXCEPT !.started = TRUE, !.meeting = m]
  BY <1>1 DEF Session
<1>5. sess' = [sess EXCEPT ![k] = q] /\ q.conn = sess[k].conn /\ q.meeting = m
  BY <1>1, <1>3, <1>4, ZenonT(60) DEF FirstFinal, TypeOK, Session
<1>6. /\ sess'[k] = q /\ \A i \in Sessions \ {k} : sess'[i] = sess[i]
  BY <1>1, <1>5, PutIs
<1>7. timed' = timed /\ (status' = status \/ status' = [status EXCEPT ![sess[k].uuid] = "active"])
  BY DEF FirstFinal
<1>8. Writing
  BY <1>1, <1>7, OneWritten DEF Status
<1>9. sess[k].meeting = 0 => status'[m] # "none"
  <2>1. sess[k].meeting = 0 => m = sess[k].uuid /\ m \in Meetings
    BY <1>1, <1>3, LifecycleAssumption DEF Meetings
  <2>2. sess[k].meeting = 0 =>
          status' = IF status[m] = "none" THEN [status EXCEPT ![m] = "active"] ELSE status
    BY <2>1 DEF FirstFinal
  <2>3. QED
    BY <1>1, <2>1, <2>2 DEF TypeOK
<1>10. QED
  BY <1>2, <1>3, <1>5, <1>6, <1>8, <1>9 DEF Lasting, Holding

LEMMA ReadResumeLasts ==
  ASSUME Sound, NEW k \in Sessions, ReadResume(k)
  PROVE  Lasting /\ Holding /\ UNCHANGED <<status, timed, tm>> /\ sess[k].conn # "none"
<1>1. TypeOK /\ sess[k] \in Session /\ sess[k].conn # "none" /\ UNCHANGED <<status, timed, tm>>
  BY DEF ReadResume, Read, Reading, Sound, TypeOK, Session
<1>2. PICK u : u = IF tm.st # "none" THEN tm.uuid ELSE sess[k].uuid
  OBVIOUS
<1>3. PICK found : found = IF sess[k].meeting # 0 THEN sess[k].meeting
                           ELSE IF u # 0 /\ status[u] \notin {"none", "deleted"} THEN u ELSE 0
  OBVIOUS
<1>4. \/ sess' = [sess EXCEPT ![k] = Reset(@)]
      \/ sess' = [sess EXCEPT ![k].uuid = u, ![k].meeting = found]
  BY <1>2, <1>3 DEF ReadResume
<1>5. CASE sess' = [sess EXCEPT ![k] = Reset(@)]
  <2>1. PICK q \in Session : q = Reset(sess[k])
    BY <1>1, ResetIs
  <2>2. q.conn # "none" /\ q.meeting = 0
    BY <1>1, <2>1 DEF Session, Reset
  <2>3. Changed
    BY <1>1, <1>5, <2>1, <2>2 DEF Changed
  <2>4. QED
    BY <1>1, <2>3, ChangedLasts
<1>6. CASE sess' = [sess EXCEPT ![k].uuid = u, ![k].meeting = found]
  <2>1. u \in 0..MaxMeetings /\ found \in 0..MaxMeetings
    <3>1. u \in 0..MaxMeetings
      BY <1>1, <1>2 DEF Session, TypeOK
    <3>2. QED
      BY <1>1, <1>3, <3>1, LifecycleAssumption DEF Session
  <2>2. PICK q \in Session : q = [sess[k] EXCEPT !.uuid = u, !.meeting = found]
    BY <1>1, <2>1 DEF Session
  <2>3. sess' = [sess EXCEPT ![k] = q] /\ q.conn = sess[k].conn /\ q.meeting = found
    BY <1>1, <1>6, <2>2, ZenonT(60) DEF TypeOK, Session
  <2>4. sess'[k] = q /\ \A i \in Sessions \ {k} : sess'[i] = sess[i]
    BY <1>1, <2>3, PutIs
  <2>5. found \in {sess[k].meeting, 0} \/ status'[found] # "none"
    BY <1>1, <1>3
  <2>6. QED
    BY <1>1, <2>3, <2>4, <2>5 DEF Lasting, Holding
<1>7. QED
  BY <1>4, <1>5, <1>6

LEMMA ConnectHolds ==
  ASSUME Sound, NEW n \in Sessions, Connect(n)
  PROVE  /\ Holding /\ UNCHANGED <<tm, status, timed>>
         /\ sess'[n].conn # "none" /\ sess[n].conn = "none"
         /\ \A k \in Sessions \ {n} : sess[k].conn # "none" => sess'[k].conn # "none"
<1>1. /\ cur # 0 => cur \in Sessions /\ sess[cur].conn # "none" /\ cur # n
      /\ \A s \in Sessions : sess[s] \in Session
      /\ tm \in Info /\ sess[n].conn = "none" /\ UNCHANGED <<tm, status, timed>>
  <2>1. TypeOK /\ Programs /\ sess[n].conn = "none" /\ UNCHANGED <<tm, status, timed>>
    BY DEF Sound, Connect
  <2>2. QED
    BY <2>1, LifecycleAssumption DEF TypeOK, Sessions, Session, Programs, Info
<1>2. PICK q \in Session : q = [Closed EXCEPT !.conn = "open", !.uuid = tm.uuid]
  BY <1>1, ClosedIs DEF Session, Info
<1>3. q.conn = "open" /\ q.meeting = 0
  BY <1>2 DEF Closed
<1>4. sess' = [s \in Sessions |->
                 CASE s = n -> q [] s = cur -> AfterClose(sess[s]) [] OTHER -> sess[s]]
  BY <1>2 DEF Connect
<1>5. sess'[n] = q
  BY <1>1, <1>4, Apart
<1>6. \A s \in Sessions \ {n} : sess'[s] = IF s = cur THEN AfterClose(sess[s]) ELSE sess[s]
  BY <1>4
<1>7. \A s \in Sessions : AfterClose(sess[s]).conn = "closed"
                          /\ AfterClose(sess[s]).meeting = sess[s].meeting
  BY <1>1, AfterCloseIs
<1>8. QED
  BY <1>1, <1>3, <1>5, <1>6, <1>7 DEF Holding

-----------------------------------------------------------------------------
(* A stopped meeting is settled *)

LEMMA StepSettles ==
  ASSUME Sound, Fresh, NEW g \in Goroutines, Step(g), NEW s \in Sessions, Alone(s),
         sess[s].conn # "none", Settles(s)
  PROVE  Settles(s)'
<1>1. CASE CloseListed(g) \/ Verify(g)
  <2>1. PICK step \in {"CloseListed", "Verify"} : TypeOK /\ Programs /\ At(g, step)
    BY <1>1 DEF Sound, CloseListed, Verify
  <2>2. Doing(g) = "cleaning"
    BY <2>1, Next1 DEF Course, Doing
  <2>3. g \in Workers
    BY <2>1, <2>2, Apart DEF Programs, Commands, Leaving, TakingDown
  <2>4. QED
    BY <1>1, <2>3, CloseListedSettles, VerifySettles
<1>2. CASE Started(g) \/ Resumed(g)
  <2>1. At(g, "Started") \/ At(g, "Resumed")
    BY <1>2 DEF Started, Resumed
  <2>2. timed' = timed /\ (ConfigFails(g) \/ \E resumed \in BOOLEAN : Configured(g, resumed))
    BY <1>2 DEF Started, Resumed
  <2>3. QED
    BY <2>1, <2>2, ConfiguredSettles, ConfigFailsSettles
<1>3. CASE \/ StartTM(g) \/ Dial(g) \/ PauseTM(g) \/ PauseDone(g)
           \/ ResumeTM(g) \/ RestartTM(g) \/ StopCmd(g) \/ StopFlags(g) \/ Await(g)
  BY <1>3, StartTMSettles, DialSettles, PauseTMSettles, PauseDoneSettles, ResumeTMSettles,
     RestartTMSettles, StopCmdSettles, StopFlagsSettles, AwaitSettles
<1>4. CASE \/ MarkFailed(g) \/ Complete(g) \/ StopTM(g) \/ CloseRemote(g) \/ CloseEmpty(g)
           \/ Remove(g) \/ Close(g) \/ Return(g) \/ HealthClose(g)
  BY <1>4, MarkFailedSettles, CompleteSettles, StopTMSettles, ClosesSettles, CloseEmptySettles,
     RemoveSettles, ReturnSettles, HealthCloseSettles
<1>5. QED
  BY <1>1, <1>2, <1>3, <1>4 DEF Step

\* The last part of the inductive invariant.
Rest == Untouched /\ Fresh /\ Settling

\* Nobody connects or leaves the table: the user's only session was it before.
LEMMA Before ==
  ASSUME Lasting, NEW s \in Sessions, Alone(s)', sess'[s].conn # "none"
  PROVE  Alone(s) /\ sess[s].conn # "none"
BY DEF Lasting, Alone

LEMMA StepRest ==
  ASSUME Sound, Rest, NEW g \in Goroutines, Step(g)
  PROVE  Rest'
<1>1. Lasting /\ Holding /\ Writing
  BY StepLasts, StepWrites
<1>2. Fresh'
  BY <1>1, FreshKept DEF Rest
<1>3. Settling'
  BY <1>1, Before, StepSettles DEF Rest, Settling
<1>4. ASSUME \A s \in Sessions : sess'[s].conn = "none"
      PROVE  tm' = NoSession /\ timed' = {} /\ \A m \in Meetings : status'[m] = "none"
  <2>1. \A s \in Sessions : sess[s].conn = "none"
    BY <1>1, <1>4 DEF Lasting
  <2>2. tm = NoSession /\ timed = {} /\ \A m \in Meetings : status[m] = "none"
    BY <2>1 DEF Rest, Untouched
  <2>3. ASSUME NEW step, At(g, step), step \notin {"CloseListed", "Verify", "StopTM", "Remove"}
        PROVE  FALSE
    BY <2>1, <2>3, AtWork
  <2>4. CloseListed(g) \/ Verify(g) \/ StopTM(g) \/ Remove(g)
    BY <2>3 DEF Step, StartTM, Dial, Started, Resumed, PauseTM, PauseDone, ResumeTM, RestartTM,
                StopCmd, StopFlags, Await, MarkFailed, Complete, CloseRemote, CloseEmpty, Close,
                Return, HealthClose
  <2>5. UNCHANGED <<status, timed>> /\ tm' \in {tm, NoSession}
    BY <2>4 DEF CloseListed, Verify, StopTM, Remove
  <2>6. QED
    BY <2>2, <2>5
<1>5. QED
  BY <1>2, <1>3, <1>4 DEF Rest, Untouched

LEMMA EventRest ==
  ASSUME Sound, Rest, NEW k \in Sessions,
         \/ ClientLeaves(k) \/ ReaderEnds(k) \/ PingFails(k) \/ RemoteLost(k) \/ FirstFinal(k)
         \/ ReadStart(k) \/ ReadPause(k) \/ ReadResume(k) \/ ReadStop(k)
  PROVE  Rest'
<1>1. Lasting /\ Holding /\ Writing /\ sess[k].conn # "none"
  <2>1. CASE ClientLeaves(k) \/ ReaderEnds(k) \/ PingFails(k) \/ RemoteLost(k) \/ ReadStart(k)
             \/ ReadPause(k) \/ ReadStop(k)
    BY <2>1, EventChanged, ChangedLasts DEF Sound, Writing
  <2>2. CASE FirstFinal(k)
    BY <2>2, FirstFinalLasts
  <2>3. CASE ReadResume(k)
    BY <2>3, ReadResumeLasts DEF Writing
  <2>4. QED
    BY <2>1, <2>2, <2>3
<1>2. Fresh'
  BY <1>1, FreshKept DEF Rest
<1>3. ASSUME NEW s \in Sessions, Alone(s), sess[s].conn # "none", Settles(s)
      PROVE  Settles(s)'
  <2>1. CASE ClientLeaves(k) \/ PingFails(k) \/ RemoteLost(k) \/ ReaderEnds(k) \/ FirstFinal(k)
    BY <1>3, <2>1, ConnectionSettles, ReaderEndsSettles, FirstFinalSettles
  <2>2. CASE ReadStart(k) \/ ReadPause(k) \/ ReadResume(k) \/ ReadStop(k)
    BY <1>3, <2>2, ReadStartSettles, ReadPauseSettles, ReadResumeSettles, ReadStopSettles
  <2>3. QED
    BY <2>1, <2>2
<1>4. Settling'
  BY <1>1, <1>3, Before DEF Rest, Settling
<1>5. Untouched'
  BY <1>1 DEF Lasting, Untouched
<1>6. QED
  BY <1>2, <1>4, <1>5 DEF Rest

LEMMA ConnectRest ==
  ASSUME Sound, Rest, NEW n \in Sessions, Connect(n)
  PROVE  Rest'
<1>1. /\ Holding /\ UNCHANGED <<tm, status, timed>>
      /\ sess'[n].conn # "none" /\ sess[n].conn = "none"
      /\ \A k \in Sessions \ {n} : sess[k].conn # "none" => sess'[k].conn # "none"
  BY ConnectHolds
<1>2. Fresh'
  BY <1>1, FreshKept DEF Rest, Writing
<1>3. Untouched'
  BY <1>1 DEF Untouched
<1>4. ASSUME NEW s \in Sessions, Alone(s)', sess'[s].conn # "none"
      PROVE  Settles(s)'
  <2>1. s = n
    BY <1>1, <1>4 DEF Alone
  <2>2. \A k \in Sessions : sess[k].conn = "none"
    BY <1>1, <1>4, <2>1 DEF Alone
  <2>3. QED
    BY <2>1, <2>2, FirstSettles DEF Rest
<1>5. QED
  BY <1>2, <1>3, <1>4 DEF Rest, Settling

LEMMA BeginRest ==
  ASSUME Sound, Rest, NEW w \in Workers, NEW kind \in Kinds, Begin(w, kind)
  PROVE  Rest'
<1>1. UNCHANGED <<sess, tm, status, timed>>
  BY DEF Begin
<1>2. Fresh' /\ Untouched'
  BY <1>1 DEF Rest, Fresh, Untouched
<1>3. ASSUME NEW s \in Sessions, Alone(s)', sess'[s].conn # "none"
      PROVE  Settles(s)'
  BY <1>1, <1>3, BeginSettles DEF Rest, Settling, Alone
<1>4. QED
  BY <1>2, <1>3 DEF Rest, Settling

LEMMA InitRest == Init => Rest
<1> SUFFICES ASSUME Init PROVE Rest
  OBVIOUS
<1>1. \A s \in Sessions : sess[s] = Closed /\ sess[s].conn = "none" /\ sess[s].meeting = 0
  BY DEF Init, Closed
<1>2. tm = NoSession /\ timed = {} /\ \A m \in Meetings : status[m] = "none" /\ m # 0
  BY LifecycleAssumption DEF Init, Meetings
<1>3. QED
  BY <1>1, <1>2 DEF Rest, Untouched, Fresh, Settling

LEMMA NextKeepsRest == Sound /\ Rest /\ [Next]_vars => Rest'
<1> SUFFICES ASSUME Sound, Rest, [Next]_vars PROVE Rest'
  OBVIOUS
<1>1. ASSUME NEW s \in Sessions,
             \/ Connect(s) \/ ClientLeaves(s) \/ ReaderEnds(s) \/ PingFails(s)
             \/ RemoteLost(s) \/ FirstFinal(s)
             \/ ReadStart(s) \/ ReadPause(s) \/ ReadResume(s) \/ ReadStop(s)
      PROVE  Rest'
  BY <1>1, ConnectRest, EventRest
<1>2. ASSUME NEW w \in Workers, NEW kind \in Kinds, Begin(w, kind) PROVE Rest'
  BY <1>2, BeginRest
<1>3. ASSUME NEW g \in Goroutines, Step(g) PROVE Rest'
  BY <1>3, StepRest
<1>4. CASE UNCHANGED vars
  BY <1>4 DEF vars, Rest, Untouched, Fresh, Settling, Settles, Books, Stopped, Meeting, Alone, Doing
<1>5. QED
  BY <1>1, <1>2, <1>3, <1>4 DEF Next

\* When everything is through, the meeting of a user's only session that was
\* stopped is completed or deleted, or was never created: the stop command and
\* the disconnect after it (websocket_commands.go:901,
\* websocket_handler.go:1190) leave no row active, in any order of the steps.
THEOREM StopSettles == Spec => []StoppedIsSettled
<1>1. Sound /\ Rest => StoppedIsSettled
  <2> SUFFICES ASSUME Sound, Rest, Quiet, NEW s \in Sessions, NEW m,
                      m = IF sess[s].meeting # 0 THEN sess[s].meeting ELSE sess[s].uuid,
                      sess[s].stopped, Returned(s), ~sess[s].late, m # 0,
                      \A k \in Sessions \ {s} : sess[k].conn = "none"
               PROVE  status[m] \in {"none", "completed", "deleted"}
    BY DEF StoppedIsSettled
  <2>1. Doing(s) = "idle" /\ sess[s].hung /\ sess[s].conn # "none"
    BY ProgramsBegun DEF Quiet, Returned, Doing
  <2>2. Settles(s)
    BY <2>1 DEF Rest, Settling, Alone
  <2>3. TypeOK /\ m \in Meetings
    BY LifecycleAssumption DEF Sound, TypeOK, Meetings
  <2>4. status[m] \notin {"paused", "failed"} /\ status[m] # "active"
    BY <2>1, <2>2, <2>3, SettledBefore
  <2>5. QED
    BY <2>3, <2>4 DEF TypeOK
<1>2. QED
  BY <1>1, SoundAlways, InitRest, NextKeepsRest, PTL DEF Spec
=============================================================================
