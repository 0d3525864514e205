------------------------------ MODULE AudioPath ------------------------------
(* The audio of one transcription, from the reader of the client through the *)
(* session's buffer and the queue of the remote connection to the remote     *)
(* service, while the connection is slow, breaks, or is closed by the        *)
(* service, and the reader or a receiver connects again. Starts, pauses and  *)
(* stops are SessionLifecycle's, results TranscriptPath's; the model ends    *)
(* when the session is closed because its buffer is full.                    *)
EXTENDS Naturals, Sequences, SequencesExt, FiniteSets

CONSTANTS
    MaxPackets, QueueSize, BufferSize,  \* packets sent; sizes of the queues
    Tries,      \* attempts of one reconnect
    MaxConns,   \* bound: connections; when they are used up no dial succeeds
    MaxFaults   \* bound: what goes wrong outside the program

ASSUME AudioAssumption ==
    {MaxPackets, QueueSize, BufferSize, Tries, MaxConns, MaxFaults} \subseteq Nat \ {0}

VARIABLES
    sent,       \* packets the client has sent: 1 .. sent
    link,       \* the session's flags and its connection
    buffer,     \* pendingAudio
    reader,     \* handleBinaryMessage
    flush,      \* flushBufferedAudio, one at a time (bufferedAudioFlushing)
    recon,      \* reconnectRemote, one at a time (remoteReconnecting)
    conn,       \* the connections, with their sender and receiver
    listed,     \* of the connection manager, for this session
    over, faults,
    heard, spilt    \* packets the service got; packets known to be given up

vars == <<sent, link, buffer, reader, flush, recon, conn, listed, over, faults, heard, spilt>>

Packets == 1..MaxPackets
Conns == 1..MaxConns
Unused == [st |-> "none", peer |-> "up", queue |-> << >>, hand |-> 0, sender |-> "run", recv |-> "off"]
Opened == [Unused EXCEPT !.st = "open"]

TypeOK ==
    /\ sent \in 0..MaxPackets /\ heard \in [Packets -> 0..2] /\ spilt \subseteq Packets
    /\ link \in [ready : BOOLEAN, connecting : BOOLEAN, transcribing : BOOLEAN,
                 remote : 0..MaxConns, failing : BOOLEAN]
    /\ Len(buffer) <= BufferSize
    /\ reader \in [pc : {"idle", "pick", "buffer", "put", "sent", "failed"},
                   p : 0..MaxPackets, c : 0..MaxConns]
    /\ flush.pc \in {"idle", "drain", "check", "put", "wait", "end"} /\ flush.c \in 0..MaxConns
    /\ recon \in [pc : {"idle", "begin", "close", "dial", "config", "drop", "store", "ready",
                        "receive", "done", "failed"},
                  by : {"audio", "receiver"}, of : 0..MaxConns, own : 0..MaxConns,
                  new : 0..MaxConns, tries : 0..Tries]
    /\ \A c \in Conns :
          /\ conn[c].st \in {"none", "open", "stopping", "closed"}
          /\ conn[c].peer \in {"up", "broken", "bye"} /\ conn[c].sender \in {"run", "done"}
          /\ Len(conn[c].queue) <= QueueSize /\ conn[c].hand \in 0..MaxPackets
          /\ conn[c].recv \in {"off", "reading", "reconnecting", "detach", "clear", "ended", "missed"}
    /\ listed \in 0..MaxConns /\ over \in BOOLEAN /\ faults \in 0..MaxFaults

NoReader == [pc |-> "idle", p |-> 0, c |-> 0]
NoRecon == [pc |-> "idle", by |-> "audio", of |-> 0, own |-> 0, new |-> 0, tries |-> 0]
\* handleStart has connected and configured the first connection.
Init ==
    /\ sent = 0 /\ buffer = << >> /\ reader = NoReader
    /\ link = [ready |-> TRUE, connecting |-> FALSE, transcribing |-> TRUE, remote |-> 1, failing |-> FALSE]
    /\ flush = [pc |-> "idle", c |-> 0, batch |-> << >>] /\ recon = NoRecon
    /\ conn = [c \in Conns |-> IF c = 1 THEN [Opened EXCEPT !.recv = "reading"] ELSE Unused]
    /\ listed = 1 /\ over = FALSE /\ faults = 0
    /\ heard = [p \in Packets |-> 0] /\ spilt = {}
-----------------------------------------------------------------------------
Fault == faults < MaxFaults /\ faults' = faults + 1
Spill(P) == spilt' = spilt \cup P
\* Close: initiateClose, which every caller waits for (closeOnce).
Stopping(c) == [c EXCEPT !.st = IF @ = "open" THEN "stopping" ELSE @]
Close(c) == conn' = IF c = 0 THEN conn ELSE [conn EXCEPT ![c] = Stopping(@)]
HasClosed(c) == c \in Conns => conn[c].st \in {"none", "closed"}
\* SendAudio has two parts: it looks whether the connection is closing, and it
\* puts the packet into the queue or finds that full. In between the sender may
\* have drained the queue and ended: the packet is accepted, and stays there.
Accepts(c) == conn[c].st = "open"
Crowded(c) == Len(conn[c].queue) >= QueueSize
Enqueue(c, p) == conn' = [conn EXCEPT ![c].queue = Append(@, p)]

Flags(r, k) == [link EXCEPT !.ready = r, !.connecting = k]
Deaf(l) == [l EXCEPT !.ready = FALSE, !.connecting = FALSE, !.transcribing = FALSE]
Without(c) == [link EXCEPT !.remote = IF @ = c THEN 0 ELSE @]

\* scheduleBufferedAudioFlush
Schedule(c) ==
    flush' = IF buffer # << >> /\ flush.pc = "idle" THEN [flush EXCEPT !.pc = "drain", !.c = c] ELSE flush
\* BeginRemoteReconnect
Free == recon.pc = "idle"
Begin(by, c) == recon' = [NoRecon EXCEPT !.pc = "begin", !.by = by, !.of = c]
-----------------------------------------------------------------------------
(* The reader *)

Arrive ==
    /\ reader.pc = "idle" /\ sent < MaxPackets /\ sent' = sent + 1
    /\ IF ~link.transcribing THEN Spill({sent'}) /\ UNCHANGED reader
       ELSE /\ reader' = [pc |-> IF link.connecting \/ ~link.ready THEN "buffer" ELSE "pick",
                          p |-> sent', c |-> 0]
            /\ UNCHANGED spilt
    /\ UNCHANGED <<link, buffer, flush, recon, conn, listed, over, faults, heard>>

Pick ==
    LET c == link.remote IN
    /\ reader.pc = "pick"
    /\ \/ /\ HasClosed(c) /\ reader' = [reader EXCEPT !.pc = "buffer"] /\ UNCHANGED spilt
       \/ /\ ~HasClosed(c) /\ Accepts(c)
          /\ reader' = [reader EXCEPT !.pc = "put", !.c = c] /\ UNCHANGED spilt
       \/ /\ ~HasClosed(c) /\ ~Accepts(c)
          /\ reader' = [pc |-> "failed", p |-> 0, c |-> c] /\ Spill({reader.p})
    /\ UNCHANGED <<sent, link, buffer, flush, recon, conn, listed, over, faults, heard>>

NoRoom(n) == n >= BufferSize
\* BufferAudio; a full buffer closes the session, loudly.
Buffer ==
    /\ reader.pc = "buffer"
    /\ IF NoRoom(Len(buffer)) THEN over' = TRUE /\ UNCHANGED <<buffer, reader>>
       ELSE /\ buffer' = Append(buffer, reader.p) /\ UNCHANGED over
            /\ reader' = IF reader.c = 0 THEN NoReader ELSE [reader EXCEPT !.pc = "failed", !.p = 0]
    /\ UNCHANGED <<sent, link, flush, recon, conn, listed, faults, heard, spilt>>

Put ==
    /\ reader.pc = "put"
    /\ IF Crowded(reader.c) THEN reader' = [reader EXCEPT !.pc = "buffer"] /\ UNCHANGED conn
       ELSE Enqueue(reader.c, reader.p) /\ reader' = [reader EXCEPT !.pc = "sent", !.p = 0]
    /\ UNCHANGED <<sent, link, buffer, flush, recon, listed, over, faults, heard, spilt>>

Sent ==
    /\ reader.pc = "sent" /\ reader' = NoReader
    /\ link' = [link EXCEPT !.failing = FALSE] /\ Schedule(reader.c)
    /\ UNCHANGED <<sent, buffer, recon, conn, listed, over, faults, heard, spilt>>

\* Sends that have failed for audioSendFailureReconnectAfter make it reconnect.
Failed ==
    /\ reader.pc = "failed" /\ reader' = NoReader
    /\ link' = [link EXCEPT !.failing = TRUE]
    /\ \/ UNCHANGED recon
       \/ link.failing /\ Free /\ Begin("audio", reader.c)
    /\ UNCHANGED <<sent, buffer, flush, conn, listed, over, faults, heard, spilt>>

\* dropExpiredBufferedAudioLocked: the service was away for maxBufferedAudioAge.
Expire ==
    /\ buffer # << >> /\ Fault /\ buffer' = Tail(buffer) /\ Spill({Head(buffer)})
    /\ UNCHANGED <<sent, link, reader, flush, recon, conn, listed, over, heard>>
-----------------------------------------------------------------------------
(* Replay of the buffer *)

Left_Behind(b) == b
Left(b) == << >>
Drain ==
    /\ flush.pc = "drain" /\ buffer' = Left(buffer)
    /\ flush' = [flush EXCEPT !.pc = IF buffer = << >> THEN "end" ELSE "check", !.batch = buffer]
    /\ UNCHANGED <<sent, link, reader, recon, conn, listed, over, faults, heard, spilt>>

Requeued_Over(batch, b) == IF b = << >> THEN batch ELSE b
Requeued(batch, b) == batch \o b
Requeue(pc, c) ==
    IF Len(flush.batch) + Len(buffer) > BufferSize THEN over' = TRUE /\ UNCHANGED <<flush, buffer>>
    ELSE /\ buffer' = Requeued(flush.batch, buffer) /\ UNCHANGED over
         /\ flush' = [pc |-> pc, c |-> c, batch |-> << >>]

Mine == link.remote = flush.c /\ link.ready
Check ==
    /\ flush.pc = "check"
    /\ \/ /\ flush.batch = << >>
          /\ flush' = [flush EXCEPT !.pc = IF buffer = << >> THEN "end" ELSE "drain"]
          /\ UNCHANGED <<buffer, over>>
       \/ /\ flush.batch # << >> /\ ~Mine
          /\ IF link.remote # 0 /\ link.ready THEN Requeue("wait", link.remote)
                                              ELSE Requeue("end", flush.c)
       \/ /\ flush.batch # << >> /\ Mine /\ ~Accepts(flush.c) /\ Requeue("end", flush.c)
       \/ /\ flush.batch # << >> /\ Mine /\ Accepts(flush.c)
          /\ flush' = [flush EXCEPT !.pc = "put"] /\ UNCHANGED <<buffer, over>>
    /\ UNCHANGED <<sent, link, reader, recon, conn, listed, faults, heard, spilt>>

Replay ==
    /\ flush.pc = "put"
    /\ \/ Crowded(flush.c) /\ Requeue("wait", flush.c) /\ UNCHANGED conn
       \/ /\ ~Crowded(flush.c) /\ Enqueue(flush.c, Head(flush.batch))
          /\ flush' = [flush EXCEPT !.pc = "check", !.batch = Tail(@)] /\ UNCHANGED <<buffer, over>>
    /\ UNCHANGED <<sent, link, reader, recon, listed, faults, heard, spilt>>

\* bufferedAudioReplayRetryDelay; EndBufferedAudioFlush.
Pause ==
    /\ flush.pc \in {"wait", "end"}
    /\ flush' = [flush EXCEPT !.pc = IF @ = "wait" THEN "drain" ELSE "idle"]
    /\ UNCHANGED <<sent, link, buffer, reader, recon, conn, listed, over, faults, heard, spilt>>
-----------------------------------------------------------------------------
(* A connection: its sender, its peer and its end *)

Take(c) ==
    LET k == conn[c] IN
    /\ k.st # "none" /\ k.sender = "run" /\ k.hand = 0 /\ k.queue # << >>
    /\ conn' = [conn EXCEPT ![c].hand = Head(k.queue), ![c].queue = Tail(@)]
    /\ UNCHANGED <<sent, link, buffer, reader, flush, recon, listed, over, faults, heard, spilt>>

Sender(c) == conn[c].sender = "run" /\ conn[c].hand # 0
Write(c) ==
    /\ Sender(c) /\ conn[c].st # "closed" /\ conn' = [conn EXCEPT ![c].hand = 0]
    /\ \/ conn[c].peer = "up" /\ heard' = [heard EXCEPT ![conn[c].hand] = @ + 1] /\ UNCHANGED spilt
       \/ conn[c].peer # "up" /\ Spill({conn[c].hand}) /\ UNCHANGED heard  \* the system took it
    /\ UNCHANGED <<sent, link, buffer, reader, flush, recon, listed, over, faults>>
\* The sender ends and closes the connection; what is queued stays there.
WriteFails(c) ==
    /\ Sender(c) /\ (conn[c].st = "closed" \/ conn[c].peer # "up")
    /\ conn' = [conn EXCEPT ![c] = [Stopping(@) EXCEPT !.hand = 0, !.sender = "done"]]
    /\ Spill({conn[c].hand} \cup ToSet(conn[c].queue))
    /\ UNCHANGED <<sent, link, buffer, reader, flush, recon, listed, over, faults, heard>>
Drained(k) == k.hand = 0 /\ k.queue = << >>
SenderEnds(c) ==
    /\ conn[c].sender = "run" /\ conn[c].st \in {"stopping", "closed"} /\ Drained(conn[c])
    /\ conn' = [conn EXCEPT ![c].sender = "done"]
    /\ UNCHANGED <<sent, link, buffer, reader, flush, recon, listed, over, faults, heard, spilt>>
\* initiateClose waits for the sender, and no longer than remoteCloseDrainTimeout.
Closed(c) ==
    /\ conn[c].st = "stopping" /\ conn' = [conn EXCEPT ![c].st = "closed"]
    /\ \/ conn[c].sender = "done" /\ UNCHANGED faults
       \/ conn[c].sender = "run" /\ Fault
    /\ UNCHANGED <<sent, link, buffer, reader, flush, recon, listed, over, heard, spilt>>
\* The service closes the connection, or it breaks.
Lose(c) ==
    /\ conn[c].st = "open" /\ conn[c].peer = "up" /\ Fault
    /\ \E p \in {"broken", "bye"} : conn' = [conn EXCEPT ![c].peer = p]
    /\ UNCHANGED <<sent, link, buffer, reader, flush, recon, listed, over, heard, spilt>>
-----------------------------------------------------------------------------
(* The receiver of a connection *)

Expected(c) == conn[c].peer = "bye" \/ conn[c].st = "closed"    \* net.ErrClosed
Unexpected(c) == conn[c].peer = "broken" \/ conn[c].st = "closed"   \* ErrRemoteConnectionClosed
ReadFails(c) ==
    /\ conn[c].recv = "reading"
    /\ \/ Expected(c) /\ conn' = [conn EXCEPT ![c].recv = "detach"] /\ UNCHANGED recon
       \/ /\ Unexpected(c) /\ Free /\ Begin("receiver", c)
          /\ conn' = [conn EXCEPT ![c].recv = "reconnecting"]
       \/ /\ Unexpected(c) /\ ~Free /\ UNCHANGED recon     \* it leaves it to the other
          /\ conn' = [conn EXCEPT ![c].recv = IF c = recon.new THEN "missed" ELSE "ended"]
    /\ UNCHANGED <<sent, link, buffer, reader, flush, listed, over, faults, heard, spilt>>

Detach(c) ==
    /\ conn[c].recv = "detach" /\ conn' = [conn EXCEPT ![c].recv = "clear"]
    /\ link' = Without(c)
    /\ UNCHANGED <<sent, buffer, reader, flush, recon, listed, over, faults, heard, spilt>>
Clear(c) ==
    /\ conn[c].recv = "clear"
    /\ conn' = [conn EXCEPT ![c] = [Stopping(@) EXCEPT !.recv = "ended"]]
    /\ link' = Deaf(link)
    /\ UNCHANGED <<sent, buffer, reader, flush, recon, listed, over, faults, heard, spilt>>
-----------------------------------------------------------------------------
(* Reconnecting *)

At(pc) == recon.pc = pc
Goto(pc) == recon' = [recon EXCEPT !.pc = pc]
AgainFrom(r) == [r EXCEPT !.pc = "dial", !.new = 0, !.tries = @ + 1]
still == <<sent, buffer, reader, over, heard, spilt>>

BeginRecon ==
    /\ At("begin") /\ link' = Flags(FALSE, TRUE)
    /\ recon' = [recon EXCEPT !.pc = "close", !.own = link.remote]
    /\ UNCHANGED <<still, flush, conn, listed, faults>>
CloseOwn ==
    /\ At("close") /\ UNCHANGED <<still, link, flush, listed, faults>>
    /\ IF HasClosed(recon.own) THEN Goto("dial") /\ UNCHANGED conn
       ELSE conn[recon.own].st = "open" /\ Close(recon.own) /\ UNCHANGED recon

Fresh == {c \in Conns : conn[c].st = "none"}
\* The manager hands out the connection it has for the session if that is not
\* closed, and dials otherwise.
Dial ==
    /\ At("dial") /\ recon.tries < Tries
    /\ IF ~HasClosed(listed)
       THEN recon' = [recon EXCEPT !.pc = "config", !.new = listed] /\ UNCHANGED <<conn, listed, faults>>
       ELSE \/ /\ Fresh # {} /\ UNCHANGED faults
               /\ LET c == CHOOSE c \in Fresh : \A d \in Fresh : c <= d IN
                  /\ conn' = [conn EXCEPT ![c] = Opened] /\ listed' = c
                  /\ recon' = [recon EXCEPT !.pc = "config", !.new = c]
            \/ /\ recon' = AgainFrom(recon) /\ UNCHANGED <<conn, listed>>
               /\ IF Fresh = {} THEN UNCHANGED faults ELSE Fault
    /\ UNCHANGED <<still, link, flush>>
GiveUp ==
    /\ At("dial") /\ recon.tries = Tries /\ Goto("failed")
    /\ UNCHANGED <<still, link, flush, conn, listed, faults>>
\* SendConfigAndWaitResponse
Config ==
    /\ At("config")
    /\ \/ Accepts(recon.new) /\ conn[recon.new].peer = "up" /\ Goto("store") /\ UNCHANGED faults
       \/ ~(Accepts(recon.new) /\ conn[recon.new].peer = "up") /\ Goto("drop") /\ UNCHANGED faults
       \/ Goto("drop") /\ Fault
    /\ UNCHANGED <<still, link, flush, conn, listed>>
\* Tries again without closing the one that was not configured.
DropNew_Kept ==
    /\ At("drop") /\ UNCHANGED <<still, link, flush, listed, faults, conn>>
    /\ recon' = AgainFrom(recon)
DropNew ==
    /\ At("drop") /\ UNCHANGED <<still, link, flush, listed, faults>>
    /\ IF HasClosed(recon.new) THEN recon' = AgainFrom(recon) /\ UNCHANGED conn
       ELSE conn[recon.new].st = "open" /\ Close(recon.new) /\ UNCHANGED recon

Store ==
    /\ At("store") /\ Goto("ready") /\ link' = [link EXCEPT !.remote = recon.new]
    /\ UNCHANGED <<still, flush, conn, listed, faults>>
Ready ==
    /\ At("ready") /\ Goto("receive") /\ link' = Flags(TRUE, FALSE)
    /\ UNCHANGED <<still, flush, conn, listed, faults>>
Receive ==
    /\ At("receive") /\ Goto("done") /\ Schedule(recon.new)
    /\ conn' = [conn EXCEPT ![recon.new].recv = "reading"]
    /\ UNCHANGED <<still, link, listed, faults>>

Ended_Never == [NoRecon EXCEPT !.pc = "held"]
Ended == NoRecon
\* The end of reconnectRemote and what the reader's goroutine or the receiver
\* does after it: both close the connection they came from.
Released(c) == IF recon.by = "audio" THEN Stopping(c) ELSE [Stopping(c) EXCEPT !.recv = "ended"]
Done ==
    /\ At("done") /\ recon' = Ended
    /\ link' = [link EXCEPT !.connecting = FALSE, !.failing = IF recon.by = "audio" THEN FALSE ELSE @]
    /\ conn' = [conn EXCEPT ![recon.of] = Released(@)]
    /\ UNCHANGED <<still, flush, listed, faults>>
\* Transcription stops in the time manager, and the client is told.
Lost(c) == Deaf(Without(c))
Fails ==
    /\ At("failed") /\ recon' = NoRecon
    /\ IF recon.by = "audio"
       THEN /\ link' = [Lost(recon.of) EXCEPT !.failing = FALSE]
            /\ conn' = [conn EXCEPT ![recon.of] = Stopping(@)]
       ELSE /\ link' = [link EXCEPT !.connecting = FALSE]
            /\ conn' = [conn EXCEPT ![recon.of].recv = "detach"]
    /\ UNCHANGED <<still, flush, listed, faults>>
-----------------------------------------------------------------------------
Reader == Pick \/ Buffer \/ Put \/ Sent \/ Failed
Flush == Drain \/ Check \/ Replay \/ Pause
SenderOf(c) == Take(c) \/ Write(c) \/ WriteFails(c) \/ SenderEnds(c)
ReceiverOf(c) == ReadFails(c) \/ Detach(c) \/ Clear(c)
Reconnect ==
    \/ BeginRecon \/ CloseOwn \/ Dial \/ GiveUp \/ Config \/ DropNew
    \/ Store \/ Ready \/ Receive \/ Done \/ Fails

Next ==
    /\ ~over
    /\ \/ Arrive \/ Reader \/ Expire \/ Flush \/ Reconnect
       \/ \E c \in Conns : SenderOf(c) \/ Closed(c) \/ Lose(c) \/ ReceiverOf(c)

\* Reconnects, receivers, senders and closes go on. Nothing is assumed of the
\* client, of the reader, of the replay and of the faults.
Fairness ==
    /\ WF_vars(~over /\ Reconnect)
    /\ \A c \in Conns :
          /\ WF_vars(~over /\ ReceiverOf(c))
          /\ WF_vars(~over /\ (SenderOf(c) \/ (conn[c].sender = "done" /\ Closed(c))))
Spec == Init /\ [][Next]_vars /\ Fairness
-----------------------------------------------------------------------------
(* Properties *)

\* The places of a packet, each as often as it is there.
Spots(p, s) == {i \in DOMAIN s : s[i] = p}
InConn(p, c) == ({"hand"} \X {c} \X Spots(p, <<conn[c].hand>>))
    \cup (IF conn[c].sender = "run" THEN {"queue"} \X {c} \X Spots(p, conn[c].queue) ELSE {})
Places(p) == (UNION {InConn(p, c) : c \in Conns})
    \cup ({"buffer"} \X {0} \X Spots(p, buffer)) \cup ({"replay"} \X {0} \X Spots(p, flush.batch))
    \cup ({"reader"} \X {0} \X Spots(p, <<reader.p>>)) \cup ({"heard"} \X {0} \X (1..heard[p]))

\* A packet is in one place at a time and reaches the service at most once,
\* however often it is buffered, replayed, refused and put back
\* (flushBufferedAudio), ...
HandedOnce == \A p \in Packets : \A x, y \in Places(p) : x = y

\* ... and it is lost only where the code gives it up: not transcribing, too
\* old, refused by or queued in a connection that is being closed or broken, or
\* written to one that is gone. This does not hold: see Stranded.
LostKnowingly == over \/ \A p \in 1..sent : Places(p) = {} => p \in spilt

\* SendAudio has accepted the packet after the sender of the closing connection
\* had drained the queue and ended: nobody reads it, and nobody is told.
Stranded(p) == \E c \in Conns : conn[c].sender = "done" /\ p \in ToSet(conn[c].queue)

\* That is the one silent loss. Otherwise the code knows of a packet that it
\* lost: a full queue, a replay and a reconnect lose none, nor does a close lose
\* what was queued before its sender ended (websocket_handler.go:558,
\* remote_connection.go:333, :615).
OneSilentLoss ==
    over \/ \A p \in 1..sent : Places(p) = {} => p \in spilt \/ Stranded(p)

\* At most one connection is open, and when nobody is connecting and it has not
\* been lost, it is the session's and its results are read (reconnectRemote,
\* attemptConnection). Of a lost one LossIsNoticed speaks.
OneConnection ==
    LET live == {c \in Conns : conn[c].st = "open"} IN
    /\ Cardinality(live) <= 1
    /\ Free => \A c \in live : conn[c].peer = "up" =>
          c = link.remote /\ conn[c].recv = "reading"

\* A lost connection does not go unnoticed: the session gets another one, or
\* stops transcribing, or is closed. What "missed" is: the new connection is
\* lost in the moment before its reconnect ends, and its receiver leaves it to
\* that reconnect (websocket_commands.go:1160).
Cut == link.transcribing /\ link.remote # 0 /\ conn[link.remote].peer # "up"
Missed == \E c \in Conns : conn[c].recv = "missed"
LossIsNoticed == Cut ~> (~Cut \/ over \/ Missed)

\* "成功则继续同一 session/meeting，不中断 timeManager" (on success the same session
\* goes on, the time manager is not interrupted): a session that has just been
\* connected again, over a connection that works, transcribes.
ContinuesAfterReconnect ==
    [][recon.pc = "done" /\ recon'.pc = "idle" /\ conn[link.remote].peer = "up" => link.transcribing]_vars
=============================================================================
