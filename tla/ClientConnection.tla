-------------------------- MODULE ClientConnection --------------------------
(***************************************************************************)
(* The client's connection to the server: client/mytcpsocket.cpp.          *)
(* MyTcpSocket is driven by three threads:                                 *)
(*   - the user interface calls connectToServer and disconnectFromHost and *)
(*     pushes messages into queue_send;                                    *)
(*   - the socket thread (_sockThread) runs everything that touches the    *)
(*     socket, one handler at a time: connectServer, sendData,             *)
(*     recvFromSocket, errorDetect, the heartbeat timer every 5 s and the  *)
(*     reconnect timer;                                                    *)
(*   - the writer (MyTcpSocket::run) moves messages from queue_send to the *)
(*     socket thread's event queue until m_isCanRun is false.              *)
(*                                                                         *)
(* Of the packets that arrive only their order counts: 0 is HEARTBEAT_ACK  *)
(* (the answer to HEARTBEAT and to AUTH), any other number a packet of     *)
(* the server's, numbered as it was sent.  A message to the server is the  *)
(* number of the session in which it was pushed.  Time is left out but for *)
(* the order of beats: the connection is overdue at the third heartbeat    *)
(* without an answer, or the second when that one comes late.              *)
(***************************************************************************)
EXTENDS Integers, Sequences, SequencesExt

CONSTANTS
    Waits,        \* whether disconnectFromHost is followed by wait(): it is in
                  \* widget.cpp:326, not in dialog.cpp
    MaxConnects,  \* bound: calls of connectToServer
    MaxOutages,   \* bound: losses of the connection from outside
    MaxPackets,   \* bound: packets of the server's, acks apart
    MaxTorn,      \* bound: packets that the rest of a torn one may swallow
    MaxInterval,  \* the longest _reconnectInterval: 15 seconds
    QueueCap,     \* bound: messages on their way to the server
    LineCap       \* bound: packets on the line and in recvbuf

ASSUME ConnectionAssumption ==
    /\ Waits \in BOOLEAN
    /\ MaxConnects \in Nat /\ MaxOutages \in Nat
    /\ MaxPackets \in Nat /\ MaxTorn \in Nat
    /\ MaxInterval \in Nat \ {0}
    /\ QueueCap \in Nat \ {0} /\ LineCap \in Nat \ {0}

VARIABLES
    ui,           \* where the user interface is: "free" or inside a call
    attached,     \* the last connectToServer returned true, no disconnect since
    session,      \* calls of disconnectFromHost so far
    connects,     \* calls of connectToServer so far
    thread,       \* the socket thread runs
    events,       \* its event queue: connectServer or the session of a message
    sock,         \* _socktcp: "idle", "up", or "dead" (up, but the peer is gone)
    isConnected,  \* _isConnected
    hb, rc,       \* the heartbeat and the reconnect timer are active
    interval,     \* _reconnectInterval, in seconds
    beats,        \* heartbeats since the last answer
    canRun,       \* m_isCanRun
    writer,       \* the writer: "off", "start", "check", "pop" or "post"
    hand,         \* the message the writer has popped
    queue_send,   \* messages by session
    net,          \* the server can be reached
    outages,      \* losses of the connection from outside so far
    line,         \* packets on their way to the client
    recvbuf,      \* whole packets received and not handled
    torn,         \* packets still to be taken for the rest of a torn one
    made,         \* packets the server has sent, acks apart
    handled,      \* packets the client has handled, acks apart
    lost          \* a connection was lost with packets on the line (history)

uiVars     == <<ui, attached, session, connects>>
timerVars  == <<isConnected, hb, rc, interval, beats>>
writerVars == <<canRun, writer, hand, queue_send>>
netVars    == <<net, outages>>
recvVars   == <<line, recvbuf, torn, made, handled, lost>>
vars       == <<uiVars, thread, events, sock, timerVars, writerVars, netVars, recvVars>>

\* The event that stands for a call of connectServer.
connectServer == -1

Init ==
    /\ ui = "free" /\ attached = FALSE /\ session = 0 /\ connects = 0
    /\ thread = FALSE /\ events = <<>> /\ sock = "idle"
    /\ isConnected = FALSE /\ hb = FALSE /\ rc = FALSE /\ interval = 1 /\ beats = 0
    /\ canRun = FALSE /\ writer = "off" /\ hand = 0 /\ queue_send = <<>>
    /\ net = TRUE /\ outages = 0
    /\ line = <<>> /\ recvbuf = <<>> /\ torn = 0 /\ made = 0 /\ handled = 0 /\ lost = FALSE

-----------------------------------------------------------------------------
(* The user interface *)

\* connectToServer: start the socket thread and wait for its connectServer.
Connect ==
    /\ ui = "free"
    /\ connects < MaxConnects
    /\ connects' = connects + 1
    /\ ui' = "connecting"
    /\ thread' = TRUE
    /\ events' = Append(events, connectServer)
    /\ UNCHANGED <<attached, session, sock, timerVars, writerVars, netVars, recvVars>>

\* A message for the server.  The threads that push (SendText, SendImg, the
\* microphone) do not ask whether there is a connection, and do not wait for the
\* user interface.
Push ==
    /\ Len(queue_send) + Len(events) < QueueCap /\ writer # "post"
    /\ queue_send' = Append(queue_send, session)
    /\ UNCHANGED <<uiVars, thread, events, sock, timerVars, canRun, writer, hand, netVars,
                   recvVars>>

\* disconnectFromHost: the writer is told to stop ...
Disconnect ==
    /\ ui = "free"
    /\ thread
    /\ ui' = "quitting"
    /\ attached' = FALSE
    /\ canRun' = IF writer # "off" THEN FALSE ELSE canRun
    /\ UNCHANGED <<session, connects, thread, events, sock, timerVars, writer, hand,
                   queue_send, netVars, recvVars>>

\* Unread packets go with the socket; the beginning of one that has been read
\* stays in recvbuf, and its length will be counted in what comes next.
DropLine ==
    /\ line' = <<>>
    /\ torn' \in IF line # <<>> /\ torn = 0 THEN 0..MaxTorn ELSE {torn}
    /\ lost' = (lost \/ line # <<>>)
    /\ UNCHANGED <<recvbuf, made, handled>>

\* Faulty variant: the timers go on.
ThreadFinishedTimersOn ==
    /\ ui = "quitting"
    /\ ui' = "clearing"
    /\ thread' = FALSE
    /\ sock' = "idle"
    /\ DropLine
    /\ UNCHANGED <<attached, session, connects, events, timerVars, writerVars, netVars>>

\* ... the socket thread is waited for; closeSocket runs in it as it ends.
ThreadFinished ==
    /\ ui = "quitting"
    /\ ui' = "clearing"
    /\ thread' = FALSE
    /\ sock' = "idle"
    /\ hb' = FALSE
    /\ rc' = FALSE
    /\ DropLine
    /\ UNCHANGED <<attached, session, connects, events, isConnected, interval, beats,
                   writerVars, netVars>>

\* Faulty variant: queue_send keeps what it holds.
ClearedKept ==
    /\ ui = "clearing"
    /\ ui' = IF Waits THEN "waiting" ELSE "free"
    /\ session' = session + 1
    /\ queue_send' = queue_send
    /\ UNCHANGED <<attached, connects, thread, events, sock, timerVars, canRun, writer, hand,
                   netVars, recvVars>>

\* ... and the queues are cleared.
Cleared ==
    /\ ui = "clearing"
    /\ ui' = IF Waits THEN "waiting" ELSE "free"
    /\ session' = session + 1
    /\ queue_send' = <<>>
    /\ UNCHANGED <<attached, connects, thread, events, sock, timerVars, canRun, writer, hand,
                   netVars, recvVars>>

\* Faulty variant: nobody waits.
WaitedNot ==
    /\ ui = "waiting"
    /\ ui' = "free"
    /\ UNCHANGED <<attached, session, connects, thread, events, sock, timerVars, writerVars,
                   netVars, recvVars>>

\* The meeting window then waits for the writer.
Waited ==
    /\ ui = "waiting"
    /\ writer = "off"
    /\ ui' = "free"
    /\ UNCHANGED <<attached, session, connects, thread, events, sock, timerVars, writerVars,
                   netVars, recvVars>>

-----------------------------------------------------------------------------
(* The writer *)

\* The beginning of run() sets m_isCanRun without m_lock (line 420).
WriterStarts ==
    /\ writer = "start"
    /\ writer' = "check"
    /\ canRun' = TRUE
    /\ UNCHANGED <<uiVars, thread, events, sock, timerVars, hand, queue_send, netVars, recvVars>>

\* The test at the head of the loop; the writer that ends stops the timers.
WriterChecks ==
    /\ writer = "check"
    /\ IF canRun
       THEN writer' = "pop" /\ UNCHANGED <<hb, rc>>
       ELSE writer' = "off" /\ hb' = FALSE /\ rc' = FALSE
    /\ UNCHANGED <<uiVars, thread, events, sock, isConnected, interval, beats, canRun, hand,
                   queue_send, netVars, recvVars>>

\* pop_msg gives up after two seconds without a message.
WriterPops ==
    /\ writer = "pop"
    /\ IF queue_send = <<>>
       THEN writer' = "check" /\ UNCHANGED <<hand, queue_send>>
       ELSE writer' = "post" /\ hand' = Head(queue_send) /\ queue_send' = Tail(queue_send)
    /\ UNCHANGED <<uiVars, thread, events, sock, timerVars, canRun, netVars, recvVars>>

\* invokeMethod: sendData is queued for the socket thread, running or not.
WriterPosts ==
    /\ writer = "post"
    /\ writer' = "check"
    /\ hand' = 0
    /\ events' = Append(events, hand)
    /\ UNCHANGED <<uiVars, thread, sock, timerVars, canRun, queue_send, netVars, recvVars>>

-----------------------------------------------------------------------------
(* The socket thread *)

\* errorDetect: a connection that was there is to be built again.  Its message
\* for queue_recv is left out; ClientMeeting has what the window makes of it.
ErrorDetect ==
    IF isConnected /\ ~rc
    THEN isConnected' = FALSE /\ hb' = FALSE /\ rc' = TRUE /\ interval' = 1 /\ beats' = beats
    ELSE UNCHANGED timerVars

\* Faulty variant: heartbeats get no answer.
AckedNever(l) == l

\* The answer to a HEARTBEAT or an AUTH.
Acked(l) == IF sock' = "up" THEN Append(l, 0) ELSE l

HasRoom == Len(line) + Len(recvbuf) < LineCap

\* connectServer on success.
Connected ==
    /\ isConnected' = TRUE
    /\ hb' = TRUE
    /\ rc' = FALSE
    /\ interval' = 1
    /\ beats' = 0

\* connectToServer's connectServer.  A socket that is still connected reports an
\* error and is then as good as new, even if its peer is gone.  The writer is
\* started unless it runs: start() does nothing for a running thread.
ConnectServer ==
    /\ thread
    /\ events # <<>> /\ Head(events) = connectServer
    /\ events' = Tail(events)
    /\ ui' = "free"
    /\ IF net \/ sock # "idle"
       THEN /\ sock' = IF sock = "idle" THEN "up" ELSE sock
            /\ Connected
            /\ attached' = TRUE
            /\ writer' = IF writer = "off" THEN "start" ELSE writer
       ELSE /\ ErrorDetect
            /\ attached' = FALSE
            /\ UNCHANGED <<sock, writer>>
    /\ UNCHANGED <<session, connects, thread, canRun, hand, queue_send, netVars, recvVars>>

\* sendData: without a connection the message is dropped.
SendData ==
    /\ thread
    /\ events # <<>> /\ Head(events) # connectServer
    /\ events' = Tail(events)
    /\ UNCHANGED <<uiVars, thread, sock, timerVars, writerVars, netVars, recvVars>>

\* Faulty variant: an overdue connection is not handed to the reconnect timer.
HeartbeatForgets ==
    /\ thread /\ hb
    /\ line = <<>> \/ HasRoom
    /\ sock' = sock
    /\ IF isConnected /\ sock # "idle"
       THEN IF beats >= 2
            THEN /\ isConnected' = FALSE /\ hb' = FALSE
                 /\ UNCHANGED <<rc, interval, beats, line>>
            ELSE /\ beats' = beats + 1
                 /\ line' = Acked(line)
                 /\ UNCHANGED <<isConnected, hb, rc, interval>>
       ELSE UNCHANGED <<timerVars, line>>
    /\ UNCHANGED <<uiVars, thread, events, writerVars, netVars, recvbuf, torn, made, handled, lost>>

\* sendHeartbeat, from its timer.
Heartbeat ==
    /\ thread /\ hb
    /\ line = <<>> \/ HasRoom
    /\ sock' = sock
    /\ IF ~isConnected \/ sock = "idle"
       THEN UNCHANGED <<timerVars, line>>
       ELSE \/ /\ beats >= 1
               /\ isConnected' = FALSE /\ hb' = FALSE /\ rc' = TRUE
               /\ UNCHANGED <<interval, beats, line>>
            \/ /\ beats <= 1
               /\ beats' = beats + 1
               /\ line' = Acked(line)
               /\ UNCHANGED <<isConnected, hb, rc, interval>>
    /\ UNCHANGED <<uiVars, thread, events, writerVars, netVars, recvbuf, torn, made, handled, lost>>

\* The interval after a failed attempt.
Backoff == IF 2 * interval > MaxInterval THEN MaxInterval ELSE 2 * interval

\* Faulty variant: one attempt only.
HandleReconnectOnce ==
    /\ thread /\ rc
    /\ IF isConnected
       THEN UNCHANGED <<sock, timerVars, recvVars>>
       ELSE /\ IF net
               THEN sock' = "up" /\ Connected
               ELSE /\ sock' = "idle"
                    /\ rc' = FALSE
                    /\ UNCHANGED <<isConnected, hb, interval, beats>>
            /\ line' = Acked(<<>>)
            /\ UNCHANGED <<recvbuf, torn, made, handled, lost>>
    /\ UNCHANGED <<uiVars, thread, events, writerVars, netVars>>

\* handleReconnect, from its timer: the old socket goes, a new one is tried, and
\* if it connects AUTH is sent at once.
HandleReconnect ==
    /\ thread /\ rc
    /\ IF isConnected
       THEN UNCHANGED <<sock, timerVars, recvVars>>
       ELSE /\ IF net
               THEN sock' = "up" /\ Connected
               ELSE /\ sock' = "idle"
                    /\ interval' = Backoff
                    /\ UNCHANGED <<isConnected, hb, rc, beats>>
            /\ line' = Acked(<<>>)
            /\ torn' \in IF line # <<>> /\ torn = 0 THEN 0..MaxTorn ELSE {torn}
            /\ lost' = (lost \/ line # <<>>)
            /\ UNCHANGED <<recvbuf, made, handled>>
    /\ UNCHANGED <<uiVars, thread, events, writerVars, netVars>>

\* HEARTBEAT_ACK: the connection is alive, even if it had been given up.
HandleAck ==
    /\ beats' = 0
    /\ IF isConnected
       THEN UNCHANGED <<isConnected, hb, rc>>
       ELSE isConnected' = TRUE /\ hb' = TRUE /\ rc' = FALSE
    /\ UNCHANGED <<interval, handled>>

\* Faulty variant: an ack empties the buffer.
HandleOneAckClears(buf) ==
    IF buf = <<>>
    THEN recvbuf' = buf /\ UNCHANGED <<timerVars, handled>>
    ELSE IF Head(buf) = 0
         THEN HandleAck /\ recvbuf' = <<>>
         ELSE /\ recvbuf' = Tail(buf)
              /\ handled' = handled + 1
              /\ UNCHANGED timerVars

\* The part of recvFromSocket that handles at most one packet.
HandleOne(buf) ==
    IF buf = <<>>
    THEN recvbuf' = buf /\ UNCHANGED <<timerVars, handled>>
    ELSE /\ recvbuf' = Tail(buf)
         /\ IF Head(buf) = 0
            THEN HandleAck
            ELSE handled' = handled + 1 /\ UNCHANGED timerVars

Smaller(i, j) == IF i < j THEN i ELSE j

\* recvFromSocket: all that has arrived is read, one packet is handled, and the
\* others stay until there is something to read again.
Receive ==
    LET swallowed == Smaller(torn, Len(line)) IN
    /\ thread
    /\ sock # "idle"
    /\ line # <<>>
    /\ line' = <<>>
    /\ torn' = torn - swallowed
    /\ HandleOne(recvbuf \o SubSeq(line, swallowed + 1, Len(line)))
    /\ UNCHANGED <<uiVars, thread, events, sock, writerVars, netVars, made, lost>>

\* The connection breaks visibly: RemoteHostClosedError or another error.
SocketError ==
    /\ thread
    /\ \/ sock = "dead" /\ UNCHANGED netVars
       \/ sock = "up" /\ outages < MaxOutages /\ outages' = outages + 1 /\ net' = net
    /\ sock' = "idle"
    /\ ErrorDetect
    /\ DropLine
    /\ UNCHANGED <<uiVars, thread, events, writerVars>>

-----------------------------------------------------------------------------
(* The network and the server *)

\* The server goes silent; the client's socket does not know.
NetDown ==
    /\ net
    /\ outages < MaxOutages
    /\ outages' = outages + 1
    /\ net' = FALSE
    /\ sock' = IF sock = "up" THEN "dead" ELSE sock
    /\ UNCHANGED <<uiVars, thread, events, timerVars, writerVars, recvVars>>

NetUp ==
    /\ ~net
    /\ net' = TRUE
    /\ UNCHANGED <<uiVars, thread, events, sock, timerVars, writerVars, outages, recvVars>>

\* The server sends a packet.
ServerSends ==
    /\ sock = "up"
    /\ made < MaxPackets
    /\ HasRoom
    /\ made' = made + 1
    /\ line' = Append(line, made + 1)
    /\ UNCHANGED <<uiVars, thread, events, sock, timerVars, writerVars, netVars, recvbuf, torn,
                   handled, lost>>

-----------------------------------------------------------------------------
Ui         == Connect \/ Push \/ Disconnect \/ ThreadFinished \/ Cleared \/ Waited
Writer     == WriterStarts \/ WriterChecks \/ WriterPops \/ WriterPosts
SockThread == ConnectServer \/ SendData \/ Heartbeat \/ HandleReconnect \/ Receive \/ SocketError

Next == Ui \/ Writer \/ SockThread \/ NetDown \/ NetUp \/ ServerSends

Spec == Init /\ [][Next]_vars

\* The threads are scheduled, the timers fire, and what arrives is read (strong
\* fairness: the line is emptied whenever a connection is given up).
Fairness ==
    /\ WF_vars(Writer)
    /\ WF_vars(ConnectServer \/ SendData)
    /\ WF_vars(Heartbeat)
    /\ WF_vars(HandleReconnect)
    /\ SF_vars(Receive)
    /\ WF_vars(ThreadFinished) /\ WF_vars(Cleared) /\ WF_vars(Waited)

FairSpec == Spec /\ Fairness

-----------------------------------------------------------------------------
(* Properties *)

Packets  == 0..MaxPackets
Sessions == 0..MaxConnects

\* Every variable keeps to its type; the user interface waits only for a thread
\* that has its request, and a thread that has ended leaves no timer.
TypeOK ==
    /\ ui \in {"free", "connecting", "quitting", "clearing", "waiting"}
    /\ attached \in BOOLEAN /\ session \in Sessions /\ connects \in 0..MaxConnects
    /\ thread \in BOOLEAN /\ sock \in {"idle", "up", "dead"}
    /\ events \in Seq(Sessions \cup {connectServer})
    /\ isConnected \in BOOLEAN /\ hb \in BOOLEAN /\ rc \in BOOLEAN
    /\ interval \in 1..MaxInterval /\ beats \in 0..2
    /\ canRun \in BOOLEAN /\ writer \in {"off", "start", "check", "pop", "post"}
    /\ hand \in Sessions /\ queue_send \in Seq(Sessions)
    /\ net \in BOOLEAN /\ outages \in 0..MaxOutages
    /\ line \in Seq(Packets) /\ recvbuf \in Seq(Packets) /\ torn \in 0..MaxTorn
    /\ made \in Packets /\ handled \in Packets /\ lost \in BOOLEAN
    /\ ui = "connecting" <=> Contains(events, connectServer)
    /\ ~thread => sock = "idle" /\ ~hb /\ ~rc /\ line = <<>>

\* As long as the window believes to be connected one of the two timers watches
\* over the connection: a heartbeat while it is thought to be up, a reconnect
\* while it is known to be down.  Without one a loss would go unnoticed for ever.
SomebodyWatches ==
    attached => (isConnected => hb) /\ (~isConnected => rc)

\* A connection that connectToServer has announced has a writer: what is pushed
\* will be sent.  start() ignores a writer that has been told to stop and has not
\* stopped yet.
AttachedHasWriter ==
    attached => writer # "off" /\ (writer = "start" \/ canRun)

\* What was pushed before a disconnectFromHost is never sent over a connection
\* made after it, wherever it was: in queue_send, in the writer's hand or in the
\* event queue of the stopped thread.
NothingSentLate ==
    [][SendData /\ sock = "up" => Head(events) = session]_vars

\* Until a connection is lost nothing the server sends is lost, doubled or
\* overtaken, however the bytes are cut into reads: acks apart, what has arrived or
\* is on the line is what is still to be handled, in the order it was sent.
PacketsComeThrough ==
    LET buf == recvbuf \o line IN
    ~lost =>
        /\ {buf[i] : i \in DOMAIN buf} \ {0} = handled + 1..made
        /\ \A i, j \in DOMAIN buf : i < j /\ buf[j] # 0 => buf[i] < buf[j]

\* A server that can be reached is reached: unless the user disconnects, the
\* client is connected again and again, after a loss it did not see as well.
ConnectedAgain ==
    <>[](net /\ attached) => []<>(isConnected /\ sock = "up")

\* A whole packet in recvbuf is handled in the end although only the arrival of
\* more bytes makes recvFromSocket look: the heartbeat's answers see to that.
NoPacketStays ==
    \A p \in 1..MaxPackets :
        Contains(recvbuf, p) ~> (~Contains(recvbuf, p) \/ ~net \/ ~attached)

=============================================================================
