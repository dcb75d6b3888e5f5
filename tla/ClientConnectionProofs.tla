----------------------- MODULE ClientConnectionProofs -----------------------
(***************************************************************************)
(* Theorems about ClientConnection, for any bounds: three of them where    *)
(* the window waits for the writer after disconnectFromHost                *)
(* (widget.cpp:326), the last two wherever it is called from.              *)
(***************************************************************************)
EXTENDS ClientConnection, SequenceTheorems, TLAPS

(* What the invariant says of the threads *)

\* The values that the threads' states and messages keep to.
ThreadTypes ==
    /\ ui \in {"free", "connecting", "quitting", "clearing", "waiting"}
    /\ writer \in {"off", "start", "check", "pop", "post"}
    /\ sock \in {"idle", "up", "dead"}
    /\ isConnected \in BOOLEAN
    /\ session \in Nat
    /\ hand \in Nat
    /\ queue_send \in Seq(Nat)
    /\ events \in Seq(Nat \cup {connectServer})

\* disconnectFromHost: the window is detached, then the socket thread has ended
\* and its socket and timers with it.
Disconnecting ==
    /\ ui \in {"quitting", "clearing", "waiting"} => ~attached
    /\ ui \in {"clearing", "waiting"} => ~thread
    /\ ~thread => sock = "idle" /\ ~rc

\* The writer that a connection finds: none, one that starts, or one that has not
\* been told to stop.
WriterReady ==
    /\ ui \in {"free", "connecting"} => writer \in {"off", "start"} \/ canRun
    /\ attached => writer # "off"

\* Where messages are: queue_send holds those of this session, and but for the
\* last part of a disconnectFromHost the writer's hand too.
MessagesOfSession ==
    /\ \A i \in DOMAIN queue_send : queue_send[i] = session
    /\ ui # "waiting" /\ writer = "post" => hand = session

\* One call of connectServer at most is under way and the user interface waits for
\* it; what is behind it is of this session.
OneConnect ==
    \A i \in DOMAIN events : events[i] = connectServer =>
        /\ ui = "connecting"
        /\ \A j \in DOMAIN events : j > i => events[j] = session
        /\ \A j \in DOMAIN events : events[j] = connectServer => j = i

\* A message of an earlier session is only there while there is no socket and
\* nothing that would make one before connectServer.
OldHarmless ==
    (\E i \in DOMAIN events : events[i] \notin {connectServer, session}) => sock = "idle" /\ ~rc

Threads ==
    /\ ThreadTypes
    /\ Disconnecting
    /\ WriterReady
    /\ SomebodyWatches
    /\ MessagesOfSession
    /\ OneConnect
    /\ OldHarmless

-----------------------------------------------------------------------------
(* The event queue *)

LEMMA EventAppended ==
  ASSUME NEW S, NEW s \in Seq(S), NEW e \in S
  PROVE  /\ Append(s, e) \in Seq(S)
         /\ Len(s) \in Nat
         /\ DOMAIN s = 1..Len(s)
         /\ DOMAIN Append(s, e) = 1..(Len(s) + 1)
         /\ \A i \in DOMAIN s : Append(s, e)[i] = s[i]
         /\ Append(s, e)[Len(s) + 1] = e
<1>1. Len(s) \in Nat /\ DOMAIN s = 1..Len(s)
  BY LenProperties
<1>2. /\ Append(s, e) \in Seq(S)
      /\ Len(Append(s, e)) = Len(s) + 1
      /\ \A i \in 1..Len(s) : Append(s, e)[i] = s[i]
      /\ Append(s, e)[Len(s) + 1] = e
  BY AppendProperties
<1>3. DOMAIN Append(s, e) = 1..(Len(s) + 1)
  BY <1>2, LenProperties
<1>. QED  BY <1>1, <1>2, <1>3

LEMMA EventTaken ==
  ASSUME NEW S, NEW s \in Seq(S), s # <<>>
  PROVE  /\ Tail(s) \in Seq(S)
         /\ Head(s) \in S
         /\ 1 \in DOMAIN s
         /\ Head(s) = s[1]
         /\ DOMAIN Tail(s) \subseteq Nat \ {0}
         /\ \A i \in DOMAIN Tail(s) : i + 1 \in DOMAIN s /\ Tail(s)[i] = s[i + 1]
<1>1. Len(s) \in Nat /\ DOMAIN s = 1..Len(s) /\ Len(s) # 0
  BY LenProperties, EmptySeq
<1>2. /\ Tail(s) \in Seq(S)
      /\ Head(s) \in S
      /\ Head(s) = s[1]
      /\ Len(Tail(s)) = Len(s) - 1
      /\ \A i \in 1..Len(Tail(s)) : Tail(s)[i] = s[i + 1]
  BY HeadTailProperties
<1>3. DOMAIN Tail(s) = 1..(Len(s) - 1)
  BY <1>2, LenProperties
<1>4. \A i \in DOMAIN Tail(s) : i \in Nat \ {0} /\ i + 1 \in DOMAIN s /\ Tail(s)[i] = s[i + 1]
  BY <1>1, <1>2, <1>3
<1>5. 1 \in DOMAIN s
  BY <1>1
<1>. QED  BY <1>2, <1>4, <1>5

\* The event queue may be looked at as before when it, the session and the user
\* interface stay and no socket and no reconnect timer appear.
LEMMA EventsStay ==
  ASSUME OneConnect, OldHarmless, UNCHANGED <<events, session>>,
         ui' = ui \/ (\A i \in DOMAIN events : events[i] # connectServer),
         (sock = "idle" => sock' = "idle") \/ rc, (rc' => rc) \/ sock # "idle"
  PROVE  OneConnect' /\ OldHarmless'
<1>1. OneConnect'
  BY DEF OneConnect
<1>2. ASSUME NEW i \in DOMAIN events, events[i] \notin {connectServer, session}
      PROVE  sock' = "idle" /\ ~rc'
  BY <1>2 DEF OldHarmless
<1>3. OldHarmless'
  BY <1>2 DEF OldHarmless, connectServer
<1>. QED  BY <1>1, <1>3

\* A message, or a call of connectServer, has been taken from the queue.
LEMMA EventsTaken ==
  ASSUME ThreadTypes, OneConnect, OldHarmless, events # <<>>, events' = Tail(events), session' = session
  PROVE  /\ events' \in Seq(Nat \cup {connectServer})
         /\ ui' = ui => OneConnect'
         /\ Head(events) = connectServer =>
              /\ ui = "connecting"
              /\ \A i \in DOMAIN events' : events'[i] = session /\ events'[i] # connectServer
         /\ sock' = sock /\ rc' = rc => OldHarmless'
<1>. DEFINE E == Nat \cup {connectServer}
<1>1. /\ events' \in Seq(E)
      /\ Head(events) \in E
      /\ 1 \in DOMAIN events
      /\ Head(events) = events[1]
      /\ DOMAIN events' \subseteq Nat \ {0}
      /\ \A i \in DOMAIN events' : i + 1 \in DOMAIN events /\ events'[i] = events[i + 1]
  <2>1. events \in Seq(E)
    BY DEF ThreadTypes
  <2>. HIDE DEF E
  <2>. QED  BY <2>1, EventTaken
<1>2. ASSUME ui' = ui  PROVE OneConnect'
  <2>1. ASSUME NEW i \in DOMAIN events', events'[i] = connectServer
        PROVE  /\ ui' = "connecting"
               /\ \A j \in DOMAIN events' : j > i => events'[j] = session'
               /\ \A j \in DOMAIN events' : events'[j] = connectServer => j = i
    <3>1. i + 1 \in DOMAIN events /\ events[i + 1] = connectServer /\ i \in Nat
      BY <1>1, <2>1
    <3>2. /\ ui = "connecting"
          /\ \A j \in DOMAIN events : j > i + 1 => events[j] = session
          /\ \A j \in DOMAIN events : events[j] = connectServer => j = i + 1
      BY <3>1 DEF OneConnect
    <3>3. \A j \in DOMAIN events' : j \in Nat /\ j + 1 \in DOMAIN events /\ events'[j] = events[j + 1]
      BY <1>1
    <3>4. ASSUME NEW j \in DOMAIN events', j > i  PROVE events'[j] = session'
      <4>1. j + 1 > i + 1
        BY <3>1, <3>3, <3>4
      <4>. QED  BY <3>2, <3>3, <4>1
    <3>5. ASSUME NEW j \in DOMAIN events', events'[j] = connectServer  PROVE j = i
      <4>1. j + 1 = i + 1
        BY <3>2, <3>3, <3>5
      <4>. QED  BY <3>1, <3>3, <4>1
    <3>. QED  BY <1>2, <3>2, <3>4, <3>5
  <2>. QED  BY <2>1 DEF OneConnect, connectServer
<1>3. ASSUME Head(events) = connectServer
      PROVE  /\ ui = "connecting"
             /\ \A i \in DOMAIN events' : events'[i] = session /\ events'[i] # connectServer
  <2>1. /\ ui = "connecting"
        /\ \A j \in DOMAIN events : j > 1 => events[j] = session
    BY <1>1, <1>3 DEF OneConnect
  <2>2. \A i \in DOMAIN events' : i + 1 > 1
    BY <1>1
  <2>3. session # connectServer
    BY DEF ThreadTypes, connectServer
  <2>. QED  BY <1>1, <2>1, <2>2, <2>3
<1>4. ASSUME sock' = sock, rc' = rc  PROVE OldHarmless'
  BY <1>1, <1>4 DEF OldHarmless, connectServer
<1>. QED  BY <1>1, <1>2, <1>3, <1>4

-----------------------------------------------------------------------------
(* The user interface *)

LEMMA ConnectThreads ==
  ASSUME Threads, Connect
  PROVE  Threads'
<1>. USE DEF Threads
<1>1. events \in Seq(Nat \cup {connectServer}) /\ events' = Append(events, connectServer)
  BY DEF Connect, ThreadTypes
<1>2. /\ events' \in Seq(Nat \cup {connectServer})
      /\ Len(events) \in Nat
      /\ DOMAIN events = 1..Len(events)
      /\ DOMAIN events' = 1..(Len(events) + 1)
      /\ \A i \in DOMAIN events : events'[i] = events[i]
      /\ events'[Len(events) + 1] = connectServer
  BY <1>1, EventAppended
<1>3. /\ \A i \in DOMAIN events' : i \in Nat /\ (i \in DOMAIN events \/ i = Len(events) + 1)
      /\ \A i \in DOMAIN events : i < Len(events) + 1 /\ i # Len(events) + 1
  BY <1>2
<1>4. \A i \in DOMAIN events : events[i] # connectServer
  BY DEF Connect, OneConnect
<1>5. \A i \in DOMAIN events' : events'[i] = connectServer => i = Len(events) + 1
  BY <1>2, <1>3, <1>4
<1>6. OneConnect'
  <2>1. \A j \in DOMAIN events' : ~(j > Len(events) + 1)
    BY <1>2
  <2>. QED  BY <1>2, <1>5, <2>1 DEF OneConnect, Connect, connectServer
<1>7. OldHarmless'
  BY <1>2, <1>3 DEF OldHarmless, Connect, connectServer, timerVars
<1>8. ThreadTypes'
  BY <1>2 DEF Connect, ThreadTypes, connectServer, timerVars, writerVars
<1>9. Disconnecting' /\ WriterReady' /\ SomebodyWatches' /\ MessagesOfSession'
  BY DEF Connect, Disconnecting, WriterReady, SomebodyWatches, MessagesOfSession, timerVars, writerVars
<1>. QED  BY <1>6, <1>7, <1>8, <1>9

LEMMA PushThreads ==
  ASSUME Threads, Push
  PROVE  Threads'
<1>. USE DEF Threads
<1>1. queue_send' = Append(queue_send, session) /\ queue_send \in Seq(Nat) /\ session \in Nat
  BY DEF Push, ThreadTypes
<1>2. /\ queue_send' \in Seq(Nat)
      /\ Len(queue_send) \in Nat
      /\ DOMAIN queue_send = 1..Len(queue_send)
      /\ DOMAIN queue_send' = 1..(Len(queue_send) + 1)
      /\ \A i \in DOMAIN queue_send : queue_send'[i] = queue_send[i]
      /\ queue_send'[Len(queue_send) + 1] = session
  BY <1>1, EventAppended
<1>3. \A i \in DOMAIN queue_send' : i \in DOMAIN queue_send \/ i = Len(queue_send) + 1
  BY <1>2
<1>4. MessagesOfSession'
  BY <1>2, <1>3 DEF MessagesOfSession, Push, uiVars
<1>5. ThreadTypes'
  BY <1>2 DEF ThreadTypes, Push, uiVars, timerVars, connectServer
<1>6. Disconnecting' /\ WriterReady' /\ SomebodyWatches'
  BY DEF Push, Disconnecting, WriterReady, SomebodyWatches, uiVars, timerVars
<1>7. OneConnect' /\ OldHarmless'
  BY EventsStay DEF Push, uiVars, timerVars
<1>. QED  BY <1>4, <1>5, <1>6, <1>7

LEMMA DisconnectThreads ==
  ASSUME Threads, Disconnect
  PROVE  Threads'
<1>. USE DEF Threads
<1>1. \A i \in DOMAIN events : events[i] # connectServer
  BY DEF Disconnect, OneConnect
<1>2. OneConnect' /\ OldHarmless'
  BY <1>1, EventsStay DEF Disconnect, timerVars
<1>3. ThreadTypes'
  BY DEF ThreadTypes, Disconnect, timerVars, connectServer
<1>. QED
  BY <1>2, <1>3
     DEF Disconnect, Disconnecting, WriterReady, SomebodyWatches, MessagesOfSession, timerVars

LEMMA ThreadFinishedThreads ==
  ASSUME Threads, ThreadFinished
  PROVE  Threads'
<1>. USE DEF Threads
<1>1. \A i \in DOMAIN events : events[i] # connectServer
  BY DEF ThreadFinished, OneConnect
<1>2. OneConnect' /\ OldHarmless'
  BY <1>1, EventsStay DEF ThreadFinished
<1>3. ThreadTypes'
  BY DEF ThreadTypes, ThreadFinished, writerVars, connectServer
<1>. QED
  BY <1>2, <1>3
     DEF ThreadFinished, Disconnecting, WriterReady, SomebodyWatches, MessagesOfSession, writerVars

LEMMA ClearedThreads ==
  ASSUME Waits, Threads, Cleared
  PROVE  Threads'
<1>. USE DEF Threads
<1>1. \A i \in DOMAIN events : events[i] # connectServer
  BY DEF Cleared, OneConnect
<1>2. OneConnect'
  BY <1>1 DEF OneConnect, Cleared, connectServer
<1>3. sock = "idle" /\ ~rc
  BY DEF Cleared, Disconnecting
<1>4. OldHarmless'
  BY <1>3 DEF OldHarmless, Cleared, timerVars
<1>5. ThreadTypes'
  BY EmptySeq DEF ThreadTypes, Cleared, timerVars, connectServer
<1>. QED
  BY <1>2, <1>4, <1>5
     DEF Cleared, Disconnecting, WriterReady, SomebodyWatches, MessagesOfSession, timerVars

LEMMA WaitedThreads ==
  ASSUME Threads, Waited
  PROVE  Threads'
<1>. USE DEF Threads
<1>1. \A i \in DOMAIN events : events[i] # connectServer
  BY DEF Waited, OneConnect
<1>2. OneConnect' /\ OldHarmless'
  BY <1>1, EventsStay DEF Waited, timerVars
<1>3. ThreadTypes'
  BY DEF ThreadTypes, Waited, writerVars, timerVars, connectServer
<1>. QED
  BY <1>2, <1>3
     DEF Waited, Disconnecting, WriterReady, SomebodyWatches, MessagesOfSession, timerVars, writerVars

-----------------------------------------------------------------------------
(* The writer *)

LEMMA WriterStartsThreads ==
  ASSUME Threads, WriterStarts
  PROVE  Threads'
<1>. USE DEF Threads
<1>1. OneConnect' /\ OldHarmless'
  BY EventsStay DEF WriterStarts, uiVars, timerVars
<1>2. ThreadTypes'
  BY DEF ThreadTypes, WriterStarts, uiVars, timerVars, connectServer
<1>. QED
  BY <1>1, <1>2 DEF WriterStarts, Disconnecting, WriterReady, SomebodyWatches, MessagesOfSession,
                    uiVars, timerVars

LEMMA WriterChecksThreads ==
  ASSUME Threads, WriterChecks
  PROVE  Threads'
<1>. USE DEF Threads
<1>1. OneConnect' /\ OldHarmless'
  BY EventsStay DEF WriterChecks, uiVars
<1>2. ThreadTypes'
  BY DEF ThreadTypes, WriterChecks, uiVars, connectServer
<1>3. ~canRun => ~attached
  BY DEF WriterChecks, WriterReady, Disconnecting, ThreadTypes
<1>. QED
  BY <1>1, <1>2, <1>3
     DEF WriterChecks, Disconnecting, WriterReady, SomebodyWatches, MessagesOfSession, uiVars

LEMMA WriterPopsThreads ==
  ASSUME Threads, WriterPops
  PROVE  Threads'
<1>. USE DEF Threads
<1>1. OneConnect' /\ OldHarmless'
  BY EventsStay DEF WriterPops, uiVars, timerVars
<1>2. CASE queue_send = <<>>
  <2>1. ThreadTypes'
    BY <1>2 DEF ThreadTypes, WriterPops, uiVars, timerVars, connectServer
  <2>. QED
    BY <1>1, <1>2, <2>1 DEF WriterPops, Disconnecting, WriterReady, SomebodyWatches,
                            MessagesOfSession, uiVars, timerVars
<1>3. CASE queue_send # <<>>
  <2>1. queue_send \in Seq(Nat) /\ queue_send' = Tail(queue_send) /\ hand' = Head(queue_send)
    BY <1>3 DEF ThreadTypes, WriterPops
  <2>2. /\ queue_send' \in Seq(Nat)
        /\ hand' \in Nat
        /\ 1 \in DOMAIN queue_send
        /\ hand' = queue_send[1]
        /\ \A i \in DOMAIN queue_send' :
              i + 1 \in DOMAIN queue_send /\ queue_send'[i] = queue_send[i + 1]
    BY <1>3, <2>1, EventTaken
  <2>3. MessagesOfSession'
    BY <2>2 DEF MessagesOfSession, WriterPops, uiVars
  <2>4. ThreadTypes'
    BY <1>3, <2>2 DEF ThreadTypes, WriterPops, uiVars, timerVars, connectServer
  <2>. QED
    BY <1>1, <1>3, <2>3, <2>4 DEF WriterPops, Disconnecting, WriterReady, SomebodyWatches,
                                  uiVars, timerVars
<1>. QED  BY <1>2, <1>3

LEMMA WriterPostsThreads ==
  ASSUME Threads, WriterPosts
  PROVE  Threads'
<1>. USE DEF Threads
<1>1. /\ events \in Seq(Nat \cup {connectServer})
      /\ hand \in Nat \cup {connectServer}
      /\ events' = Append(events, hand)
  BY DEF WriterPosts, ThreadTypes
<1>2. /\ events' \in Seq(Nat \cup {connectServer})
      /\ Len(events) \in Nat
      /\ DOMAIN events = 1..Len(events)
      /\ DOMAIN events' = 1..(Len(events) + 1)
      /\ \A i \in DOMAIN events : events'[i] = events[i]
      /\ events'[Len(events) + 1] = hand
  BY <1>1, EventAppended
<1>3. /\ \A i \in DOMAIN events' : i \in DOMAIN events \/ i = Len(events) + 1
      /\ hand # connectServer
  BY <1>2 DEF ThreadTypes, connectServer
<1>4. UNCHANGED <<ui, session, sock, rc>>
  BY DEF WriterPosts, uiVars, timerVars
<1>5. hand = session \/ ui = "waiting"
  BY DEF WriterPosts, MessagesOfSession
<1>6. OneConnect'
  <2>. SUFFICES ASSUME NEW i \in DOMAIN events', events'[i] = connectServer
                PROVE  /\ ui = "connecting"
                       /\ \A j \in DOMAIN events' : j > i => events'[j] = session
                       /\ \A j \in DOMAIN events' : events'[j] = connectServer => j = i
    BY <1>4 DEF OneConnect, connectServer
  <2>1. i \in DOMAIN events /\ events[i] = connectServer
    BY <1>2, <1>3
  <2>2. /\ ui = "connecting"
        /\ \A j \in DOMAIN events : j > i => events[j] = session
        /\ \A j \in DOMAIN events : events[j] = connectServer => j = i
    BY <2>1 DEF OneConnect
  <2>3. hand = session
    BY <1>5, <2>2
  <2>. QED  BY <1>2, <1>3, <2>2, <2>3
<1>7. OldHarmless'
  <2>1. CASE hand = session
    BY <1>2, <1>3, <1>4, <2>1 DEF OldHarmless, connectServer
  <2>2. CASE ui = "waiting"
    BY <1>4, <2>2 DEF OldHarmless, Disconnecting
  <2>. QED  BY <1>5, <2>1, <2>2
<1>8. ThreadTypes'
  BY <1>2 DEF ThreadTypes, WriterPosts, uiVars, timerVars, connectServer
<1>. QED
  BY <1>6, <1>7, <1>8 DEF WriterPosts, Disconnecting, WriterReady, SomebodyWatches,
                          MessagesOfSession, uiVars, timerVars

-----------------------------------------------------------------------------
(* The socket thread and the network *)

LEMMA ConnectServerThreads ==
  ASSUME Threads, ConnectServer
  PROVE  Threads'
<1>. USE DEF Threads
<1>1. /\ events' \in Seq(Nat \cup {connectServer})
      /\ ui = "connecting"
      /\ \A i \in DOMAIN events' : events'[i] = session /\ events'[i] # connectServer
  BY EventsTaken DEF ConnectServer
<1>2. session' = session /\ connectServer' = connectServer
  BY DEF ConnectServer, connectServer
<1>3. OneConnect' /\ OldHarmless'
  BY <1>1, <1>2 DEF OneConnect, OldHarmless
<1>4. ThreadTypes'
  BY <1>1, <1>2
     DEF ThreadTypes, ConnectServer, Connected, ErrorDetect, timerVars, connectServer
<1>5. MessagesOfSession'
  BY <1>1 DEF MessagesOfSession, ConnectServer
<1>6. CASE net \/ sock # "idle"
  BY <1>1, <1>3, <1>4, <1>5, <1>6
     DEF ConnectServer, Connected, ThreadTypes, Disconnecting, WriterReady, SomebodyWatches
<1>7. CASE ~(net \/ sock # "idle")
  BY <1>1, <1>3, <1>4, <1>5, <1>7
     DEF ConnectServer, ThreadTypes, Disconnecting, WriterReady, SomebodyWatches
<1>. QED  BY <1>6, <1>7

LEMMA SendDataThreads ==
  ASSUME Threads, SendData
  PROVE  Threads'
<1>. USE DEF Threads
<1>1. events' \in Seq(Nat \cup {connectServer}) /\ OneConnect' /\ OldHarmless'
  BY EventsTaken DEF SendData, uiVars, timerVars
<1>2. ThreadTypes'
  BY <1>1 DEF ThreadTypes, SendData, uiVars, timerVars, writerVars, connectServer
<1>. QED
  BY <1>1, <1>2 DEF SendData, Disconnecting, WriterReady, SomebodyWatches, MessagesOfSession,
                    uiVars, timerVars, writerVars

LEMMA HeartbeatThreads ==
  ASSUME Threads, Heartbeat
  PROVE  Threads'
<1>. USE DEF Threads
<1>1. (rc' => rc) \/ sock # "idle"
  BY DEF Heartbeat, timerVars
<1>2. OneConnect' /\ OldHarmless'
  BY <1>1, EventsStay DEF Heartbeat, uiVars
<1>3. ThreadTypes'
  BY DEF ThreadTypes, Heartbeat, uiVars, timerVars, writerVars, connectServer
<1>. QED
  BY <1>2, <1>3 DEF Heartbeat, Disconnecting, WriterReady, SomebodyWatches, MessagesOfSession,
                    uiVars, timerVars, writerVars

LEMMA HandleReconnectThreads ==
  ASSUME Threads, HandleReconnect
  PROVE  Threads'
<1>. USE DEF Threads
<1>1. OneConnect' /\ OldHarmless'
  BY EventsStay DEF HandleReconnect, Connected, uiVars, timerVars
<1>2. ThreadTypes'
  BY DEF ThreadTypes, HandleReconnect, Connected, uiVars, timerVars, writerVars, connectServer
<1>. QED
  BY <1>1, <1>2 DEF HandleReconnect, Connected, Disconnecting, WriterReady, SomebodyWatches,
                    MessagesOfSession, uiVars, timerVars, writerVars

LEMMA ReceiveThreads ==
  ASSUME Threads, Receive
  PROVE  Threads'
<1>. USE DEF Threads
<1>1. /\ UNCHANGED <<uiVars, thread, events, sock, writerVars>>
      /\ thread /\ sock # "idle"
  BY DEF Receive
<1>2. \/ UNCHANGED <<isConnected, hb, rc>>
      \/ isConnected' = TRUE /\ hb' = TRUE /\ rc' = FALSE
  BY DEF Receive, HandleOne, HandleAck, timerVars
<1>3. OneConnect' /\ OldHarmless'
  BY <1>1, <1>2, EventsStay DEF uiVars
<1>4. ThreadTypes'
  BY <1>1, <1>2 DEF ThreadTypes, uiVars, writerVars, connectServer
<1>. QED
  BY <1>1, <1>2, <1>3, <1>4 DEF Disconnecting, WriterReady, SomebodyWatches, MessagesOfSession,
                                uiVars, writerVars

LEMMA SocketErrorThreads ==
  ASSUME Threads, SocketError
  PROVE  Threads'
<1>. USE DEF Threads
<1>1. /\ UNCHANGED <<uiVars, thread, events, writerVars>>
      /\ thread /\ sock # "idle" /\ sock' = "idle"
      /\ ErrorDetect
  BY DEF SocketError
<1>2. OneConnect' /\ OldHarmless'
  BY <1>1, EventsStay DEF uiVars
<1>3. ThreadTypes'
  BY <1>1 DEF ThreadTypes, ErrorDetect, uiVars, timerVars, writerVars, connectServer
<1>. QED
  BY <1>1, <1>2, <1>3 DEF ErrorDetect, Disconnecting, WriterReady, SomebodyWatches,
                          MessagesOfSession, uiVars, timerVars, writerVars

LEMMA NetworkThreads ==
  ASSUME Threads, NetDown \/ NetUp \/ ServerSends
  PROVE  Threads'
<1>. USE DEF Threads
<1>1. /\ UNCHANGED <<uiVars, thread, events, timerVars, writerVars>>
      /\ sock' = sock \/ (sock = "up" /\ sock' = "dead")
  BY DEF NetDown, NetUp, ServerSends
<1>2. OneConnect' /\ OldHarmless'
  BY <1>1, EventsStay DEF uiVars, timerVars
<1>3. ThreadTypes'
  BY <1>1 DEF ThreadTypes, uiVars, timerVars, writerVars, connectServer
<1>. QED
  BY <1>1, <1>2, <1>3 DEF Disconnecting, WriterReady, SomebodyWatches, MessagesOfSession,
                          uiVars, timerVars, writerVars

-----------------------------------------------------------------------------
(* The invariant and what follows from it *)

LEMMA ThreadsInit == Init => Threads
<1>. SUFFICES ASSUME Init  PROVE Threads
  OBVIOUS
<1>1. DOMAIN events = {} /\ DOMAIN queue_send = {}
  BY DEF Init
<1>2. ThreadTypes
  BY EmptySeq DEF Init, ThreadTypes
<1>3. OneConnect /\ OldHarmless /\ MessagesOfSession
  BY <1>1 DEF Init, OneConnect, OldHarmless, MessagesOfSession
<1>4. Disconnecting /\ WriterReady /\ SomebodyWatches
  BY DEF Init, Disconnecting, WriterReady, SomebodyWatches
<1>. QED  BY <1>2, <1>3, <1>4 DEF Threads

LEMMA ThreadsNext ==
  ASSUME Waits, Threads, [Next]_vars
  PROVE  Threads'
<1>1. CASE UNCHANGED vars
  BY <1>1 DEF vars, uiVars, timerVars, writerVars, Threads, ThreadTypes, Disconnecting, WriterReady,
              SomebodyWatches, MessagesOfSession, OneConnect, OldHarmless, connectServer
<1>2. CASE Ui
  BY <1>2, ConnectThreads, PushThreads, DisconnectThreads, ThreadFinishedThreads, ClearedThreads,
     WaitedThreads DEF Ui
<1>3. CASE Writer
  BY <1>3, WriterStartsThreads, WriterChecksThreads, WriterPopsThreads, WriterPostsThreads DEF Writer
<1>4. CASE SockThread
  BY <1>4, ConnectServerThreads, SendDataThreads, HeartbeatThreads, HandleReconnectThreads,
     ReceiveThreads, SocketErrorThreads DEF SockThread
<1>5. CASE NetDown \/ NetUp \/ ServerSends
  BY <1>5, NetworkThreads
<1>. QED  BY <1>1, <1>2, <1>3, <1>4, <1>5 DEF Next

LEMMA ThreadsAlways ==
  ASSUME Waits
  PROVE  Spec => []Threads
<1>1. Init => Threads
  BY ThreadsInit
<1>2. Threads /\ [Next]_vars => Threads'
  BY ThreadsNext
<1>. QED  BY <1>1, <1>2, PTL DEF Spec

\* A connection the window believes in is watched over by one of the two timers,
\* although three threads start and stop them.
THEOREM Watched ==
  ASSUME Waits
  PROVE  Spec => []SomebodyWatches
<1>1. Threads => SomebodyWatches
  BY DEF Threads
<1>. QED  BY <1>1, ThreadsAlways, PTL

\* A connection that has been announced has a writer.  This is where the window's
\* wait() is needed: a writer that has been told to stop and has not stopped is
\* not started again.
THEOREM HasWriter ==
  ASSUME Waits
  PROVE  Spec => []AttachedHasWriter
<1>1. Threads => AttachedHasWriter
  BY DEF Threads, ThreadTypes, Disconnecting, WriterReady, AttachedHasWriter
<1>. QED  BY <1>1, ThreadsAlways, PTL

\* No message outlives its connection, whatever the number of messages under way
\* and in whatever step of the writer disconnectFromHost finds it.
THEOREM NothingLate ==
  ASSUME Waits
  PROVE  Spec => NothingSentLate
<1>1. Threads /\ [Next]_vars => [SendData /\ sock = "up" => Head(events) = session]_vars
  <2>. SUFFICES ASSUME Threads, SendData, sock = "up"  PROVE Head(events) = session
    OBVIOUS
  <2>1. events \in Seq(Nat \cup {connectServer}) /\ events # <<>>
    BY DEF Threads, ThreadTypes, SendData
  <2>2. 1 \in DOMAIN events /\ Head(events) = events[1]
    BY <2>1, EventTaken
  <2>. QED  BY <2>2 DEF Threads, OldHarmless, SendData
<1>. QED  BY <1>1, ThreadsAlways, PTL DEF Spec, NothingSentLate

-----------------------------------------------------------------------------
(* What comes from the server, in whichever order the threads run *)

\* Of h packets handled and m sent those in b come in the order sent.
InOrder(b, h, m) ==
    /\ \A i \in 1..Len(b) : b[i] # 0 => h < b[i] /\ b[i] <= m
    /\ \A i, j \in 1..Len(b) : i < j /\ b[j] # 0 => b[i] < b[j]

\* And none is missing.
Whole(b, h, m) == \A p \in h + 1..m : \E i \in 1..Len(b) : b[i] = p

\* An ack, or the next packet, at the end.
LEMMA OrderAppend ==
  ASSUME NEW b \in Seq(Nat), NEW h \in Nat, NEW m \in Nat, h <= m, InOrder(b, h, m)
  PROVE  /\ InOrder(Append(b, 0), h, m)
         /\ InOrder(Append(b, m + 1), h, m + 1)
         /\ Whole(b, h, m) => Whole(Append(b, 0), h, m) /\ Whole(Append(b, m + 1), h, m + 1)
<1>1. Len(b) \in Nat /\ \A i \in 1..Len(b) : b[i] \in Nat
  OBVIOUS
<1>2. ASSUME NEW e \in Nat
      PROVE  /\ Len(Append(b, e)) = Len(b) + 1
             /\ \A i \in 1..Len(b) : Append(b, e)[i] = b[i] /\ i \in 1..Len(Append(b, e))
             /\ Len(b) + 1 \in 1..Len(Append(b, e)) /\ Append(b, e)[Len(b) + 1] = e
             /\ \A i \in 1..Len(Append(b, e)) : i \in 1..Len(b) \/ i = Len(b) + 1
  BY <1>1, AppendProperties
<1>3. InOrder(Append(b, 0), h, m)
  BY <1>1, <1>2 DEF InOrder
<1>4. InOrder(Append(b, m + 1), h, m + 1)
  <2>. DEFINE c == Append(b, m + 1)
  <2>1. /\ Len(c) = Len(b) + 1 /\ c[Len(b) + 1] = m + 1
        /\ \A i \in 1..Len(b) : c[i] = b[i]
        /\ \A i \in 1..Len(c) : i \in 1..Len(b) \/ i = Len(b) + 1
    BY <1>2
  <2>2. \A i \in 1..Len(b) : b[i] <= m
    BY <1>1 DEF InOrder
  <2>. HIDE DEF c
  <2>3. \A i \in 1..Len(c) : c[i] # 0 => h < c[i] /\ c[i] <= m + 1
    BY <1>1, <2>1 DEF InOrder
  <2>4. ASSUME NEW i \in 1..Len(c), NEW j \in 1..Len(c), i < j, c[j] # 0
        PROVE  c[i] < c[j]
    <3>1. i \in 1..Len(b) /\ c[i] = b[i]
      BY <1>1, <2>1, <2>4
    <3>2. CASE j \in 1..Len(b)
      BY <2>1, <2>4, <3>1, <3>2 DEF InOrder
    <3>3. CASE j = Len(b) + 1
      BY <1>1, <2>1, <2>2, <3>1, <3>3
    <3>. QED  BY <2>1, <3>2, <3>3
  <2>5. InOrder(c, h, m + 1)
    BY <2>3, <2>4 DEF InOrder
  <2>. QED  BY <2>5 DEF c
<1>5. ASSUME Whole(b, h, m), NEW e \in Nat, NEW p \in h + 1..m
      PROVE  \E i \in 1..Len(Append(b, e)) : Append(b, e)[i] = p
  <2>1. PICK i \in 1..Len(b) : b[i] = p
    BY <1>5 DEF Whole
  <2>. QED  BY <1>2, <2>1
<1>6. Whole(b, h, m) => Whole(Append(b, 0), h, m)
  BY <1>5 DEF Whole
<1>7. Whole(b, h, m) => Whole(Append(b, m + 1), h, m + 1)
  <2>. SUFFICES ASSUME Whole(b, h, m), NEW p \in h + 1..m + 1
                PROVE  \E i \in 1..Len(Append(b, m + 1)) : Append(b, m + 1)[i] = p
    BY DEF Whole
  <2>1. p \in h + 1..m \/ p = m + 1
    OBVIOUS
  <2>. QED  BY <1>2, <1>5, <2>1
<1>. QED  BY <1>3, <1>4, <1>6, <1>7

\* The first packet has been handled, or an ack.
LEMMA OrderTail ==
  ASSUME NEW b \in Seq(Nat), b # <<>>, NEW h \in Nat, NEW m \in Nat, h <= m, InOrder(b, h, m)
  PROVE  /\ Head(b) = 0 => /\ InOrder(Tail(b), h, m)
                           /\ Whole(b, h, m) => Whole(Tail(b), h, m)
         /\ Head(b) # 0 => /\ h + 1 <= m /\ InOrder(Tail(b), h + 1, m)
                           /\ Whole(b, h, m) => Whole(Tail(b), h + 1, m)
<1>. DEFINE t == Tail(b)
<1>1. /\ Len(b) \in Nat /\ 1 \in 1..Len(b) /\ Head(b) = b[1] /\ Len(t) = Len(b) - 1
      /\ \A i \in 1..Len(t) : t[i] = b[i + 1] /\ i + 1 \in 1..Len(b) /\ 1 < i + 1
      /\ \A i \in 1..Len(b) : i # 1 => i - 1 \in 1..Len(t) /\ t[i - 1] = b[i] /\ 1 < i
      /\ \A i \in 1..Len(b) : b[i] \in Nat
  OBVIOUS
<1>. HIDE DEF t
<1>2. \A i, j \in 1..Len(t) : i < j => i + 1 < j + 1
  OBVIOUS
<1>3. ASSUME NEW k \in Nat, \A i \in 1..Len(t) : t[i] # 0 => k < t[i]
      PROVE  InOrder(t, k, m)
  <2>1. \A i \in 1..Len(t) : t[i] # 0 => t[i] <= m
    BY <1>1 DEF InOrder
  <2>2. ASSUME NEW i \in 1..Len(t), NEW j \in 1..Len(t), i < j, t[j] # 0  PROVE t[i] < t[j]
    BY <1>1, <1>2, <2>2 DEF InOrder
  <2>. QED  BY <1>3, <2>1, <2>2 DEF InOrder
<1>4. ASSUME NEW k \in Nat, h <= k, Whole(b, h, m), \A p \in k + 1..m : b[1] # p
      PROVE  Whole(t, k, m)
  <2>. SUFFICES ASSUME NEW p \in k + 1..m  PROVE \E i \in 1..Len(t) : t[i] = p
    BY DEF Whole
  <2>1. p \in h + 1..m
    BY <1>4
  <2>2. PICK i \in 1..Len(b) : b[i] = p
    BY <1>4, <2>1 DEF Whole
  <2>3. i # 1
    BY <1>4, <2>2
  <2>. QED  BY <1>1, <2>2, <2>3
<1>5. ASSUME b[1] = 0  PROVE InOrder(t, h, m) /\ (Whole(b, h, m) => Whole(t, h, m))
  <2>1. \A i \in 1..Len(t) : t[i] # 0 => h < t[i]
    BY <1>1 DEF InOrder
  <2>2. \A p \in h + 1..m : b[1] # p
    BY <1>5
  <2>. QED  BY <1>3, <1>4, <2>1, <2>2
<1>6. ASSUME b[1] # 0
      PROVE  /\ h + 1 <= m /\ InOrder(t, h + 1, m)
             /\ Whole(b, h, m) => Whole(t, h + 1, m)
  <2>1. h < b[1] /\ b[1] <= m /\ b[1] \in Nat
    BY <1>1, <1>6 DEF InOrder
  <2>2. \A i \in 1..Len(b) : i # 1 /\ b[i] # 0 => b[1] < b[i]
    BY <1>1 DEF InOrder
  <2>3. \A i \in 1..Len(t) : t[i] # 0 => h + 1 < t[i]
    <3>. SUFFICES ASSUME NEW i \in 1..Len(t), t[i] # 0  PROVE h + 1 < t[i]
      OBVIOUS
    <3>1. i + 1 \in 1..Len(b) /\ i + 1 # 1 /\ t[i] = b[i + 1] /\ t[i] \in Nat
      BY <1>1
    <3>. QED  BY <2>1, <2>2, <3>1
  <2>4. ASSUME Whole(b, h, m)  PROVE b[1] = h + 1
    <3>1. h + 1 \in h + 1..m
      BY <2>1
    <3>2. PICK i \in 1..Len(b) : b[i] = h + 1
      BY <2>4, <3>1 DEF Whole
    <3>3. i # 1 => b[1] < b[i]
      BY <2>2, <3>2
    <3>. QED  BY <2>1, <3>2, <3>3
  <2>5. ASSUME Whole(b, h, m)  PROVE \A p \in h + 2..m : b[1] # p
    BY <2>4, <2>5
  <2>6. h + 1 \in Nat /\ h <= h + 1 /\ (h + 1) + 1 = h + 2
    OBVIOUS
  <2>. QED  BY <1>3, <1>4, <2>1, <2>3, <2>5, <2>6
<1>. QED  BY <1>1, <1>5, <1>6 DEF t

\* Where the elements of two sequences are when they are put together.
LEMMA JoinedAt ==
  ASSUME NEW S, NEW s \in Seq(S), NEW t \in Seq(S)
  PROVE  /\ s \o t \in Seq(S) /\ Len(s) \in Nat /\ Len(t) \in Nat
         /\ Len(s \o t) = Len(s) + Len(t)
         /\ \A i \in 1..Len(s) : i \in 1..Len(s \o t) /\ (s \o t)[i] = s[i]
         /\ \A i \in 1..Len(t) : Len(s) + i \in 1..Len(s \o t) /\ (s \o t)[Len(s) + i] = t[i]
         /\ \A i \in 1..Len(s \o t) : i \in 1..Len(s) \/ i - Len(s) \in 1..Len(t)
         /\ \A i \in 1..Len(s \o t) :
              (s \o t)[i] = IF i <= Len(s) THEN s[i] ELSE t[i - Len(s)]
<1>1. /\ s \o t \in Seq(S) /\ Len(s) \in Nat /\ Len(t) \in Nat
      /\ Len(s \o t) = Len(s) + Len(t)
      /\ \A i \in 1..Len(s) + Len(t) :
           (s \o t)[i] = IF i <= Len(s) THEN s[i] ELSE t[i - Len(s)]
  BY ConcatProperties
<1>. QED  BY <1>1

\* Leaving out the beginning of what is behind a sequence keeps the order.
LEMMA OrderSkip ==
  ASSUME NEW s \in Seq(Nat), NEW t \in Seq(Nat), NEW h \in Nat, NEW m \in Nat,
         InOrder(s \o t, h, m), NEW k \in 0..Len(t)
  PROVE  /\ SubSeq(t, k + 1, Len(t)) \in Seq(Nat)
         /\ InOrder(s \o SubSeq(t, k + 1, Len(t)), h, m)
<1>. DEFINE u == SubSeq(t, k + 1, Len(t))
            b == s \o t
            c == s \o u
            n == Len(s)
<1>1. Len(t) \in Nat /\ \A i \in k + 1..Len(t) : t[i] \in Nat
  OBVIOUS
<1>2. /\ u \in Seq(Nat) /\ Len(u) = Len(t) - k
      /\ \A i \in 1..Len(u) : u[i] = t[k + i] /\ k + i \in 1..Len(t)
  <2>1. /\ u \in Seq(Nat)
        /\ Len(u) = IF k + 1 <= Len(t) THEN Len(t) - (k + 1) + 1 ELSE 0
        /\ \A i \in 1..Len(t) - (k + 1) + 1 : u[i] = t[k + 1 + i - 1]
    BY <1>1, SubSeqProperties
  <2>2. Len(u) = Len(t) - k
    BY <1>1, <2>1
  <2>3. ASSUME NEW i \in 1..Len(u)  PROVE u[i] = t[k + i] /\ k + i \in 1..Len(t)
    <3>1. i \in 1..Len(t) - (k + 1) + 1 /\ k + 1 + i - 1 = k + i
      BY <1>1, <2>2
    <3>. QED  BY <1>1, <2>1, <2>2, <3>1
  <2>. QED  BY <2>1, <2>2, <2>3
<1>. HIDE DEF u
<1>3. /\ n \in Nat /\ Len(b) = n + Len(t)
      /\ \A i \in 1..Len(b) : b[i] = IF i <= n THEN s[i] ELSE t[i - n]
  BY JoinedAt
<1>4. /\ Len(c) = n + Len(u)
      /\ \A i \in 1..Len(c) : c[i] = IF i <= n THEN s[i] ELSE u[i - n]
  BY <1>2, JoinedAt
<1>. DEFINE f(i) == IF i <= n THEN i ELSE i + k
<1>. HIDE DEF b, c, n
<1>5. ASSUME NEW i \in 1..Len(c)  PROVE f(i) \in 1..Len(b) /\ c[i] = b[f(i)]
  <2>1. i \in Nat \ {0} /\ i <= n + Len(u) /\ Len(u) = Len(t) - k
    BY <1>1, <1>2, <1>3, <1>4
  <2>2. CASE i <= n
    <3>1. f(i) = i /\ i \in 1..Len(b)
      BY <1>1, <1>3, <2>1, <2>2
    <3>2. c[i] = s[i] /\ b[i] = s[i]
      BY <1>3, <1>4, <2>2, <3>1
    <3>. QED  BY <3>1, <3>2
  <2>3. CASE i > n
    <3>1. /\ ~(i <= n) /\ f(i) = i + k /\ ~(i + k <= n)
          /\ i - n \in 1..Len(u) /\ i + k \in 1..Len(b) /\ k + (i - n) = (i + k) - n
      BY <1>1, <1>3, <2>1, <2>3
    <3>2. c[i] = u[i - n] /\ u[i - n] = t[k + (i - n)]
      BY <1>2, <1>4, <3>1
    <3>3. b[i + k] = t[(i + k) - n]
      BY <1>3, <3>1
    <3>. QED  BY <3>1, <3>2, <3>3
  <2>. QED  BY <1>3, <2>1, <2>2, <2>3
<1>6. ASSUME NEW i \in 1..Len(c), NEW j \in 1..Len(c), i < j  PROVE f(i) < f(j)
  BY <1>3, <1>6
<1>. HIDE DEF f
<1>7. InOrder(b, h, m)
  BY DEF b
<1>8. InOrder(c, h, m)
  BY <1>5, <1>6, <1>7 DEF InOrder
<1>. QED  BY <1>2, <1>8 DEF c, u

\* What is sent, on the line, in recvbuf and handled belongs together: nothing is
\* overtaken or doubled at any time, and nothing is missing before a loss.
PacketInv ==
    /\ line \in Seq(Packets) /\ recvbuf \in Seq(Packets)
    /\ made \in Packets /\ handled \in Packets /\ handled <= made
    /\ torn \in 0..MaxTorn /\ lost \in BOOLEAN
    /\ InOrder(recvbuf \o line, handled, made)
    /\ ~lost => torn = 0 /\ Whole(recvbuf \o line, handled, made)

LEMMA PacketTypes ==
  ASSUME PacketInv
  PROVE  /\ 0 \in Packets /\ Packets \subseteq Nat /\ handled \in Nat /\ made \in Nat
         /\ line \in Seq(Nat) /\ recvbuf \in Seq(Nat)
         /\ recvbuf \o line \in Seq(Nat) /\ recvbuf \o line \in Seq(Packets)
         /\ recvbuf \o <<>> = recvbuf
<1>1. /\ 0 \in Packets /\ Packets \subseteq Nat /\ handled \in Nat /\ made \in Nat
      /\ line \in Seq(Nat) /\ recvbuf \in Seq(Nat)
  BY ConnectionAssumption DEF PacketInv, Packets
<1>2. recvbuf \o line \in Seq(Nat)
  BY <1>1, ConcatProperties
<1>3. recvbuf \o line \in Seq(Packets)
  BY ConcatProperties DEF PacketInv
<1>. QED  BY <1>1, <1>2, <1>3, ConcatEmptySeq

\* Without the acks and the packets on the line the order stays.
LEMMA OrderDropped ==
  ASSUME PacketInv
  PROVE  /\ InOrder(recvbuf \o <<>>, handled, made)
         /\ line = <<>> /\ ~lost => Whole(recvbuf \o <<>>, handled, made)
<1>1. /\ line \in Seq(Nat) /\ recvbuf \in Seq(Nat) /\ handled \in Nat /\ made \in Nat
      /\ Len(line) \in 0..Len(line)
  BY ConnectionAssumption DEF PacketInv, Packets
<1>2. InOrder(recvbuf \o SubSeq(line, Len(line) + 1, Len(line)), handled, made)
  BY <1>1, OrderSkip DEF PacketInv
<1>3. SubSeq(line, Len(line) + 1, Len(line)) = <<>>
  <2>1. Len(line) + 1 \in Int /\ Len(line) \in Int /\ Len(line) < Len(line) + 1
    BY <1>1
  <2>. QED  BY <2>1, SubSeqEmpty
<1>. QED  BY <1>2, <1>3 DEF PacketInv

\* An ack is put on the line, if the server hears.
LEMMA AckPackets ==
  ASSUME PacketInv, line' = Acked(line), UNCHANGED <<recvbuf, torn, made, handled, lost>>
  PROVE  PacketInv'
<1>1. CASE sock' # "up"
  BY <1>1 DEF Acked, PacketInv, Packets
<1>2. CASE sock' = "up"
  <2>1. line' = Append(line, 0) /\ 0 \in Packets
    BY <1>2, ConnectionAssumption DEF Acked, Packets
  <2>2. line' \in Seq(Packets)
    BY <2>1 DEF PacketInv
  <2>3. recvbuf \o line' = Append(recvbuf \o line, 0)
    BY <2>1, AppendIsConcat, ConcatAssociative DEF PacketInv
  <2>4. recvbuf \o line \in Seq(Nat) /\ handled \in Nat /\ made \in Nat
    BY PacketTypes
  <2>. QED  BY <2>2, <2>3, <2>4, OrderAppend DEF PacketInv, Packets
<1>. QED  BY <1>1, <1>2

\* The server sends its next packet.
LEMMA SendPackets ==
  ASSUME PacketInv, ServerSends
  PROVE  PacketInv'
<1>1. /\ line' = Append(line, made + 1) /\ made' = made + 1 /\ made + 1 \in Packets
      /\ UNCHANGED <<recvbuf, torn, handled, lost>>
  BY ConnectionAssumption DEF ServerSends, PacketInv, Packets
<1>2. line' \in Seq(Packets)
  BY <1>1 DEF PacketInv
<1>3. recvbuf \o line' = Append(recvbuf \o line, made + 1)
  BY <1>1, AppendIsConcat, ConcatAssociative DEF PacketInv
<1>4. recvbuf \o line \in Seq(Nat) /\ handled \in Nat /\ made \in Nat
  BY PacketTypes
<1>5. handled <= made + 1
  BY <1>4 DEF PacketInv
<1>. QED  BY <1>1, <1>2, <1>3, <1>4, <1>5, OrderAppend DEF PacketInv, Packets

\* A connection goes, and what is on the line with it.
LEMMA DropPackets ==
  ASSUME PacketInv, DropLine
  PROVE  PacketInv'
<1>1. /\ line' = <<>> /\ torn' \in 0..MaxTorn /\ lost' = (lost \/ line # <<>>)
      /\ line = <<>> => torn' = torn
      /\ UNCHANGED <<recvbuf, made, handled>>
  BY DEF DropLine, PacketInv
<1>2. line' \in Seq(Packets) /\ lost' \in BOOLEAN /\ (~lost' => ~lost /\ line = <<>>)
  BY <1>1, EmptySeq DEF PacketInv
<1>3. InOrder(recvbuf' \o line', handled', made')
  BY <1>1, OrderDropped
<1>4. ~lost' => torn' = 0 /\ Whole(recvbuf' \o line', handled', made')
  BY <1>1, <1>2, OrderDropped DEF PacketInv
<1>. QED  BY <1>1, <1>2, <1>3, <1>4 DEF PacketInv, Packets

\* handleReconnect: the same, and an ack on the new line.
LEMMA ReconnectPackets ==
  ASSUME PacketInv, HandleReconnect
  PROVE  PacketInv'
<1>1. CASE UNCHANGED recvVars
  BY <1>1 DEF recvVars, PacketInv, Packets
<1>2. CASE ~UNCHANGED recvVars
  <2>1. /\ line' = Acked(<<>>)
        /\ torn' \in 0..MaxTorn /\ lost' = (lost \/ line # <<>>)
        /\ line = <<>> => torn' = torn
        /\ UNCHANGED <<recvbuf, made, handled>>
    BY <1>2 DEF HandleReconnect, PacketInv
  <2>2. line' = <<>> \/ line' = <<0>>
    BY <2>1 DEF Acked
  <2>3. CASE line' = <<>>
    <3>1. line' \in Seq(Packets) /\ lost' \in BOOLEAN /\ (~lost' => ~lost /\ line = <<>>)
      BY <2>1, <2>3, EmptySeq DEF PacketInv
    <3>2. InOrder(recvbuf' \o line', handled', made')
      BY <2>1, <2>3, OrderDropped
    <3>3. ~lost' => torn' = 0 /\ Whole(recvbuf' \o line', handled', made')
      BY <2>1, <2>3, <3>1, OrderDropped DEF PacketInv
    <3>. QED  BY <2>1, <3>1, <3>2, <3>3 DEF PacketInv, Packets
  <2>4. CASE line' = <<0>>
    <3>1. recvbuf \o line' = Append(recvbuf \o <<>>, 0)
      BY <2>4, AppendIsConcat, ConcatEmptySeq DEF PacketInv
    <3>2. recvbuf \o <<>> \in Seq(Nat) /\ handled \in Nat /\ made \in Nat /\ 0 \in Packets
      BY PacketTypes
    <3>3. InOrder(recvbuf \o line', handled, made)
      BY <3>1, <3>2, OrderDropped, OrderAppend DEF PacketInv
    <3>4. ~lost' => Whole(recvbuf \o line', handled, made)
      BY <2>1, <3>1, <3>2, OrderDropped, OrderAppend DEF PacketInv
    <3>5. line' \in Seq(Packets)
      BY <2>4, <3>2
    <3>. QED  BY <2>1, <3>3, <3>4, <3>5 DEF PacketInv, Packets
  <2>. QED  BY <2>2, <2>3, <2>4
<1>. QED  BY <1>1, <1>2

\* recvFromSocket: all that has arrived is read and the first packet handled.
LEMMA ReceivePackets ==
  ASSUME PacketInv, Receive
  PROVE  PacketInv'
<1>. DEFINE k == Smaller(torn, Len(line))
            rest == SubSeq(line, k + 1, Len(line))
            buf == recvbuf \o rest
<1>1. /\ line \in Seq(Nat) /\ recvbuf \in Seq(Nat) /\ handled \in Nat /\ made \in Nat
      /\ Len(line) \in Nat /\ torn \in Nat /\ k \in 0..Len(line) /\ torn - k \in 0..MaxTorn
      /\ torn = 0 => k = 0
  <2>1. /\ line \in Seq(Nat) /\ recvbuf \in Seq(Nat) /\ handled \in Nat /\ made \in Nat
        /\ torn \in Nat /\ torn <= MaxTorn
    BY ConnectionAssumption DEF PacketInv, Packets
  <2>2. Len(line) \in Nat
    BY <2>1
  <2>. QED  BY <2>1, <2>2, ConnectionAssumption DEF Smaller
<1>2. /\ line' = <<>> /\ torn' = torn - k /\ HandleOne(buf) /\ UNCHANGED <<made, lost>>
  BY DEF Receive
<1>3. rest \in Seq(Nat) /\ InOrder(buf, handled, made)
  BY <1>1, OrderSkip DEF PacketInv
<1>4. ~lost => buf = recvbuf \o line
  <2>. SUFFICES ASSUME ~lost  PROVE rest = line
    OBVIOUS
  <2>1. k + 1 = 1
    BY <1>1 DEF PacketInv
  <2>2. rest = SubSeq(line, 1, Len(line))
    BY <2>1
  <2>. QED  BY <1>1, <2>2, SubSeqFull
<1>5. buf \in Seq(Packets)
  <2>1. \A i \in k + 1..Len(line) : line[i] \in Packets
    BY <1>1 DEF PacketInv
  <2>2. rest \in Seq(Packets)
    BY <1>1, <2>1, SubSeqProperties
  <2>. QED  BY <2>2, ConcatProperties DEF PacketInv
<1>6. buf \in Seq(Nat)
  BY <1>1, <1>3, ConcatProperties
<1>. HIDE DEF rest, k
<1>7. ASSUME recvbuf' \in Seq(Packets), handled' \in Packets, handled' <= made,
             InOrder(recvbuf', handled', made),
             ~lost => Whole(recvbuf', handled', made)
      PROVE  PacketInv'
  <2>1. recvbuf' \o line' = recvbuf'
    BY <1>2, <1>7, ConcatEmptySeq
  <2>. QED  BY <1>1, <1>2, <1>7, <2>1 DEF PacketInv, Packets
<1>8. ~lost => Whole(buf, handled, made)
  BY <1>4 DEF PacketInv
<1>. HIDE DEF buf
<1>9. CASE buf = <<>>
  <2>1. recvbuf' = buf /\ handled' = handled
    BY <1>2, <1>9 DEF HandleOne
  <2>. QED  BY <1>3, <1>5, <1>7, <1>8, <2>1 DEF PacketInv
<1>10. CASE buf # <<>>
  <2>1. recvbuf' = Tail(buf) /\ Tail(buf) \in Seq(Packets)
    BY <1>2, <1>5, <1>10 DEF HandleOne
  <2>2. CASE Head(buf) = 0
    <3>1. handled' = handled
      BY <1>2, <1>10, <2>2 DEF HandleOne, HandleAck
    <3>2. /\ InOrder(Tail(buf), handled, made)
          /\ Whole(buf, handled, made) => Whole(Tail(buf), handled, made)
      BY <1>1, <1>3, <1>6, <1>10, <2>2, OrderTail DEF PacketInv
    <3>. QED  BY <1>7, <1>8, <2>1, <3>1, <3>2 DEF PacketInv
  <2>3. CASE Head(buf) # 0
    <3>1. handled' = handled + 1
      BY <1>2, <1>10, <2>3 DEF HandleOne
    <3>2. /\ handled + 1 <= made /\ InOrder(Tail(buf), handled + 1, made)
          /\ Whole(buf, handled, made) => Whole(Tail(buf), handled + 1, made)
      BY <1>1, <1>3, <1>6, <1>10, <2>3, OrderTail DEF PacketInv
    <3>3. handled + 1 \in Packets
      BY <1>1, <3>2, ConnectionAssumption DEF PacketInv, Packets
    <3>. QED  BY <1>7, <1>8, <2>1, <3>1, <3>2, <3>3
  <2>. QED  BY <2>2, <2>3
<1>. QED  BY <1>9, <1>10

LEMMA PacketStep ==
  ASSUME PacketInv, [Next]_vars
  PROVE  PacketInv'
<1>1. ASSUME UNCHANGED recvVars  PROVE PacketInv'
  BY <1>1 DEF recvVars, PacketInv, Packets
<1>2. CASE Connect \/ Push \/ Disconnect \/ Cleared \/ Waited
  BY <1>1, <1>2 DEF Connect, Push, Disconnect, Cleared, Waited
<1>3. CASE Writer \/ ConnectServer \/ SendData
  BY <1>1, <1>3 DEF Writer, WriterStarts, WriterChecks, WriterPops, WriterPosts, ConnectServer,
     SendData
<1>4. CASE Heartbeat
  <2>1. line' \in {line, Acked(line)} /\ UNCHANGED <<recvbuf, torn, made, handled, lost>>
    BY <1>4 DEF Heartbeat
  <2>. QED  BY <1>1, <2>1, AckPackets DEF recvVars
<1>5. CASE ThreadFinished \/ SocketError
  BY <1>5, DropPackets DEF ThreadFinished, SocketError
<1>6. CASE NetDown \/ NetUp \/ UNCHANGED vars
  BY <1>1, <1>6 DEF NetDown, NetUp, vars
<1>. QED  BY <1>2, <1>3, <1>4, <1>5, <1>6, ReconnectPackets, ReceivePackets, SendPackets
          DEF Next, Ui, SockThread

LEMMA PacketInit == Init => PacketInv
<1>. SUFFICES ASSUME Init  PROVE PacketInv
  OBVIOUS
<1>1. line = <<>> /\ recvbuf = <<>> /\ made = 0 /\ handled = 0 /\ torn = 0 /\ ~lost /\ lost \in BOOLEAN
  BY DEF Init
<1>2. recvbuf \o line = <<>> /\ Len(<<>>) = 0
  BY <1>1, ConcatEmptySeq, EmptySeq
<1>3. InOrder(<<>>, 0, 0) /\ Whole(<<>>, 0, 0)
  BY <1>2 DEF InOrder, Whole
<1>. QED  BY <1>1, <1>2, <1>3, ConnectionAssumption DEF PacketInv, Packets

\* Until a connection is lost, nothing the server sends is lost, doubled or
\* overtaken (recvFromSocket, mytcpsocket.cpp:770-1000), for any number of packets,
\* however they are cut into reads, and whether or not the window waits.
THEOREM NothingSkipped == Spec => []PacketsComeThrough
<1>1. Spec => []PacketInv
  BY PacketInit, PacketStep, PTL DEF Spec
<1>2. PacketInv => PacketsComeThrough
  <2>. SUFFICES ASSUME PacketInv, ~lost, NEW buf, buf = recvbuf \o line
                PROVE  /\ {buf[i] : i \in DOMAIN buf} \ {0} = handled + 1..made
                       /\ \A i, j \in DOMAIN buf : i < j /\ buf[j] # 0 => buf[i] < buf[j]
    BY DEF PacketsComeThrough
  <2>1. /\ buf \in Seq(Packets) /\ DOMAIN buf = 1..Len(buf) /\ \A i \in 1..Len(buf) : buf[i] \in Packets
        /\ handled \in Nat /\ made \in Nat
    BY ConcatProperties, ConnectionAssumption DEF PacketInv, Packets
  <2>2. InOrder(buf, handled, made) /\ Whole(buf, handled, made)
    BY DEF PacketInv
  <2>3. \A p \in {buf[i] : i \in DOMAIN buf} \ {0} : p \in handled + 1..made
    BY <2>1, <2>2 DEF InOrder, Packets
  <2>4. \A p \in handled + 1..made : p \in {buf[i] : i \in DOMAIN buf} \ {0}
    <3>. SUFFICES ASSUME NEW p \in handled + 1..made  PROVE p \in {buf[i] : i \in DOMAIN buf} \ {0}
      OBVIOUS
    <3>1. PICK i \in 1..Len(buf) : buf[i] = p
      BY <2>2 DEF Whole
    <3>2. p # 0
      BY <2>1
    <3>. QED  BY <2>1, <3>1, <3>2
  <2>. QED  BY <2>1, <2>2, <2>3, <2>4 DEF InOrder
<1>. QED  BY <1>1, <1>2, PTL

-----------------------------------------------------------------------------
(* Types *)

Requests == Sessions \cup {connectServer}

\* The types of what has nothing to do with packets from the server.
CallTypes ==
    /\ ui \in {"free", "connecting", "quitting", "clearing", "waiting"}
    /\ attached \in BOOLEAN /\ session \in Nat /\ connects \in 0..MaxConnects
    /\ thread \in BOOLEAN /\ sock \in {"idle", "up", "dead"}
    /\ events \in Seq(Requests)
    /\ isConnected \in BOOLEAN /\ hb \in BOOLEAN /\ rc \in BOOLEAN
    /\ interval \in 1..MaxInterval /\ beats \in 0..2
    /\ canRun \in BOOLEAN /\ writer \in {"off", "start", "check", "pop", "post"}
    /\ hand \in Sessions /\ queue_send \in Seq(Sessions)
    /\ net \in BOOLEAN /\ outages \in 0..MaxOutages

\* Every disconnectFromHost has had a connectToServer of its own: the thread
\* that it stops was started by one.
Paired ==
    /\ session + (IF thread \/ ui = "clearing" THEN 1 ELSE 0) <= connects
    /\ ui \in {"connecting", "quitting"} => thread
    /\ ui = "clearing" => ~thread

\* A thread that has ended leaves nothing behind.
Ended == ~thread => sock = "idle" /\ ~hb /\ ~rc /\ line = <<>>

\* The user interface waits for connectServer while it is queued, once.
Asked ==
    /\ ui = "connecting" => \E i \in 1..Len(events) : events[i] = connectServer
    /\ \A i \in 1..Len(events) : events[i] = connectServer =>
         /\ ui = "connecting"
         /\ \A j \in 1..Len(events) : events[j] = connectServer => j = i

CallInv == CallTypes /\ Paired /\ Ended /\ Asked

LEMMA SessionsOfCalls ==
  ASSUME CallInv
  PROVE  session \in Sessions /\ (ui = "clearing" => session + 1 \in Sessions)
BY ConnectionAssumption DEF CallInv, CallTypes, Paired, Sessions

\* What is asked for stays the same as long as the queue and the user interface do.
LEMMA AskedFrame ==
  ASSUME Asked, events' = events, ui' = ui \/ (ui # "connecting" /\ ui' # "connecting")
  PROVE  Asked'
BY DEF Asked, connectServer

\* What the user interface does.
LEMMA UiCalls ==
  ASSUME CallInv, Ui
  PROVE  CallInv'
<1>. USE DEF CallInv
<1>1. ASSUME Connect  PROVE CallInv'
  <2>. DEFINE n == Len(events)
  <2>1. /\ events \in Seq(Requests) /\ connectServer \in Requests
        /\ events' = Append(events, connectServer)
    BY <1>1 DEF CallTypes, Connect, Requests
  <2>2. /\ events' \in Seq(Requests) /\ n \in Nat /\ DOMAIN events = 1..n
        /\ DOMAIN events' = 1..n + 1
        /\ \A i \in DOMAIN events : events'[i] = events[i]
        /\ events'[n + 1] = connectServer
    BY <2>1, EventAppended
  <2>3. Len(events') = n + 1
    BY <2>1, <2>2
  <2>4. \A i \in 1..n : events'[i] # connectServer
    BY <1>1, <2>2 DEF Asked, Connect
  <2>5. \A i \in 1..Len(events') : i \in 1..n \/ i = n + 1
    BY <2>2, <2>3
  <2>6. n + 1 \in 1..Len(events')
    BY <2>2, <2>3
  <2>7. Asked'
    BY <1>1, <2>2, <2>4, <2>5, <2>6 DEF Asked, Connect, connectServer
  <2>8. CallTypes'
    BY <1>1, <2>2, ConnectionAssumption
       DEF Connect, CallTypes, timerVars, writerVars, netVars, Requests, connectServer, Sessions
  <2>. QED  BY <1>1, <2>7, <2>8 DEF Connect, CallTypes, Paired, Ended
<1>2. ASSUME Push  PROVE CallInv'
  <2>1. queue_send' \in Seq(Sessions)
    BY <1>2, SessionsOfCalls DEF Push, CallTypes
  <2>2. CallTypes'
    BY <1>2, <2>1
       DEF Push, CallTypes, uiVars, timerVars, netVars, Requests, connectServer, Sessions
  <2>3. Paired' /\ Ended'
    BY <1>2 DEF Push, Paired, Ended, uiVars, timerVars, recvVars
  <2>4. Asked'
    BY <1>2, AskedFrame DEF Push, uiVars
  <2>. QED  BY <2>2, <2>3, <2>4
<1>3. ASSUME Disconnect  PROVE CallInv'
  <2>1. CallTypes'
    BY <1>3 DEF Disconnect, CallTypes, timerVars, netVars, Requests, connectServer, Sessions
  <2>2. Paired' /\ Ended'
    BY <1>3 DEF Disconnect, Paired, Ended, timerVars, recvVars
  <2>3. Asked'
    BY <1>3, AskedFrame DEF Disconnect
  <2>. QED  BY <2>1, <2>2, <2>3
<1>4. ASSUME ThreadFinished  PROVE CallInv'
  <2>1. CallTypes'
    BY <1>4
       DEF ThreadFinished, CallTypes, writerVars, netVars, Requests, connectServer, Sessions
  <2>2. Paired' /\ Ended'
    BY <1>4 DEF ThreadFinished, Paired, Ended, DropLine
  <2>3. Asked'
    BY <1>4, AskedFrame DEF ThreadFinished
  <2>. QED  BY <2>1, <2>2, <2>3
<1>5. ASSUME Cleared  PROVE CallInv'
  <2>1. CallTypes'
    BY <1>5, EmptySeq
       DEF Cleared, CallTypes, timerVars, netVars, Requests, connectServer, Sessions
  <2>2. Paired'
    BY <1>5 DEF Cleared, CallTypes, Paired
  <2>3. Asked'
    BY <1>5, AskedFrame DEF Cleared
  <2>4. Ended'
    BY <1>5 DEF Cleared, Ended, timerVars, recvVars
  <2>. QED  BY <2>1, <2>2, <2>3, <2>4
<1>6. ASSUME Waited  PROVE CallInv'
  <2>1. CallTypes'
    BY <1>6
       DEF Waited, CallTypes, timerVars, writerVars, netVars, Requests, connectServer, Sessions
  <2>2. Paired' /\ Ended'
    BY <1>6 DEF Waited, Paired, Ended, timerVars, recvVars
  <2>3. Asked'
    BY <1>6, AskedFrame DEF Waited
  <2>. QED  BY <2>1, <2>2, <2>3
<1>. QED  BY <1>1, <1>2, <1>3, <1>4, <1>5, <1>6 DEF Ui

\* What the writer does.
LEMMA WriterCalls ==
  ASSUME CallInv, Writer
  PROVE  CallInv'
<1>. USE DEF CallInv
<1>1. /\ UNCHANGED <<uiVars, thread, sock, netVars, recvVars, isConnected, interval, beats>>
      /\ UNCHANGED <<hb, rc>> \/ (hb' = FALSE /\ rc' = FALSE)
  BY DEF Writer, WriterStarts, WriterChecks, WriterPops, WriterPosts, timerVars
<1>2. Paired' /\ Ended'
  BY <1>1 DEF Paired, Ended, uiVars, recvVars
<1>3. canRun' \in BOOLEAN /\ writer' \in {"off", "start", "check", "pop", "post"}
  BY DEF Writer, WriterStarts, WriterChecks, WriterPops, WriterPosts, CallTypes
<1>4. hand' \in Sessions /\ queue_send' \in Seq(Sessions)
  <2>1. 0 \in Sessions
    BY ConnectionAssumption DEF Sessions
  <2>2. CASE WriterPops
    BY <2>2, HeadTailProperties DEF WriterPops, CallTypes
  <2>3. CASE ~WriterPops
    BY <2>1, <2>3 DEF Writer, WriterStarts, WriterChecks, WriterPosts, CallTypes
  <2>. QED  BY <2>2, <2>3
<1>5. events' \in Seq(Requests) => CallTypes'
  <2>1. /\ ui' = ui /\ attached' = attached /\ session' = session /\ connects' = connects
        /\ UNCHANGED <<thread, sock, isConnected, interval, beats, net, outages>>
        /\ hb' \in BOOLEAN /\ rc' \in BOOLEAN
    BY <1>1 DEF CallTypes, uiVars, netVars
  <2>. QED  BY <1>3, <1>4, <2>1 DEF CallTypes, Requests, connectServer, Sessions
<1>6. CASE WriterPosts
  <2>. DEFINE n == Len(events)
  <2>1. hand \in Requests /\ hand # connectServer /\ events \in Seq(Requests)
    BY ConnectionAssumption DEF CallTypes, Requests, Sessions, connectServer
  <2>2. events' = Append(events, hand)
    BY <1>6 DEF WriterPosts
  <2>3. /\ events' \in Seq(Requests) /\ n \in Nat /\ DOMAIN events = 1..n
        /\ DOMAIN events' = 1..n + 1
        /\ \A i \in DOMAIN events : events'[i] = events[i]
        /\ events'[n + 1] = hand
    BY <2>1, <2>2, EventAppended
  <2>4. Len(events') = n + 1
    BY <2>1, <2>2
  <2>5. /\ \A i \in 1..Len(events') : i \in 1..n \/ i = n + 1
        /\ \A i \in 1..n : i \in 1..Len(events')
    BY <2>3, <2>4
  <2>6. Asked'
    BY <1>1, <2>1, <2>3, <2>5 DEF Asked, uiVars, connectServer
  <2>7. CallTypes'
    BY <1>5, <2>3
  <2>. QED  BY <1>2, <2>6, <2>7
<1>7. CASE ~WriterPosts
  <2>1. events' = events
    BY <1>7 DEF Writer, WriterStarts, WriterChecks, WriterPops
  <2>2. Asked'
    BY <1>1, <2>1, AskedFrame DEF uiVars
  <2>3. CallTypes'
    <3>1. events \in Seq(Requests) /\ Requests' = Requests
      BY DEF CallTypes, Requests, connectServer, Sessions
    <3>. QED  BY <1>5, <2>1, <3>1
  <2>. QED  BY <1>2, <2>2, <2>3
<1>. QED  BY <1>6, <1>7

\* Taking the head of the event queue.
LEMMA RequestTaken ==
  ASSUME CallInv, events # <<>>, events' = Tail(events)
  PROVE  /\ events' \in Seq(Requests)
         /\ Head(events) = connectServer =>
              /\ ui = "connecting"
              /\ ui' = "free" => Asked'
         /\ Head(events) # connectServer /\ ui' = ui => Asked'
<1>1. events \in Seq(Requests)
  BY DEF CallInv, CallTypes
<1>2. /\ events' \in Seq(Requests) /\ Head(events) = events[1] /\ 1 \in 1..Len(events)
      /\ \A i \in 1..Len(events') : i + 1 \in 1..Len(events) /\ events'[i] = events[i + 1]
      /\ \A i \in 1..Len(events) : i # 1 => i - 1 \in 1..Len(events') /\ events'[i - 1] = events[i]
      /\ \A i, j \in 1..Len(events') : i + 1 = j + 1 => i = j
      /\ \A i \in 1..Len(events') : i + 1 # 1
  BY <1>1
<1>3. Asked
  BY DEF CallInv
<1>4. ASSUME events[1] = connectServer, ui' = "free"  PROVE Asked'
  <2>1. \A j \in 1..Len(events) : events[j] = connectServer => j = 1
    BY <1>2, <1>3, <1>4 DEF Asked
  <2>. QED  BY <1>2, <1>4, <2>1 DEF Asked, connectServer
<1>5. ASSUME events[1] # connectServer, ui' = ui  PROVE Asked'
  <2>1. ui' = "connecting" => \E i \in 1..Len(events') : events'[i] = connectServer
    BY <1>2, <1>3, <1>5 DEF Asked
  <2>2. ASSUME NEW i \in 1..Len(events'), events'[i] = connectServer
        PROVE  /\ ui' = "connecting"
               /\ \A j \in 1..Len(events') : events'[j] = connectServer => j = i
    <3>1. i + 1 \in 1..Len(events) /\ events[i + 1] = connectServer
      BY <1>2, <2>2
    <3>2. \A j \in 1..Len(events) : events[j] = connectServer => j = i + 1
      BY <1>3, <3>1 DEF Asked
    <3>. QED  BY <1>2, <1>3, <1>5, <3>1, <3>2 DEF Asked
  <2>. QED  BY <2>1, <2>2 DEF Asked, connectServer
<1>. QED  BY <1>2, <1>3, <1>4, <1>5 DEF Asked

\* What the socket thread does.
LEMMA SockCalls ==
  ASSUME CallInv, SockThread
  PROVE  CallInv'
<1>. USE DEF CallInv
<1>1. thread /\ thread' = thread /\ session' = session /\ connects' = connects
  BY DEF SockThread, ConnectServer, SendData, Heartbeat, HandleReconnect, Receive, SocketError,
         uiVars
<1>2. Ended'
  BY <1>1 DEF Ended
<1>3. 1 \in 1..MaxInterval /\ Backoff \in 1..MaxInterval
  BY ConnectionAssumption DEF CallTypes, Backoff
<1>4. sock' \in {"idle", "up", "dead"}
  BY DEF SockThread, ConnectServer, SendData, Heartbeat, HandleReconnect, Receive, SocketError,
         CallTypes
<1>5. /\ isConnected' \in BOOLEAN /\ hb' \in BOOLEAN /\ rc' \in BOOLEAN
      /\ interval' \in 1..MaxInterval /\ beats' \in 0..2
  <2>. DEFINE Goal == /\ isConnected' \in BOOLEAN /\ hb' \in BOOLEAN /\ rc' \in BOOLEAN
                      /\ interval' \in 1..MaxInterval /\ beats' \in 0..2
  <2>1. /\ isConnected \in BOOLEAN /\ hb \in BOOLEAN /\ rc \in BOOLEAN
        /\ interval \in 1..MaxInterval /\ beats \in 0..2
        /\ TRUE \in BOOLEAN /\ FALSE \in BOOLEAN /\ 0 \in 0..2
    BY DEF CallTypes
  <2>2. ASSUME UNCHANGED timerVars  PROVE Goal
    BY <2>1, <2>2 DEF timerVars
  <2>3. ASSUME Connected  PROVE Goal
    BY <1>3, <2>1, <2>3 DEF Connected
  <2>4. ASSUME ErrorDetect  PROVE Goal
    <3>1. CASE isConnected /\ ~rc
      <4>1. /\ isConnected' = FALSE /\ hb' = FALSE /\ rc' = TRUE
            /\ interval' = 1 /\ beats' = beats
        BY <2>4, <3>1 DEF ErrorDetect
      <4>. QED  BY <1>3, <2>1, <4>1
    <3>2. CASE ~(isConnected /\ ~rc)
      BY <2>2, <2>4, <3>2 DEF ErrorDetect
    <3>. QED  BY <3>1, <3>2
  <2>5. ASSUME HandleAck  PROVE Goal
    <3>1. /\ beats' = 0 /\ interval' = interval
          /\ \/ UNCHANGED <<isConnected, hb, rc>>
             \/ isConnected' = TRUE /\ hb' = TRUE /\ rc' = FALSE
      BY <2>5 DEF HandleAck
    <3>. QED  BY <2>1, <3>1
  <2>6. CASE ConnectServer
    BY <2>3, <2>4, <2>6 DEF ConnectServer
  <2>7. CASE SendData
    BY <2>2, <2>7 DEF SendData
  <2>8. CASE Heartbeat
    <3>1. \/ UNCHANGED timerVars
          \/ isConnected' = FALSE /\ hb' = FALSE /\ rc' = TRUE /\ UNCHANGED <<interval, beats>>
          \/ beats <= 1 /\ beats' = beats + 1 /\ UNCHANGED <<isConnected, hb, rc, interval>>
      BY <2>8 DEF Heartbeat
    <3>2. beats <= 1 => beats + 1 \in 0..2
      BY <2>1
    <3>. QED  BY <2>1, <2>2, <3>1, <3>2
  <2>9. CASE HandleReconnect
    <3>1. \/ UNCHANGED timerVars \/ Connected
          \/ interval' = Backoff /\ UNCHANGED <<isConnected, hb, rc, beats>>
      BY <2>9 DEF HandleReconnect
    <3>. QED  BY <1>3, <2>1, <2>2, <2>3, <3>1
  <2>10. CASE Receive
    BY <2>2, <2>5, <2>10 DEF Receive, HandleOne
  <2>11. CASE SocketError
    BY <2>4, <2>11 DEF SocketError
  <2>. QED  BY <2>6, <2>7, <2>8, <2>9, <2>10, <2>11 DEF SockThread
<1>6. CASE ConnectServer
  <2>1. /\ ui = "connecting" /\ ui' = "free" /\ events' \in Seq(Requests) /\ Asked'
    BY <1>6, RequestTaken DEF ConnectServer
  <2>2. CallTypes'
    BY <1>4, <1>5, <1>6, <2>1
       DEF ConnectServer, CallTypes, netVars, Requests, connectServer, Sessions
  <2>3. Paired'
    BY <1>1, <2>1 DEF Paired
  <2>. QED  BY <1>2, <2>1, <2>2, <2>3
<1>7. CASE SendData
  <2>1. events' \in Seq(Requests) /\ Asked' /\ UNCHANGED uiVars
    BY <1>7, RequestTaken DEF SendData, uiVars
  <2>2. CallTypes'
    BY <1>4, <1>5, <1>7, <2>1
       DEF SendData, CallTypes, uiVars, writerVars, netVars, Requests, connectServer, Sessions
  <2>3. Paired'
    BY <1>1, <2>1 DEF Paired, uiVars
  <2>. QED  BY <1>2, <2>1, <2>2, <2>3
<1>8. CASE Heartbeat \/ HandleReconnect \/ Receive \/ SocketError
  <2>1. UNCHANGED <<uiVars, events, writerVars>>
    BY <1>8 DEF Heartbeat, HandleReconnect, Receive, SocketError
  <2>2. net' \in BOOLEAN /\ outages' \in 0..MaxOutages
    BY <1>8, ConnectionAssumption
       DEF Heartbeat, HandleReconnect, Receive, SocketError, netVars, CallTypes
  <2>3. CallTypes'
    BY <1>1, <1>4, <1>5, <2>1, <2>2
       DEF CallTypes, uiVars, writerVars, Requests, connectServer, Sessions
  <2>4. Paired' /\ Asked'
    BY <1>1, <2>1, AskedFrame DEF Paired, uiVars
  <2>. QED  BY <1>2, <2>3, <2>4
<1>. QED  BY <1>6, <1>7, <1>8 DEF SockThread

\* What the network does.
LEMMA NetworkCalls ==
  ASSUME CallInv, NetDown \/ NetUp \/ ServerSends \/ UNCHANGED vars
  PROVE  CallInv'
<1>. USE DEF CallInv
<1>1. /\ UNCHANGED <<uiVars, thread, events, timerVars, writerVars>>
      /\ sock' = sock \/ (sock = "up" /\ sock' = "dead")
      /\ sock = "up" \/ line' = line
      /\ net' \in BOOLEAN /\ outages' \in 0..MaxOutages
  <2>1. net \in BOOLEAN /\ outages \in 0..MaxOutages
    BY DEF CallTypes
  <2>2. CASE NetDown
    <3>1. outages + 1 \in 0..MaxOutages
      BY <2>1, <2>2, ConnectionAssumption DEF NetDown
    <3>. QED  BY <2>2, <3>1 DEF NetDown, recvVars
  <2>3. CASE NetUp
    BY <2>1, <2>3 DEF NetUp, recvVars
  <2>4. CASE ServerSends
    BY <2>1, <2>4 DEF ServerSends, netVars
  <2>5. CASE UNCHANGED vars
    BY <2>1, <2>5 DEF vars, recvVars, netVars
  <2>. QED  BY <2>2, <2>3, <2>4, <2>5
<1>2. CallTypes'
  BY <1>1 DEF CallTypes, uiVars, timerVars, writerVars, Requests, connectServer, Sessions
<1>3. Paired' /\ Asked'
  BY <1>1, AskedFrame DEF Paired, uiVars
<1>4. Ended'
  BY <1>1 DEF Ended, timerVars
<1>. QED  BY <1>2, <1>3, <1>4

\* Every variable keeps to its type; the user interface waits in connectToServer
\* only while its request is queued, a disconnectFromHost always finds a call of
\* connectToServer to undo, and a socket thread that has ended leaves neither a
\* timer nor a socket (closeSocket), for any bounds and whether or not the window
\* waits for the writer.
THEOREM ConnectionTypeCorrect == Spec => []TypeOK
<1>1. Init => CallInv
  <2>. SUFFICES ASSUME Init  PROVE CallInv
    OBVIOUS
  <2>1. Len(events) = 0 /\ events \in Seq(Requests) /\ queue_send \in Seq(Sessions)
    BY EmptySeq DEF Init
  <2>2. CallTypes
    <3>1. 1 \in 1..MaxInterval /\ 0 \in 0..MaxOutages /\ 0 \in 0..MaxConnects /\ 0 \in Sessions
      BY ConnectionAssumption DEF Sessions
    <3>2. TRUE \in BOOLEAN /\ FALSE \in BOOLEAN /\ 0 \in 0..2 /\ 0 \in Nat
      OBVIOUS
    <3>. QED  BY <2>1, <3>1, <3>2, Zenon DEF Init, CallTypes
  <2>3. Paired /\ Ended
    BY ConnectionAssumption DEF Init, Paired, Ended
  <2>4. Asked
    BY <2>1 DEF Init, Asked
  <2>. QED  BY <2>2, <2>3, <2>4 DEF CallInv
<1>2. CallInv /\ [Next]_vars => CallInv'
  BY UiCalls, WriterCalls, SockCalls, NetworkCalls DEF Next
<1>3. CallInv /\ PacketInv => TypeOK
  <2>. SUFFICES ASSUME CallInv, PacketInv  PROVE TypeOK
    OBVIOUS
  <2>1. ui = "connecting" <=> Contains(events, connectServer)
    BY DEF CallInv, Asked, Contains
  <2>2. session \in Sessions
    BY SessionsOfCalls
  <2>. QED  BY <2>1, <2>2 DEF TypeOK, CallInv, CallTypes, Ended, PacketInv, Requests
<1>4. Spec => []PacketInv
  BY PacketInit, PacketStep, PTL DEF Spec
<1>. QED  BY <1>1, <1>2, <1>3, <1>4, PTL DEF Spec

=============================================================================
