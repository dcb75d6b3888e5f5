--------------------------- MODULE ClientMeeting ---------------------------
(***************************************************************************)
(* The client's meeting window: client/widget.cpp with the threads it      *)
(* starts, SendText (client/sendtext.cpp) and RecvSolve                    *)
(* (client/recvsolve.cpp), between a user and the server.                  *)
(*                                                                         *)
(* A slot of the window that shows a QMessageBox stops there, and the      *)
(* event loop of the box runs other slots before it goes on: boxes holds   *)
(* the slots that have been stopped, the last one on top.  The user can    *)
(* click only when there is none.  What the connection reports goes        *)
(* through queue_recv, RecvSolve and the window's event queue (posted);    *)
(* what the user asks for through SendText's queue, queue_send and the     *)
(* connection.  disconnectFromHost clears queue_send and queue_recv, but   *)
(* neither posted nor SendText's queue.                                    *)
(*                                                                         *)
(* The connection itself is ClientConnection, here only "off", "up", or    *)
(* "lost" (down, and the reconnect timer runs); the server's answers are   *)
(* those of userdeal.cpp and room.cpp as one client sees them.  Left out:  *)
(* images, sound and camera, and KICK_OUT, whose answers recvFromSocket    *)
(* does not pass on.                                                       *)
(***************************************************************************)
EXTENDS Integers, Sequences, FiniteSets

CONSTANTS
    Peers,        \* addresses of other members
    Me,           \* the client's own address
    Meetings,     \* room numbers
    Roles,        \* roles of the user: "factory" or "expert"
    MaxSessions,  \* bound: connections
    MaxClicks,    \* bound: requests to create or join, and texts
    MaxTroubles,  \* bound: connections refused or lost
    MaxComings    \* bound: peers that enter or leave

ASSUME MeetingAssumption ==
    /\ Me \notin Peers
    /\ Meetings \subseteq Nat \ {0}
    /\ Roles \subseteq {"factory", "expert"}
    /\ MaxSessions \in Nat /\ MaxClicks \in Nat /\ MaxTroubles \in Nat /\ MaxComings \in Nat

VARIABLES
    role,         \* m_userRole
    enabled,      \* the buttons that are not disabled
    boxes,        \* the slots stopped in a box, the last one on top
    createmeet, joinmeet,  \* _createmeet, _joinmeet
    partners,     \* the addresses on the screen
    meetno,       \* the room number in the text field, 0 for none
    conn,         \* the connection: "off", "up" or "lost"
    roomNo,       \* _roomNo, the room to be entered again after a reconnection
    session,      \* connections given up or built anew so far
    textqueue,    \* SendText's queue
    out,          \* queue_send and what follows, up to the server
    inq,          \* what the server has sent, up to queue_recv
    posted,       \* events for the window
    srv,          \* the server's side: 0 not in a meeting, or the room;
                  \* -1 when the connection is no longer served
    members,      \* the other members of that room
    tangled,      \* history: an answer or an error met an open box or a later connection
    erred,        \* history: an error other than RemoteHostClosed was shown
    clicks, troubles, comings

uiVars    == <<role, enabled, boxes, createmeet, joinmeet, partners, meetno>>
connVars  == <<conn, roomNo, session>>
queueVars == <<textqueue, out, inq, posted>>
srvVars   == <<srv, members>>
history   == <<tangled, erred, clicks, troubles, comings>>
vars      == <<uiVars, connVars, queueVars, srvVars, history>>

Buttons == {"connect", "create", "join", "exit", "send"}

\* What the window is told: kind, argument, and the connection it belongs to.
NoteOf(s, k, a) == [kind |-> k, arg |-> a, session |-> s]
Note(k, a)      == NoteOf(session, k, a)

\* The window as the dialog leaves it (setUserRole): nothing is connected yet.
Init ==
    /\ role \in Roles
    /\ enabled = {"connect", "join"} \cup (IF role = "factory" THEN {"create"} ELSE {})
    /\ boxes = <<>> /\ createmeet = FALSE /\ joinmeet = FALSE /\ partners = {} /\ meetno = 0
    /\ conn = "off" /\ roomNo = 0 /\ session = 0
    /\ textqueue = <<>> /\ out = <<>> /\ inq = <<>> /\ posted = <<>>
    /\ srv = 0 /\ members = {}
    /\ tangled = FALSE /\ erred = FALSE /\ clicks = 0 /\ troubles = 0 /\ comings = 0

-----------------------------------------------------------------------------
(* The user's clicks *)

Push(box) == boxes' = Append(boxes, box)

CanClick(button) == button \in enabled /\ boxes = <<>>

\* on_connServer_clicked: the rest of the slot is in CloseBox.
ClickConnect ==
    /\ CanClick("connect")
    /\ session < MaxSessions
    /\ \/ /\ conn' = "up"
          /\ IF role = "factory"
             THEN enabled' = (enabled \cup {"create", "join"}) \ {"exit"} /\ Push("connected")
             ELSE enabled' = enabled \ {"create"} /\ Push("no create")
          /\ UNCHANGED <<inq, troubles>>
       \/ /\ troubles < MaxTroubles
          /\ troubles' = troubles + 1
          /\ inq' = Append(inq, Note("error", 0))
          /\ Push("refused")
          /\ UNCHANGED <<conn, enabled>>
    /\ UNCHANGED <<role, createmeet, joinmeet, partners, meetno, roomNo, session, textqueue,
                   out, posted, srvVars, tangled, erred, clicks, comings>>

\* The user types a room number.
EditMeetno ==
    /\ boxes = <<>>
    /\ \E r \in Meetings : meetno # r /\ meetno' = r
    /\ UNCHANGED <<role, enabled, boxes, createmeet, joinmeet, partners, connVars, queueVars,
                   srvVars, history>>

\* PushText: the message goes to SendText.
PushText(type, a) ==
    /\ clicks < MaxClicks
    /\ clicks' = clicks + 1
    /\ textqueue' = Append(textqueue, <<type, a>>)

\* The request for a meeting.
AskForMeeting ==
    /\ PushText("CREATE_MEETING", 0)
    /\ enabled' = enabled \ {"create", "exit"}

\* on_createmeetBtn_clicked: an expert is told that there is nothing to create; the
\* slot goes on after the box.
ClickCreate ==
    /\ CanClick("create")
    /\ ~createmeet
    /\ IF role = "expert"
       THEN clicks < MaxClicks /\ Push("no right") /\ UNCHANGED <<enabled, textqueue, clicks>>
       ELSE AskForMeeting /\ boxes' = boxes
    /\ UNCHANGED <<role, createmeet, joinmeet, partners, meetno, connVars, out, inq,
                   posted, srvVars, tangled, erred, troubles, comings>>

\* on_joinmeetBtn_clicked with a valid number.
ClickJoin ==
    /\ CanClick("join")
    /\ meetno # 0
    /\ PushText("JOIN_MEETING", meetno)
    /\ UNCHANGED <<uiVars, connVars, out, inq, posted, srvVars, tangled, erred, troubles, comings>>

\* on_sendmsg_clicked.
ClickSend ==
    /\ CanClick("send")
    /\ PushText("TEXT_SEND", 0)
    /\ enabled' = enabled \ {"send"}
    /\ UNCHANGED <<role, boxes, createmeet, joinmeet, partners, meetno, connVars, out, inq,
                   posted, srvVars, tangled, erred, troubles, comings>>

\* MyTcpSocket::disconnectFromHost: the queues it clears are gone, and so is what
\* was between them and the server.
DisconnectFromHost ==
    /\ conn' = "off"
    /\ session' = session + 1
    /\ out' = <<>>
    /\ inq' = <<>>
    /\ srv' = 0
    /\ members' = {}

\* on_exitmeetBtn_clicked.  SendText drops EXIT_MEETING: the server learns of the
\* exit from the connection.
ClickExit ==
    /\ CanClick("exit")
    /\ enabled' = (enabled \ {"create", "exit"}) \cup {"connect"}
    /\ createmeet' = FALSE
    /\ joinmeet' = FALSE
    /\ partners' = {}
    /\ roomNo' = 0
    /\ DisconnectFromHost
    /\ Push("left")
    /\ UNCHANGED <<role, meetno, textqueue, posted, history>>

-----------------------------------------------------------------------------
(* The threads *)

\* SendText::run: one message to queue_send.
SendTextRun ==
    /\ textqueue # <<>>
    /\ textqueue' = Tail(textqueue)
    /\ out' = Append(out, Head(textqueue))
    /\ UNCHANGED <<uiVars, connVars, inq, posted, srvVars, history>>

\* RecvSolve::run: datarecv is posted to the window.
RecvSolveRun ==
    /\ inq # <<>>
    /\ inq' = Tail(inq)
    /\ posted' = Append(posted, Head(inq))
    /\ UNCHANGED <<uiVars, connVars, textqueue, out, srvVars, history>>

\* The server's answer to a request: userdeal for a client without a meeting, and
\* the room process, which ignores a request to create or join, for a member.  A
\* text from a client without a meeting ends the service of the connection.
Answer(s, type, r) ==
    \/ /\ srv = 0 /\ type = "CREATE_MEETING"
       /\ \/ srv' = 0 /\ members' = members /\ inq' = Append(inq, NoteOf(s, "created", 0))
          \/ \E n \in Meetings :
                srv' = n /\ members' = {} /\ inq' = Append(inq, NoteOf(s, "created", n))
    \/ /\ srv = 0 /\ type = "JOIN_MEETING"
       /\ \/ \E c \in {0, -1} :
                srv' = 0 /\ members' = members /\ inq' = Append(inq, NoteOf(s, "joined", c))
          \/ \E S \in SUBSET Peers :
                /\ srv' = r /\ members' = S
                /\ \/ inq' = inq \o <<NoteOf(s, "joined", r), NoteOf(s, "members", S)>>
                   \/ inq' = inq \o <<NoteOf(s, "members", S), NoteOf(s, "joined", r)>>
    \/ /\ srv = 0 /\ type = "TEXT_SEND"
       /\ srv' = -1 /\ members' = {} /\ inq' = inq
    \/ /\ srv # 0 /\ UNCHANGED <<srv, members, inq>>

\* Faulty variant: a text is not confirmed.
SendDataSilent ==
    /\ conn = "up"
    /\ out # <<>>
    /\ out' = Tail(out)
    /\ Answer(session, Head(out)[1], Head(out)[2])
    /\ UNCHANGED <<uiVars, connVars, textqueue, posted, history>>

\* sendData for the next message, over a connection that is up; sendTextOver is
\* emitted for a text.
SendData ==
    /\ conn = "up"
    /\ out # <<>>
    /\ out' = Tail(out)
    /\ Answer(session, Head(out)[1], Head(out)[2])
    /\ posted' = IF Head(out)[1] = "TEXT_SEND" THEN Append(posted, Note("text sent", 0)) ELSE posted
    /\ UNCHANGED <<uiVars, connVars, textqueue, history>>

\* sendData without a connection: the message is lost, and sendTextOver is emitted
\* for a text, or for every message when the socket knows that it is closed.
DropData ==
    /\ conn = "lost"
    /\ out # <<>>
    /\ out' = Tail(out)
    /\ \/ posted' = Append(posted, Note("text sent", 0))
       \/ Head(out)[1] # "TEXT_SEND" /\ posted' = posted
    /\ UNCHANGED <<uiVars, connVars, textqueue, inq, srvVars, history>>

\* handleReconnect: reconnected is emitted, and the room is entered again.
Reconnect ==
    /\ conn = "lost"
    /\ conn' = "up"
    /\ session' = session + 1
    /\ posted' = Append(posted, NoteOf(session', "reconnected", 0))
    /\ IF roomNo > 0
       THEN Answer(session', "JOIN_MEETING", roomNo)
       ELSE UNCHANGED <<srvVars, inq>>
    /\ UNCHANGED <<uiVars, roomNo, textqueue, out, history>>

-----------------------------------------------------------------------------
(* The network and the server *)

\* The connection is lost: errorDetect tells the window, unless it was only the
\* heartbeat that was not answered.
Lose ==
    /\ conn = "up"
    /\ troubles < MaxTroubles
    /\ troubles' = troubles + 1
    /\ conn' = "lost"
    /\ srv' = 0
    /\ members' = {}
    /\ \E k \in {"closed", "error", "silent"} :
           inq' = IF k = "silent" THEN inq ELSE Append(inq, Note(k, 0))
    /\ UNCHANGED <<uiVars, roomNo, session, textqueue, out, posted, tangled, erred,
                   clicks, comings>>

\* A peer enters the room or leaves it: PARTNER_JOIN, PARTNER_EXIT.
PeerComes ==
    /\ conn = "up" /\ srv > 0
    /\ comings < MaxComings
    /\ comings' = comings + 1
    /\ \E p \in Peers :
           /\ members' = IF p \in members THEN members \ {p} ELSE members \cup {p}
           /\ inq' = Append(inq, Note(IF p \in members THEN "leaves" ELSE "enters", p))
    /\ UNCHANGED <<uiVars, connVars, textqueue, out, posted, srv, tangled, erred, clicks, troubles>>

-----------------------------------------------------------------------------
(* The window's slots *)

\* addPartner enables the send button when somebody new is on the screen and not
\* alone there.
SendFor(S) ==
    IF S \ partners # {} /\ Cardinality(partners \cup S) > 1 THEN {"send"} ELSE {}

AddPartners(S) ==
    /\ partners' = partners \cup S
    /\ enabled' = enabled \cup SendFor(S)

\* CREATE_MEETING_RESPONSE, up to its box.
Created(r) ==
    /\ roomNo' = IF r # 0 THEN r ELSE roomNo
    /\ createmeet' = (r # 0 /\ createmeet)
    /\ Push(IF r # 0 THEN "created" ELSE "not created")
    /\ UNCHANGED <<enabled, joinmeet, partners, conn, session, out, inq, srvVars>>

\* JOIN_MEETING_RESPONSE, up to its box: the room to be entered again is the one
\* in the text field.
Joined(c) ==
    /\ roomNo' = IF c > 0 THEN meetno ELSE roomNo
    /\ Push(IF c > 0 THEN "joined" ELSE IF c = 0 THEN "no meeting" ELSE "full")
    /\ UNCHANGED <<enabled, createmeet, joinmeet, partners, conn, session, out, inq, srvVars>>

\* RemoteHostClosedError.
Closed ==
    /\ partners' = {}
    /\ DisconnectFromHost
    /\ enabled' = (enabled \ {"create", "exit", "join"}) \cup {"connect"}
    /\ IF createmeet \/ joinmeet THEN Push("ended") ELSE boxes' = boxes
    /\ UNCHANGED <<createmeet, joinmeet, roomNo>>

\* A slot that changes nothing but the buttons and the screen.
OnlyScreen == UNCHANGED <<boxes, createmeet, joinmeet, connVars, out, inq, srvVars>>

\* Faulty variant: the list of members replaces what is on the screen.
MembersListedAnew(S) ==
    /\ partners' = S
    /\ enabled' = enabled
    /\ OnlyScreen

\* PARTNER_JOIN2.
MembersListed(S) == AddPartners(S) /\ OnlyScreen

\* onReconnected.
Reconnected ==
    /\ enabled' = (enabled \cup {"create", "join", "send"}) \ {"connect"}
    /\ partners' = partners
    /\ OnlyScreen

\* The next event of the window: datasolve for what came through queue_recv,
\* onReconnected, textSend.
Handle ==
    /\ posted # <<>>
    /\ posted' = Tail(posted)
    /\ LET n == Head(posted) IN
       /\ \/ n.kind = "created" /\ Created(n.arg)
          \/ n.kind = "joined" /\ Joined(n.arg)
          \/ n.kind = "members" /\ MembersListed(n.arg)
          \/ n.kind = "enters" /\ AddPartners({n.arg}) /\ OnlyScreen
          \/ /\ n.kind = "leaves"
             /\ partners' = partners \ {n.arg} /\ enabled' = enabled /\ OnlyScreen
          \/ n.kind = "closed" /\ Closed
          \/ /\ n.kind = "error"
             /\ Push("error")
             /\ UNCHANGED <<enabled, createmeet, joinmeet, partners, connVars, out, inq, srvVars>>
          \/ n.kind = "reconnected" /\ Reconnected
          \/ /\ n.kind = "text sent"
             /\ enabled' = enabled \cup {"send"} /\ partners' = partners /\ OnlyScreen
       /\ tangled' = (\/ tangled
                      \/ /\ n.kind \in {"created", "joined", "closed", "error", "reconnected"}
                         /\ boxes # <<>> \/ n.session # session)
       /\ erred' = (erred \/ n.kind = "error")
    /\ UNCHANGED <<role, meetno, textqueue, clicks, troubles, comings>>

-----------------------------------------------------------------------------
(* What the slots do after their boxes *)

Pop == boxes' = SubSeq(boxes, 1, Len(boxes) - 1)

\* Faulty variant: a created meeting cannot be left.
AfterCreatedStuck ==
    /\ Pop
    /\ createmeet' = TRUE
    /\ partners' = partners \cup {Me}
    /\ enabled' = enabled \ {"join"}
    /\ UNCHANGED <<joinmeet, connVars, textqueue, out, inq,
                   srvVars, clicks>>

AfterCreated ==
    /\ Pop
    /\ createmeet' = TRUE
    /\ partners' = partners \cup {Me}
    /\ enabled' = (enabled \cup {"exit"} \cup SendFor({Me})) \ {"join"}
    /\ UNCHANGED <<joinmeet, connVars, textqueue, out, inq,
                   srvVars, clicks>>

AfterJoined ==
    /\ Pop
    /\ joinmeet' = TRUE
    /\ partners' = partners \cup {Me}
    /\ enabled' = (enabled \cup {"exit"} \cup SendFor({Me})) \ {"join", "create"}
    /\ UNCHANGED <<createmeet, connVars, textqueue, out, inq,
                   srvVars, clicks>>

AfterNotCreated ==
    /\ Pop
    /\ enabled' = enabled \cup {"create"}
    /\ UNCHANGED <<createmeet, joinmeet, partners, connVars, textqueue, out, inq,
                   srvVars, clicks>>

AfterNoMeeting ==
    /\ Pop
    /\ enabled' = (enabled \cup {"join"}) \ {"exit", "connect"}
    /\ joinmeet' = FALSE
    /\ UNCHANGED <<createmeet, partners, connVars, textqueue, out, inq,
                   srvVars, clicks>>

\* on_connServer_clicked goes on: an expert is first told that there is nothing to
\* create.
AfterNoCreate ==
    /\ boxes' = [boxes EXCEPT ![Len(boxes)] = "connected"]
    /\ enabled' = (enabled \cup {"join"}) \ {"exit"}
    /\ UNCHANGED <<createmeet, joinmeet, partners, connVars, textqueue, out, inq,
                   srvVars, clicks>>

\* Faulty variant: the button for connecting stays enabled.
AfterConnectedAgain ==
    /\ Pop
    /\ enabled' = enabled \cup {"send"}
    /\ UNCHANGED <<createmeet, joinmeet, partners, connVars, textqueue, out, inq,
                   srvVars, clicks>>

AfterConnected ==
    /\ Pop
    /\ enabled' = (enabled \cup {"send"}) \ {"connect"}
    /\ UNCHANGED <<createmeet, joinmeet, partners, connVars, textqueue, out, inq,
                   srvVars, clicks>>

AfterError ==
    /\ Pop
    /\ partners' = {}
    /\ DisconnectFromHost
    /\ UNCHANGED <<enabled, createmeet, joinmeet, roomNo, textqueue, clicks>>

\* on_createmeetBtn_clicked goes on: there is no return after the expert's box.
AfterNoRight ==
    /\ Pop
    /\ IF createmeet THEN UNCHANGED <<enabled, textqueue, clicks>> ELSE AskForMeeting
    /\ UNCHANGED <<createmeet, joinmeet, partners, connVars, out, inq, srvVars>>

\* Nothing is left to do after the other boxes.
AfterOther ==
    /\ Pop
    /\ UNCHANGED <<enabled, createmeet, joinmeet, partners, connVars, textqueue, out, inq,
                   srvVars, clicks>>

\* The user closes the box on top.
CloseBox ==
    /\ boxes # <<>>
    /\ LET b == boxes[Len(boxes)] IN
       \/ b = "created" /\ AfterCreated
       \/ b = "joined" /\ AfterJoined
       \/ b = "not created" /\ AfterNotCreated
       \/ b = "no meeting" /\ AfterNoMeeting
       \/ b = "no create" /\ AfterNoCreate
       \/ b = "connected" /\ AfterConnected
       \/ b = "no right" /\ AfterNoRight
       \/ b = "error" /\ AfterError
       \/ b \in {"full", "refused", "left", "ended"} /\ AfterOther
    /\ UNCHANGED <<role, meetno, posted, tangled, erred, troubles, comings>>

-----------------------------------------------------------------------------
User    == ClickConnect \/ EditMeetno \/ ClickCreate \/ ClickJoin \/ ClickSend \/ ClickExit
Threads == SendTextRun \/ RecvSolveRun \/ SendData \/ DropData \/ Reconnect

Next == User \/ Threads \/ Lose \/ PeerComes \/ Handle \/ CloseBox

Spec == Init /\ [][Next]_vars

-----------------------------------------------------------------------------
(* Properties *)

Kinds == {"created", "joined", "members", "enters", "leaves", "closed", "error",
          "reconnected", "text sent"}
Boxes == {"created", "not created", "joined", "no meeting", "full", "no create", "no right",
          "connected", "refused", "left", "ended", "error"}

IsNote(n) == n.kind \in Kinds /\ n.session \in 0..session

IsRequest(m) ==
    /\ m[1] \in {"CREATE_MEETING", "JOIN_MEETING", "TEXT_SEND"}
    /\ m[2] \in Meetings \cup {0}

\* Every variable keeps to its type; without a connection nothing is on its way
\* from the server but the news of its loss, and a user who can connect is not connected.
TypeOK ==
    /\ role \in Roles /\ enabled \subseteq Buttons
    /\ \A i \in DOMAIN boxes : boxes[i] \in Boxes
    /\ createmeet \in BOOLEAN /\ joinmeet \in BOOLEAN
    /\ partners \subseteq Peers \cup {Me} /\ members \subseteq Peers
    /\ meetno \in Meetings \cup {0} /\ roomNo \in Meetings \cup {0}
    /\ conn \in {"off", "up", "lost"} /\ session \in Nat
    /\ srv \in Meetings \cup {0, -1}
    /\ \A i \in DOMAIN textqueue : IsRequest(textqueue[i])
    /\ \A i \in DOMAIN out : IsRequest(out[i])
    /\ \A i \in DOMAIN inq : IsNote(inq[i])
    /\ \A i \in DOMAIN posted : IsNote(posted[i])
    /\ conn = "off" => \A i \in DOMAIN inq : inq[i].kind = "error"
    /\ "connect" \in enabled /\ boxes = <<>> => conn = "off"
    /\ tangled \in BOOLEAN /\ erred \in BOOLEAN

\* All that was asked has been sent, all that was answered has been shown.
Settled == boxes = <<>> /\ posted = <<>> /\ inq = <<>> /\ textqueue = <<>> /\ out = <<>>

\* The screen shows everybody in the meeting, the user included, whatever boxes were
\* open while they came and through reconnections; there may be others, who have
\* left unnoticed.
NobodyMissing ==
    Settled /\ conn = "up" /\ srv > 0 => members \cup {Me} \subseteq partners

\* The buttons fit where the user is, however requests, answers, losses and
\* reconnections overlapped: who is in a meeting can leave it, and the window knows
\* that there is one; who is connected and in no meeting can ask for one, after
\* refusals and reconnections as well; who is not connected can connect.  It need
\* not be so when an answer or an error met an open box or came from a connection
\* that is no longer there, nor after an error other than RemoteHostClosed, whose
\* slot leaves the button for connecting as it is.
ButtonsFit ==
    Settled /\ ~tangled =>
        /\ conn = "up" /\ srv > 0 => "exit" \in enabled /\ (createmeet \/ joinmeet)
        /\ conn = "up" /\ srv = 0 =>
             "join" \in enabled /\ (role = "factory" => "create" \in enabled)
        /\ conn = "off" /\ ~erred => "connect" \in enabled

\* The send button, which a text disables until sendTextOver, is back once there is
\* a connection and nothing more to come, wherever the text has been dropped.
SendComesBack ==
    Settled /\ conn = "up" => "send" \in enabled

\* The role of an expert: to join meetings, not to create them.  The code does not
\* keep to it: onReconnected enables the button for everybody (widget.cpp:699), and
\* on_createmeetBtn_clicked asks all the same after its box (widget.cpp:269-281).
ExpertsOnlyJoin == role = "expert" => ~createmeet

=============================================================================
